--------------------------- MODULE MCProcessControl ---------------------------
(* Processes for the run of ProcessControl. *)
EXTENDS ProcessControl, TLC

CONSTANTS k1, k2

MCChild == {k1, k2}

=============================================================================
