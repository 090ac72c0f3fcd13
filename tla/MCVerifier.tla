------------------------------ MODULE MCVerifier ------------------------------
(* Bounds for the run of Verifier. *)
EXTENDS Verifier

MCValue == {0, 1}

=============================================================================
