---------------------------- MODULE MCTop50Runner ----------------------------
(* An instance of Top50Runner: three rules of which two are selected, and the
   files an agent may commit. *)
EXTENDS Top50Runner

CONSTANTS r1, r2, r3

MCInventory == {r1, r2, r3}
MCCandidates == {<<r1, r2>>, <<r3, r1>>, <<r2, r2>>, <<r1, Foreign>>, <<r1>>}

=============================================================================
