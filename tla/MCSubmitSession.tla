--------------------------- MODULE MCSubmitSession ---------------------------
(* Model values and symmetry for the runs of SubmitSession. *)
EXTENDS SubmitSession, TLC

CONSTANTS c1, c2, i1, i2, i3

MCClient == {c1, c2}
MCId == {i1, i2, i3}
MCTwoIds == {i1, i2}

(* Clients and ids are interchangeable; used where only safety is checked. *)
ClientIdSymmetry == Permutations(MCClient) \cup Permutations(MCId)

=============================================================================
