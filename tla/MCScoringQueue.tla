---------------------------- MODULE MCScoringQueue ----------------------------
(* Bounds for the run of ScoringQueue. *)
EXTENDS ScoringQueue

CONSTANT Count   \* how many submissions are uploaded

MCSubmission == 1..Count

=============================================================================
