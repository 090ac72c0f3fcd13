---------------------------- MODULE MCPublicSite ----------------------------
(* Bounds for the run of PublicSite. *)
EXTENDS PublicSite

CONSTANT Count   \* how many names there are

MCName == 1..Count

Run1(model, bugs) ==
  [forbidden |-> FALSE, shape |-> "object",
   entries |-> << [object |-> TRUE, extra |-> FALSE, model |-> model, bugs |-> bugs] >>]

(* Two runs of one model, one of another with the same score as the better,
   an entry without a model, a list, and an entry with a forbidden word. *)
MCFiles ==
  {Run1(1, 1), Run1(1, 2), Run1(2, 2), Run1(NoModel, 2),
   [Run1(1, 2) EXCEPT !.shape = "list"], [Run1(2, 1) EXCEPT !.forbidden = TRUE]}

=============================================================================
