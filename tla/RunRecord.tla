------------------------------- MODULE RunRecord -------------------------------
(***************************************************************************)
(* What the output file of the Top50 runner promises, without its process,  *)
(* its crashes and its temporary files: the file always holds one whole     *)
(* record of one run; a run's records extend each other by at most one      *)
(* episode; and the last word on a run is never taken back.                 *)
(***************************************************************************)
EXTENDS Naturals, Sequences

CONSTANT Size        \* episodes of a complete run

VARIABLE published   \* [run, episodes, outcome]

Nothing == [run |-> 0, episodes |-> <<>>, outcome |-> "none"]

Init == published = Nothing

(* At most one more episode at the end of those published before. *)
Extends(new, old) ==
  \/ new = old
  \/ Len(new) = Len(old) + 1 /\ SubSeq(new, 1, Len(old)) = old

(* The published record was old; now it is a record of the given run. *)
Publish(run, old) ==
  /\ published'.run = run
  /\ published'.outcome \in {"incomplete", "failed", "completed"}
  /\ Extends(published'.episodes, old)
  /\ published'.outcome = "completed" => Len(published'.episodes) = Size

Continue == published.outcome = "incomplete" /\ Publish(published.run, published.episodes)

(* A later run replaces the file with its own first record. *)
Replace == published'.run > published.run /\ Publish(published'.run, <<>>)

Next == Continue \/ Replace

Spec == Init /\ [][Next]_published

=============================================================================
