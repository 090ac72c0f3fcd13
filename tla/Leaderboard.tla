------------------------------ MODULE Leaderboard ------------------------------
(***************************************************************************)
(* How the board is built of the entry files (build_board and _dedup_best   *)
(* of benchmark/backend_score.py).                                         *)
(***************************************************************************)
EXTENDS EgressGuard, SequencesExt

(* sorted, of things no two of which are equal in the order *)
Sorted(S, before(_, _)) == CHOOSE s \in SetToSeqs(S) : IsSorted(s, before)

InOrder(numbers) == Sorted(numbers, <)

(* build_board: of the files in the order of their names, the entries that
   are an object with a model.  What cannot be read is passed over. *)
Readable(files) ==
  LET usable == InOrder({i \in DOMAIN files :
                           /\ files[i].shape = "object"
                           /\ Head(files[i].entries).model # NoModel})
  IN [i \in DOMAIN usable |-> Head(files[usable[i]].entries)]

(* Mutant of KeepBetter: the last entry of a model wins. *)
KeepLast(best, entry) ==
  [m \in DOMAIN best \cup {entry.model} |-> IF m = entry.model THEN entry ELSE best[m]]

(* An entry replaces the one of its model when it has more bugs. *)
KeepBetter(best, entry) ==
  IF entry.model \in DOMAIN best /\ entry.bugs <= best[entry.model].bugs THEN best
  ELSE [m \in DOMAIN best \cup {entry.model} |-> IF m = entry.model THEN entry ELSE best[m]]

Above(a, b) == a.bugs > b.bugs \/ (a.bugs = b.bugs /\ a.model < b.model)

(* _dedup_best *)
DedupBest(entries) ==
  LET best == FoldLeft(KeepBetter, <<>>, entries)
  IN Sorted({best[m] : m \in DOMAIN best}, Above)

Board(files) == DedupBest(Readable(files))

(* What a board promises of the entries it was built of: one row for each
   model, the best of its entries, the rows in order. *)
IsBoardOf(board, entries) ==
  /\ ToSet(board) \subseteq ToSet(entries)
  /\ \A e \in ToSet(entries) : \E r \in ToSet(board) : r.model = e.model /\ r.bugs >= e.bugs
  /\ \A i, j \in DOMAIN board : i < j => Above(board[i], board[j]) /\ board[i].model # board[j].model

=============================================================================
