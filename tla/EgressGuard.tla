------------------------------ MODULE EgressGuard ------------------------------
(***************************************************************************)
(* The guard every public file passes on its way to the site                *)
(* (.github/scripts/check_aggregate.py).                                   *)
(*                                                                         *)
(* A file is what the guard and the board see of it: whether its text holds *)
(* a forbidden word, what it parses to, and its entries in order.  An entry *)
(* may be no object, have no model (NoModel) or have keys that are not      *)
(* allowed.  Models are numbered in the order of their names.              *)
(***************************************************************************)
EXTENDS Integers, Sequences

NoModel == 0

Shapes == {"missing", "invalid", "object", "list", "other"}
Entry == [object : BOOLEAN, extra : BOOLEAN, model : Nat, bugs : Nat]
PublicFile ==
  {f \in [forbidden : BOOLEAN, shape : Shapes, entries : Seq(Entry)] :
     f.shape = "object" => Len(f.entries) = 1 /\ f.entries[1].object}

Missing == [forbidden |-> FALSE, shape |-> "missing", entries |-> <<>>]
Torn == [forbidden |-> FALSE, shape |-> "invalid", entries |-> <<>>]

(* check: what cannot be parsed, or is neither an object nor a list, is
   reported as that alone; otherwise every offence counts. *)
Problems(file) ==
  LET entries == {file.entries[i] : i \in DOMAIN file.entries}
  IN CASE file.shape = "invalid" -> {"invalid JSON"}
       [] file.shape = "other" -> {"not an entry or a list"}
       [] OTHER ->
            {p \in {"forbidden token", "not an object", "disallowed keys"} :
               \/ p = "forbidden token" /\ file.forbidden
               \/ p = "not an object" /\ \E e \in entries : ~e.object
               \/ p = "disallowed keys" /\ \E e \in entries : e.object /\ e.extra}

(* main: the exit status the workflows act on. *)
Passes(file) == file.shape # "missing" /\ Problems(file) = {}

=============================================================================
