------------------------------ MODULE CallMeter ------------------------------
(***************************************************************************)
(* What the pred gateway promises about the calls of one rule episode,      *)
(* whatever spool, threads, retries and failures lie underneath:           *)
(*   - nothing is charged that the allowance of a counter has no room for;  *)
(*   - a call ends once, and its record never changes after that;           *)
(*   - only a call the infrastructure failed gives its charge back;         *)
(*   - records are only appended, whole, one at a time.                    *)
(***************************************************************************)
EXTENDS Integers, Sequences, FiniteSets

CONSTANTS
  Id,
  Command,
  Price,       \* the counters a command costs
  Allowance    \* the limit of each counter

VARIABLE calls   \* the ledger: [id, command, charged, outcome]

Endings == {"completed", "nonzero_exit", "model_error", "infrastructure_error"}

(* The calls that count against a limit. *)
Charges(n) ==
  {k \in DOMAIN calls : /\ calls[k].charged
                        /\ calls[k].outcome # "infrastructure_error"
                        /\ n \in Price[calls[k].command]}

Affordable(c) == \A n \in Price[c] : Cardinality(Charges(n)) < Allowance[n]

Init == calls = <<>>

Enter(i, c, charged, outcome) ==
  calls' = Append(calls, [id |-> i, command |-> c, charged |-> charged, outcome |-> outcome])

(* A call begins, and is charged if it costs anything. *)
Begin(i, c) == Affordable(c) /\ Enter(i, c, Price[c] # {}, "running")

(* A request that cannot be understood costs what a call costs. *)
Misuse(i, c) == Affordable(c) /\ Enter(i, c, TRUE, "model_error")

Refuse(i, c) == Enter(i, c, FALSE, "budget_exhausted")

(* A call ends; its charge stays on the record. *)
End(k, outcome) ==
  /\ calls[k].outcome = "running"
  /\ calls' = [calls EXCEPT ![k].outcome = outcome]

Step ==
  \/ \E i \in Id, c \in Command : Begin(i, c) \/ Misuse(i, c) \/ Refuse(i, c)
  \/ \E k \in DOMAIN calls, outcome \in Endings : End(k, outcome)

(* A step of the meter shows in its ledger. *)
Next == calls' # calls /\ Step

Spec == Init /\ [][Next]_calls

=============================================================================
