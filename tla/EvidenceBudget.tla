---------------------------- MODULE EvidenceBudget ----------------------------
(***************************************************************************)
(* The counters of one rule episode (EvidenceBudgetState): how much of each *)
(* evidence allowance is used.  Every operation runs under one lock, so it  *)
(* is one step.                                                            *)
(***************************************************************************)
EXTENDS Naturals

CONSTANT Allowance   \* EvidenceBudget: the limit of each counter

Counter == {"model_generations", "shell_actions", "pred_calls", "solve_calls"}

(* The checks of EvidenceBudget.__post_init__. *)
ASSUME AllowanceAssumption ==
  /\ Allowance \in [Counter -> Nat]
  /\ Allowance["solve_calls"] <= Allowance["pred_calls"]

VARIABLE used

BudgetTypeOK == used \in [Counter -> Nat]

BudgetInit == used = [n \in Counter |-> 0]

Available(names) == \A n \in names : used[n] < Allowance[n]

(* All the named counters or none of them. *)
Reserve(names) ==
  /\ Available(names)
  /\ used' = [n \in Counter |-> IF n \in names THEN used[n] + 1 ELSE used[n]]

(* Undo a reservation; the code raises RuntimeError on an unused counter. *)
Release(names) ==
  /\ \A n \in names : used[n] > 0
  /\ used' = [n \in Counter |-> IF n \in names THEN used[n] - 1 ELSE used[n]]

=============================================================================
