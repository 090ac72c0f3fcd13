----------------------------- MODULE SubmitJudge -----------------------------
(***************************************************************************)
(* What the submit service promises about one rule episode, whatever       *)
(* spool, retries and threads lie underneath:                              *)
(*   - a request id gets one verdict, and the verdict never changes;       *)
(*   - every verdict debits one attempt, nothing else debits any;          *)
(*   - at most Limit attempts are judged, and none after an acceptance.    *)
(***************************************************************************)
EXTENDS Naturals, Sequences

CONSTANTS Id, Limit

VARIABLES
  attempts,   \* the append-only ledger: [id, accepted], in the order judged
  verdict     \* what each request id was told for good

judgeVars == <<attempts, verdict>>

Over == Len(attempts) >= Limit \/ \E n \in DOMAIN attempts : attempts[n].accepted

Init ==
  /\ attempts = <<>>
  /\ verdict = [i \in Id |-> "none"]

(* Judge request i: one attempt, one verdict. *)
Debit(i, accepted) ==
  /\ verdict[i] = "none"
  /\ ~Over
  /\ attempts' = Append(attempts, [id |-> i, accepted |-> accepted])
  /\ verdict' = [verdict EXCEPT ![i] = IF accepted THEN "accepted" ELSE "rejected"]

(* Turn request i away because the episode is over. *)
Exhaust(i) ==
  /\ verdict[i] = "none"
  /\ Over
  /\ verdict' = [verdict EXCEPT ![i] = "exhausted"]
  /\ UNCHANGED attempts

(* Answer request i without judging it: a status, an unknown operation, a
   verifier that failed. *)
Decline(i) ==
  /\ verdict[i] = "none"
  /\ verdict' = [verdict EXCEPT ![i] = "declined"]
  /\ UNCHANGED attempts

Next ==
  \E i \in Id :
    \/ \E accepted \in BOOLEAN : Debit(i, accepted)
    \/ Exhaust(i)
    \/ Decline(i)

Spec == Init /\ [][Next]_judgeVars

=============================================================================
