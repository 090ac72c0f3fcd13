---------------------------- MODULE SubmitSession ----------------------------
(***************************************************************************)
(* The submit service of one rule episode (benchmark/submit_session.py)     *)
(* with its spool clients (benchmark/agent_submit.py).                      *)
(*                                                                         *)
(* One service thread lists the inbox, claims the listed files one at a     *)
(* time, judges each and writes its answer.  The verifier runs under the    *)
(* session lock and no other thread writes the ledger, the closed flag or   *)
(* the table of past answers, so judging a claimed request is one step.     *)
(* The claimed file and the temporary of an answer are private to the       *)
(* thread.                                                                  *)
(***************************************************************************)
EXTENDS SpoolClient, Sequences

CONSTANT Limit   \* attempts per episode

ASSUME LimitAssumption == Limit \in Nat

(***************************************************************************)
(* Payloads, by what the service does with them.  "good" and "bad" are     *)
(* certificates of this episode's rule the verifier accepts and rejects;   *)
(* "wrong_rule" stands for every text refused before the verifier runs;    *)
(* "client_error" is what the client sends instead of a file it cannot     *)
(* read; "malformed" is an envelope that does not parse.                   *)
(***************************************************************************)
Certificates == {"good", "bad", "wrong_rule"}
RefusedUnverified == {"wrong_rule", "client_error", "malformed"}
ASSUME PayloadAssumption ==
  /\ Payload \subseteq Certificates \cup {"client_error", "malformed", "status", "unknown_op"}
  /\ "client_error" \in Payload

Verdicts == {"accepted", "rejected"}
Answers == Verdicts \cup {"exhausted", "infrastructure_error", "status", "unknown_op"}

VARIABLES
  pinned,     \* whether a client's id came from its caller
  serving,    \* control point of the service thread
  batch,      \* listed names not yet claimed
  claimed,    \* the request in processing: [id, payload]
  reply,      \* the answer about to be written
  responses,  \* answers given for good: id -> [payload, answer]
  attempts,   \* the attempt ledger
  closed,     \* an attempt was accepted
  stopping    \* __exit__ has set the stop event

serviceVars == <<serving, batch, claimed, reply, responses, attempts, closed, stopping>>
vars == <<spoolVars, pinned, serviceVars>>

Request == [id : Id \cup {"none"}, payload : Payload \cup {"none"}]
Attempt == [id : Id, accepted : BOOLEAN]

TypeOK ==
  /\ SpoolTypeOK(Answers)
  /\ pinned \in [Client -> BOOLEAN]
  /\ serving \in {"scan", "sweep", "judge", "reply", "stopped"}
  /\ batch \in SUBSET Id
  /\ claimed \in Request
  /\ reply \in Answers \cup {"none"}
  /\ responses \in [Id -> [payload : Payload \cup {"none"}, answer : Answers \cup {"none"}]]
  /\ attempts \in Seq(Attempt)
  /\ closed \in BOOLEAN
  /\ stopping \in BOOLEAN

Init ==
  /\ SpoolInit
  /\ pinned = [c \in Client |-> FALSE]
  /\ serving = "scan"
  /\ batch = {}
  /\ claimed = [id |-> "none", payload |-> "none"]
  /\ reply = "none"
  /\ responses = [i \in Id |-> [payload |-> "none", answer |-> "none"]]
  /\ attempts = <<>>
  /\ closed = FALSE
  /\ stopping = FALSE

-----------------------------------------------------------------------------
(* The submit command. *)

(* The agent runs the command once per client. *)
Start(c) ==
  \E i \in Id, p \in Payload, pin \in BOOLEAN :
    /\ Call(c, i, p, pin)
    /\ pinned' = [pinned EXCEPT ![c] = pin]

(* A submission that could not complete its exchange is reported as a
   client error: TimeoutError is an OSError, so the handler meant for
   unreadable files also takes a service that was slow.  The report is a new
   exchange, under a new id unless the caller pinned one. *)
ReportClientError(c) ==
  /\ pc[c] = "expired"
  /\ payload[c] \in Certificates
  /\ \E i \in Id :
       /\ IF pinned[c] THEN i = id[c] ELSE Unissued(i)
       /\ Open(c, i, "client_error")

(* Any other failed exchange ends the command with status 2. *)
Fail(c) ==
  /\ pc[c] = "expired"
  /\ payload[c] \notin Certificates \/ ~mounted
  /\ pc' = [pc EXCEPT ![c] = "failed"]
  /\ UNCHANGED <<id, payload, tries, answer, issued, inbox, outbox, mounted>>

Submit(c) ==
  /\ \/ Start(c)
     \/ (ClientStep(c) \/ ReportClientError(c) \/ Fail(c)) /\ UNCHANGED pinned
  /\ UNCHANGED serviceVars

-----------------------------------------------------------------------------
(* The service thread. *)

(* os.listdir at the top of the loop, where the stop event is tested. *)
Scan ==
  /\ serving = "scan"
  /\ ~stopping
  /\ batch' = {i \in Id : inbox[i] # "none"}
  /\ batch' # {}
  /\ serving' = "sweep"
  /\ UNCHANGED <<spoolVars, pinned, claimed, reply, responses, attempts, closed, stopping>>

(* Mutant of Claim: the loop moves on after the rename. *)
ClaimDropping(i) ==
  /\ serving = "sweep"
  /\ i \in batch
  /\ batch' = batch \ {i}
  /\ inbox' = [inbox EXCEPT ![i] = "none"]
  /\ UNCHANGED <<clientVars, pinned, outbox, mounted, serving, claimed, reply,
                 responses, attempts, closed, stopping>>

(* Rename one listed file into processing and read it. *)
Claim(i) ==
  /\ serving = "sweep"
  /\ i \in batch
  /\ batch' = batch \ {i}
  /\ claimed' = [id |-> i, payload |-> inbox[i]]
  /\ inbox' = [inbox EXCEPT ![i] = "none"]
  /\ serving' = "judge"
  /\ UNCHANGED <<clientVars, pinned, outbox, mounted, reply, responses, attempts, closed, stopping>>

(* Mutant of EndSweep: the stop event also ends the inner loop. *)
EndSweepEarly ==
  /\ serving = "sweep"
  /\ batch = {} \/ stopping
  /\ batch' = {}
  /\ serving' = "scan"
  /\ UNCHANGED <<spoolVars, pinned, claimed, reply, responses, attempts, closed, stopping>>

EndSweep ==
  /\ serving = "sweep"
  /\ batch = {}
  /\ serving' = "scan"
  /\ UNCHANGED <<spoolVars, pinned, batch, claimed, reply, responses, attempts, closed, stopping>>

Past == responses[claimed.id]

Over == closed \/ Len(attempts) >= Limit

(* The same id with the same payload: the answer already given. *)
Replay ==
  /\ Past.answer # "none"
  /\ Past.payload = claimed.payload
  /\ reply' = Past.answer
  /\ UNCHANGED <<responses, attempts, closed>>

(* Mutant of Collide: the error replaces the kept answer. *)
CollideOverwriting ==
  /\ Past.answer # "none"
  /\ Past.payload # claimed.payload
  /\ reply' = "infrastructure_error"
  /\ responses' = [responses EXCEPT ![claimed.id] =
       [payload |-> claimed.payload, answer |-> "infrastructure_error"]]
  /\ UNCHANGED <<attempts, closed>>

(* The same id with another payload: an error that is not kept. *)
Collide ==
  /\ Past.answer # "none"
  /\ Past.payload # claimed.payload
  /\ reply' = "infrastructure_error"
  /\ UNCHANGED <<responses, attempts, closed>>

(* Give the claimed request an answer and keep it. *)
Conclude(a) ==
  /\ Past.answer = "none"
  /\ reply' = a
  /\ responses' = [responses EXCEPT ![claimed.id] = [payload |-> claimed.payload, answer |-> a]]

Inform ==
  /\ claimed.payload \in {"status", "unknown_op"}
  /\ Conclude(claimed.payload)
  /\ UNCHANGED <<attempts, closed>>

Exhaust ==
  /\ claimed.payload \in Certificates \cup RefusedUnverified
  /\ Over
  /\ Conclude("exhausted")
  /\ UNCHANGED <<attempts, closed>>

(* _append_attempt: one record, and an acceptance closes the episode. *)
Debit(accepted) ==
  /\ ~Over
  /\ Conclude(IF accepted THEN "accepted" ELSE "rejected")
  /\ attempts' = Append(attempts, [id |-> claimed.id, accepted |-> accepted])
  /\ closed' = accepted

Reject ==
  /\ claimed.payload \in RefusedUnverified \cup {"bad"}
  /\ Debit(FALSE)

Accept ==
  /\ claimed.payload = "good"
  /\ Debit(TRUE)

(* Mutants of VerifierError: the failure debits an attempt, or is reported as
   a rejection. *)
VerifierErrorDebiting ==
  /\ claimed.payload \in {"good", "bad"}
  /\ ~Over
  /\ Conclude("infrastructure_error")
  /\ attempts' = Append(attempts, [id |-> claimed.id, accepted |-> FALSE])
  /\ UNCHANGED closed

VerifierErrorRejecting ==
  /\ claimed.payload \in {"good", "bad"}
  /\ ~Over
  /\ Conclude("rejected")
  /\ UNCHANGED <<attempts, closed>>

(* The verifier raised: no attempt, but the answer is kept for this id. *)
VerifierError ==
  /\ claimed.payload \in {"good", "bad"}
  /\ ~Over
  /\ Conclude("infrastructure_error")
  /\ UNCHANGED <<attempts, closed>>

Judge ==
  /\ serving = "judge"
  /\ Replay \/ Collide \/ Inform \/ Exhaust \/ Reject \/ Accept \/ VerifierError
  /\ serving' = "reply"
  /\ UNCHANGED <<spoolVars, pinned, batch, claimed, stopping>>

(* The atomic rename of the answer and the unlink of the claimed file. *)
Reply ==
  /\ serving = "reply"
  /\ outbox' = [outbox EXCEPT ![claimed.id] = reply]
  /\ claimed' = [id |-> "none", payload |-> "none"]
  /\ reply' = "none"
  /\ serving' = "sweep"
  /\ UNCHANGED <<clientVars, pinned, inbox, mounted, batch, responses, attempts, closed, stopping>>

(* Mutant of Leave: the stop event is tested only after work was found. *)
LeaveAfterWork ==
  /\ serving = "scan"
  /\ stopping
  /\ \E i \in Id : inbox[i] # "none"
  /\ serving' = "stopped"
  /\ UNCHANGED <<spoolVars, pinned, batch, claimed, reply, responses, attempts, closed, stopping>>

(* The loop test sees the stop event. *)
Leave ==
  /\ serving = "scan"
  /\ stopping
  /\ serving' = "stopped"
  /\ UNCHANGED <<spoolVars, pinned, batch, claimed, reply, responses, attempts, closed, stopping>>

Serve ==
  \/ Scan
  \/ \E i \in Id : Claim(i)
  \/ EndSweep
  \/ Judge
  \/ Reply
  \/ Leave

-----------------------------------------------------------------------------
(* The session's owner: __exit__ stops the thread, joins it and removes the
   directories. *)

Stop ==
  /\ ~stopping
  /\ stopping' = TRUE
  /\ UNCHANGED <<spoolVars, pinned, serving, batch, claimed, reply, responses, attempts, closed>>

Remove ==
  /\ serving = "stopped"
  /\ mounted
  /\ Unmount
  /\ UNCHANGED <<pinned, serviceVars>>

Next ==
  \/ \E c \in Client : Submit(c)
  \/ Serve
  \/ Stop
  \/ Remove

(* The service thread and the exiting owner are never blocked for good: the
   verifier is bounded by its solver's timeouts.  Clients owe nothing; the
   shell may kill them at any time. *)
Fairness == WF_vars(Serve) /\ WF_vars(Remove)

Spec == Init /\ [][Next]_vars /\ Fairness

-----------------------------------------------------------------------------
(* Safety.  The runner scores an episode from the attempt ledger, so what    *)
(* matters is that the ledger, the closed flag, the table of past answers   *)
(* and what clients were told agree, whatever clients publish again.        *)

(* The budget is never overdrawn, only the last attempt can be the accepted
   one, and the session is closed exactly when an attempt was accepted. *)
EpisodeWithinBudget ==
  /\ Len(attempts) <= Limit
  /\ \A n \in DOMAIN attempts : attempts[n].accepted => n = Len(attempts)
  /\ closed <=> \E n \in DOMAIN attempts : attempts[n].accepted

(* However often a request is published, it debits at most one attempt. *)
OneAttemptPerRequest ==
  \A m, n \in DOMAIN attempts : attempts[m].id = attempts[n].id => m = n

(* The ledger and the kept answers tell the same story: a request has an
   attempt exactly when its kept answer is a verdict, the one in the ledger.
   In particular a verifier error debits nothing, then or on any replay. *)
LedgerMatchesResponses ==
  \A i \in Id, b \in BOOLEAN :
    responses[i].answer = (IF b THEN "accepted" ELSE "rejected")
      <=> \E n \in DOMAIN attempts : attempts[n] = [id |-> i, accepted |-> b]

(* What holds of the ledger once someone may be told a about request i. *)
Truthful(i, a) ==
  /\ a = "accepted" => \E n \in DOMAIN attempts : attempts[n] = [id |-> i, accepted |-> TRUE]
  /\ a = "rejected" => \E n \in DOMAIN attempts : attempts[n] = [id |-> i, accepted |-> FALSE]
  /\ a = "exhausted" => Over

(* A client that has read an answer was told what the ledger says, also when
   the answer is a leftover of an earlier publication of the same id. *)
ToldTheTruth ==
  \A c \in Client : Truthful(id[c], answer[c])

(* The verdict a request id was given for good. *)
Told(a) ==
  IF a \in Verdicts \cup {"exhausted", "none"} THEN a ELSE "declined"

Judged == INSTANCE SubmitJudge WITH verdict <- [i \in Id |-> Told(responses[i].answer)]

(* The service implements the judge: whatever the spool does, each request
   gets one lasting verdict and the ledger grows by judged requests only. *)
ImplementsJudge == Judged!Spec

-----------------------------------------------------------------------------
(* Liveness, under the fairness of the service thread. *)

(* A published request is answered for good unless the session is stopped. *)
ServedUnlessStopped ==
  \A i \in Id : inbox[i] # "none" ~> (responses[i].answer # "none" \/ stopping)

(* Stopping does not drop a request the current sweep has listed. *)
ListedIsAnswered ==
  \A i \in Id : i \in batch ~> responses[i].answer # "none"

(* Leaving the session always completes: the join returns. *)
ExitCompletes == stopping ~> ~mounted

=============================================================================
