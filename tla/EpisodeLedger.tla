---------------------------- MODULE EpisodeLedger ----------------------------
(***************************************************************************)
(* One rule episode, seen from the runner's thread: the agent loop          *)
(* (BudgetedAgent in top50_runner.py), its shell actions                    *)
(* (agent_environment.py), the events EvidenceBudgetSession records and the *)
(* ledger it assembles at the end.  The services run beside it: a command   *)
(* of the agent may leave calls behind that are handled later, also while   *)
(* the ledger is being assembled.  What the services promise is taken from  *)
(* PredGateway and SubmitSession; here each call is handled once.           *)
(***************************************************************************)
EXTENDS EvidenceBudget, Top50Contract

CONSTANTS
  Call,     \* requests to the services, by their ids
  Kinds     \* the kinds of request the agent makes

PredKinds == {"help", "pred", "solve"}

ASSUME CallAssumption == Kinds \subseteq PredKinds \cup {"submit"}

(* The benchmark allows 12 shell actions (EPISODE_BUDGET).  EvidenceBudget would
   accept none at all, but the loop would not take such a budget for a spent
   one, and every refused action would add its record. *)
ASSUME ActionsAssumption == Allowance["shell_actions"] > 0

VARIABLES
  at,       \* where the runner's thread is
  failed,   \* the phase ended in an exception
  gens,     \* the session's model-generation records
  shell,    \* the session's shell-action records
  kind,     \* what each call asks for
  stage,    \* how far its service is with each call
  pred,     \* the gateway's ledger
  attempts, \* the submission session's ledger: was each attempt accepted?
  closed,   \* the submission session is closed
  lost,     \* a reservation was given back after its record was written
  quiet,    \* no call was under way when the ledger was begun
  ledger    \* the ledger as far as it is assembled

runnerVars == <<at, failed, gens, shell, quiet, ledger>>
serviceVars == <<kind, stage, pred, attempts, closed, lost>>
vars == <<used, runnerVars, serviceVars>>

Outcomes == {"admitted", "budget_exhausted", "completed", "nonzero_exit", "timeout"}
Snapshots == {"events", "pred", "counters", "used", "closed", "remaining", "submit"}
Stages == {"unsent", "sent", "reserved", "running", "released", "ended"}
Event == [charged : BOOLEAN]
ShellEvent == [charged : BOOLEAN, outcome : Outcomes, seen : BOOLEAN]
PredRecord == [call : Call, kind : PredKinds, charged : BOOLEAN]

Empty == [status |-> [n \in Counter |-> 0], gens |-> <<>>, shell |-> <<>>, pred |-> <<>>,
          submit |-> <<>>, submitUsed |-> 0, submitRemaining |-> 0]

Ledger == [status : [Counter -> Nat], gens : Seq(Event), shell : Seq(ShellEvent),
           pred : Seq(PredRecord), submit : Seq(BOOLEAN), submitUsed : Nat,
           submitRemaining : Nat]

TypeOK ==
  /\ BudgetTypeOK
  /\ at \in {"query", "act", "command", "check", "done"} \cup Snapshots
  /\ failed \in BOOLEAN
  /\ gens \in Seq(Event)
  /\ shell \in Seq(ShellEvent)
  /\ kind \in [Call -> Kinds \cup {"none"}]
  /\ stage \in [Call -> Stages]
  /\ pred \in Seq(PredRecord)
  /\ attempts \in Seq(BOOLEAN)
  /\ closed \in BOOLEAN
  /\ lost \in BOOLEAN
  /\ quiet \in BOOLEAN
  /\ ledger \in Ledger

Init ==
  /\ BudgetInit
  /\ at = "query"
  /\ failed = FALSE
  /\ gens = <<>>
  /\ shell = <<>>
  /\ kind = [c \in Call |-> "none"]
  /\ stage = [c \in Call |-> "unsent"]
  /\ pred = <<>>
  /\ attempts = <<>>
  /\ closed = FALSE
  /\ lost = FALSE
  /\ quiet = FALSE
  /\ ledger = Empty

-----------------------------------------------------------------------------
(* The agent loop. *)

UnderWay == {c \in Call : stage[c] \notin {"unsent", "ended"}}

(* The phase is over, by Submitted or by an exception: the ledger is begun. *)
EndPhase(raised) ==
  /\ at' = "events"
  /\ failed' = raised
  /\ quiet' = (UnderWay = {})

Continue(where) ==
  /\ at' = where
  /\ UNCHANGED <<failed, quiet>>

OutOfGenerations ==
  /\ at = "query"
  /\ ~Available({"model_generations"})
  /\ EndPhase(FALSE)
  /\ UNCHANGED <<used, gens, shell, ledger, serviceVars>>

(* The provider fails: recorded, but not at the model's expense. *)
ProviderError ==
  /\ at = "query"
  /\ Available({"model_generations"})
  /\ gens' = Append(gens, [charged |-> FALSE])
  /\ EndPhase(TRUE)
  /\ UNCHANGED <<used, shell, ledger, serviceVars>>

(* Mutant of Respond: only answers that are carried out are charged. *)
RespondChargingActions(next) ==
  /\ at = "query"
  /\ Available({"model_generations"})
  /\ IF next = "act"
     THEN Reserve({"model_generations"}) /\ gens' = Append(gens, [charged |-> TRUE])
     ELSE UNCHANGED <<used, gens>>
  /\ Continue(next)
  /\ UNCHANGED <<shell, ledger, serviceVars>>

(* The model answers: with one command, which is carried out; with several,
   which are refused; or with none, in which case the loop goes on without
   looking at the budget. *)
Respond(next) ==
  /\ at = "query"
  /\ Reserve({"model_generations"})
  /\ gens' = Append(gens, [charged |-> TRUE])
  /\ Continue(next)
  /\ UNCHANGED <<shell, ledger, serviceVars>>

(* The answer cannot be read as a command; after several in a row the agent
   gives up. *)
FormatError ==
  /\ at = "query"
  /\ Reserve({"model_generations"})
  /\ gens' = Append(gens, [charged |-> TRUE])
  /\ Continue("query") \/ EndPhase(FALSE)
  /\ UNCHANGED <<shell, ledger, serviceVars>>

(* The action is admitted and its command started; when none is left, the
   refusal is observed at once.  Either way it is recorded. *)
Act ==
  /\ at = "act"
  /\ IF Available({"shell_actions"})
     THEN /\ Reserve({"shell_actions"})
          /\ shell' = Append(shell, [charged |-> TRUE, outcome |-> "admitted", seen |-> FALSE])
          /\ Continue("command")
     ELSE /\ shell' = Append(shell, [charged |-> FALSE, outcome |-> "budget_exhausted", seen |-> TRUE])
          /\ Continue("check")
          /\ UNCHANGED used
  /\ UNCHANGED <<gens, ledger, serviceVars>>

(* Mutant of Observe: the outcome is taken over, the observation not. *)
ObserveOutcome(outcome) ==
  shell' = [shell EXCEPT ![Len(shell)] = [@ EXCEPT !.outcome = outcome]]

(* The observation goes to the newest record of the command without one:
   actions do not overlap, so that is the last. *)
Observe(outcome) ==
  shell' = [shell EXCEPT ![Len(shell)] = [@ EXCEPT !.outcome = outcome, !.seen = TRUE]]

(* The command ends or is killed with its process group; one that prints the
   final marker and succeeds ends the phase before the loop looks at the
   budget. *)
EndCommand(outcome) ==
  /\ at = "command"
  /\ Observe(outcome)
  /\ \/ Continue("check")
     \/ outcome = "completed" /\ EndPhase(FALSE)
  /\ UNCHANGED <<used, gens, ledger, serviceVars>>

(* Packaging the output raises: the record keeps no observation. *)
CommandRaises ==
  /\ at = "command"
  /\ EndPhase(TRUE)
  /\ UNCHANGED <<used, gens, shell, ledger, serviceVars>>

Spent(n) == used[n] > 0 /\ used[n] >= Allowance[n]
HardExhausted == \E n \in {"model_generations", "shell_actions", "pred_calls"} : Spent(n)

(* After the actions of an answer the loop looks at the budget. *)
Check ==
  /\ at = "check"
  /\ IF HardExhausted \/ closed THEN EndPhase(FALSE) ELSE Continue("query")
  /\ UNCHANGED <<used, gens, shell, ledger, serviceVars>>

-----------------------------------------------------------------------------
(* The services.  A running command sends calls; it may be gone before they
   are taken up. *)

To(c, s) == stage' = [stage EXCEPT ![c] = s]

Send(c, k) ==
  /\ at = "command"
  /\ stage[c] = "unsent"
  /\ kind' = [kind EXCEPT ![c] = k]
  /\ To(c, "sent")
  /\ UNCHANGED <<used, runnerVars, pred, attempts, closed, lost>>

Cost(c) ==
  CASE kind[c] = "help" -> {}
    [] kind[c] = "pred" -> {"pred_calls"}
    [] OTHER -> {"pred_calls", "solve_calls"}

Record(c, charged) == pred' = Append(pred, [call |-> c, kind |-> kind[c], charged |-> charged])

ReserveCall(c) ==
  /\ stage[c] = "sent"
  /\ kind[c] \in PredKinds
  /\ Reserve(Cost(c))
  /\ To(c, "reserved")
  /\ UNCHANGED <<runnerVars, kind, pred, attempts, closed, lost>>

RefuseCall(c) ==
  /\ stage[c] = "sent"
  /\ kind[c] \in PredKinds
  /\ ~Available(Cost(c))
  /\ Record(c, FALSE)
  /\ To(c, "ended")
  /\ UNCHANGED <<used, runnerVars, kind, attempts, closed, lost>>

RecordCall(c) ==
  /\ stage[c] = "reserved"
  /\ Record(c, Cost(c) # {})
  /\ To(c, "running")
  /\ UNCHANGED <<used, runnerVars, kind, attempts, closed, lost>>

EndCall(c) ==
  /\ stage[c] \in {"running", "released"}
  /\ To(c, "ended")
  /\ UNCHANGED <<used, runnerVars, kind, pred, attempts, closed, lost>>

(* The process could not be run: what was reserved is given back, the record
   stays as it is. *)
ReleaseCall(c) ==
  /\ stage[c] = "running"
  /\ Cost(c) # {}
  /\ Release(Cost(c))
  /\ To(c, "released")
  /\ lost' = TRUE
  /\ UNCHANGED <<runnerVars, kind, pred, attempts, closed>>

(* Mutant of Decide: the last attempt is not looked at. *)
DecideWithoutLimit(verdict) ==
  IF closed \/ verdict = "error"
  THEN UNCHANGED <<attempts, closed>>
  ELSE /\ attempts' = Append(attempts, verdict = "accept")
       /\ closed' = (verdict = "accept")

(* A submission counts while attempts are left and none was accepted; an
   acceptance closes the session.  A verifier that raises debits nothing. *)
Decide(verdict) ==
  IF closed \/ Len(attempts) >= SubmitLimit \/ verdict = "error"
  THEN UNCHANGED <<attempts, closed>>
  ELSE /\ attempts' = Append(attempts, verdict = "accept")
       /\ closed' = (verdict = "accept")

Judge(c, verdict) ==
  /\ stage[c] = "sent"
  /\ kind[c] = "submit"
  /\ Decide(verdict)
  /\ To(c, "ended")
  /\ UNCHANGED <<used, runnerVars, kind, pred, lost>>

-----------------------------------------------------------------------------
(* EvidenceBudgetSession.ledger: one copy after the other, each under the
   lock of its owner. *)

Snapshot(here, next, copied) ==
  /\ at = here
  /\ at' = next
  /\ ledger' = copied
  /\ UNCHANGED <<used, failed, gens, shell, quiet, serviceVars>>

CopyEvents == Snapshot("events", "pred", [ledger EXCEPT !.gens = gens, !.shell = shell])
CopyPred == Snapshot("pred", "counters", [ledger EXCEPT !.pred = pred])
CopyCounters == Snapshot("counters", "used", [ledger EXCEPT !.status = used])
(* Mutant of CopyUsed: submissions not judged yet count. *)
CopyUsedWithPending ==
  LET pending == {c \in Call : stage[c] = "sent" /\ kind[c] = "submit"}
  IN Snapshot("used", "closed", [ledger EXCEPT !.submitUsed = Len(attempts) + Cardinality(pending)])
CopyUsed == Snapshot("used", "closed", [ledger EXCEPT !.submitUsed = Len(attempts)])

(* Mutant of AskClosed: closed is not asked for. *)
AskNothing ==
  /\ at = "closed"
  /\ at' = "remaining"
  /\ UNCHANGED <<used, failed, gens, shell, quiet, ledger, serviceVars>>

(* remaining asks for closed, and then for used. *)
AskClosed ==
  /\ at = "closed"
  /\ at' = IF closed THEN "submit" ELSE "remaining"
  /\ UNCHANGED <<used, failed, gens, shell, quiet, ledger, serviceVars>>
CopyRemaining ==
  Snapshot("remaining", "submit", [ledger EXCEPT !.submitRemaining = SubmitLimit - Len(attempts)])
CopyAttempts == Snapshot("submit", "done", [ledger EXCEPT !.submit = attempts])

-----------------------------------------------------------------------------
Loop ==
  \/ OutOfGenerations \/ ProviderError \/ FormatError
  \/ \E next \in {"query", "act", "check"} : Respond(next)
  \/ Act
  \/ \E outcome \in {"completed", "nonzero_exit", "timeout"} : EndCommand(outcome)
  \/ CommandRaises \/ Check

Assemble ==
  CopyEvents \/ CopyPred \/ CopyCounters \/ CopyUsed \/ AskClosed \/ CopyRemaining \/ CopyAttempts

Serve(c) ==
  \/ ReserveCall(c) \/ RefuseCall(c) \/ RecordCall(c) \/ EndCall(c) \/ ReleaseCall(c)
  \/ \E verdict \in {"accept", "reject", "error"} : Judge(c, verdict)

Next ==
  \/ Loop \/ Assemble
  \/ \E c \in Call :
       \/ \E k \in Kinds : Send(c, k)
       \/ Serve(c)

Spec == Init /\ [][Next]_vars

(* The runner's thread runs; a command ends by itself or at its timeout. *)
FairSpec == Spec /\ WF_vars(Loop \/ Assemble)

-----------------------------------------------------------------------------
(* Properties. *)

Done == at = "done" /\ ~failed

(* The ledger of an episode that ended properly is accepted by the contract,
   when no call was under way while it was assembled, no reservation was
   given back and the pred ledger stays within the contract's bound. *)
QuietLedgerAccepted ==
  Done /\ quiet /\ ~lost /\ Len(pred) <= PredBound(Allowance) =>
    EpisodeLedgerValid(ledger, Allowance)

(* Even when calls were under way, the parts the runner's thread owns are
   accepted, and the ledger claims no more submissions than were made. *)
OwnPartsAlwaysAccepted ==
  Done =>
    /\ EpisodeEventsValid(ledger, Allowance)
    /\ ObservationsValid(ledger)
    /\ Len(ledger.submit) <= SubmitLimit
    /\ ledger.submitUsed <= Len(ledger.submit)
    /\ Accepted(ledger.submit) # {} \/ ledger.submitRemaining <= SubmitLimit - ledger.submitUsed

(* Whatever the model answers, the episode comes to its ledger. *)
PhaseEnds == <>(at = "done")

(* README.md promises every episode 24 pred calls; the contract refuses a
   ledger with more records than there are shell actions, plus one.  It does
   not hold that a proper episode within its budget is accepted. *)
PredLedgerFits ==
  Done /\ quiet /\ ~lost /\ (\A n \in Counter : used[n] <= Allowance[n])
    /\ (\A i \in DOMAIN pred : pred[i].charged) =>
      Len(ledger.pred) <= PredBound(Allowance)

=============================================================================
