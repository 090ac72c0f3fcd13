----------------------------- MODULE PredGateway -----------------------------
(***************************************************************************)
(* The gateway to the pred solver of one rule episode (PredGatewaySession   *)
(* in benchmark/evidence_budget.py) with its spool clients.                 *)
(*                                                                         *)
(* A service thread claims request files and hands each to a thread pool.   *)
(* A worker takes the steps of _process_request_file; each action below is  *)
(* one section under a lock, one file operation or one run of the process,  *)
(* so two workers interleave wherever the code lets them.  The table of     *)
(* past answers is consulted before a request is handled and filled after,  *)
(* with the lock released in between.                                       *)
(***************************************************************************)
EXTENDS SpoolClient, EvidenceBudget, Sequences

CONSTANT Worker   \* threads of the pool: 8 to 64 in the code

(***************************************************************************)
(* Payloads, by how the gateway handles them.  "solve" costs a solve call   *)
(* and a pred call, "create" stands for every other charged command, "help" *)
(* for the free ones, "bad_args" for arguments that are not a list of       *)
(* strings.  "unlaunchable" holds an argument Popen refuses with an error   *)
(* that is no OSError (a NUL character).  "malformed" does not parse.       *)
(***************************************************************************)
Charged == {"solve", "create", "unlaunchable"}
Free == {"help"}
Invalid == {"bad_args", "malformed"}
ASSUME GatewayAssumption ==
  /\ Payload \subseteq Charged \cup Free \cup Invalid \cup {"status", "unknown_op"}
  /\ Worker # {} /\ IsFiniteSet(Worker)

(* How a process ends; "nonzero_exit" includes the timeout, status 124. *)
ProcessOutcomes == {"completed", "nonzero_exit"}
Outcomes == ProcessOutcomes \cup {"model_error", "infrastructure_error"}
Answers == Outcomes \cup {"exhausted", "collision", "status", "unknown_op"}

(* What the gateway makes of a file: its payload, or one of two fingerprints
   of a request that could not be handled: the file was gone ("gone"), or
   handling it raised ("raised"). *)
Fingerprint == Payload \cup {"gone", "raised"}
Unusable == Invalid \cup {"gone", "raised"}

(* The counters a request reserves. *)
Cost(f) ==
  IF f = "solve" THEN {"pred_calls", "solve_calls"}
  ELSE IF f \in Charged \cup Unusable THEN {"pred_calls"}
  ELSE {}

VARIABLES
  serving,     \* control point of the service thread
  batch,       \* listed names not yet claimed
  processing,  \* the processing directory
  queue,       \* request ids handed to the pool and not yet started
  at,          \* control point of each worker
  job,         \* the request id a worker handles
  content,     \* the fingerprint a worker works with
  result,      \* the answer a worker has so far
  slot,        \* the ledger record a worker opened
  responses,   \* kept answers: id -> [payload, answer]
  cached,      \* free commands whose answer is cached
  ledger,      \* the pred call ledger
  logs,        \* ids whose raw observation log exists
  abandoned,   \* records whose handling raised; history, read by no action
  owner        \* progress of the session's owner through __exit__

serviceVars == <<serving, batch, processing, queue>>
workerVars == <<at, job, content, result, slot>>
recordVars == <<used, responses, cached, ledger, logs, abandoned>>
vars == <<spoolVars, serviceVars, workerVars, recordVars, owner>>

Record == [id : Id, command : Fingerprint, charged : BOOLEAN,
           outcome : Outcomes \cup {"running", "budget_exhausted"}]

WorkerPoint == {"free", "lookup", "admit", "record", "refused", "launch", "running",
                "release", "finish", "keep", "reply", "unlink"}

TypeOK ==
  /\ SpoolTypeOK(Answers)
  /\ BudgetTypeOK
  /\ serving \in {"scan", "sweep", "stopped"}
  /\ batch \in SUBSET Id
  /\ processing \in [Id -> Payload \cup {"none"}]
  /\ queue \in Seq(Id)
  /\ at \in [Worker -> WorkerPoint]
  /\ job \in [Worker -> Id \cup {"none"}]
  /\ content \in [Worker -> Fingerprint \cup {"none"}]
  /\ result \in [Worker -> Answers \cup {"none"}]
  /\ slot \in [Worker -> Nat]
  /\ responses \in [Id -> [payload : Fingerprint \cup {"none"}, answer : Answers \cup {"none"}]]
  /\ cached \in SUBSET Free
  /\ ledger \in Seq(Record)
  /\ logs \in SUBSET Id
  /\ abandoned \in SUBSET Nat
  /\ owner \in {"open", "stopping", "draining", "closed"}

Init ==
  /\ SpoolInit
  /\ BudgetInit
  /\ serving = "scan"
  /\ batch = {}
  /\ processing = [i \in Id |-> "none"]
  /\ queue = <<>>
  /\ at = [w \in Worker |-> "free"]
  /\ job = [w \in Worker |-> "none"]
  /\ content = [w \in Worker |-> "none"]
  /\ result = [w \in Worker |-> "none"]
  /\ slot = [w \in Worker |-> 0]
  /\ responses = [i \in Id |-> [payload |-> "none", answer |-> "none"]]
  /\ cached = {}
  /\ ledger = <<>>
  /\ logs = {}
  /\ abandoned = {}
  /\ owner = "open"

-----------------------------------------------------------------------------
(* The pred command: an exchange that expires ends it with status 2. *)

Pred(c) ==
  /\ \/ \E i \in Id, p \in Payload, pin \in BOOLEAN : Call(c, i, p, pin)
     \/ ClientStep(c)
  /\ UNCHANGED <<serviceVars, workerVars, recordVars, owner>>

-----------------------------------------------------------------------------
(* The service thread. *)

Scan ==
  /\ serving = "scan"
  /\ owner = "open"
  /\ batch' = {i \in Id : inbox[i] # "none"}
  /\ batch' # {}
  /\ serving' = "sweep"
  /\ UNCHANGED <<spoolVars, processing, queue, workerVars, recordVars, owner>>

(* Mutant of Dispatch: the request file is copied, not moved. *)
DispatchCopying(i) ==
  /\ serving = "sweep"
  /\ i \in batch
  /\ batch' = batch \ {i}
  /\ processing' = [processing EXCEPT ![i] = inbox[i]]
  /\ queue' = Append(queue, i)
  /\ Len(queue) < 3
  /\ UNCHANGED <<spoolVars, serving, workerVars, recordVars, owner>>

(* Rename a listed file into processing, over any file of that name still
   there, and hand it to the pool. *)
Dispatch(i) ==
  /\ serving = "sweep"
  /\ i \in batch
  /\ batch' = batch \ {i}
  /\ processing' = [processing EXCEPT ![i] = inbox[i]]
  /\ inbox' = [inbox EXCEPT ![i] = "none"]
  /\ queue' = Append(queue, i)
  /\ UNCHANGED <<clientVars, outbox, mounted, serving, workerVars, recordVars, owner>>

EndSweep ==
  /\ serving = "sweep"
  /\ batch = {}
  /\ serving' = "scan"
  /\ UNCHANGED <<spoolVars, batch, processing, queue, workerVars, recordVars, owner>>

(* Mutant of Leave: the inbox must be empty first. *)
LeaveWhenIdle ==
  /\ serving = "scan"
  /\ owner # "open"
  /\ \A i \in Id : inbox[i] = "none"
  /\ serving' = "stopped"
  /\ UNCHANGED <<spoolVars, batch, processing, queue, workerVars, recordVars, owner>>

Leave ==
  /\ serving = "scan"
  /\ owner # "open"
  /\ serving' = "stopped"
  /\ UNCHANGED <<spoolVars, batch, processing, queue, workerVars, recordVars, owner>>

Serve ==
  \/ Scan
  \/ \E i \in Id : Dispatch(i)
  \/ EndSweep
  \/ Leave

-----------------------------------------------------------------------------
(* A worker of the pool. *)

Goto(w, point) == at' = [at EXCEPT ![w] = point]

(* Take the next request and read its file, which another worker on the same
   id may have unlinked. *)
Start(w) ==
  /\ at[w] = "free"
  /\ queue # <<>>
  /\ LET i == Head(queue) IN
       /\ job' = [job EXCEPT ![w] = i]
       /\ content' = [content EXCEPT ![w] =
            IF processing[i] = "none" THEN "gone" ELSE processing[i]]
  /\ queue' = Tail(queue)
  /\ Goto(w, "lookup")
  /\ UNCHANGED <<spoolVars, serving, batch, processing, result, slot, recordVars, owner>>

Past(w) == responses[job[w]]

(* Mutant of Lookup: another payload under a known id is handled anew. *)
LookupAcceptingReuse(w) ==
  /\ at[w] = "lookup"
  /\ IF Past(w).answer = "none" \/ Past(w).payload # content[w]
     THEN Goto(w, "admit") /\ UNCHANGED result
     ELSE Goto(w, "reply") /\ result' = [result EXCEPT ![w] = Past(w).answer]
  /\ UNCHANGED <<spoolVars, serviceVars, job, content, slot, recordVars, owner>>

(* Consult the kept answers under the lock: replay, collide, or go on. *)
Lookup(w) ==
  /\ at[w] = "lookup"
  /\ IF Past(w).answer = "none"
     THEN Goto(w, "admit") /\ UNCHANGED result
     ELSE /\ Goto(w, "reply")
          /\ result' = [result EXCEPT ![w] =
               IF Past(w).payload = content[w] THEN Past(w).answer ELSE "collision"]
  /\ UNCHANGED <<spoolVars, serviceVars, job, content, slot, recordVars, owner>>

(* Operations that run nothing: status, unknown operations, cached help. *)
AnswerAtOnce(w) ==
  /\ at[w] = "admit"
  /\ content[w] \in {"status", "unknown_op"} \cup cached
  /\ result' = [result EXCEPT ![w] = IF content[w] \in cached THEN "completed" ELSE content[w]]
  /\ Goto(w, "keep")
  /\ UNCHANGED <<spoolVars, serviceVars, job, content, slot, recordVars, owner>>

(* Mutant of Admit: a solve call reserves its pred call only. *)
AdmitPartly(w) ==
  /\ at[w] = "admit"
  /\ content[w] \in (Charged \cup Free \cup Unusable) \ cached
  /\ Reserve(Cost(content[w]) \cap {"pred_calls"})
  /\ Goto(w, "record")
  /\ UNCHANGED <<spoolVars, serviceVars, job, content, result, slot,
                 responses, cached, ledger, logs, abandoned, owner>>

(* Reserve the cost of the call, which is nothing for a free command. *)
Admit(w) ==
  /\ at[w] = "admit"
  /\ content[w] \in (Charged \cup Free \cup Unusable) \ cached
  /\ Reserve(Cost(content[w]))
  /\ Goto(w, "record")
  /\ UNCHANGED <<spoolVars, serviceVars, job, content, result, slot,
                 responses, cached, ledger, logs, abandoned, owner>>

(* The budget is spent.  A command is recorded as refused; a request that
   could not be understood leaves no record. *)
Refuse(w) ==
  /\ at[w] = "admit"
  /\ content[w] \in Charged \cup Unusable
  /\ ~Available(Cost(content[w]))
  /\ result' = [result EXCEPT ![w] = "exhausted"]
  /\ Goto(w, IF content[w] \in Charged THEN "refused" ELSE "keep")
  /\ UNCHANGED <<spoolVars, serviceVars, job, content, slot, recordVars, owner>>

AppendRecord(w, charged, outcome) ==
  /\ ledger' = Append(ledger, [id |-> job[w], command |-> content[w],
                               charged |-> charged, outcome |-> outcome])
  /\ slot' = [slot EXCEPT ![w] = Len(ledger) + 1]

RecordRefusal(w) ==
  /\ at[w] = "refused"
  /\ AppendRecord(w, FALSE, "budget_exhausted")
  /\ Goto(w, "keep")
  /\ UNCHANGED <<spoolVars, serviceVars, job, content, result,
                 used, responses, cached, logs, abandoned, owner>>

RecordCall(w) ==
  /\ at[w] = "record"
  /\ content[w] \in Charged \cup Free
  /\ AppendRecord(w, content[w] \in Charged, "running")
  /\ Goto(w, "launch")
  /\ UNCHANGED <<spoolVars, serviceVars, job, content, result,
                 used, responses, cached, logs, abandoned, owner>>

(* An unusable request is charged and recorded as the model's error. *)
RecordUnusable(w) ==
  /\ at[w] = "record"
  /\ content[w] \in Unusable
  /\ AppendRecord(w, TRUE, "model_error")
  /\ result' = [result EXCEPT ![w] = "model_error"]
  /\ Goto(w, "keep")
  /\ UNCHANGED <<spoolVars, serviceVars, job, content,
                 used, responses, cached, logs, abandoned, owner>>

(* Start the process.  An argument list that is too long is the model's
   error; any other OSError is the infrastructure's. *)
Launch(w) ==
  /\ at[w] = "launch"
  /\ content[w] # "unlaunchable"
  /\ \/ Goto(w, "running") /\ UNCHANGED result
     \/ /\ Goto(w, "finish")
        /\ result' = [result EXCEPT ![w] = "model_error"]
     \/ /\ Goto(w, "release")
        /\ result' = [result EXCEPT ![w] = "infrastructure_error"]
  /\ UNCHANGED <<spoolVars, serviceVars, job, content, slot, recordVars, owner>>

(* Any other exception abandons the open record, its charge and all, and
   handles the request again, as an invalid envelope: Popen refuses an
   argument with a ValueError, or the output of the process cannot be
   packaged (its log is written by then), or not even read. *)
Raise(w) ==
  /\ \/ at[w] = "launch" /\ content[w] = "unlaunchable" /\ UNCHANGED logs
     \/ at[w] = "running" /\ logs' \in {logs, logs \cup {job[w]}}
  /\ abandoned' = abandoned \cup {slot[w]}
  /\ content' = [content EXCEPT ![w] = "raised"]
  /\ Goto(w, "lookup")
  /\ UNCHANGED <<spoolVars, serviceVars, job, result, slot,
                 used, responses, cached, ledger, owner>>

(* The process ends, by itself, by its timeout or killed at exit, and its
   output is written to the log named after the request.  The log must not
   exist: then, and on any other OSError, the call fails. *)
EndProcess(w) ==
  /\ at[w] = "running"
  /\ \/ /\ Goto(w, "release")
        /\ result' = [result EXCEPT ![w] = "infrastructure_error"]
        /\ logs' \in {logs, logs \cup {job[w]}}
     \/ /\ job[w] \notin logs
        /\ Goto(w, "finish")
        /\ \E o \in ProcessOutcomes : result' = [result EXCEPT ![w] = o]
        /\ logs' = logs \cup {job[w]}
  /\ UNCHANGED <<spoolVars, serviceVars, job, content, slot,
                 used, responses, cached, ledger, abandoned, owner>>

(* Mutant of ReleaseCost: a solve call gives back its pred call only. *)
ReleaseCostPartly(w) ==
  /\ at[w] = "release"
  /\ Release(Cost(content[w]) \cap {"pred_calls"})
  /\ Goto(w, "finish")
  /\ UNCHANGED <<spoolVars, serviceVars, job, content, result, slot,
                 responses, cached, ledger, logs, abandoned, owner>>

(* An infrastructure failure gives the reservation back. *)
ReleaseCost(w) ==
  /\ at[w] = "release"
  /\ Release(Cost(content[w]))
  /\ Goto(w, "finish")
  /\ UNCHANGED <<spoolVars, serviceVars, job, content, result, slot,
                 responses, cached, ledger, logs, abandoned, owner>>

(* Mutant of FinishRecord: the outcome is not written. *)
FinishRecordForgetting(w) ==
  /\ at[w] = "finish"
  /\ cached' = IF result[w] = "completed" THEN cached \cup ({content[w]} \cap Free) ELSE cached
  /\ Goto(w, "keep")
  /\ UNCHANGED <<spoolVars, serviceVars, job, content, result, slot,
                 used, responses, ledger, logs, abandoned, owner>>

(* Mutant of FinishRecord: the outcome is written to the newest record. *)
FinishNewestRecord(w) ==
  /\ at[w] = "finish"
  /\ ledger' = [ledger EXCEPT ![Len(ledger)].outcome = result[w]]
  /\ cached' = IF result[w] = "completed" THEN cached \cup ({content[w]} \cap Free) ELSE cached
  /\ Goto(w, "keep")
  /\ UNCHANGED <<spoolVars, serviceVars, job, content, result, slot,
                 used, responses, logs, abandoned, owner>>

(* Complete the record (its charge is left as it is); cache a free answer. *)
FinishRecord(w) ==
  /\ at[w] = "finish"
  /\ ledger' = [ledger EXCEPT ![slot[w]].outcome = result[w]]
  /\ cached' = IF result[w] = "completed" THEN cached \cup ({content[w]} \cap Free) ELSE cached
  /\ Goto(w, "keep")
  /\ UNCHANGED <<spoolVars, serviceVars, job, content, result, slot,
                 used, responses, logs, abandoned, owner>>

(* Mutant of Keep: the answer is not kept. *)
KeepNothing(w) ==
  /\ at[w] = "keep"
  /\ Goto(w, "reply")
  /\ UNCHANGED <<spoolVars, serviceVars, job, content, result, slot, recordVars, owner>>

(* Keep the answer for replays, over any answer kept meanwhile. *)
Keep(w) ==
  /\ at[w] = "keep"
  /\ responses' = [responses EXCEPT ![job[w]] = [payload |-> content[w], answer |-> result[w]]]
  /\ Goto(w, "reply")
  /\ UNCHANGED <<spoolVars, serviceVars, job, content, result, slot,
                 used, cached, ledger, logs, abandoned, owner>>

Reply(w) ==
  /\ at[w] = "reply"
  /\ outbox' = [outbox EXCEPT ![job[w]] = result[w]]
  /\ Goto(w, "unlink")
  /\ UNCHANGED <<clientVars, inbox, mounted, serviceVars, job, content, result, slot,
                 recordVars, owner>>

(* Unlink the processing file by name: it may be a later request's. *)
UnlinkRequest(w) ==
  /\ at[w] = "unlink"
  /\ processing' = [processing EXCEPT ![job[w]] = "none"]
  /\ Goto(w, "free")
  /\ job' = [job EXCEPT ![w] = "none"]
  /\ content' = [content EXCEPT ![w] = "none"]
  /\ result' = [result EXCEPT ![w] = "none"]
  /\ slot' = [slot EXCEPT ![w] = 0]
  /\ UNCHANGED <<spoolVars, serving, batch, queue, recordVars, owner>>

Work(w) ==
  \/ Start(w) \/ Lookup(w) \/ AnswerAtOnce(w) \/ Admit(w) \/ Refuse(w)
  \/ RecordRefusal(w) \/ RecordCall(w) \/ RecordUnusable(w)
  \/ Launch(w) \/ Raise(w) \/ EndProcess(w) \/ ReleaseCost(w) \/ FinishRecord(w)
  \/ Keep(w) \/ Reply(w) \/ UnlinkRequest(w)

-----------------------------------------------------------------------------
(* The session's owner, in __exit__. *)

Stop ==
  /\ owner = "open"
  /\ owner' = "stopping"
  /\ UNCHANGED <<spoolVars, serviceVars, workerVars, recordVars>>

(* Join the service thread, kill the running processes (EndProcess covers
   their end) and cancel what the pool has not started. *)
ShutDown ==
  /\ owner = "stopping"
  /\ serving = "stopped"
  /\ queue' = <<>>
  /\ owner' = "draining"
  /\ UNCHANGED <<spoolVars, serving, batch, processing, workerVars, recordVars>>

(* Mutant of Close: the pool is shut down without waiting. *)
CloseWithoutWaiting ==
  /\ owner = "draining"
  /\ owner' = "closed"
  /\ UNCHANGED <<spoolVars, serviceVars, workerVars, recordVars>>

(* Every started request has run to its end. *)
Close ==
  /\ owner = "draining"
  /\ \A w \in Worker : at[w] = "free"
  /\ owner' = "closed"
  /\ UNCHANGED <<spoolVars, serviceVars, workerVars, recordVars>>

(* The enclosing submission session removes the directories. *)
Remove ==
  /\ owner = "closed"
  /\ mounted
  /\ Unmount
  /\ UNCHANGED <<serviceVars, workerVars, recordVars, owner>>

Exit == Stop \/ ShutDown \/ Close \/ Remove

Next ==
  \/ \E c \in Client : Pred(c)
  \/ Serve
  \/ \E w \in Worker : Work(w)
  \/ Exit

(* Threads are scheduled and every pred process ends within its timeout;
   an owner that has begun to exit goes on. *)
Fairness ==
  /\ WF_vars(Serve)
  /\ \A w \in Worker : WF_vars(Work(w))
  /\ WF_vars(ShutDown) /\ WF_vars(Close) /\ WF_vars(Remove)

Spec == Init /\ [][Next]_vars /\ Fairness

-----------------------------------------------------------------------------
(* Safety. *)

(* Records that cost counter n and were not given back. *)
Spent(n) ==
  {k \in DOMAIN ledger : /\ ledger[k].charged
                         /\ ledger[k].outcome # "infrastructure_error"
                         /\ n \in Cost(ledger[k].command)}

(* Workers between a reservation and its record, or between a release and
   the record's completion. *)
Reserving(n) == {w \in Worker : at[w] = "record" /\ n \in Cost(content[w])}
Returned(n) ==
  {w \in Worker : at[w] = "finish" /\ result[w] = "infrastructure_error" /\ n \in Cost(content[w])}

(* The counters never drift from the ledger: used is what the records spent,
   corrected by the calls caught between the two.  So no failure leaks a
   reservation or gives one back twice. *)
NoReservationLeaks ==
  \A n \in {"pred_calls", "solve_calls"} :
    used[n] + Cardinality(Returned(n)) = Cardinality(Spent(n)) + Cardinality(Reserving(n))

(* A release never raises: whatever other workers gave back meanwhile, a call
   whose charge is about to be given back is still in the counters. *)
ReleaseNeverRaises ==
  \A w \in Worker : at[w] = "release" => \A n \in Cost(content[w]) : used[n] > 0

(* Once the session is closed no call is still running: every record the
   runner can read is complete, but for those abandoned by an exception. *)
CompleteAtClose ==
  owner = "closed" =>
    \A k \in DOMAIN ledger \ abandoned : ledger[k].outcome # "running"

(* What was published under id i: every turn of every client's retry loop. *)
Publications(i) ==
  {p \in [client : Client, turn : 1 .. MaxTries] :
     id[p.client] = i /\ p.turn <= tries[p.client]}

RecordsOf(i) == [k \in {j \in DOMAIN ledger : ledger[j].id = i} |-> ledger[k]]

(* No publication is recorded twice: an id has as many records as it was
   published, or fewer, however often it is published again, by one client or
   by several, whoever overtakes whom, and whichever calls raise and are
   handled again.  (An abandoned record stays beside the one that its request
   gets when it is handled again.) *)
RecordedOncePerPublication ==
  \A i \in Id :
    Cardinality(DOMAIN RecordsOf(i) \ abandoned) <= Cardinality(Publications(i))

(* A client that was told how its process ended has a record that says so,
   or it or a client that used the same id asked for a free command whose
   answer was cached: clients that share an id share its answer, whatever the
   order in which they publish, are answered and read. *)
EveryResultIsRecorded ==
  \A c \in Client :
    answer[c] \in ProcessOutcomes =>
      \/ \E k \in DOMAIN ledger : ledger[k].id = id[c] /\ ledger[k].outcome = answer[c]
      \/ /\ answer[c] = "completed"
         /\ \E d \in Client : id[d] = id[c] /\ payload[d] \in cached

(* The workers that passed the lookup of id i before an answer was kept, and
   may still record, complete or answer it. *)
Busy(i) == {w \in Worker : job[w] = i /\ at[w] \notin {"lookup", "reply", "unlink"}}

(* Once an answer is kept for an id nobody begins to handle the id anew,
   however often it is published again and under whatever payload.  A retry
   that overtook the first answer may still replace it; when nobody of that
   kind is left, the answer and the records of the id are final. *)
KeptIsFinal ==
  [][\A i \in Id : responses[i].answer # "none" =>
       /\ responses'[i].answer # "none"
       /\ Busy(i)' \subseteq Busy(i)
       /\ Busy(i) = {} => responses'[i] = responses[i] /\ RecordsOf(i)' = RecordsOf(i)]_vars

(* A record whose charge was given back, and which does not say so yet. *)
GivenBack(k) ==
  \E w \in Worker : at[w] = "finish" /\ slot[w] = k /\ result[w] = "infrastructure_error"

(* The ledger as the counters see it. *)
Calls ==
  [k \in DOMAIN ledger |->
     IF GivenBack(k) THEN [ledger[k] EXCEPT !.outcome = "infrastructure_error"] ELSE ledger[k]]

Meter == INSTANCE CallMeter WITH
  Command <- Fingerprint, Price <- [f \in Fingerprint |-> Cost(f)], calls <- Calls

(* The gateway implements the meter: although a call is reserved, recorded,
   run, given back and completed in steps of their own, with other workers'
   steps in between, its ledger is that of calls that begin within the
   allowance, end once and are final then. *)
ImplementsMeter == Meter!Spec

(* The scorer requires the charged records to add up to the used counter.
   It does not hold: a released call keeps its charge. *)
ChargedRecordsMatchStatus ==
  owner = "closed" =>
    used["pred_calls"] = Cardinality({k \in DOMAIN ledger : ledger[k].charged})

-----------------------------------------------------------------------------
(* Liveness, under the fairness of the threads. *)

(* A published request gets an answer unless the session is being left. *)
ServedUnlessStopped ==
  \A i \in Id : inbox[i] # "none" ~> (responses[i].answer # "none" \/ owner # "open")

(* Leaving the gateway completes, whatever the workers are doing. *)
ExitCompletes == owner = "stopping" ~> owner = "closed"

=============================================================================
