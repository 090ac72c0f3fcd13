-------------------------- MODULE PredGateway_proofs --------------------------
(***************************************************************************)
(* Proofs about PredGateway, for every set of clients and ids, every        *)
(* finite pool of workers, every number of retries and every allowance.     *)
(*                                                                         *)
(* Shape is what each thread may rely on at each of its steps; it makes     *)
(* the types inductive.  On it rest, each with the strengthening it needs:  *)
(* the counters agree with the ledger (Ownership), nothing is left running  *)
(* (RunningIsOwned), no publication is recorded twice (InOnePlace counts    *)
(* the places a publication may be in, AbandonedOK tells which records have *)
(* been given up), every answer told is true of the ledger (AnswersBacked), *)
(* and an id whose answer is kept is not handled anew.  Last, every step is *)
(* a step of the call meter: the counters stay within the allowance         *)
(* (WithinAllowance), so a worker that holds a reservation leaves room for  *)
(* the record it appends (Room), and the slots of the workers that gave a   *)
(* charge back are as many as those workers (MeterCharges).                 *)
(***************************************************************************)
EXTENDS PredGateway, FiniteSetTheorems, SequenceTheorems, TLAPS

(* Where a worker owns an open record of the ledger. *)
Holding == {"launch", "running", "release", "finish"}

(* The record a worker owns: open, and its own request's. *)
OwnRecord(w) ==
  /\ content[w] \in Charged \cup Free
  /\ slot[w] \in DOMAIN ledger
  /\ ledger[slot[w]] = [id |-> job[w], command |-> content[w],
                        charged |-> content[w] \in Charged, outcome |-> "running"]

(* What a worker knows at each step. *)
Knows(w) ==
  /\ at[w] = "free" <=> job[w] = "none"
  /\ at[w] # "free" => content[w] \in Fingerprint
  /\ at[w] = "refused" => content[w] \in Charged
  /\ at[w] \in {"refused", "keep", "reply"} => result[w] \in Answers
  /\ at[w] = "finish" => result[w] \in Outcomes
  /\ at[w] = "release" => result[w] = "infrastructure_error"
  /\ at[w] \in Holding => OwnRecord(w)

WorkerOK == \A w \in Worker : Knows(w)

(* No two workers own the same record. *)
Ownership ==
  \A v, w \in Worker : at[v] \in Holding /\ at[w] \in Holding /\ slot[v] = slot[w] => v = w

(* The service thread holds names of files that are there; after it is
   joined nothing starts, and the directories go last. *)
ServiceOK ==
  /\ serving # "sweep" => batch = {}
  /\ \A i \in batch : inbox[i] # "none"
  /\ owner \in {"draining", "closed"} => serving = "stopped" /\ queue = <<>>
  /\ owner = "closed" => \A w \in Worker : at[w] = "free"
  /\ ~mounted => owner = "closed"

(* A client makes one exchange, under one id. *)
ClientOK ==
  \A c \in Client :
    /\ pc[c] = "idle" => id[c] = "none" /\ issued[c] = {} /\ tries[c] = 0
    /\ pc[c] # "idle" =>
         id[c] \in Id /\ issued[c] = {id[c]} /\ payload[c] \in Payload /\ tries[c] # 0
    /\ pc[c] \in {"idle", "polling"} => answer[c] = "none"

Shape == TypeOK /\ WorkerOK /\ Ownership /\ ServiceOK /\ ClientOK

(* What a worker owns has not been abandoned, nor what is yet to be appended. *)
AbandonedOK ==
  /\ abandoned \subseteq DOMAIN ledger
  /\ \A w \in Worker : at[w] \in Holding => slot[w] \notin abandoned

(* A record is open only while a worker owns it, unless it was abandoned. *)
RunningIsOwned ==
  \A k \in DOMAIN ledger \ abandoned :
    ledger[k].outcome = "running" => \E w \in Worker : at[w] \in Holding /\ slot[w] = k

(* Where a publication of id i may be: in the inbox, in the queue, with a
   worker that has yet to record it, or in the ledger. *)
Waiting(i) == IF inbox[i] # "none" THEN 1 ELSE 0
Queued(i) == {p \in DOMAIN queue : queue[p] = i}
Beginning(i) ==
  {w \in Worker : job[w] = i /\ at[w] \in {"lookup", "admit", "record", "refused"}}
Kept(i) == DOMAIN RecordsOf(i) \ abandoned

(* A publication is in one place at most: moving from one to the next, or
   back to a worker when a call raises, never makes two of one. *)
InOnePlace(i) ==
  /\ IsFiniteSet(Publications(i))
  /\ Waiting(i) + Cardinality(Queued(i)) + Cardinality(Beginning(i)) + Cardinality(Kept(i))
       <= Cardinality(Publications(i))

OnceInv == \A i \in Id : InOnePlace(i)

(* A client published payload p under id i. *)
Published(i, p) == \E d \in Client : id[d] = i /\ payload[d] = p

(* Files and fingerprints are what a client published under that id. *)
Provenance ==
  /\ \A i \in Id :
       /\ inbox[i] # "none" => Published(i, inbox[i])
       /\ processing[i] # "none" => Published(i, processing[i])
  /\ \A w \in Worker :
       at[w] # "free" /\ content[w] \notin {"gone", "raised"} => Published(job[w], content[w])

(* An answer for id i that tells how a process ended is true. *)
Backed(i, a) ==
  a \in ProcessOutcomes =>
    \/ \E k \in DOMAIN ledger : ledger[k].id = i /\ ledger[k].outcome = a
    \/ a = "completed" /\ \E d \in Client : id[d] = i /\ payload[d] \in cached

AnswersBacked ==
  /\ \A w \in Worker : at[w] \in {"refused", "keep", "reply"} => Backed(job[w], result[w])
  /\ \A i \in Id : Backed(i, responses[i].answer) /\ Backed(i, outbox[i])
  /\ \A c \in Client : Backed(id[c], answer[c])

-----------------------------------------------------------------------------
(* The ledger, and the workers beside the one that takes a step. *)

(* The ledger as a function when one record is appended. *)
LEMMA AppendLedger ==
  ASSUME TypeOK, NEW r \in Record, ledger' = Append(ledger, r)
  PROVE  /\ ledger' \in Seq(Record)
         /\ DOMAIN ledger' = DOMAIN ledger \cup {Len(ledger) + 1}
         /\ \A k \in DOMAIN ledger : ledger'[k] = ledger[k]
         /\ ledger'[Len(ledger) + 1] = r
         /\ Len(ledger) + 1 \notin DOMAIN ledger
         /\ Len(ledger) + 1 \in Nat
  BY DEF TypeOK

(* The fingerprint of a record that is appended is typed. *)
LEMMA RecordType ==
  ASSUME TypeOK, WorkerOK, NEW w \in Worker, at[w] # "free", NEW charged \in BOOLEAN,
         NEW outcome \in Outcomes \cup {"running", "budget_exhausted"}
  PROVE  [id |-> job[w], command |-> content[w],
          charged |-> charged, outcome |-> outcome] \in Record
  BY DEF TypeOK, WorkerOK, Knows, Record

(* A step of one worker that leaves the others and their records alone. *)
LEMMA OthersKeep ==
  ASSUME WorkerOK, NEW w \in Worker,
         \A v \in Worker \ {w} :
           /\ at'[v] = at[v] /\ job'[v] = job[v] /\ content'[v] = content[v]
           /\ result'[v] = result[v] /\ slot'[v] = slot[v]
           /\ at[v] \in Holding =>
                slot[v] \in DOMAIN ledger' /\ ledger'[slot[v]] = ledger[slot[v]],
         Knows(w)'
  PROVE  WorkerOK'
  <1> SUFFICES ASSUME NEW v \in Worker, v # w PROVE Knows(v)'
    BY DEF WorkerOK
  <1>1. Knows(v)
    BY DEF WorkerOK
  <1>2. QED
    BY <1>1 DEF Knows, OwnRecord

-----------------------------------------------------------------------------
(* Type correctness. *)

LEMMA NoneIsNew == "none" \notin Fingerprint /\ "none" \notin Id /\ "none" \notin Payload
  BY SpoolAssumption DEF Fingerprint

LEMMA InitShape == Init => Shape
  <1> SUFFICES ASSUME Init PROVE Shape
    OBVIOUS
  <1>1. SpoolTypeOK(Answers)
    BY SpoolAssumption DEF Init, SpoolInit, SpoolTypeOK
  <1>2. BudgetTypeOK
    BY DEF Init, BudgetInit, BudgetTypeOK
  <1>3. TypeOK
    BY <1>1, <1>2 DEF Init, TypeOK, WorkerPoint
  <1>4. WorkerOK /\ Ownership
    BY DEF Init, WorkerOK, Knows, Ownership, Holding
  <1>5. ServiceOK /\ ClientOK
    BY DEF Init, SpoolInit, ServiceOK, ClientOK
  <1>6. QED
    BY <1>3, <1>4, <1>5 DEF Shape

(* A step of a client keeps the spool well formed and touches nothing else. *)
LEMMA PredShape ==
  ASSUME Shape, NEW c \in Client, Pred(c)
  PROVE  Shape'
  <1> USE DEF Open, Publish
  <1>1. UNCHANGED <<serviceVars, workerVars, recordVars, owner>>
    BY DEF Pred
  <1>2. SpoolTypeOK(Answers) /\ id[c] \in Id \cup {"none"}
    BY DEF Shape, TypeOK, SpoolTypeOK
  <1>3. SpoolTypeOK(Answers)' /\ ClientOK' /\ mounted' = mounted
        /\ (\A i \in Id : inbox[i] # "none" => inbox'[i] # "none")
    <2> USE <1>2, SpoolAssumption DEF SpoolTypeOK, Shape, ClientOK
    <2>1. ASSUME NEW i \in Id, NEW p \in Payload, NEW pin \in BOOLEAN, Call(c, i, p, pin)
          PROVE  <1>3!:
      BY <2>1 DEF Call
    <2>2. CASE Retry(c)
      <3>1. tries[c] + 1 \in 0 .. MaxTries
        BY <2>2 DEF Retry
      <3>2. tries' \in [Client -> 0 .. MaxTries]
        BY <2>2, <3>1 DEF Retry
      <3>3. inbox' \in [Id -> Payload \cup {"none"}]
        BY <2>2 DEF Retry
      <3>4. QED
        BY <2>2, <3>2, <3>3 DEF Retry
    <2>3. CASE Expire(c)
      BY <2>3 DEF Expire
    <2>4. CASE ReadAnswer(c)
      BY <2>4 DEF ReadAnswer
    <2>5. CASE UnlinkAnswer(c)
      BY <2>5 DEF UnlinkAnswer
    <2>6. QED
      BY <2>1, <2>2, <2>3, <2>4, <2>5 DEF Pred, ClientStep
  <1>4. TypeOK'
    BY <1>1, <1>3 DEF Shape, TypeOK, BudgetTypeOK, serviceVars, workerVars, recordVars
  <1>5. WorkerOK' /\ Ownership'
    BY <1>1 DEF Shape, WorkerOK, Ownership, Knows, OwnRecord, serviceVars, workerVars, recordVars
  <1>6. ServiceOK'
    BY <1>1, <1>3 DEF Shape, TypeOK, ServiceOK, serviceVars, workerVars, recordVars
  <1>7. QED
    BY <1>3, <1>4, <1>5, <1>6 DEF Shape

(* The service thread and the owner. *)
LEMMA DispatchShape ==
  ASSUME Shape, NEW i \in Id, Dispatch(i)
  PROVE  Shape'
  <1>1. /\ processing' \in [Id -> Payload \cup {"none"}]
        /\ inbox' \in [Id -> Payload \cup {"none"}]
        /\ queue' \in Seq(Id)
        /\ batch' \in SUBSET Id
    BY DEF Dispatch, Shape, TypeOK, SpoolTypeOK
  <1>2. TypeOK'
    BY <1>1 DEF Dispatch, Shape, TypeOK, SpoolTypeOK, BudgetTypeOK, clientVars, workerVars, recordVars
  <1>3. WorkerOK' /\ Ownership'
    BY DEF Dispatch, Shape, WorkerOK, Ownership, Knows, OwnRecord, workerVars, recordVars
  <1>4. ServiceOK'
    BY DEF Dispatch, Shape, TypeOK, SpoolTypeOK, ServiceOK, workerVars
  <1>5. ClientOK'
    BY DEF Dispatch, Shape, ClientOK, clientVars
  <1>6. QED
    BY <1>2, <1>3, <1>4, <1>5 DEF Shape

LEMMA ServeShape ==
  ASSUME Shape, Scan \/ EndSweep \/ Leave \/ Exit
  PROVE  Shape'
  <1> USE DEF Scan, EndSweep, Leave, Exit, Stop, ShutDown, Close, Remove, Unmount,
              spoolVars, clientVars, serviceVars, workerVars, recordVars
  <1>1. TypeOK'
    <2> USE DEF Shape, TypeOK, SpoolTypeOK, BudgetTypeOK
    <2>1. CASE Scan
      BY <2>1
    <2>2. CASE EndSweep \/ Leave \/ Stop \/ Close
      <3>1. /\ UNCHANGED <<spoolVars, batch, processing, queue, workerVars, recordVars>>
            /\ serving' \in {"scan", "sweep", "stopped"}
            /\ owner' \in {"open", "stopping", "draining", "closed"}
        BY <2>2
      <3> HIDE DEF Scan, EndSweep, Leave, Exit, Stop, ShutDown, Close, Remove
      <3>2. QED
        BY <3>1
    <2>3. CASE ShutDown
      BY <2>3
    <2>4. CASE Remove
      <3>1. inbox' \in [Id -> Payload \cup {"none"}] /\ outbox' \in [Id -> Answers \cup {"none"}]
        BY <2>4
      <3>2. QED
        BY <2>4, <3>1
    <2>5. QED
      BY <2>1, <2>2, <2>3, <2>4
  <1>2. UNCHANGED <<workerVars, recordVars, clientVars>>
    OBVIOUS
  <1>3. WorkerOK' /\ Ownership' /\ ClientOK'
    BY <1>2 DEF Shape, WorkerOK, Ownership, ClientOK, Knows, OwnRecord
  <1>4. ServiceOK'
    BY DEF Shape, TypeOK, ServiceOK
  <1>5. QED
    BY <1>1, <1>3, <1>4 DEF Shape

(* A worker takes a request, or is done with one. *)
LEMMA StartShape ==
  ASSUME Shape, NEW w \in Worker, Start(w)
  PROVE  Shape'
  <1>1. Head(queue) \in Id /\ queue' \in Seq(Id) /\ queue # <<>>
    BY HeadTailProperties DEF Start, Shape, TypeOK
  <1>2. /\ job' = [job EXCEPT ![w] = Head(queue)]
        /\ content'[w] \in Fingerprint
        /\ content' \in [Worker -> Fingerprint \cup {"none"}]
        /\ at' = [at EXCEPT ![w] = "lookup"]
        /\ \A v \in Worker \ {w} : content'[v] = content[v]
    BY <1>1 DEF Start, Goto, Shape, TypeOK, Fingerprint
  <1>3. TypeOK'
    BY <1>1, <1>2 DEF Start, Shape, TypeOK, SpoolTypeOK, BudgetTypeOK, WorkerPoint,
                      spoolVars, clientVars, recordVars
  <1>4. Knows(w)'
    BY <1>1, <1>2, NoneIsNew DEF Shape, TypeOK, Knows, Holding
  <1>5. WorkerOK'
    BY <1>2, <1>4, OthersKeep DEF Start, Shape, TypeOK, recordVars, WorkerOK, Knows, OwnRecord
  <1>6. Ownership'
    BY <1>2 DEF Start, Shape, TypeOK, Ownership, Holding
  <1>7. ServiceOK' /\ ClientOK'
    BY <1>1, <1>2 DEF Start, Shape, ServiceOK, ClientOK, spoolVars, clientVars
  <1>8. QED
    BY <1>3, <1>5, <1>6, <1>7 DEF Shape

LEMMA UnlinkShape ==
  ASSUME Shape, NEW w \in Worker, UnlinkRequest(w)
  PROVE  Shape'
  <1> USE DEF UnlinkRequest, Goto
  <1>1. TypeOK'
    BY DEF Shape, TypeOK, SpoolTypeOK, BudgetTypeOK, WorkerPoint, spoolVars, clientVars, recordVars
  <1>2. Knows(w)'
    BY DEF Shape, TypeOK, Knows, Holding
  <1>3. WorkerOK'
    BY <1>2, OthersKeep DEF Shape, TypeOK, recordVars, WorkerOK, Knows, OwnRecord
  <1>4. Ownership' /\ ServiceOK' /\ ClientOK'
    BY DEF Shape, TypeOK, Ownership, Holding, ServiceOK, ClientOK, spoolVars, clientVars
  <1>5. QED
    BY <1>1, <1>3, <1>4 DEF Shape

(* A worker that neither takes a request nor appends a record. *)
LEMMA QuietShape ==
  ASSUME Shape, NEW w \in Worker,
         Lookup(w) \/ AnswerAtOnce(w) \/ Refuse(w) \/ Launch(w)
  PROVE  Shape'
  <1> USE DEF Lookup, AnswerAtOnce, Refuse, Launch, Goto
  <1>1. /\ UNCHANGED <<spoolVars, serviceVars, job, content, slot, recordVars, owner>>
        /\ at[w] \in {"lookup", "admit", "launch"}
        /\ \A v \in Worker \ {w} : at'[v] = at[v] /\ result'[v] = result[v]
    BY DEF Shape, TypeOK
  <1>2. job[w] \in Id /\ content[w] \in Fingerprint
    BY <1>1, NoneIsNew DEF Shape, TypeOK, WorkerOK, Knows
  <1>3. Past(w) \in [payload : Fingerprint \cup {"none"}, answer : Answers \cup {"none"}]
    BY <1>2 DEF Past, Shape, TypeOK
  <1>4. /\ at' \in [Worker -> WorkerPoint]
        /\ result' \in [Worker -> Answers \cup {"none"}]
    <2>1. \E p \in WorkerPoint : at' = [at EXCEPT ![w] = p]
      BY DEF WorkerPoint
    <2>2. result' = result \/ \E a \in Answers : result' = [result EXCEPT ![w] = a]
      <3>1. CASE Lookup(w)
        BY <1>3, <3>1 DEF Answers
      <3>2. CASE AnswerAtOnce(w)
        BY <3>2 DEF Answers, Outcomes, ProcessOutcomes
      <3>3. CASE Refuse(w) \/ Launch(w)
        BY <3>3 DEF Answers, Outcomes
      <3>4. QED
        BY <3>1, <3>2, <3>3
    <2> HIDE DEF Lookup, AnswerAtOnce, Refuse, Launch, Goto
    <2>3. at \in [Worker -> WorkerPoint] /\ result \in [Worker -> Answers \cup {"none"}]
      BY DEF Shape, TypeOK
    <2>4. at' \in [Worker -> WorkerPoint]
      BY <2>1, <2>3
    <2>5. result' \in [Worker -> Answers \cup {"none"}]
      BY <2>2, <2>3
    <2>6. QED
      BY <2>4, <2>5
  <1>5. TypeOK'
    BY <1>1, <1>4 DEF Shape, TypeOK, SpoolTypeOK, BudgetTypeOK, spoolVars, clientVars,
                      serviceVars, recordVars
  <1>6. Knows(w)'
    <2>1. Knows(w)
      BY DEF Shape, WorkerOK
    <2>2. QED
      BY <1>1, <1>2, <1>3, <2>1
      DEF Shape, TypeOK, Knows, OwnRecord, Holding, recordVars, Fingerprint,
          Answers, Outcomes, ProcessOutcomes
  <1>7. WorkerOK'
    BY <1>1, <1>6, OthersKeep DEF Shape, recordVars, WorkerOK, Knows, OwnRecord
  <1>8. Ownership'
    <2>1. at'[w] \in Holding => at[w] \in Holding
      BY DEF Shape, TypeOK, Holding
    <2>2. QED
      BY <1>1, <2>1 DEF Shape, Ownership
  <1>9. ServiceOK' /\ ClientOK'
    BY <1>1 DEF Shape, ServiceOK, ClientOK, spoolVars, clientVars, serviceVars
  <1>10. QED
    BY <1>5, <1>7, <1>8, <1>9 DEF Shape

(* A worker that reserves, or gives back, the cost of its request. *)
LEMMA BudgetShape ==
  ASSUME Shape, NEW w \in Worker, Admit(w) \/ ReleaseCost(w)
  PROVE  Shape'
  <1>1. used' \in [Counter -> Nat]
    <2>1. used \in [Counter -> Nat]
      BY DEF Shape, TypeOK, BudgetTypeOK
    <2>2. ASSUME NEW names, Reserve(names) PROVE used' \in [Counter -> Nat]
      BY <2>1, <2>2 DEF Reserve
    <2>3. ASSUME NEW names, Release(names) PROVE used' \in [Counter -> Nat]
      <3>1. \A n \in Counter : (IF n \in names THEN used[n] - 1 ELSE used[n]) \in Nat
        BY <2>1, <2>3 DEF Release
      <3>2. QED
        BY <2>3, <3>1 DEF Release
    <2>4. QED
      BY <2>2, <2>3 DEF Admit, ReleaseCost
  <1>2. /\ UNCHANGED <<spoolVars, serviceVars, job, content, result, slot,
                       responses, cached, ledger, logs, abandoned, owner>>
        /\ \/ at[w] = "admit" /\ at' = [at EXCEPT ![w] = "record"]
           \/ at[w] = "release" /\ at' = [at EXCEPT ![w] = "finish"]
    BY DEF Admit, ReleaseCost, Goto
  <1>3. TypeOK'
    BY <1>1, <1>2 DEF Shape, TypeOK, SpoolTypeOK, BudgetTypeOK, WorkerPoint, spoolVars,
                      clientVars, serviceVars
  <1>4. Knows(w)'
    <2>1. Knows(w)
      BY DEF Shape, WorkerOK
    <2>2. QED
      BY <1>2, <2>1 DEF Shape, TypeOK, Knows, OwnRecord, Holding, Outcomes
  <1>5. WorkerOK'
    BY <1>2, <1>4, OthersKeep DEF Shape, TypeOK, WorkerOK, Knows, OwnRecord
  <1>6. Ownership'
    <2>1. at \in [Worker -> WorkerPoint]
      BY DEF Shape, TypeOK
    <2>2. \A v \in Worker : at'[v] \in Holding => at[v] \in Holding
      BY <1>2, <2>1 DEF Holding
    <2>3. QED
      BY <1>2, <2>2 DEF Shape, Ownership
  <1>7. ServiceOK' /\ ClientOK'
    <2>1. owner # "closed"
      BY <1>2 DEF Shape, ServiceOK
    <2>2. ServiceOK'
      BY <1>2, <2>1 DEF Shape, ServiceOK, spoolVars, clientVars, serviceVars
    <2>3. ClientOK'
      BY <1>2 DEF Shape, ClientOK, spoolVars, clientVars
    <2>4. QED
      BY <2>2, <2>3
  <1>8. QED
    BY <1>3, <1>5, <1>6, <1>7 DEF Shape

(* A worker that appends a record to the ledger. *)
LEMMA RecordStep ==
  ASSUME Shape, NEW w \in Worker, RecordRefusal(w) \/ RecordCall(w) \/ RecordUnusable(w)
  PROVE  \E charged \in BOOLEAN, outcome \in Outcomes \cup {"running", "budget_exhausted"} :
           /\ AppendRecord(w, charged, outcome)
           /\ [id |-> job[w], command |-> content[w],
               charged |-> charged, outcome |-> outcome] \in Record
           /\ \/ /\ RecordRefusal(w)
                 /\ charged = FALSE /\ outcome = "budget_exhausted"
              \/ /\ RecordCall(w)
                 /\ charged = (content[w] \in Charged) /\ outcome = "running"
              \/ /\ RecordUnusable(w)
                 /\ charged = TRUE /\ outcome = "model_error"
  <1>1. at[w] # "free"
    BY DEF RecordRefusal, RecordCall, RecordUnusable
  <1>2. CASE RecordRefusal(w)
    BY <1>1, <1>2, RecordType DEF Shape, RecordRefusal
  <1>3. CASE RecordCall(w)
    <2>1. (content[w] \in Charged) \in BOOLEAN
      OBVIOUS
    <2>2. [id |-> job[w], command |-> content[w],
           charged |-> (content[w] \in Charged), outcome |-> "running"] \in Record
      BY <1>1, <2>1, RecordType DEF Shape
    <2>3. QED
      BY <1>3, <2>1, <2>2 DEF RecordCall
  <1>4. CASE RecordUnusable(w)
    BY <1>1, <1>4, RecordType DEF Shape, RecordUnusable, Outcomes
  <1>5. QED
    BY <1>2, <1>3, <1>4

LEMMA RecordShape ==
  ASSUME Shape, NEW w \in Worker, RecordRefusal(w) \/ RecordCall(w) \/ RecordUnusable(w)
  PROVE  Shape'
  <1> PICK charged \in BOOLEAN, outcome \in Outcomes \cup {"running", "budget_exhausted"} :
             /\ AppendRecord(w, charged, outcome)
             /\ [id |-> job[w], command |-> content[w],
                 charged |-> charged, outcome |-> outcome] \in Record
             /\ \/ /\ RecordRefusal(w)
                   /\ charged = FALSE /\ outcome = "budget_exhausted"
                \/ /\ RecordCall(w)
                   /\ charged = (content[w] \in Charged) /\ outcome = "running"
                \/ /\ RecordUnusable(w)
                   /\ charged = TRUE /\ outcome = "model_error"
    BY RecordStep
  <1> DEFINE r == [id |-> job[w], command |-> content[w], charged |-> charged, outcome |-> outcome]
             top == Len(ledger) + 1
  <1>1. r \in Record
    OBVIOUS
  <1>2. ledger' = Append(ledger, r) /\ slot' = [slot EXCEPT ![w] = top]
    BY DEF AppendRecord
  <1>3. /\ ledger' \in Seq(Record)
        /\ DOMAIN ledger' = DOMAIN ledger \cup {top}
        /\ \A k \in DOMAIN ledger : ledger'[k] = ledger[k]
        /\ ledger'[top] = r
        /\ top \notin DOMAIN ledger
        /\ top \in Nat
    BY <1>1, <1>2, AppendLedger DEF Shape
  <1> HIDE DEF r, top
  <1>4. /\ UNCHANGED <<spoolVars, serviceVars, job, content, used, responses, cached, logs, abandoned, owner>>
        /\ \A v \in Worker \ {w} : at'[v] = at[v] /\ result'[v] = result[v] /\ slot'[v] = slot[v]
        /\ slot'[w] = top
        /\ at[w] # "free"
    BY <1>2 DEF RecordRefusal, RecordCall, RecordUnusable, Goto, Shape, TypeOK
  <1>5. /\ at'[w] \in {"keep", "launch"}
        /\ at'[w] = "keep" => result'[w] \in Answers
        /\ at'[w] = "launch" =>
             /\ content[w] \in Charged \cup Free
             /\ r = [id |-> job[w], command |-> content[w],
                     charged |-> content[w] \in Charged, outcome |-> "running"]
    <2>1. CASE RecordRefusal(w) /\ outcome = "budget_exhausted"
      BY <2>1 DEF RecordRefusal, Goto, Shape, TypeOK, WorkerOK, Knows
    <2>2. CASE RecordCall(w) /\ charged = (content[w] \in Charged) /\ outcome = "running"
      BY <2>2 DEF RecordCall, Goto, Shape, TypeOK, r
    <2>3. CASE RecordUnusable(w)
      BY <2>3 DEF RecordUnusable, Goto, Shape, TypeOK, Answers, Outcomes
    <2>4. QED
      BY <2>1, <2>2, <2>3
  <1>6. /\ at' \in [Worker -> WorkerPoint]
        /\ result' \in [Worker -> Answers \cup {"none"}]
        /\ slot' \in [Worker -> Nat]
    <2>1. at' \in [Worker -> WorkerPoint]
      <3>1. at \in [Worker -> WorkerPoint] /\ "keep" \in WorkerPoint /\ "launch" \in WorkerPoint
        BY DEF Shape, TypeOK, WorkerPoint
      <3>2. at' = [at EXCEPT ![w] = "keep"] \/ at' = [at EXCEPT ![w] = "launch"]
        BY DEF RecordRefusal, RecordCall, RecordUnusable, Goto
      <3>3. QED
        BY <3>1, <3>2
    <2>2. result' \in [Worker -> Answers \cup {"none"}]
      BY DEF RecordRefusal, RecordCall, RecordUnusable, Shape, TypeOK, Answers, Outcomes
    <2>3. slot' \in [Worker -> Nat]
      BY <1>2, <1>3 DEF Shape, TypeOK
    <2>4. QED
      BY <2>1, <2>2, <2>3
  <1>7. TypeOK'
    BY <1>3, <1>4, <1>6 DEF Shape, TypeOK, SpoolTypeOK, BudgetTypeOK, spoolVars, clientVars,
                            serviceVars
  <1>8. Knows(w)'
    <2>1. Knows(w)
      BY DEF Shape, WorkerOK
    <2>2. QED
      BY <1>3, <1>4, <1>5, <2>1 DEF Knows, OwnRecord, Holding
  <1>9. WorkerOK'
    BY <1>3, <1>4, <1>8, OthersKeep DEF Shape, WorkerOK, Knows, OwnRecord
  <1>10. Ownership'
    <2>1. \A v \in Worker \ {w} : at'[v] \in Holding => slot'[v] # slot'[w]
      BY <1>3, <1>4 DEF Shape, WorkerOK, Knows, OwnRecord
    <2>2. QED
      BY <1>4, <2>1 DEF Shape, Ownership
  <1>11. ServiceOK' /\ ClientOK'
    BY <1>4 DEF Shape, ServiceOK, ClientOK, spoolVars, clientVars, serviceVars,
                RecordRefusal, RecordCall, RecordUnusable
  <1>12. QED
    BY <1>7, <1>9, <1>10, <1>11 DEF Shape

(* The process of a call ends. *)
LEMMA EndProcessShape ==
  ASSUME Shape, NEW w \in Worker, EndProcess(w)
  PROVE  Shape'
  <1>1. /\ UNCHANGED <<spoolVars, serviceVars, job, content, slot,
                       used, responses, cached, ledger, abandoned, owner>>
        /\ at[w] = "running"
        /\ logs' \in SUBSET Id
        /\ \E p \in {"release", "finish"}, a \in Outcomes :
             /\ at' = [at EXCEPT ![w] = p]
             /\ result' = [result EXCEPT ![w] = a]
             /\ p = "release" => a = "infrastructure_error"
    <2>1. at[w] = "running" => job[w] \in Id
      BY DEF Shape, TypeOK, WorkerOK, Knows
    <2>2. CASE result' = [result EXCEPT ![w] = "infrastructure_error"] /\ Goto(w, "release")
      BY <2>1, <2>2 DEF EndProcess, Goto, Outcomes, Shape, TypeOK
    <2>3. CASE Goto(w, "finish") /\ \E o \in ProcessOutcomes : result' = [result EXCEPT ![w] = o]
      BY <2>1, <2>3 DEF EndProcess, Goto, Outcomes, Shape, TypeOK
    <2>4. QED
      BY <2>2, <2>3 DEF EndProcess
  <1>2. PICK p \in {"release", "finish"}, a \in Outcomes :
             /\ at' = [at EXCEPT ![w] = p]
             /\ result' = [result EXCEPT ![w] = a]
             /\ p = "release" => a = "infrastructure_error"
    BY <1>1
  <1>3. TypeOK'
    BY <1>1, <1>2 DEF Shape, TypeOK, SpoolTypeOK, BudgetTypeOK, WorkerPoint, Answers, spoolVars,
                      clientVars, serviceVars
  <1>4. Knows(w)'
    <2>1. Knows(w)
      BY DEF Shape, WorkerOK
    <2>2. QED
      BY <1>1, <1>2, <2>1 DEF Shape, TypeOK, Knows, OwnRecord, Holding
  <1>5. WorkerOK'
    BY <1>1, <1>2, <1>4, OthersKeep DEF Shape, TypeOK, WorkerOK, Knows, OwnRecord
  <1>6. Ownership'
    BY <1>1, <1>2 DEF Shape, TypeOK, Ownership, Holding
  <1>7. ServiceOK' /\ ClientOK'
    BY <1>1, <1>2 DEF Shape, TypeOK, ServiceOK, ClientOK, spoolVars, clientVars, serviceVars
  <1>8. QED
    BY <1>3, <1>5, <1>6, <1>7 DEF Shape

(* A call raises: its record is left as it is, for good. *)
LEMMA RaiseShape ==
  ASSUME Shape, NEW w \in Worker, Raise(w)
  PROVE  Shape'
  <1>1. /\ UNCHANGED <<spoolVars, serviceVars, job, result, slot,
                       used, responses, cached, ledger, owner>>
        /\ at[w] \in {"launch", "running"}
        /\ logs' \in {logs, logs \cup {job[w]}}
        /\ abandoned' = abandoned \cup {slot[w]}
        /\ at' = [at EXCEPT ![w] = "lookup"]
        /\ content' = [content EXCEPT ![w] = "raised"]
    BY DEF Raise, Goto
  <1>2. logs' \in SUBSET Id /\ abandoned' \in SUBSET Nat
    <2>1. job[w] \in Id /\ slot[w] \in Nat
      BY <1>1 DEF Shape, TypeOK, WorkerOK, Knows
    <2>2. QED
      BY <1>1, <2>1 DEF Shape, TypeOK
  <1>3. at' \in [Worker -> WorkerPoint] /\ content' \in [Worker -> Fingerprint \cup {"none"}]
    <2>1. at \in [Worker -> WorkerPoint] /\ content \in [Worker -> Fingerprint \cup {"none"}]
          /\ "lookup" \in WorkerPoint /\ "raised" \in Fingerprint
      BY DEF Shape, TypeOK, WorkerPoint, Fingerprint
    <2>2. QED
      BY <1>1, <2>1
  <1>4. TypeOK'
    BY <1>1, <1>2, <1>3 DEF Shape, TypeOK, SpoolTypeOK, BudgetTypeOK, spoolVars, clientVars,
                            serviceVars
  <1>5. Knows(w)'
    BY <1>1 DEF Shape, TypeOK, WorkerOK, Knows, Holding, Fingerprint
  <1>6. WorkerOK'
    BY <1>1, <1>5, OthersKeep DEF Shape, TypeOK, WorkerOK, Knows, OwnRecord
  <1>7. Ownership'
    BY <1>1 DEF Shape, TypeOK, Ownership, Holding
  <1>8. ServiceOK' /\ ClientOK'
    BY <1>1 DEF Shape, TypeOK, ServiceOK, ClientOK, spoolVars, clientVars, serviceVars
  <1>9. QED
    BY <1>4, <1>6, <1>7, <1>8 DEF Shape

(* What completing a record does to the ledger. *)
LEMMA FinishLedger ==
  ASSUME Shape, NEW w \in Worker, FinishRecord(w)
  PROVE  /\ ledger' \in Seq(Record)
         /\ DOMAIN ledger' = DOMAIN ledger
         /\ slot[w] \in DOMAIN ledger
         /\ result[w] \in Outcomes
         /\ \A k \in DOMAIN ledger : k # slot[w] => ledger'[k] = ledger[k]
         /\ ledger'[slot[w]] = [ledger[slot[w]] EXCEPT !.outcome = result[w]]
  <1>1. slot[w] \in DOMAIN ledger /\ result[w] \in Outcomes
    BY DEF Shape, WorkerOK, Knows, OwnRecord, Holding, FinishRecord
  <1>2. ledger \in Seq(Record)
    BY DEF Shape, TypeOK
  <1>3. [ledger[slot[w]] EXCEPT !.outcome = result[w]] \in Record
    <2>1. ledger[slot[w]] \in Record
      BY <1>1, <1>2
    <2>2. QED
      BY <1>1, <2>1 DEF Record
  <1>4. QED
    BY <1>1, <1>2, <1>3 DEF FinishRecord

LEMMA FinishShape ==
  ASSUME Shape, NEW w \in Worker, FinishRecord(w)
  PROVE  Shape'
  <1> USE DEF FinishRecord, Goto
  <1>1. /\ ledger' \in Seq(Record)
        /\ DOMAIN ledger' = DOMAIN ledger
        /\ result[w] \in Outcomes
        /\ \A k \in DOMAIN ledger : k # slot[w] => ledger'[k] = ledger[k]
    BY FinishLedger
  <1>2. TypeOK'
    BY <1>1 DEF Shape, TypeOK, SpoolTypeOK, BudgetTypeOK, WorkerPoint, spoolVars,
                clientVars, serviceVars
  <1>3. Knows(w)'
    <2>1. Knows(w)
      BY DEF Shape, WorkerOK
    <2>2. QED
      BY <1>1, <2>1 DEF Shape, TypeOK, Knows, Holding, Answers
  <1>4. \A v \in Worker \ {w} : at[v] \in Holding =>
          slot[v] \in DOMAIN ledger /\ slot[v] # slot[w]
    BY DEF Shape, Ownership, Holding, WorkerOK, Knows, OwnRecord
  <1>5. WorkerOK'
    BY <1>1, <1>3, <1>4, OthersKeep DEF Shape, TypeOK
  <1>6. Ownership' /\ ServiceOK' /\ ClientOK'
    BY DEF Shape, TypeOK, Ownership, Holding, ServiceOK, ClientOK, spoolVars, clientVars,
           serviceVars
  <1>7. QED
    BY <1>2, <1>5, <1>6 DEF Shape

(* A worker keeps its answer and writes it. *)
LEMMA AnswerShape ==
  ASSUME Shape, NEW w \in Worker, Keep(w) \/ Reply(w)
  PROVE  Shape'
  <1> USE DEF Keep, Reply, Goto
  <1>1. job[w] \in Id /\ content[w] \in Fingerprint /\ result[w] \in Answers
    BY DEF Shape, TypeOK, WorkerOK, Knows
  <1>2. /\ UNCHANGED <<clientVars, inbox, mounted, serviceVars, job, content, result, slot,
                       used, cached, ledger, logs, abandoned, owner>>
        /\ \/ at[w] = "keep" /\ at' = [at EXCEPT ![w] = "reply"]
           \/ at[w] = "reply" /\ at' = [at EXCEPT ![w] = "unlink"]
        /\ outbox' \in [Id -> Answers \cup {"none"}]
        /\ responses' \in [Id -> [payload : Fingerprint \cup {"none"}, answer : Answers \cup {"none"}]]
    <2>1. outbox \in [Id -> Answers \cup {"none"}]
      BY DEF Shape, TypeOK, SpoolTypeOK
    <2>2. responses \in [Id -> [payload : Fingerprint \cup {"none"}, answer : Answers \cup {"none"}]]
      BY DEF Shape, TypeOK
    <2>3. CASE Keep(w)
      <3>1. [payload |-> content[w], answer |-> result[w]]
              \in [payload : Fingerprint \cup {"none"}, answer : Answers \cup {"none"}]
        BY <1>1
      <3>2. QED
        BY <2>1, <2>2, <2>3, <3>1 DEF spoolVars
    <2>4. CASE Reply(w)
      BY <1>1, <2>1, <2>2, <2>4 DEF recordVars
    <2>5. QED
      BY <2>3, <2>4
  <1> HIDE DEF Keep, Reply, Goto
  <1>3. TypeOK'
    <2>1. at' \in [Worker -> WorkerPoint]
      <3>1. at \in [Worker -> WorkerPoint] /\ "reply" \in WorkerPoint /\ "unlink" \in WorkerPoint
        BY DEF Shape, TypeOK, WorkerPoint
      <3>2. QED
        BY <1>2, <3>1
    <2>2. SpoolTypeOK(Answers)'
      BY <1>2 DEF Shape, TypeOK, SpoolTypeOK, clientVars
    <2>3. QED
      BY <1>2, <2>1, <2>2 DEF Shape, TypeOK, BudgetTypeOK, serviceVars
  <1>4. Knows(w)'
    <2>1. Knows(w)
      BY DEF Shape, WorkerOK
    <2>2. QED
      BY <1>2, <2>1 DEF Shape, TypeOK, Knows, Holding
  <1>5. WorkerOK'
    BY <1>2, <1>4, OthersKeep DEF Shape, TypeOK, WorkerOK, Knows, OwnRecord
  <1>6. Ownership'
    <2>1. at \in [Worker -> WorkerPoint]
      BY DEF Shape, TypeOK
    <2>2. \A v \in Worker : at'[v] \in Holding => at[v] \in Holding
      BY <1>2, <2>1 DEF Holding
    <2>3. QED
      BY <1>2, <2>2 DEF Shape, Ownership
  <1>7. ServiceOK' /\ ClientOK'
    <2>1. owner # "closed"
      BY <1>2 DEF Shape, ServiceOK
    <2>2. ServiceOK'
      BY <1>2, <2>1 DEF Shape, ServiceOK, clientVars, serviceVars
    <2>3. ClientOK'
      BY <1>2 DEF Shape, ClientOK, clientVars
    <2>4. QED
      BY <2>2, <2>3
  <1>8. QED
    BY <1>3, <1>5, <1>6, <1>7 DEF Shape

LEMMA ShapeInductive == Shape /\ [Next]_vars => Shape'
  <1> SUFFICES ASSUME Shape, [Next]_vars PROVE Shape'
    OBVIOUS
  <1>1. ASSUME NEW c \in Client, Pred(c)
        PROVE  Shape'
    BY <1>1, PredShape
  <1>2. CASE Serve \/ Exit
    BY <1>2, DispatchShape, ServeShape DEF Serve
  <1>3. ASSUME NEW w \in Worker, Work(w)
        PROVE  Shape'
    BY <1>3, StartShape, UnlinkShape, QuietShape, BudgetShape, RecordShape, EndProcessShape,
       RaiseShape, FinishShape, AnswerShape DEF Work
  <1>4. CASE UNCHANGED vars
    BY <1>4 DEF vars, spoolVars, clientVars, serviceVars, workerVars, recordVars, Shape, TypeOK,
                SpoolTypeOK, BudgetTypeOK, WorkerOK, Knows, OwnRecord, Ownership, ServiceOK, ClientOK
  <1>5. QED
    BY <1>1, <1>2, <1>3, <1>4 DEF Next

(* TypeOK is an invariant of the gateway: no interleaving of clients, service
   thread, workers and owner takes a variable out of its range; in
   particular no counter is released below zero and every record a worker
   completes exists. *)
THEOREM TypeCorrect == Spec => []TypeOK
  <1>1. Shape => TypeOK
    BY DEF Shape
  <1>2. QED
    BY <1>1, InitShape, ShapeInductive, PTL DEF Spec

-----------------------------------------------------------------------------
(* The counters agree with the ledger. *)

Spending == {"pred_calls", "solve_calls"}

Balance(n) == used[n] + Cardinality(Returned(n)) = Cardinality(Spent(n)) + Cardinality(Reserving(n))

LEMMA CostFacts ==
  /\ \A f : Cost(f) \subseteq Spending
  /\ \A f \in Charged \cup Free : Cost(f) # {} => f \in Charged
  /\ Spending \subseteq Counter
  BY DEF Cost, Charged, Free, Unusable, Invalid, Spending, Counter

LEMMA FiniteCounts ==
  ASSUME Shape, NEW n
  PROVE  /\ IsFiniteSet(Returned(n)) /\ Cardinality(Returned(n)) \in Nat
         /\ IsFiniteSet(Reserving(n)) /\ Cardinality(Reserving(n)) \in Nat
         /\ IsFiniteSet(Spent(n)) /\ Cardinality(Spent(n)) \in Nat
         /\ n \in Spending => used[n] \in Nat
  <1>1. IsFiniteSet(Worker)
    BY GatewayAssumption
  <1>2. Returned(n) \subseteq Worker /\ Reserving(n) \subseteq Worker
    BY DEF Returned, Reserving
  <1>3. IsFiniteSet(DOMAIN ledger)
    <2>1. ledger \in Seq(Record)
      BY DEF Shape, TypeOK
    <2>2. Len(ledger) \in Nat /\ DOMAIN ledger = 1 .. Len(ledger)
      BY <2>1, LenProperties
    <2>3. QED
      BY <2>2, FS_Interval
  <1>4. Spent(n) \subseteq DOMAIN ledger
    BY DEF Spent
  <1>5. IsFiniteSet(Returned(n)) /\ IsFiniteSet(Reserving(n)) /\ IsFiniteSet(Spent(n))
    BY <1>1, <1>2, <1>3, <1>4, FS_Subset
  <1>6. n \in Spending => used[n] \in Nat
    BY CostFacts DEF Shape, TypeOK, BudgetTypeOK
  <1>7. QED
    BY <1>5, <1>6, FS_CardinalityType

LEMMA CountAdded ==
  ASSUME NEW S, IsFiniteSet(S), NEW x, x \notin S
  PROVE  Cardinality(S \cup {x}) = Cardinality(S) + 1
  BY FS_AddElement

LEMMA CountRemoved ==
  ASSUME NEW S, IsFiniteSet(S), NEW x \in S
  PROVE  Cardinality(S) = Cardinality(S \ {x}) + 1 /\ Cardinality(S \ {x}) \in Nat
  <1>1. Cardinality(S \ {x}) = Cardinality(S) - 1 /\ Cardinality(S) \in Nat
    BY FS_RemoveElement, FS_CardinalityType
  <1>2. IsFiniteSet(S \ {x})
    BY FS_RemoveElement
  <1>3. QED
    BY <1>1, <1>2, FS_CardinalityType

(* Steps that move no cost. *)
LEMMA QuietBalance ==
  ASSUME Shape, NEW w \in Worker, NEW n \in Spending,
         \/ Start(w) \/ Lookup(w) \/ AnswerAtOnce(w) \/ Refuse(w) \/ Launch(w) \/ Raise(w)
         \/ EndProcess(w) \/ Keep(w) \/ Reply(w) \/ UnlinkRequest(w)
  PROVE  /\ UNCHANGED used
         /\ Spent(n)' = Spent(n)
         /\ Reserving(n)' = Reserving(n)
         /\ Returned(n)' = Returned(n)
  <1> USE DEF Start, Lookup, AnswerAtOnce, Refuse, Launch, Raise, EndProcess, Keep, Reply,
              UnlinkRequest, Goto
  <1>1. UNCHANGED <<used, ledger>>
    BY DEF recordVars
  <1>2. /\ at[w] \notin {"record", "finish"}
        /\ at'[w] # "record"
        /\ at'[w] = "finish" => result'[w] # "infrastructure_error"
        /\ \A v \in Worker \ {w} : at'[v] = at[v] /\ content'[v] = content[v] /\ result'[v] = result[v]
    <2>1. at \in [Worker -> WorkerPoint] /\ result \in [Worker -> Answers \cup {"none"}]
          /\ content \in [Worker -> Fingerprint \cup {"none"}]
      BY DEF Shape, TypeOK
    <2>2. CASE EndProcess(w)
      BY <2>1, <2>2 DEF ProcessOutcomes
    <2>3. CASE Launch(w)
      BY <2>1, <2>3
    <2>4. CASE \/ Start(w) \/ Lookup(w) \/ AnswerAtOnce(w) \/ Refuse(w) \/ Raise(w)
               \/ Keep(w) \/ Reply(w) \/ UnlinkRequest(w)
      BY <2>1, <2>4
    <2>5. QED
      BY <2>2, <2>3, <2>4
  <1> HIDE DEF Start, Lookup, AnswerAtOnce, Refuse, Launch, Raise, EndProcess, Keep, Reply,
              UnlinkRequest, Goto
  <1>3. Spent(n)' = Spent(n)
    BY <1>1 DEF Spent
  <1>4. Reserving(n)' = Reserving(n) /\ Returned(n)' = Returned(n)
    BY <1>2 DEF Reserving, Returned
  <1>5. QED
    BY <1>1, <1>3, <1>4

(* A reservation is counted by the worker until it is recorded. *)
LEMMA AdmitBalance ==
  ASSUME Shape, NEW w \in Worker, NEW n \in Spending, Admit(w), Balance(n)
  PROVE  Balance(n)'
  <1>1. Spent(n)' = Spent(n) /\ Returned(n)' = Returned(n)
    BY DEF Admit, Goto, Shape, TypeOK, Spent, Returned
  <1>2. w \notin Reserving(n)
    BY DEF Admit, Reserving
  <1>3. Reserving(n)' = IF n \in Cost(content[w]) THEN Reserving(n) \cup {w} ELSE Reserving(n)
    BY DEF Admit, Goto, Shape, TypeOK, Reserving
  <1>4. used'[n] = IF n \in Cost(content[w]) THEN used[n] + 1 ELSE used[n]
    BY CostFacts DEF Admit, Reserve
  <1>5. /\ Cardinality(Returned(n)) \in Nat /\ used[n] \in Nat
        /\ Cardinality(Spent(n)) \in Nat /\ Cardinality(Reserving(n)) \in Nat
        /\ IsFiniteSet(Reserving(n))
    BY FiniteCounts
  <1>6. CASE n \in Cost(content[w])
    <2>1. Cardinality(Reserving(n)') = Cardinality(Reserving(n)) + 1
      BY <1>2, <1>3, <1>5, <1>6, CountAdded
    <2>2. QED
      BY <1>1, <1>4, <1>5, <1>6, <2>1 DEF Balance
  <1>7. CASE n \notin Cost(content[w])
    BY <1>1, <1>3, <1>4, <1>7 DEF Balance
  <1>8. QED
    BY <1>6, <1>7

(* A release is counted by the worker until it is recorded. *)
LEMMA ReleaseBalance ==
  ASSUME Shape, NEW w \in Worker, NEW n \in Spending, ReleaseCost(w), Balance(n)
  PROVE  Balance(n)'
  <1>1. Spent(n)' = Spent(n) /\ Reserving(n)' = Reserving(n)
    BY DEF ReleaseCost, Goto, Shape, TypeOK, Spent, Reserving
  <1>2. w \notin Returned(n) /\ result[w] = "infrastructure_error"
    BY DEF ReleaseCost, Returned, Shape, WorkerOK, Knows
  <1>3. Returned(n)' = IF n \in Cost(content[w]) THEN Returned(n) \cup {w} ELSE Returned(n)
    BY <1>2 DEF ReleaseCost, Goto, Shape, TypeOK, Returned
  <1>4. /\ n \in Cost(content[w]) => used'[n] = used[n] - 1
        /\ n \notin Cost(content[w]) => used'[n] = used[n]
    BY CostFacts DEF ReleaseCost, Release
  <1>5. /\ Cardinality(Returned(n)) \in Nat /\ used[n] \in Nat
        /\ Cardinality(Spent(n)) \in Nat /\ Cardinality(Reserving(n)) \in Nat
        /\ IsFiniteSet(Returned(n))
    BY FiniteCounts
  <1>6. CASE n \in Cost(content[w])
    <2>1. Cardinality(Returned(n)') = Cardinality(Returned(n)) + 1
      BY <1>2, <1>3, <1>5, <1>6, CountAdded
    <2>2. used'[n] = used[n] - 1
      BY <1>4, <1>6
    <2>3. used'[n] + Cardinality(Returned(n)') = used[n] + Cardinality(Returned(n))
      BY <1>5, <2>1, <2>2
    <2>4. QED
      BY <1>1, <2>3 DEF Balance
  <1>7. CASE n \notin Cost(content[w])
    BY <1>1, <1>3, <1>4, <1>7 DEF Balance
  <1>8. QED
    BY <1>6, <1>7

(* The record takes the cost over from the worker. *)
LEMMA RecordBalance ==
  ASSUME Shape, NEW w \in Worker, NEW n \in Spending,
         RecordRefusal(w) \/ RecordCall(w) \/ RecordUnusable(w), Balance(n)
  PROVE  Balance(n)'
  <1> PICK charged \in BOOLEAN, outcome \in Outcomes \cup {"running", "budget_exhausted"} :
             /\ AppendRecord(w, charged, outcome)
             /\ [id |-> job[w], command |-> content[w],
                 charged |-> charged, outcome |-> outcome] \in Record
             /\ \/ /\ RecordRefusal(w)
                   /\ charged = FALSE /\ outcome = "budget_exhausted"
                \/ /\ RecordCall(w)
                   /\ charged = (content[w] \in Charged) /\ outcome = "running"
                \/ /\ RecordUnusable(w)
                   /\ charged = TRUE /\ outcome = "model_error"
    BY RecordStep
  <1> DEFINE r == [id |-> job[w], command |-> content[w], charged |-> charged, outcome |-> outcome]
             top == Len(ledger) + 1
             moves == at[w] = "record" /\ n \in Cost(content[w])
  <1>1. /\ DOMAIN ledger' = DOMAIN ledger \cup {top}
        /\ \A k \in DOMAIN ledger : ledger'[k] = ledger[k]
        /\ ledger'[top] = r
        /\ top \notin DOMAIN ledger
    BY AppendLedger DEF Shape, AppendRecord
  <1>2. r.charged = charged /\ r.command = content[w] /\ r.outcome = outcome
    OBVIOUS
  <1>3. /\ used' = used
        /\ content' = content
        /\ at[w] \in {"record", "refused"}
        /\ \E p \in {"keep", "launch"} : at' = [at EXCEPT ![w] = p]
        /\ \A v \in Worker \ {w} : result'[v] = result[v]
    BY DEF RecordRefusal, RecordCall, RecordUnusable, Goto, Shape, TypeOK
  <1>4. moves => charged = TRUE /\ outcome # "infrastructure_error"
    BY CostFacts DEF RecordRefusal, RecordCall, RecordUnusable
  <1>5. ~moves => charged = FALSE \/ n \notin Cost(content[w])
    BY DEF RecordRefusal, RecordCall, RecordUnusable
  <1> HIDE DEF r, top
  <1>6. Spent(n)' = IF moves THEN Spent(n) \cup {top} ELSE Spent(n)
    BY <1>1, <1>2, <1>4, <1>5 DEF Spent
  <1>7. top \notin Spent(n)
    BY <1>1 DEF Spent
  <1>8. at \in [Worker -> WorkerPoint]
    BY DEF Shape, TypeOK
  <1>9. Returned(n)' = Returned(n)
    BY <1>3, <1>8 DEF Returned
  <1>10. /\ moves => w \in Reserving(n) /\ Reserving(n)' = Reserving(n) \ {w}
         /\ ~moves => Reserving(n)' = Reserving(n)
    BY <1>3, <1>8 DEF Reserving
  <1>11. /\ Cardinality(Returned(n)) \in Nat /\ used[n] \in Nat
         /\ Cardinality(Spent(n)) \in Nat /\ Cardinality(Reserving(n)) \in Nat
         /\ IsFiniteSet(Spent(n)) /\ IsFiniteSet(Reserving(n))
    BY FiniteCounts
  <1> HIDE DEF moves
  <1>12. CASE moves
    <2>1. Cardinality(Spent(n)') = Cardinality(Spent(n)) + 1
      BY <1>6, <1>7, <1>11, <1>12, CountAdded
    <2>2. Cardinality(Reserving(n)) = Cardinality(Reserving(n)') + 1
          /\ Cardinality(Reserving(n)') \in Nat
      BY <1>10, <1>11, <1>12, CountRemoved
    <2>3. QED
      BY <1>3, <1>9, <1>11, <2>1, <2>2 DEF Balance
  <1>13. CASE ~moves
    BY <1>3, <1>6, <1>9, <1>10, <1>13 DEF Balance
  <1>14. QED
    BY <1>12, <1>13

(* A record that is completed as given back no longer counts. *)
LEMMA FinishBalance ==
  ASSUME Shape, NEW w \in Worker, NEW n \in Spending, FinishRecord(w), Balance(n)
  PROVE  Balance(n)'
  <1> DEFINE moves == result[w] = "infrastructure_error" /\ n \in Cost(content[w])
             k == slot[w]
  <1>1. /\ DOMAIN ledger' = DOMAIN ledger
        /\ k \in DOMAIN ledger
        /\ \A l \in DOMAIN ledger : l # k => ledger'[l] = ledger[l]
        /\ ledger'[k] = [ledger[k] EXCEPT !.outcome = result[w]]
    BY FinishLedger
  <1>2. /\ content[w] \in Charged \cup Free
        /\ ledger[k] = [id |-> job[w], command |-> content[w],
                        charged |-> content[w] \in Charged, outcome |-> "running"]
    BY DEF Shape, WorkerOK, Knows, OwnRecord, Holding, FinishRecord
  <1>3. /\ ledger[k].outcome = "running" /\ ledger'[k].outcome = result[w]
        /\ ledger'[k].command = content[w] /\ ledger[k].command = content[w]
        /\ ledger'[k].charged = ledger[k].charged
        /\ ledger[k].charged = (content[w] \in Charged)
    BY <1>1, <1>2
  <1>4. at \in [Worker -> WorkerPoint]
    BY DEF Shape, TypeOK
  <1>5. used' = used /\ Reserving(n)' = Reserving(n)
    BY <1>4 DEF FinishRecord, Goto, Reserving
  <1>6. /\ moves => w \in Returned(n) /\ Returned(n)' = Returned(n) \ {w}
        /\ ~moves => Returned(n)' = Returned(n)
    BY <1>4 DEF FinishRecord, Goto, Returned
  <1>7. n \in Cost(content[w]) => ledger[k].charged
    BY <1>2, <1>3, CostFacts
  <1> HIDE DEF k
  <1>8. /\ moves => k \in Spent(n) /\ Spent(n)' = Spent(n) \ {k}
        /\ ~moves => Spent(n)' = Spent(n)
    <2>1. \A l : l # k => (l \in Spent(n)' <=> l \in Spent(n))
      BY <1>1 DEF Spent
    <2>2. k \in Spent(n) <=> n \in Cost(content[w])
      BY <1>1, <1>3, <1>7 DEF Spent
    <2>3. k \in Spent(n)' <=> n \in Cost(content[w]) /\ result[w] # "infrastructure_error"
      BY <1>1, <1>3, <1>7 DEF Spent
    <2>4. QED
      BY <2>1, <2>2, <2>3
  <1>9. /\ Cardinality(Returned(n)) \in Nat /\ used[n] \in Nat
        /\ Cardinality(Spent(n)) \in Nat /\ Cardinality(Reserving(n)) \in Nat
        /\ IsFiniteSet(Spent(n)) /\ IsFiniteSet(Returned(n))
    BY FiniteCounts
  <1> HIDE DEF moves
  <1>10. CASE moves
    <2>1. Cardinality(Spent(n)) = Cardinality(Spent(n)') + 1
          /\ Cardinality(Spent(n)') \in Nat
      BY <1>8, <1>9, <1>10, CountRemoved
    <2>2. Cardinality(Returned(n)) = Cardinality(Returned(n)') + 1
          /\ Cardinality(Returned(n)') \in Nat
      BY <1>6, <1>9, <1>10, CountRemoved
    <2>3. QED
      BY <1>5, <1>9, <2>1, <2>2 DEF Balance
  <1>11. CASE ~moves
    BY <1>5, <1>6, <1>8, <1>11 DEF Balance
  <1>12. QED
    BY <1>10, <1>11

(* The used counters never drift from the ledger, whatever fails and however
   the workers interleave: a reservation is recorded once, and given back
   once. *)
THEOREM CountersMatchLedger == Spec => []NoReservationLeaks
  <1>1. NoReservationLeaks <=> \A n \in Spending : Balance(n)
    BY DEF NoReservationLeaks, Spending, Balance
  <1>2. Init => NoReservationLeaks
    <2> SUFFICES ASSUME Init, NEW n \in Spending PROVE Balance(n)
      BY <1>1
    <2>1. used[n] = 0
      BY CostFacts DEF Init, BudgetInit
    <2>2. Returned(n) = {} /\ Reserving(n) = {} /\ Spent(n) = {}
      BY DEF Init, Returned, Reserving, Spent
    <2>3. QED
      BY <2>1, <2>2, FS_EmptySet DEF Balance
  <1>3. Shape /\ NoReservationLeaks /\ [Next]_vars => NoReservationLeaks'
    <2> SUFFICES ASSUME Shape, NoReservationLeaks, [Next]_vars, NEW n \in Spending
                 PROVE  Balance(n)'
      BY <1>1 DEF NoReservationLeaks, Spending, Balance
    <2>1. Balance(n)
      BY <1>1
    <2>2. ASSUME NEW w \in Worker, Work(w)
          PROVE  Balance(n)'
      <3>1. CASE \/ Start(w) \/ Lookup(w) \/ AnswerAtOnce(w) \/ Refuse(w) \/ Launch(w) \/ Raise(w)
                 \/ EndProcess(w) \/ Keep(w) \/ Reply(w) \/ UnlinkRequest(w)
        BY <2>1, <3>1, QuietBalance DEF Balance
      <3>2. QED
        BY <2>1, <2>2, <3>1, AdmitBalance, RecordBalance, ReleaseBalance, FinishBalance DEF Work
    <2>3. CASE UNCHANGED <<workerVars, recordVars>>
      BY <2>1, <2>3 DEF Balance, Returned, Reserving, Spent, workerVars, recordVars
    <2>4. CASE UNCHANGED vars \/ Serve \/ Exit \/ \E c \in Client : Pred(c)
      BY <2>3, <2>4 DEF vars, Serve, Scan, Dispatch, EndSweep, Leave, Exit, Stop, ShutDown, Close,
                        Remove, Pred
    <2>5. QED
      BY <2>2, <2>4 DEF Next
  <1>4. QED
    BY <1>2, <1>3, InitShape, ShapeInductive, PTL DEF Spec

-----------------------------------------------------------------------------
(* What a step may do to the workers and to the ledger. *)

LEMMA WorkFrame ==
  ASSUME Shape, NEW w \in Worker, Work(w)
  PROVE  \A v \in Worker \ {w} :
           /\ at'[v] = at[v] /\ job'[v] = job[v] /\ content'[v] = content[v]
           /\ result'[v] = result[v] /\ slot'[v] = slot[v]
  <1> USE DEF Goto, Shape, TypeOK
  <1>1. CASE Start(w) \/ Lookup(w) \/ AnswerAtOnce(w) \/ Refuse(w) \/ Launch(w) \/ Raise(w)
    BY <1>1 DEF Start, Lookup, AnswerAtOnce, Refuse, Launch, Raise
  <1>2. CASE RecordRefusal(w) \/ RecordCall(w) \/ RecordUnusable(w)
    BY <1>2 DEF RecordRefusal, RecordCall, RecordUnusable, AppendRecord
  <1>3. CASE EndProcess(w)
    BY <1>3 DEF EndProcess
  <1>4. CASE Admit(w) \/ ReleaseCost(w) \/ FinishRecord(w) \/ Keep(w) \/ Reply(w)
    BY <1>4 DEF Admit, ReleaseCost, FinishRecord, Keep, Reply
  <1>5. CASE UnlinkRequest(w)
    BY <1>5 DEF UnlinkRequest
  <1>6. QED
    BY <1>1, <1>2, <1>3, <1>4, <1>5 DEF Work

LEMMA OtherSteps ==
  ASSUME [Next]_vars
  PROVE  (\E w \in Worker : Work(w)) \/ UNCHANGED <<workerVars, recordVars>>
  BY DEF Next, vars, Pred, Serve, Scan, Dispatch, EndSweep, Leave, Exit, Stop, ShutDown, Close, Remove

(* The ledger changes only when a worker appends or completes a record. *)
LEMMA LedgerWriters ==
  ASSUME NEW w \in Worker, Work(w)
  PROVE  \/ ledger' = ledger
         \/ RecordRefusal(w) \/ RecordCall(w) \/ RecordUnusable(w)
         \/ FinishRecord(w)
  BY DEF Work, Start, Lookup, AnswerAtOnce, Admit, Refuse, Launch, Raise, EndProcess, ReleaseCost,
         Keep, Reply, UnlinkRequest, recordVars

(* The record a worker appends. *)
LEMMA NewRecord ==
  ASSUME Shape, NEW w \in Worker, RecordRefusal(w) \/ RecordCall(w) \/ RecordUnusable(w)
  PROVE  /\ DOMAIN ledger' = DOMAIN ledger \cup {Len(ledger) + 1}
         /\ Len(ledger) + 1 \notin DOMAIN ledger
         /\ \A k \in DOMAIN ledger : ledger'[k] = ledger[k]
         /\ ledger'[Len(ledger) + 1].id = job[w]
         /\ ledger'[Len(ledger) + 1].command = content[w]
         /\ ledger'[Len(ledger) + 1].outcome = "running" => at'[w] = "launch"
         /\ slot'[w] = Len(ledger) + 1
         /\ at[w] \in {"record", "refused"}
         /\ at'[w] \in {"launch", "keep"}
         /\ UNCHANGED <<spoolVars, serviceVars, job, content, used, responses, cached, logs, abandoned, owner>>
  <1> PICK charged \in BOOLEAN, outcome \in Outcomes \cup {"running", "budget_exhausted"} :
             /\ AppendRecord(w, charged, outcome)
             /\ [id |-> job[w], command |-> content[w],
                 charged |-> charged, outcome |-> outcome] \in Record
             /\ \/ /\ RecordRefusal(w)
                   /\ charged = FALSE /\ outcome = "budget_exhausted"
                \/ /\ RecordCall(w)
                   /\ charged = (content[w] \in Charged) /\ outcome = "running"
                \/ /\ RecordUnusable(w)
                   /\ charged = TRUE /\ outcome = "model_error"
    BY RecordStep
  <1> DEFINE r == [id |-> job[w], command |-> content[w], charged |-> charged, outcome |-> outcome]
             top == Len(ledger) + 1
  <1>1. /\ DOMAIN ledger' = DOMAIN ledger \cup {top}
        /\ \A k \in DOMAIN ledger : ledger'[k] = ledger[k]
        /\ ledger'[top] = r
        /\ top \notin DOMAIN ledger
    BY AppendLedger DEF Shape, AppendRecord
  <1>2. r.command = content[w] /\ r.id = job[w] /\ r.outcome = outcome
    OBVIOUS
  <1>3. at \in [Worker -> WorkerPoint] /\ slot \in [Worker -> Nat]
    BY DEF Shape, TypeOK
  <1>4. slot'[w] = top
    BY <1>3 DEF AppendRecord
  <1>5. at'[w] \in {"launch", "keep"} /\ (outcome = "running" => at'[w] = "launch")
    BY <1>3 DEF RecordRefusal, RecordCall, RecordUnusable, Goto
  <1>6. /\ at[w] \in {"record", "refused"}
        /\ UNCHANGED <<spoolVars, serviceVars, job, content, used, responses, cached, logs, abandoned, owner>>
    BY DEF RecordRefusal, RecordCall, RecordUnusable
  <1> HIDE DEF r, top
  <1>7. QED
    BY <1>1, <1>2, <1>4, <1>5, <1>6 DEF top

(* A record stays in the ledger as it was, but for the outcome of an open
   one. *)
LEMMA RecordsStay ==
  ASSUME Shape, [Next]_vars
  PROVE  \A k \in DOMAIN ledger :
           /\ k \in DOMAIN ledger'
           /\ ledger'[k].id = ledger[k].id
           /\ ledger'[k].command = ledger[k].command
           /\ ledger'[k].charged = ledger[k].charged
           /\ ledger[k].outcome # "running" => ledger'[k] = ledger[k]
           /\ ledger'[k].outcome = "running" => ledger[k].outcome = "running"
  <1>1. CASE ledger' = ledger
    BY <1>1
  <1>2. ASSUME NEW w \in Worker, RecordRefusal(w) \/ RecordCall(w) \/ RecordUnusable(w)
        PROVE  \A k \in DOMAIN ledger : k \in DOMAIN ledger' /\ ledger'[k] = ledger[k]
    BY <1>2, NewRecord
  <1>3. ASSUME NEW w \in Worker, FinishRecord(w), NEW k \in DOMAIN ledger
        PROVE  /\ k \in DOMAIN ledger'
               /\ ledger'[k].id = ledger[k].id
               /\ ledger'[k].command = ledger[k].command
               /\ ledger'[k].charged = ledger[k].charged
               /\ ledger[k].outcome # "running" => ledger'[k] = ledger[k]
               /\ ledger'[k].outcome = "running" => ledger[k].outcome = "running"
    <2>1. /\ DOMAIN ledger' = DOMAIN ledger
          /\ \A l \in DOMAIN ledger : l # slot[w] => ledger'[l] = ledger[l]
          /\ ledger'[slot[w]] = [ledger[slot[w]] EXCEPT !.outcome = result[w]]
      BY <1>3, FinishLedger
    <2>2. ledger[k] \in Record
      BY DEF Shape, TypeOK
    <2>3. ledger[slot[w]].outcome = "running"
      <3>1. OwnRecord(w)
        BY <1>3 DEF FinishRecord, Shape, WorkerOK, Knows, Holding
      <3>2. QED
        BY <3>1 DEF OwnRecord
    <2>4. QED
      BY <2>1, <2>2, <2>3 DEF Record
  <1>4. QED
    BY <1>1, <1>2, <1>3, OtherSteps, LedgerWriters DEF recordVars

-----------------------------------------------------------------------------
(* Nothing is left running. *)

(* What is abandoned is a record of the worker whose call raises, and no other
   worker owns it. *)
LEMMA AbandonedKept ==
  ASSUME Shape, AbandonedOK, NEW w \in Worker, Work(w)
  PROVE  AbandonedOK'
  <1>1. \A v \in Worker \ {w} : at'[v] = at[v] /\ slot'[v] = slot[v]
    BY WorkFrame
  <1>2. at \in [Worker -> WorkerPoint]
    BY DEF Shape, TypeOK
  <1>3. at[w] \in Holding => slot[w] \in DOMAIN ledger
    BY DEF Shape, WorkerOK, Knows, OwnRecord
  <1>4. CASE Raise(w)
    <2>1. /\ at[w] \in Holding /\ at'[w] = "lookup"
          /\ UNCHANGED <<ledger, slot>> /\ abandoned' = abandoned \cup {slot[w]}
      BY <1>2, <1>4 DEF Raise, Goto, Holding
    <2>2. \A v \in Worker \ {w} : at[v] \in Holding => slot[v] # slot[w]
      BY <2>1 DEF Shape, Ownership
    <2>3. at'[w] \notin Holding
      BY <2>1 DEF Holding
    <2>4. QED
      BY <1>1, <1>3, <2>1, <2>2, <2>3 DEF AbandonedOK
  <1>5. CASE RecordRefusal(w) \/ RecordCall(w) \/ RecordUnusable(w)
    BY <1>1, <1>5, NewRecord DEF AbandonedOK
  <1>6. CASE FinishRecord(w)
    <2>1. DOMAIN ledger' = DOMAIN ledger /\ abandoned' = abandoned /\ at'[w] \notin Holding
      BY <1>2, <1>6, FinishLedger DEF FinishRecord, Goto, Holding
    <2>2. QED
      BY <1>1, <2>1 DEF AbandonedOK
  <1>7. CASE Launch(w) \/ EndProcess(w) \/ ReleaseCost(w)
    <2>1. UNCHANGED <<ledger, slot, abandoned>> /\ at[w] \in Holding
      BY <1>7 DEF Launch, EndProcess, ReleaseCost, Holding, recordVars
    <2>2. QED
      BY <1>1, <2>1 DEF AbandonedOK
  <1>8. CASE \/ Start(w) \/ Lookup(w) \/ AnswerAtOnce(w) \/ Admit(w) \/ Refuse(w)
             \/ Keep(w) \/ Reply(w) \/ UnlinkRequest(w)
    <2>1. UNCHANGED <<ledger, abandoned>> /\ at'[w] \notin Holding
      BY <1>2, <1>8 DEF Start, Lookup, AnswerAtOnce, Admit, Refuse, Keep, Reply, UnlinkRequest, Goto,
                        Holding, recordVars
    <2>2. QED
      BY <1>1, <2>1 DEF AbandonedOK
  <1>9. QED
    BY <1>4, <1>5, <1>6, <1>7, <1>8 DEF Work

LEMMA AbandonedInductive == Shape /\ AbandonedOK /\ [Next]_vars => AbandonedOK'
  <1>1. CASE UNCHANGED <<workerVars, recordVars>>
    BY <1>1 DEF AbandonedOK, workerVars, recordVars
  <1>2. QED
    BY <1>1, OtherSteps, AbandonedKept

LEMMA RunningKept ==
  ASSUME Shape, RunningIsOwned, NEW w \in Worker, Work(w)
  PROVE  RunningIsOwned'
  <1> SUFFICES ASSUME NEW k \in DOMAIN ledger' \ abandoned', ledger'[k].outcome = "running"
               PROVE  \E v \in Worker : at'[v] \in Holding /\ slot'[v] = k
    BY DEF RunningIsOwned
  <1>1. CASE k \notin DOMAIN ledger
    <2>1. RecordRefusal(w) \/ RecordCall(w) \/ RecordUnusable(w)
      <3>1. ledger' # ledger
        BY <1>1
      <3>2. ~FinishRecord(w)
        BY <1>1, FinishLedger
      <3>3. QED
        BY <3>1, <3>2, LedgerWriters
    <2>2. slot'[w] = k /\ at'[w] = "launch"
      BY <1>1, <2>1, NewRecord
    <2>3. QED
      BY <2>2 DEF Holding
  <1>2. CASE k \in DOMAIN ledger
    <2>1. ledger[k].outcome = "running"
      BY <1>2, RecordsStay DEF Next
    <2>2. abandoned \subseteq abandoned'
      BY DEF Work, Start, Lookup, AnswerAtOnce, Admit, Refuse, RecordRefusal, RecordCall,
             RecordUnusable, Launch, Raise, EndProcess, ReleaseCost, FinishRecord, Keep, Reply,
             UnlinkRequest, recordVars
    <2>3. PICK v \in Worker : at[v] \in Holding /\ slot[v] = k
      BY <1>2, <2>1, <2>2 DEF RunningIsOwned
    <2>4. CASE v # w
      BY <2>3, <2>4, WorkFrame
    <2>5. CASE v = w
      <3>1. at \in [Worker -> WorkerPoint]
        BY DEF Shape, TypeOK
      <3>2. ~Raise(w)
        BY <2>3, <2>5 DEF Raise
      <3>3. ~FinishRecord(w)
        <4>1. SUFFICES ASSUME FinishRecord(w) PROVE FALSE
          OBVIOUS
        <4>2. ledger[k] \in Record
          BY <1>2 DEF Shape, TypeOK
        <4>3. ledger'[k].outcome = result[w] /\ result[w] \in Outcomes
          BY <2>3, <2>5, <4>1, <4>2, FinishLedger DEF Record
        <4>4. QED
          BY <4>3 DEF Outcomes, ProcessOutcomes
      <3>4. CASE Launch(w)
        BY <2>3, <2>5, <3>1, <3>4 DEF Launch, Goto, Holding
      <3>5. CASE EndProcess(w)
        BY <2>3, <2>5, <3>1, <3>5 DEF EndProcess, Goto, Holding
      <3>6. CASE ReleaseCost(w)
        BY <2>3, <2>5, <3>1, <3>6 DEF ReleaseCost, Goto, Holding
      <3>7. CASE \/ Start(w) \/ Lookup(w) \/ AnswerAtOnce(w) \/ Admit(w) \/ Refuse(w)
                 \/ Keep(w) \/ Reply(w) \/ UnlinkRequest(w)
        BY <2>3, <2>5, <3>7 DEF Holding, Start, Lookup, AnswerAtOnce, Admit, Refuse, Keep, Reply,
                                UnlinkRequest
      <3>8. CASE RecordRefusal(w) \/ RecordCall(w) \/ RecordUnusable(w)
        BY <2>3, <2>5, <3>8, NewRecord DEF Holding
      <3>9. QED
        BY <3>2, <3>3, <3>4, <3>5, <3>6, <3>7, <3>8 DEF Work
    <2>6. QED
      BY <2>4, <2>5
  <1>3. QED
    BY <1>1, <1>2

(* When the session is closed every record but those abandoned by an exception
   is complete: neither the kill of the running processes nor the
   cancellation of the queue leaves a call half recorded. *)
THEOREM NothingRunsAtClose == Spec => []CompleteAtClose
  <1>1. Init => RunningIsOwned
    BY DEF Init, RunningIsOwned
  <1>2. Shape /\ RunningIsOwned /\ [Next]_vars => RunningIsOwned'
    <2> SUFFICES ASSUME Shape, RunningIsOwned, [Next]_vars PROVE RunningIsOwned'
      OBVIOUS
    <2>1. CASE UNCHANGED <<workerVars, recordVars>>
      BY <2>1 DEF RunningIsOwned, workerVars, recordVars
    <2>2. QED
      BY <2>1, OtherSteps, RunningKept
  <1>3. Shape /\ RunningIsOwned => CompleteAtClose
    BY DEF Shape, ServiceOK, RunningIsOwned, CompleteAtClose, Holding
  <1>4. QED
    BY <1>1, <1>2, <1>3, InitShape, ShapeInductive, PTL DEF Spec

-----------------------------------------------------------------------------
(* No publication is recorded twice. *)

LEMMA DispatchQueue ==
  ASSUME Shape, NEW j \in Id, Dispatch(j)
  PROVE  /\ inbox[j] # "none" /\ inbox' = [inbox EXCEPT ![j] = "none"]
         /\ DOMAIN queue' = DOMAIN queue \cup {Len(queue) + 1}
         /\ Len(queue) + 1 \notin DOMAIN queue
         /\ \A p \in DOMAIN queue : queue'[p] = queue[p]
         /\ queue'[Len(queue) + 1] = j
         /\ UNCHANGED <<clientVars, workerVars, recordVars>>
  <1>1. inbox[j] # "none"
    BY DEF Dispatch, Shape, ServiceOK
  <1>2. queue \in Seq(Id) /\ queue' = Append(queue, j)
    BY DEF Dispatch, Shape, TypeOK
  <1>3. QED
    BY <1>1, <1>2 DEF Dispatch

LEMMA StartQueue ==
  ASSUME Shape, NEW w \in Worker, Start(w)
  PROVE  /\ 1 \in DOMAIN queue /\ job'[w] = queue[1]
         /\ \A p \in DOMAIN queue' : p + 1 \in DOMAIN queue /\ p + 1 # 1 /\ queue'[p] = queue[p + 1]
         /\ \A p, q \in DOMAIN queue' : p + 1 = q + 1 => p = q
         /\ at'[w] = "lookup"
         /\ UNCHANGED <<spoolVars, recordVars>>
  <1>1. queue \in Seq(Id) /\ queue # <<>> /\ queue' = Tail(queue)
    BY DEF Start, Shape, TypeOK
  <1>2. Len(queue) \in Nat \ {0} /\ DOMAIN queue = 1 .. Len(queue) /\ Head(queue) = queue[1]
    BY <1>1
  <1>3. DOMAIN queue' = 1 .. (Len(queue) - 1)
        /\ \A p \in 1 .. (Len(queue) - 1) : queue'[p] = queue[p + 1]
    BY <1>1, <1>2
  <1>4. job'[w] = queue[1] /\ at'[w] = "lookup"
    BY <1>2 DEF Start, Goto, Shape, TypeOK
  <1>5. QED
    BY <1>2, <1>3, <1>4 DEF Start

(* Every count is one of a finite set. *)
LEMMA FinitePlaces ==
  ASSUME Shape, NEW i \in Id
  PROVE  /\ Waiting(i) \in Nat
         /\ IsFiniteSet(Queued(i)) /\ Cardinality(Queued(i)) \in Nat
         /\ IsFiniteSet(Beginning(i)) /\ Cardinality(Beginning(i)) \in Nat
         /\ IsFiniteSet(Kept(i)) /\ Cardinality(Kept(i)) \in Nat
  <1>1. IsFiniteSet(DOMAIN ledger) /\ IsFiniteSet(DOMAIN queue)
    <2>1. ledger \in Seq(Record) /\ queue \in Seq(Id)
      BY DEF Shape, TypeOK
    <2>2. /\ Len(ledger) \in Nat /\ DOMAIN ledger = 1 .. Len(ledger)
          /\ Len(queue) \in Nat /\ DOMAIN queue = 1 .. Len(queue)
      BY <2>1, LenProperties
    <2>3. QED
      BY <2>2, FS_Interval
  <1>2. /\ Queued(i) \subseteq DOMAIN queue
        /\ Beginning(i) \subseteq Worker
        /\ Kept(i) \subseteq DOMAIN ledger
    BY DEF Queued, Beginning, Kept, RecordsOf
  <1>3. IsFiniteSet(Queued(i)) /\ IsFiniteSet(Beginning(i)) /\ IsFiniteSet(Kept(i))
    BY <1>1, <1>2, GatewayAssumption, FS_Subset
  <1>4. QED
    BY <1>3, FS_CardinalityType DEF Waiting

PlacesCounted ==
  \A i \in Id :
    /\ Waiting(i) \in Nat /\ Cardinality(Queued(i)) \in Nat
    /\ Cardinality(Beginning(i)) \in Nat /\ Cardinality(Kept(i)) \in Nat

LEMMA PlacesAreCounted == Shape => PlacesCounted
  BY FinitePlaces DEF PlacesCounted

LEMMA FinitePlacesNext ==
  ASSUME Shape', NEW i \in Id
  PROVE  /\ Waiting(i)' \in Nat /\ Cardinality(Queued(i))' \in Nat
         /\ Cardinality(Beginning(i))' \in Nat /\ Cardinality(Kept(i))' \in Nat
  <1>1. PlacesCounted'
    BY PlacesAreCounted, PTL
  <1>2. QED
    BY <1>1 DEF PlacesCounted

(* The records of an id, by name. *)
LEMMA KeptRecords == \A i : Kept(i) = {k \in DOMAIN ledger : ledger[k].id = i} \ abandoned
  BY DEF Kept, RecordsOf

(* A client's step publishes at most once, and under one id. *)
LEMMA PredPublications ==
  ASSUME Shape, NEW c \in Client, Pred(c), NEW i \in Id
  PROVE  \/ Publications(i)' = Publications(i) /\ inbox'[i] = inbox[i]
         \/ \E p : p \notin Publications(i) /\ Publications(i)' = Publications(i) \cup {p}
  <1> DEFINE Pub == [client : Client, turn : 1 .. MaxTries]
             last == [client |-> c, turn |-> tries'[c]]
  <1>1. /\ id \in [Client -> Id \cup {"none"}] /\ tries \in [Client -> 0 .. MaxTries]
        /\ inbox \in [Id -> Payload \cup {"none"}] /\ MaxTries \in Nat \ {0}
    BY SpoolAssumption DEF Shape, TypeOK, SpoolTypeOK
  <1>2. ASSUME \A d \in Client \ {c} : id'[d] = id[d] /\ tries'[d] = tries[d],
               id'[c] = i, tries'[c] = tries[c] + 1, tries'[c] \in 1 .. MaxTries,
               tries[c] = 0 \/ id[c] = i
        PROVE  last \notin Publications(i) /\ Publications(i)' = Publications(i) \cup {last}
    <2>1. last \in Pub
      BY <1>2
    <2>2. ASSUME NEW p \in Pub
          PROVE  (id'[p.client] = i /\ p.turn <= tries'[p.client])
                   <=> (id[p.client] = i /\ p.turn <= tries[p.client]) \/ p = last
      <3>1. CASE p.client # c
        BY <1>2, <3>1
      <3>2. CASE p.client = c
        <4>1. p.turn \in 1 .. MaxTries /\ tries[c] \in Nat
          BY <1>1
        <4>2. p = last <=> p.turn = tries'[c]
          BY <3>2
        <4>3. QED
          BY <1>2, <3>2, <4>1, <4>2
      <3>3. QED
        BY <3>1, <3>2
    <2>3. ~(last.turn <= tries[last.client])
      BY <1>1, <1>2
    <2> HIDE DEF last
    <2>4. QED
      BY <2>1, <2>2, <2>3 DEF Publications
  <1>3. ASSUME NEW j \in Id, NEW p \in Payload, NEW pin \in BOOLEAN, Call(c, j, p, pin)
        PROVE  \/ Publications(i)' = Publications(i) /\ inbox'[i] = inbox[i]
               \/ \E q : q \notin Publications(i) /\ Publications(i)' = Publications(i) \cup {q}
    <2>1. /\ id[c] = "none" /\ tries[c] = 0
          /\ id' = [id EXCEPT ![c] = j] /\ tries' = [tries EXCEPT ![c] = 1]
          /\ inbox' = [inbox EXCEPT ![j] = p]
      BY <1>3 DEF Call, Open, Publish, Shape, ClientOK
    <2>2. CASE j = i
      <3>1. /\ \A d \in Client \ {c} : id'[d] = id[d] /\ tries'[d] = tries[d]
            /\ id'[c] = i /\ tries'[c] = tries[c] + 1 /\ tries'[c] \in 1 .. MaxTries
        BY <1>1, <2>1, <2>2
      <3>2. QED
        BY <1>2, <2>1, <3>1
    <2>3. CASE j # i
      <3>1. inbox'[i] = inbox[i] /\ id'[c] # i /\ id[c] # i
        BY <1>1, <2>1, <2>3, NoneIsNew
      <3>2. \A d \in Client \ {c} : id'[d] = id[d] /\ tries'[d] = tries[d]
        BY <1>1, <2>1
      <3>3. Publications(i)' = Publications(i)
        BY <3>1, <3>2 DEF Publications
      <3>4. QED
        BY <3>1, <3>3
    <2>4. QED
      BY <2>2, <2>3
  <1>4. CASE Retry(c)
    <2>1. /\ id[c] \in Id /\ id' = id /\ tries[c] < MaxTries
          /\ tries' = [tries EXCEPT ![c] = tries[c] + 1]
          /\ inbox' = [inbox EXCEPT ![id[c]] = payload[c]]
      BY <1>4 DEF Retry, Publish, Shape, ClientOK
    <2>2. CASE id[c] = i
      <3>1. /\ \A d \in Client \ {c} : id'[d] = id[d] /\ tries'[d] = tries[d]
            /\ id'[c] = i /\ tries'[c] = tries[c] + 1 /\ tries'[c] \in 1 .. MaxTries
        BY <1>1, <2>1, <2>2
      <3>2. QED
        BY <1>2, <2>2, <3>1
    <2>3. CASE id[c] # i
      <3>1. inbox'[i] = inbox[i]
        BY <1>1, <2>1, <2>3
      <3>2. \A d \in Client \ {c} : tries'[d] = tries[d]
        BY <1>1, <2>1
      <3>3. Publications(i)' = Publications(i)
        BY <2>1, <2>3, <3>2 DEF Publications
      <3>4. QED
        BY <3>1, <3>3
    <2>4. QED
      BY <2>2, <2>3
  <1>5. CASE Expire(c) \/ ReadAnswer(c) \/ UnlinkAnswer(c)
    BY <1>5 DEF Expire, ReadAnswer, UnlinkAnswer, Publications
  <1>6. QED
    BY <1>3, <1>4, <1>5 DEF Pred, ClientStep

(* The queue gets shorter when its head is taken. *)
LEMMA StartQueued ==
  ASSUME Shape, NEW w \in Worker, Start(w), NEW i \in Id
  PROVE  Cardinality(Queued(i))' <= Cardinality(Queued(i) \ {1})
  <1> DEFINE next == [p \in Queued(i)' |-> p + 1]
  <1>1. /\ \A p \in DOMAIN queue' : p + 1 \in DOMAIN queue /\ p + 1 # 1 /\ queue'[p] = queue[p + 1]
        /\ \A p, q \in DOMAIN queue' : p + 1 = q + 1 => p = q
    BY StartQueue
  <1>2. next \in Injection(Queued(i)', Queued(i) \ {1})
    <2>1. next \in [Queued(i)' -> Queued(i) \ {1}]
      BY <1>1 DEF Queued
    <2>2. \A p, q \in Queued(i)' : next[p] = next[q] => p = q
      BY <1>1 DEF Queued
    <2> HIDE DEF next
    <2>3. QED
      BY <2>1, <2>2 DEF Injection, IsInjective
  <1>3. IsFiniteSet(Queued(i) \ {1})
    BY FinitePlaces, FS_RemoveElement
  <1>4. QED
    BY <1>2, <1>3, FS_Injection

(* Where a worker's step leaves what it does not move. *)
LEMMA OthersBeginning ==
  ASSUME Shape, NEW w \in Worker, Work(w), NEW i \in Id
  PROVE  /\ Beginning(i)' \ {w} = Beginning(i) \ {w}
         /\ w \in Beginning(i)' <=> job'[w] = i /\ at'[w] \in {"lookup", "admit", "record", "refused"}
         /\ w \in Beginning(i) <=> job[w] = i /\ at[w] \in {"lookup", "admit", "record", "refused"}
  BY WorkFrame DEF Beginning

(* A worker that neither takes a request, appends a record nor raises. *)
LEMMA WorkPlaces ==
  ASSUME Shape, NEW w \in Worker, Work(w), ~Start(w), ~Raise(w),
         ~RecordRefusal(w), ~RecordCall(w), ~RecordUnusable(w), NEW i \in Id
  PROVE  /\ UNCHANGED <<clientVars, inbox, queue>>
         /\ Kept(i)' = Kept(i)
         /\ Beginning(i)' \subseteq Beginning(i)
  <1>1. UNCHANGED <<clientVars, inbox, queue, abandoned>>
    BY DEF Work, Lookup, AnswerAtOnce, Admit, Refuse, Launch, EndProcess, ReleaseCost,
           FinishRecord, Keep, Reply, UnlinkRequest, spoolVars, serviceVars, recordVars
  <1>2. Kept(i)' = Kept(i)
    <2>1. DOMAIN ledger' = DOMAIN ledger
      BY LedgerWriters, FinishLedger
    <2>2. \A k \in DOMAIN ledger : ledger'[k].id = ledger[k].id
      BY RecordsStay DEF Next
    <2>3. QED
      BY <1>1, <2>1, <2>2, KeptRecords DEF Kept, RecordsOf
  <1>3. w \in Beginning(i)' => w \in Beginning(i)
    <2>1. /\ at \in [Worker -> WorkerPoint] /\ job \in [Worker -> Id \cup {"none"}]
      BY DEF Shape, TypeOK
    <2> USE DEF Goto, Beginning
    <2>2. CASE Lookup(w) \/ AnswerAtOnce(w) \/ Admit(w) \/ Refuse(w)
      BY <2>1, <2>2 DEF Lookup, AnswerAtOnce, Admit, Refuse
    <2>3. CASE Launch(w) \/ EndProcess(w)
      BY <2>1, <2>3 DEF Launch, EndProcess
    <2>4. CASE ReleaseCost(w) \/ FinishRecord(w) \/ Keep(w) \/ Reply(w)
      BY <2>1, <2>4 DEF ReleaseCost, FinishRecord, Keep, Reply
    <2>5. CASE UnlinkRequest(w)
      BY <2>1, <2>5 DEF UnlinkRequest
    <2>6. QED
      BY <2>2, <2>3, <2>4, <2>5 DEF Work
  <1>4. QED
    BY <1>1, <1>2, <1>3, OthersBeginning

(* What no step adds to, and no client publishes, stays in one place. *)
LEMMA StaysInPlace ==
  ASSUME Shape, Shape', NEW i \in Id, InOnePlace(i),
         Publications(i)' = Publications(i),
         Waiting(i)' + Cardinality(Queued(i))' + Cardinality(Beginning(i))' + Cardinality(Kept(i))'
           <= Waiting(i) + Cardinality(Queued(i)) + Cardinality(Beginning(i)) + Cardinality(Kept(i))
  PROVE  InOnePlace(i)'
  <1>1. /\ Waiting(i) \in Nat /\ Cardinality(Queued(i)) \in Nat
        /\ Cardinality(Beginning(i)) \in Nat /\ Cardinality(Kept(i)) \in Nat
    BY FinitePlaces
  <1>2. /\ Waiting(i)' \in Nat /\ Cardinality(Queued(i))' \in Nat
        /\ Cardinality(Beginning(i))' \in Nat /\ Cardinality(Kept(i))' \in Nat
    BY FinitePlacesNext
  <1>3. IsFiniteSet(Publications(i)) /\ Cardinality(Publications(i)) \in Nat
    BY FS_CardinalityType DEF InOnePlace
  <1>4. QED
    BY <1>1, <1>2, <1>3 DEF InOnePlace

(* A client publishes: one publication more, and one file at most. *)
LEMMA PredInPlace ==
  ASSUME Shape, NEW c \in Client, Pred(c), NEW i \in Id, InOnePlace(i)
  PROVE  InOnePlace(i)'
  <1>1. Queued(i)' = Queued(i) /\ Beginning(i)' = Beginning(i) /\ Kept(i)' = Kept(i)
    BY KeptRecords DEF Pred, Queued, Beginning, Kept, RecordsOf, serviceVars, workerVars, recordVars
  <1>2. CASE Publications(i)' = Publications(i) /\ inbox'[i] = inbox[i]
    BY <1>1, <1>2 DEF InOnePlace, Waiting
  <1>3. ASSUME NEW p, p \notin Publications(i), Publications(i)' = Publications(i) \cup {p}
        PROVE  InOnePlace(i)'
    <2>1. IsFiniteSet(Publications(i)) /\ Cardinality(Publications(i)) \in Nat
      BY FS_CardinalityType DEF InOnePlace
    <2>2. IsFiniteSet(Publications(i))' /\ Cardinality(Publications(i))' = Cardinality(Publications(i)) + 1
      BY <1>3, <2>1, FS_AddElement
    <2>3. Waiting(i)' \in {0, 1}
      BY DEF Waiting
    <2>4. /\ Waiting(i) \in Nat /\ Cardinality(Queued(i)) \in Nat
          /\ Cardinality(Beginning(i)) \in Nat /\ Cardinality(Kept(i)) \in Nat
      BY FinitePlaces
    <2>5. QED
      BY <1>1, <2>1, <2>2, <2>3, <2>4 DEF InOnePlace
  <1>4. QED
    BY <1>2, <1>3, PredPublications

(* The service thread moves the file it lists from the inbox to the queue. *)
LEMMA DispatchInPlace ==
  ASSUME Shape, Shape', NEW j \in Id, Dispatch(j), NEW i \in Id, InOnePlace(i)
  PROVE  InOnePlace(i)'
  <1>1. /\ inbox[j] # "none" /\ inbox' = [inbox EXCEPT ![j] = "none"]
        /\ DOMAIN queue' = DOMAIN queue \cup {Len(queue) + 1}
        /\ Len(queue) + 1 \notin DOMAIN queue
        /\ \A p \in DOMAIN queue : queue'[p] = queue[p]
        /\ queue'[Len(queue) + 1] = j
        /\ UNCHANGED <<clientVars, workerVars, recordVars>>
    BY DispatchQueue
  <1>2. Publications(i)' = Publications(i) /\ Beginning(i)' = Beginning(i) /\ Kept(i)' = Kept(i)
    BY <1>1, KeptRecords DEF Publications, Beginning, Kept, RecordsOf, clientVars, workerVars, recordVars
  <1>3. inbox \in [Id -> Payload \cup {"none"}]
    BY DEF Shape, TypeOK, SpoolTypeOK
  <1>4. CASE j = i
    <2>1. Waiting(i) = 1 /\ Waiting(i)' = 0
      BY <1>1, <1>3, <1>4 DEF Waiting
    <2>2. Queued(i)' = Queued(i) \cup {Len(queue) + 1} /\ Len(queue) + 1 \notin Queued(i)
      BY <1>1, <1>4 DEF Queued
    <2>3. Cardinality(Queued(i))' = Cardinality(Queued(i)) + 1
      BY <2>2, FinitePlaces, CountAdded
    <2>4. /\ Cardinality(Queued(i)) \in Nat /\ Cardinality(Beginning(i)) \in Nat
          /\ Cardinality(Kept(i)) \in Nat
      BY FinitePlaces
    <2>5. QED
      BY <1>2, <2>1, <2>3, <2>4, StaysInPlace
  <1>5. CASE j # i
    <2>1. Waiting(i)' = Waiting(i)
      BY <1>1, <1>3, <1>5 DEF Waiting
    <2>2. Queued(i)' = Queued(i)
      BY <1>1, <1>5 DEF Queued
    <2>3. QED
      BY <1>2, <2>1, <2>2 DEF InOnePlace
  <1>6. QED
    BY <1>4, <1>5

(* A worker takes the head of the queue. *)
LEMMA StartInPlace ==
  ASSUME Shape, Shape', NEW w \in Worker, Start(w), NEW i \in Id, InOnePlace(i)
  PROVE  InOnePlace(i)'
  <1>1. /\ 1 \in DOMAIN queue /\ job'[w] = queue[1] /\ at'[w] = "lookup"
        /\ UNCHANGED <<spoolVars, recordVars>>
    BY StartQueue
  <1>2. Publications(i)' = Publications(i) /\ Waiting(i)' = Waiting(i) /\ Kept(i)' = Kept(i)
    BY <1>1, KeptRecords DEF Publications, Waiting, Kept, RecordsOf, spoolVars, clientVars, recordVars
  <1>3. w \notin Beginning(i)
    BY DEF Start, Beginning
  <1>4. Beginning(i)' \ {w} = Beginning(i) /\ (w \in Beginning(i)' <=> queue[1] = i)
    BY <1>1, <1>3, OthersBeginning DEF Work
  <1>5. Cardinality(Queued(i))' <= Cardinality(Queued(i) \ {1})
    BY StartQueued
  <1>6. /\ Waiting(i) \in Nat /\ IsFiniteSet(Queued(i)) /\ Cardinality(Queued(i)) \in Nat
        /\ IsFiniteSet(Beginning(i)) /\ Cardinality(Beginning(i)) \in Nat
        /\ Cardinality(Kept(i)) \in Nat
    BY FinitePlaces
  <1>7. Cardinality(Queued(i))' \in Nat
    BY FinitePlacesNext
  <1>8. CASE queue[1] = i
    <2>1. 1 \in Queued(i)
      BY <1>1, <1>8 DEF Queued
    <2>2. Cardinality(Queued(i)) = Cardinality(Queued(i) \ {1}) + 1 /\ Cardinality(Queued(i) \ {1}) \in Nat
      BY <1>6, <2>1, CountRemoved
    <2>3. Beginning(i)' = Beginning(i) \cup {w}
      BY <1>4, <1>8
    <2>4. Cardinality(Beginning(i))' = Cardinality(Beginning(i)) + 1
      BY <1>3, <1>6, <2>3, CountAdded
    <2>5. QED
      BY <1>2, <1>5, <1>6, <1>7, <2>2, <2>4, StaysInPlace
  <1>9. CASE queue[1] # i
    <2>1. Queued(i) \ {1} = Queued(i)
      BY <1>9 DEF Queued
    <2>2. Beginning(i)' = Beginning(i)
      BY <1>4, <1>9
    <2>3. /\ Cardinality(Queued(i))' <= Cardinality(Queued(i))
          /\ Cardinality(Beginning(i))' = Cardinality(Beginning(i))
          /\ Cardinality(Kept(i))' = Cardinality(Kept(i))
      BY <1>2, <1>5, <2>1, <2>2
    <2>4. QED
      BY <1>2, <1>6, <1>7, <2>3, StaysInPlace
  <1>10. QED
    BY <1>8, <1>9

(* A worker appends the record of the request it has. *)
LEMMA RecordInPlace ==
  ASSUME Shape, Shape', AbandonedOK, NEW w \in Worker,
         RecordRefusal(w) \/ RecordCall(w) \/ RecordUnusable(w), NEW i \in Id, InOnePlace(i)
  PROVE  InOnePlace(i)'
  <1>1. /\ DOMAIN ledger' = DOMAIN ledger \cup {Len(ledger) + 1}
        /\ Len(ledger) + 1 \notin DOMAIN ledger
        /\ \A k \in DOMAIN ledger : ledger'[k] = ledger[k]
        /\ ledger'[Len(ledger) + 1].id = job[w]
        /\ at[w] \in {"record", "refused"}
        /\ at'[w] \in {"launch", "keep"}
        /\ UNCHANGED <<spoolVars, serviceVars, job, abandoned>>
    BY NewRecord
  <1>2. Publications(i)' = Publications(i) /\ Waiting(i)' = Waiting(i) /\ Queued(i)' = Queued(i)
    BY <1>1 DEF Publications, Waiting, Queued, spoolVars, clientVars, serviceVars
  <1>3. /\ Beginning(i)' = Beginning(i) \ {w}
        /\ w \in Beginning(i) <=> job[w] = i
    BY <1>1, OthersBeginning DEF Work
  <1>4. Len(ledger) + 1 \notin abandoned
    BY <1>1 DEF AbandonedOK
  <1>5. CASE job[w] = i
    <2>1. Kept(i)' = Kept(i) \cup {Len(ledger) + 1} /\ Len(ledger) + 1 \notin Kept(i)
      BY <1>1, <1>4, <1>5, KeptRecords DEF Kept, RecordsOf
    <2>2. Cardinality(Kept(i))' = Cardinality(Kept(i)) + 1
      BY <2>1, FinitePlaces, CountAdded
    <2>3. Cardinality(Beginning(i)) = Cardinality(Beginning(i))' + 1 /\ Cardinality(Beginning(i))' \in Nat
      BY <1>3, <1>5, FinitePlaces, CountRemoved
    <2>4. Waiting(i) \in Nat /\ Cardinality(Queued(i)) \in Nat /\ Cardinality(Kept(i)) \in Nat
      BY FinitePlaces
    <2>5. QED
      BY <1>2, <2>2, <2>3, <2>4, StaysInPlace
  <1>6. CASE job[w] # i
    <2>1. Kept(i)' = Kept(i)
      BY <1>1, <1>6, KeptRecords DEF Kept, RecordsOf
    <2>2. Beginning(i)' = Beginning(i)
      BY <1>3, <1>6
    <2>3. QED
      BY <1>2, <2>1, <2>2 DEF InOnePlace
  <1>7. QED
    BY <1>5, <1>6

(* A call that raises gives up its record, and its request begins again. *)
LEMMA RaiseInPlace ==
  ASSUME Shape, Shape', AbandonedOK, NEW w \in Worker, Raise(w), NEW i \in Id, InOnePlace(i)
  PROVE  InOnePlace(i)'
  <1>1. /\ at[w] \in Holding /\ at[w] \notin {"lookup", "admit", "record", "refused"}
        /\ at'[w] = "lookup" /\ abandoned' = abandoned \cup {slot[w]}
        /\ UNCHANGED <<spoolVars, serviceVars, job, ledger>>
    BY DEF Raise, Goto, Holding, Shape, TypeOK
  <1>2. Publications(i)' = Publications(i) /\ Waiting(i)' = Waiting(i) /\ Queued(i)' = Queued(i)
    BY <1>1 DEF Publications, Waiting, Queued, spoolVars, clientVars, serviceVars
  <1>3. /\ w \notin Beginning(i) /\ Beginning(i)' \ {w} = Beginning(i)
        /\ w \in Beginning(i)' <=> job[w] = i
    BY <1>1, OthersBeginning DEF Work
  <1>4. slot[w] \in DOMAIN ledger /\ slot[w] \notin abandoned /\ ledger[slot[w]].id = job[w]
    <2>1. OwnRecord(w) /\ slot[w] \notin abandoned
      BY <1>1 DEF AbandonedOK, Shape, WorkerOK, Knows
    <2>2. QED
      BY <2>1 DEF OwnRecord
  <1>5. Kept(i)' = Kept(i) \ {slot[w]} /\ (slot[w] \in Kept(i) <=> job[w] = i)
    BY <1>1, <1>4, KeptRecords DEF Kept, RecordsOf
  <1>6. CASE job[w] = i
    <2>1. Beginning(i)' = Beginning(i) \cup {w}
      BY <1>3, <1>6
    <2>2. Cardinality(Beginning(i))' = Cardinality(Beginning(i)) + 1
      BY <1>3, <2>1, FinitePlaces, CountAdded
    <2>3. Cardinality(Kept(i)) = Cardinality(Kept(i))' + 1 /\ Cardinality(Kept(i))' \in Nat
      BY <1>5, <1>6, FinitePlaces, CountRemoved
    <2>4. Waiting(i) \in Nat /\ Cardinality(Queued(i)) \in Nat /\ Cardinality(Beginning(i)) \in Nat
      BY FinitePlaces
    <2>5. QED
      BY <1>2, <2>2, <2>3, <2>4, StaysInPlace
  <1>7. CASE job[w] # i
    BY <1>2, <1>3, <1>5, <1>7 DEF InOnePlace
  <1>8. QED
    BY <1>6, <1>7

(* Any other step moves nothing, or takes from the inbox and the queue. *)
LEMMA OthersInPlace ==
  ASSUME Shape, Shape', NEW i \in Id, InOnePlace(i),
         UNCHANGED clientVars, inbox'[i] \in {inbox[i], "none"}, queue' = queue \/ queue' = <<>>,
         Beginning(i)' \subseteq Beginning(i), Kept(i)' = Kept(i)
  PROVE  InOnePlace(i)'
  <1>1. Publications(i)' = Publications(i)
    BY DEF Publications, clientVars
  <1>2. Waiting(i)' \in Nat /\ Waiting(i)' <= Waiting(i)
    BY DEF Waiting
  <1>3. Queued(i)' \subseteq Queued(i)
    BY DEF Queued
  <1>4. Cardinality(Queued(i))' <= Cardinality(Queued(i))
    BY <1>3, FinitePlaces, FS_Subset
  <1>5. Cardinality(Beginning(i))' <= Cardinality(Beginning(i))
    BY FinitePlaces, FS_Subset
  <1>6. /\ Waiting(i) \in Nat /\ Cardinality(Queued(i)) \in Nat
        /\ Cardinality(Beginning(i)) \in Nat /\ Cardinality(Kept(i)) \in Nat
    BY FinitePlaces
  <1>7. Cardinality(Queued(i))' \in Nat /\ Cardinality(Beginning(i))' \in Nat
    BY FinitePlacesNext
  <1>8. QED
    BY <1>1, <1>2, <1>4, <1>5, <1>6, <1>7, StaysInPlace

LEMMA OnceKept ==
  ASSUME Shape, Shape', AbandonedOK, OnceInv, [Next]_vars
  PROVE  OnceInv'
  <1> SUFFICES ASSUME NEW i \in Id PROVE InOnePlace(i)'
    BY DEF OnceInv
  <1>1. InOnePlace(i)
    BY DEF OnceInv
  <1>2. ASSUME NEW c \in Client, Pred(c)
        PROVE  InOnePlace(i)'
    BY <1>1, <1>2, PredInPlace
  <1>3. ASSUME NEW j \in Id, Dispatch(j)
        PROVE  InOnePlace(i)'
    BY <1>1, <1>3, DispatchInPlace
  <1>4. CASE Scan \/ EndSweep \/ Leave \/ Exit
    <2>1. UNCHANGED <<clientVars, workerVars, recordVars>> /\ (queue' = queue \/ queue' = <<>>)
          /\ inbox'[i] \in {inbox[i], "none"}
      BY <1>4 DEF Scan, EndSweep, Leave, Exit, Stop, ShutDown, Close, Remove, Unmount,
                  spoolVars, serviceVars
    <2>2. Beginning(i)' = Beginning(i) /\ Kept(i)' = Kept(i)
      BY <2>1, KeptRecords DEF Beginning, Kept, RecordsOf, workerVars, recordVars
    <2>3. QED
      BY <1>1, <2>1, <2>2, OthersInPlace
  <1>5. ASSUME NEW w \in Worker, Work(w)
        PROVE  InOnePlace(i)'
    <2>1. CASE Start(w)
      BY <1>1, <2>1, StartInPlace
    <2>2. CASE RecordRefusal(w) \/ RecordCall(w) \/ RecordUnusable(w)
      BY <1>1, <2>2, RecordInPlace
    <2>3. CASE Raise(w)
      BY <1>1, <2>3, RaiseInPlace
    <2>4. CASE ~Start(w) /\ ~RecordRefusal(w) /\ ~RecordCall(w) /\ ~RecordUnusable(w) /\ ~Raise(w)
      <3>1. UNCHANGED <<clientVars, inbox, queue>> /\ Kept(i)' = Kept(i)
            /\ Beginning(i)' \subseteq Beginning(i)
        BY <1>5, <2>4, WorkPlaces
      <3>2. QED
        BY <1>1, <3>1, OthersInPlace
    <2>5. QED
      BY <2>1, <2>2, <2>3, <2>4
  <1>6. CASE UNCHANGED vars
    <2>1. UNCHANGED <<clientVars, inbox, queue, workerVars, recordVars>>
      BY <1>6 DEF vars, spoolVars, serviceVars
    <2>2. Beginning(i)' = Beginning(i) /\ Kept(i)' = Kept(i)
      BY <2>1, KeptRecords DEF Beginning, Kept, RecordsOf, workerVars, recordVars
    <2>3. QED
      BY <1>1, <2>1, <2>2, OthersInPlace
  <1>7. QED
    BY <1>2, <1>3, <1>4, <1>5, <1>6 DEF Next, Serve

LEMMA InitInPlace == Init => OnceInv /\ AbandonedOK
  <1> SUFFICES ASSUME Init PROVE OnceInv /\ AbandonedOK
    OBVIOUS
  <1>1. AbandonedOK
    BY DEF Init, AbandonedOK, Holding
  <1>2. ASSUME NEW i \in Id
        PROVE  InOnePlace(i)
    <2>1. Waiting(i) = 0
      BY DEF Init, SpoolInit, Waiting
    <2>2. Queued(i) = {} /\ Beginning(i) = {}
      BY DEF Init, Queued, Beginning
    <2>3. Kept(i) = {}
      BY KeptRecords DEF Init, Kept, RecordsOf
    <2>4. Publications(i) = {}
      BY NoneIsNew DEF Init, SpoolInit, Publications
    <2>5. QED
      BY <2>1, <2>2, <2>3, <2>4, FS_EmptySet DEF InOnePlace
  <1>3. QED
    BY <1>1, <1>2 DEF OnceInv

(* An id has no more records than it was published, but for those abandoned
   by an exception, also when several clients use it and publish it again. *)
THEOREM OnceRecorded == Spec => []RecordedOncePerPublication
  <1>1. Shape /\ OnceInv => RecordedOncePerPublication
    <2> SUFFICES ASSUME Shape, OnceInv, NEW i \in Id
                 PROVE  Cardinality(Kept(i)) <= Cardinality(Publications(i))
      BY DEF RecordedOncePerPublication, Kept
    <2>1. InOnePlace(i)
      BY DEF OnceInv
    <2>2. Cardinality(Publications(i)) \in Nat
      BY <2>1, FS_CardinalityType DEF InOnePlace
    <2>3. QED
      BY <2>1, <2>2, FinitePlaces DEF InOnePlace
  <1>2. Shape /\ AbandonedOK /\ OnceInv /\ [Next]_vars => OnceInv'
    BY ShapeInductive, OnceKept
  <1>3. QED
    BY <1>1, <1>2, InitShape, ShapeInductive, InitInPlace, AbandonedInductive, PTL DEF Spec

-----------------------------------------------------------------------------
(* A request whose answer is kept is not handled anew. *)

(* Where an answer is kept nobody becomes busy, and who is not busy changes
   neither the answer nor the records. *)
LEMMA BusyWorkers ==
  ASSUME Shape, NEW w \in Worker, Work(w), NEW i \in Id, responses[i].answer # "none",
         w \in Busy(i)'
  PROVE  w \in Busy(i)
  <1>1. /\ at \in [Worker -> WorkerPoint] /\ job \in [Worker -> Id \cup {"none"}]
    BY DEF Shape, TypeOK
  <1>2. job'[w] = i /\ at'[w] \notin {"lookup", "reply", "unlink"}
    BY DEF Busy
  <1>3. ~Start(w)
    BY <1>2, StartQueue
  <1>4. ~UnlinkRequest(w)
    BY <1>1, <1>2, NoneIsNew DEF UnlinkRequest
  <1>5. job[w] = i
    BY <1>2, <1>3, <1>4 DEF Work, Lookup, AnswerAtOnce, Admit, Refuse, RecordRefusal, RecordCall,
       RecordUnusable, Launch, Raise, EndProcess, ReleaseCost, FinishRecord, Keep, Reply
  <1>6. ~Lookup(w)
    BY <1>1, <1>2, <1>5 DEF Lookup, Past, Goto
  <1>7. ~Reply(w)
    BY <1>1, <1>2 DEF Reply, Goto
  <1>8. at[w] \notin {"lookup", "reply", "unlink"}
    BY <1>3, <1>4, <1>6, <1>7 DEF Work, AnswerAtOnce, Admit, Refuse, RecordRefusal, RecordCall,
       RecordUnusable, Launch, Raise, EndProcess, ReleaseCost, FinishRecord, Keep
  <1>9. QED
    BY <1>5, <1>8 DEF Busy

LEMMA AnswerStays ==
  ASSUME Shape, NEW w \in Worker, Work(w), NEW i \in Id, responses[i].answer # "none"
  PROVE  /\ responses'[i].answer # "none"
         /\ w \notin Busy(i) => responses'[i] = responses[i]
  <1>1. CASE Keep(w)
    <2>1. /\ responses \in [Id -> [payload : Fingerprint \cup {"none"}, answer : Answers \cup {"none"}]]
          /\ responses' = [responses EXCEPT ![job[w]] = [payload |-> content[w], answer |-> result[w]]]
      BY <1>1 DEF Keep, Shape, TypeOK
    <2>2. result[w] # "none"
      <3>1. result[w] \in Answers
        BY <1>1 DEF Keep, Shape, WorkerOK, Knows
      <3>2. QED
        BY <3>1 DEF Answers, Outcomes, ProcessOutcomes
    <2>3. job[w] = i => w \in Busy(i)
      BY <1>1 DEF Keep, Busy
    <2>4. QED
      BY <2>1, <2>2, <2>3
  <1>2. CASE ~Keep(w)
    <2>1. responses' = responses
      BY <1>2 DEF Work, Start, Lookup, AnswerAtOnce, Admit, Refuse, RecordRefusal, RecordCall,
         RecordUnusable, Launch, Raise, EndProcess, ReleaseCost, FinishRecord, Reply, UnlinkRequest,
         recordVars
    <2>2. QED
      BY <2>1
  <1>3. QED
    BY <1>1, <1>2

LEMMA IdleRecordsStay ==
  ASSUME Shape, NEW w \in Worker, Work(w), NEW i \in Id, w \notin Busy(i)
  PROVE  RecordsOf(i)' = RecordsOf(i)
  <1>1. CASE ledger' = ledger
    BY <1>1 DEF RecordsOf
  <1>2. CASE RecordRefusal(w) \/ RecordCall(w) \/ RecordUnusable(w)
    <2>1. /\ DOMAIN ledger' = DOMAIN ledger \cup {Len(ledger) + 1}
          /\ \A k \in DOMAIN ledger : ledger'[k] = ledger[k]
          /\ ledger'[Len(ledger) + 1].id = job[w]
          /\ at[w] \in {"record", "refused"}
      BY <1>2, NewRecord
    <2>2. job[w] # i
      BY <2>1 DEF Busy
    <2>3. {j \in DOMAIN ledger' : ledger'[j].id = i} = {j \in DOMAIN ledger : ledger[j].id = i}
      BY <2>1, <2>2
    <2>4. QED
      BY <2>1, <2>3 DEF RecordsOf
  <1>3. CASE FinishRecord(w)
    <2>1. /\ DOMAIN ledger' = DOMAIN ledger
          /\ slot[w] \in DOMAIN ledger
          /\ \A k \in DOMAIN ledger : k # slot[w] => ledger'[k] = ledger[k]
      BY <1>3, FinishLedger
    <2>2. ledger[slot[w]].id # i
      <3>1. OwnRecord(w)
        BY <1>3 DEF FinishRecord, Shape, WorkerOK, Knows, Holding
      <3>2. QED
        BY <1>3, <3>1 DEF OwnRecord, FinishRecord, Busy
    <2>3. \A k \in DOMAIN ledger : ledger'[k].id = ledger[k].id
      BY RecordsStay DEF Next
    <2>4. {j \in DOMAIN ledger' : ledger'[j].id = i} = {j \in DOMAIN ledger : ledger[j].id = i}
      BY <2>1, <2>3
    <2>5. \A j \in {l \in DOMAIN ledger : ledger[l].id = i} : ledger'[j] = ledger[j]
      BY <2>1, <2>2
    <2>6. QED
      BY <2>4, <2>5 DEF RecordsOf
  <1>4. QED
    BY <1>1, <1>2, <1>3, LedgerWriters

LEMMA KeptStep ==
  ASSUME Shape, [Next]_vars, NEW i \in Id, responses[i].answer # "none"
  PROVE  /\ responses'[i].answer # "none"
         /\ Busy(i)' \subseteq Busy(i)
         /\ Busy(i) = {} => responses'[i] = responses[i] /\ RecordsOf(i)' = RecordsOf(i)
  <1>1. CASE UNCHANGED <<workerVars, recordVars>>
    BY <1>1 DEF Busy, RecordsOf, workerVars, recordVars
  <1>2. ASSUME NEW w \in Worker, Work(w)
        PROVE  /\ responses'[i].answer # "none"
               /\ Busy(i)' \subseteq Busy(i)
               /\ Busy(i) = {} => responses'[i] = responses[i] /\ RecordsOf(i)' = RecordsOf(i)
    <2>1. \A v \in Worker \ {w} : v \in Busy(i)' => v \in Busy(i)
      BY <1>2, WorkFrame DEF Busy
    <2>2. Busy(i)' \subseteq Busy(i)
      <3>1. Busy(i)' \subseteq Worker
        BY DEF Busy
      <3>2. QED
        BY <1>2, <2>1, <3>1, BusyWorkers
    <2>3. QED
      BY <1>2, <2>2, AnswerStays, IdleRecordsStay
  <1>3. QED
    BY <1>1, <1>2, OtherSteps

(* Once an answer is kept for an id nobody begins to handle it anew, however
   often it is published again and under whatever payload; when those that
   were handling it already are done, its answer and its records are final. *)
THEOREM KeptStays == Spec => KeptIsFinal
  <1>1. Shape /\ [Next]_vars =>
          [\A i \in Id : responses[i].answer # "none" =>
             /\ responses'[i].answer # "none"
             /\ Busy(i)' \subseteq Busy(i)
             /\ Busy(i) = {} => responses'[i] = responses[i] /\ RecordsOf(i)' = RecordsOf(i)]_vars
    BY KeptStep
  <1>2. QED
    BY <1>1, InitShape, ShapeInductive, PTL DEF Spec, KeptIsFinal

-----------------------------------------------------------------------------
(* Every answer told is true of the ledger. *)

(* What a client has published stays published. *)
LEMMA ClientStays ==
  ASSUME Shape, [Next]_vars, NEW d \in Client, id[d] \in Id
  PROVE  id'[d] = id[d] /\ payload'[d] = payload[d]
  <1>1. CASE UNCHANGED clientVars
    BY <1>1 DEF clientVars
  <1>2. ASSUME NEW c \in Client, Pred(c)
        PROVE  id'[d] = id[d] /\ payload'[d] = payload[d]
    <2>1. ASSUME NEW i \in Id, NEW p \in Payload, NEW pin \in BOOLEAN, Call(c, i, p, pin)
          PROVE  id'[d] = id[d] /\ payload'[d] = payload[d]
      <3>1. pc[c] = "idle" /\ id[c] = "none"
        BY <2>1 DEF Call, Shape, ClientOK
      <3>2. c # d
        BY <3>1, NoneIsNew
      <3>3. QED
        BY <2>1, <3>2 DEF Call, Open, Shape, TypeOK, SpoolTypeOK
    <2>2. CASE ClientStep(c)
      BY <2>2 DEF ClientStep, Retry, Expire, ReadAnswer, UnlinkAnswer
    <2>3. QED
      BY <1>2, <2>1, <2>2 DEF Pred
  <1>3. ASSUME NEW w \in Worker, Work(w)
        PROVE  UNCHANGED clientVars
    BY <1>3 DEF Work, Start, Lookup, AnswerAtOnce, Admit, Refuse, RecordRefusal, RecordCall,
       RecordUnusable, Launch, Raise, EndProcess, ReleaseCost, FinishRecord, Keep, Reply, UnlinkRequest,
       spoolVars
  <1>4. CASE Serve \/ Exit \/ UNCHANGED vars
    BY <1>1, <1>4 DEF Serve, Scan, Dispatch, EndSweep, Leave, Exit, Stop, ShutDown, Close, Remove,
                      Unmount, spoolVars, vars
  <1>5. QED
    BY <1>1, <1>2, <1>3, <1>4 DEF Next

LEMMA CachedGrows ==
  ASSUME [Next]_vars
  PROVE  cached \subseteq cached'
  <1>1. ASSUME NEW w \in Worker, Work(w)
        PROVE  cached \subseteq cached'
    BY <1>1 DEF Work, Start, Lookup, AnswerAtOnce, Admit, Refuse, RecordRefusal, RecordCall,
       RecordUnusable, Launch, Raise, EndProcess, ReleaseCost, FinishRecord, Keep, Reply, UnlinkRequest,
       recordVars
  <1>2. QED
    BY <1>1, OtherSteps DEF recordVars

(* What is true of the ledger stays true of it. *)
LEMMA BackedStays ==
  ASSUME Shape, [Next]_vars, NEW i \in Id, NEW a, Backed(i, a)
  PROVE  Backed(i, a)'
  <1> SUFFICES ASSUME a \in ProcessOutcomes
               PROVE  \/ \E k \in DOMAIN ledger' : ledger'[k].id = i /\ ledger'[k].outcome = a
                      \/ a = "completed" /\ \E d \in Client : id'[d] = i /\ payload'[d] \in cached'
    BY DEF Backed
  <1>1. ASSUME NEW k \in DOMAIN ledger, ledger[k].id = i, ledger[k].outcome = a
        PROVE  k \in DOMAIN ledger' /\ ledger'[k].id = i /\ ledger'[k].outcome = a
    BY <1>1, RecordsStay DEF ProcessOutcomes
  <1>2. ASSUME NEW d \in Client, id[d] = i, payload[d] \in cached
        PROVE  id'[d] = i /\ payload'[d] \in cached'
    BY <1>2, ClientStays, CachedGrows
  <1>3. QED
    BY <1>1, <1>2 DEF Backed

LEMMA PublishedStays ==
  ASSUME Shape, [Next]_vars, NEW i \in Id, NEW p, Published(i, p)
  PROVE  Published(i, p)'
  BY ClientStays DEF Published

LEMMA ProvenanceKept ==
  ASSUME Shape, Provenance, [Next]_vars
  PROVE  Provenance'
  <1> USE DEF Provenance
  <1>1. \A i \in Id : \A p : Published(i, p) => Published(i, p)'
    BY PublishedStays
  <1>2. /\ inbox \in [Id -> Payload \cup {"none"}] /\ processing \in [Id -> Payload \cup {"none"}]
        /\ job \in [Worker -> Id \cup {"none"}] /\ content \in [Worker -> Fingerprint \cup {"none"}]
        /\ at \in [Worker -> WorkerPoint]
    BY DEF Shape, TypeOK, SpoolTypeOK
  <1>3. \A v \in Worker : at[v] # "free" => job[v] \in Id
    BY <1>2 DEF Shape, WorkerOK, Knows
  <1>4. CASE /\ UNCHANGED workerVars
             /\ \A i \in Id : inbox'[i] \in {inbox[i], "none"}
             /\ \A i \in Id : processing'[i] \in {processing[i], inbox[i], "none"}
    BY <1>1, <1>3, <1>4 DEF workerVars
  <1>5. ASSUME NEW c \in Client, Pred(c)
        PROVE  Provenance'
    <2>1. UNCHANGED <<workerVars, processing>>
      BY <1>5 DEF Pred, serviceVars
    <2>2. ASSUME NEW j \in Id, NEW p \in Payload, inbox' = [inbox EXCEPT ![j] = p],
                 id'[c] = j, payload'[c] = p
          PROVE  Provenance'
      <3>1. inbox'[j] = p /\ Published(j, p)'
        BY <1>2, <2>2 DEF Published
      <3>2. \A i \in Id \ {j} : inbox'[i] = inbox[i]
        BY <1>2, <2>2
      <3>3. QED
        BY <1>1, <1>3, <2>1, <3>1, <3>2 DEF workerVars
    <2>3. ASSUME NEW j \in Id, NEW p \in Payload, NEW pin \in BOOLEAN, Call(c, j, p, pin)
          PROVE  Provenance'
      <3>1. id'[c] = j /\ payload'[c] = p
        BY <2>3 DEF Call, Open, Shape, TypeOK, SpoolTypeOK
      <3>2. QED
        BY <2>2, <2>3, <3>1 DEF Call, Open, Publish
    <2>4. CASE Retry(c)
      <3>1. id[c] \in Id /\ payload[c] \in Payload
        BY <2>4 DEF Retry, Shape, ClientOK
      <3>2. QED
        BY <2>2, <2>4, <3>1 DEF Retry, Publish
    <2>5. CASE Expire(c) \/ ReadAnswer(c) \/ UnlinkAnswer(c)
      BY <1>4, <2>1, <2>5 DEF Expire, ReadAnswer, UnlinkAnswer
    <2>6. QED
      BY <1>5, <2>3, <2>4, <2>5 DEF Pred, ClientStep
  <1>6. CASE Serve \/ Exit \/ UNCHANGED vars
    <2>1. ASSUME NEW i \in Id, Dispatch(i)
          PROVE  Provenance'
      BY <1>2, <1>4, <2>1 DEF Dispatch
    <2>2. CASE Scan \/ EndSweep \/ Leave \/ Exit \/ UNCHANGED vars
      BY <1>4, <2>2 DEF Scan, EndSweep, Leave, Exit, Stop, ShutDown, Close, Remove, Unmount,
                        vars, spoolVars, serviceVars
    <2>3. QED
      BY <1>6, <2>1, <2>2 DEF Serve
  <1>7. ASSUME NEW w \in Worker, Work(w)
        PROVE  Provenance'
    <2>1. \A v \in Worker \ {w} : at'[v] = at[v] /\ job'[v] = job[v] /\ content'[v] = content[v]
      BY <1>7, WorkFrame
    <2>2. inbox' = inbox /\ \A i \in Id : processing'[i] \in {processing[i], "none"}
      BY <1>2, <1>7 DEF Work, Start, Lookup, AnswerAtOnce, Admit, Refuse, RecordRefusal, RecordCall,
         RecordUnusable, Launch, Raise, EndProcess, ReleaseCost, FinishRecord, Keep, Reply, UnlinkRequest,
         spoolVars, serviceVars
    <2>3. at'[w] # "free" /\ content'[w] \notin {"gone", "raised"} => Published(job[w], content[w])'
      <3>1. CASE Start(w)
        <4>1. Head(queue) \in Id /\ job'[w] = Head(queue)
              /\ content'[w] = (IF processing[Head(queue)] = "none" THEN "gone" ELSE processing[Head(queue)])
          BY <1>2, <3>1, HeadTailProperties DEF Start, Shape, TypeOK
        <4>2. ASSUME content'[w] \notin {"gone", "raised"}
              PROVE  Published(job[w], content[w])'
          <5>1. processing[Head(queue)] # "none" /\ content'[w] = processing[Head(queue)]
            BY <4>1, <4>2
          <5>2. Published(Head(queue), processing[Head(queue)])
            BY <4>1, <5>1
          <5>3. \E d \in Client : id'[d] = Head(queue) /\ payload'[d] = processing[Head(queue)]
            BY <4>1, <5>2, <1>1 DEF Published
          <5>4. QED
            BY <4>1, <5>1, <5>3 DEF Published
        <4>3. QED
          BY <4>2
      <3>2. CASE Raise(w)
        BY <1>2, <3>2 DEF Raise
      <3>3. CASE UnlinkRequest(w)
        BY <1>2, <3>3 DEF UnlinkRequest, Goto
      <3>4. CASE ~Start(w) /\ ~Raise(w) /\ ~UnlinkRequest(w)
        <4>1. job' = job /\ content' = content /\ at[w] # "free"
          BY <1>7, <3>4 DEF Work, Lookup, AnswerAtOnce, Admit, Refuse, RecordRefusal, RecordCall,
             RecordUnusable, Launch, EndProcess, ReleaseCost, FinishRecord, Keep, Reply
        <4>2. at[w] # "free" /\ job[w] \in Id /\ job'[w] = job[w] /\ content'[w] = content[w]
          BY <1>3, <4>1
        <4>3. QED
          BY <1>1, <4>2 DEF Published
      <3>5. QED
        BY <3>1, <3>2, <3>3, <3>4
    <2>4. ASSUME NEW v \in Worker \ {w}, at'[v] # "free", content'[v] \notin {"gone", "raised"}
          PROVE  Published(job[v], content[v])'
      <3>1. at[v] # "free" /\ content[v] \notin {"gone", "raised"} /\ job[v] \in Id
        BY <1>3, <2>1, <2>4
      <3>2. Published(job[v], content[v])
        BY <3>1
      <3>3. QED
        BY <1>1, <2>1, <3>1, <3>2 DEF Published
    <2>5. ASSUME NEW i \in Id
          PROVE  /\ inbox'[i] # "none" => Published(i, inbox[i])'
                 /\ processing'[i] # "none" => Published(i, processing[i])'
      BY <1>1, <2>2 DEF Published
    <2>6. QED
      BY <2>3, <2>4, <2>5
  <1>8. QED
    BY <1>5, <1>6, <1>7 DEF Next

(* An answer that tells of no process needs no record. *)
LEMMA OtherAnswersBacked ==
  ASSUME NEW i, NEW a, a \notin ProcessOutcomes
  PROVE  Backed(i, a)
  BY DEF Backed

LEMMA AnswersKept ==
  ASSUME Shape, Provenance, AnswersBacked, [Next]_vars
  PROVE  AnswersBacked'
  <1> USE DEF AnswersBacked
  <1>1. \A i \in Id : \A a : Backed(i, a) => Backed(i, a)'
    BY BackedStays
  <1>2. /\ job \in [Worker -> Id \cup {"none"}] /\ content \in [Worker -> Fingerprint \cup {"none"}]
        /\ at \in [Worker -> WorkerPoint] /\ result \in [Worker -> Answers \cup {"none"}]
        /\ responses \in [Id -> [payload : Fingerprint \cup {"none"}, answer : Answers \cup {"none"}]]
        /\ outbox \in [Id -> Answers \cup {"none"}] /\ id \in [Client -> Id \cup {"none"}]
        /\ answer \in [Client -> Answers \cup {"none"}]
    BY DEF Shape, TypeOK, SpoolTypeOK
  <1>3. \A v \in Worker : at[v] # "free" => job[v] \in Id
    BY <1>2 DEF Shape, WorkerOK, Knows
  <1>4. \A i, a : a \notin ProcessOutcomes => Backed(i, a)'
    BY DEF Backed
  <1>5. "none" \notin ProcessOutcomes
    BY DEF ProcessOutcomes
  <1>6. ASSUME UNCHANGED <<id, answer>>
        PROVE  \A c \in Client : Backed(id[c], answer[c])'
    <2> SUFFICES ASSUME NEW c \in Client PROVE Backed(id[c], answer[c])'
      OBVIOUS
    <2>1. CASE pc[c] = "idle"
      BY <1>4, <1>5, <1>6, <2>1 DEF Shape, ClientOK
    <2>2. CASE pc[c] # "idle"
      BY <1>1, <1>6, <2>2 DEF Shape, ClientOK
    <2>3. QED
      BY <2>1, <2>2
  <1>7. CASE /\ UNCHANGED <<workerVars, responses, id, answer>>
             /\ \A i \in Id : outbox'[i] \in {outbox[i], "none"}
    <2>1. \A i \in Id : Backed(i, responses[i].answer)' /\ Backed(i, outbox[i])'
      BY <1>1, <1>4, <1>5, <1>7
    <2>2. \A w \in Worker : at'[w] \in {"refused", "keep", "reply"} => Backed(job[w], result[w])'
      BY <1>1, <1>3, <1>7 DEF workerVars
    <2>3. QED
      BY <1>6, <1>7, <2>1, <2>2
  <1>8. ASSUME NEW c \in Client, Pred(c)
        PROVE  AnswersBacked'
    <2>1. UNCHANGED <<workerVars, recordVars>>
      BY <1>8 DEF Pred
    <2>2. \A i \in Id : outbox'[i] \in {outbox[i], "none"}
      BY <1>2, <1>8 DEF Pred, Call, Open, ClientStep, Retry, Expire, ReadAnswer, UnlinkAnswer
    <2>3. \A w \in Worker : at'[w] \in {"refused", "keep", "reply"} => Backed(job[w], result[w])'
      BY <1>1, <1>3, <2>1 DEF workerVars
    <2>4. \A i \in Id : Backed(i, responses[i].answer)' /\ Backed(i, outbox[i])'
      BY <1>1, <1>4, <1>5, <2>1, <2>2 DEF recordVars
    <2>5. \A d \in Client : Backed(id[d], answer[d])'
      <3>1. CASE ReadAnswer(c)
        <4>1. id[c] \in Id /\ id' = id
          BY <3>1 DEF ReadAnswer, Shape, ClientOK
        <4>2. answer'[c] = outbox[id[c]] /\ \A d \in Client \ {c} : answer'[d] = answer[d]
          BY <1>2, <3>1 DEF ReadAnswer
        <4>3. Backed(id[c], answer[c])'
          BY <1>1, <4>1, <4>2
        <4>4. \A d \in Client \ {c} : Backed(id[d], answer[d])'
          <5> SUFFICES ASSUME NEW d \in Client \ {c} PROVE Backed(id[d], answer[d])'
            OBVIOUS
          <5>1. CASE pc[d] = "idle"
            BY <1>4, <1>5, <4>1, <4>2, <5>1 DEF Shape, ClientOK
          <5>2. CASE pc[d] # "idle"
            BY <1>1, <4>1, <4>2, <5>2 DEF Shape, ClientOK
          <5>3. QED
            BY <5>1, <5>2
        <4>5. QED
          BY <4>3, <4>4
      <3>2. ASSUME NEW j \in Id, NEW p \in Payload, NEW pin \in BOOLEAN, Call(c, j, p, pin)
            PROVE  \A d \in Client : Backed(id[d], answer[d])'
        <4>1. pc[c] = "idle" /\ answer' = answer /\ \A d \in Client \ {c} : id'[d] = id[d]
          BY <1>2, <3>2 DEF Call, Open
        <4>2. Backed(id[c], answer[c])'
          BY <1>4, <1>5, <4>1 DEF Shape, ClientOK
        <4>3. \A d \in Client \ {c} : Backed(id[d], answer[d])'
          <5> SUFFICES ASSUME NEW d \in Client \ {c} PROVE Backed(id[d], answer[d])'
            OBVIOUS
          <5>1. CASE pc[d] = "idle"
            BY <1>4, <1>5, <4>1, <5>1 DEF Shape, ClientOK
          <5>2. CASE pc[d] # "idle"
            BY <1>1, <4>1, <5>2 DEF Shape, ClientOK
          <5>3. QED
            BY <5>1, <5>2
        <4>4. QED
          BY <4>2, <4>3
      <3>3. CASE Retry(c) \/ Expire(c) \/ UnlinkAnswer(c)
        BY <1>6, <3>3 DEF Retry, Expire, UnlinkAnswer
      <3>4. QED
        BY <1>8, <3>1, <3>2, <3>3 DEF Pred, ClientStep
    <2>6. QED
      BY <2>3, <2>4, <2>5
  <1>9. CASE Serve \/ Exit \/ UNCHANGED vars
    BY <1>7, <1>9 DEF Serve, Scan, Dispatch, EndSweep, Leave, Exit, Stop, ShutDown, Close, Remove, Unmount,
                      vars, spoolVars, clientVars, recordVars
  <1>10. ASSUME NEW w \in Worker, Work(w)
         PROVE  AnswersBacked'
    <2>1. \A v \in Worker \ {w} : at'[v] = at[v] /\ job'[v] = job[v] /\ result'[v] = result[v]
      BY <1>10, WorkFrame
    <2>2. \A v \in Worker \ {w} :
            at'[v] \in {"refused", "keep", "reply"} => Backed(job[v], result[v])'
      BY <1>1, <1>3, <2>1
    <2>3. UNCHANGED clientVars
      BY <1>10 DEF Work, Start, Lookup, AnswerAtOnce, Admit, Refuse, RecordRefusal, RecordCall,
         RecordUnusable, Launch, Raise, EndProcess, ReleaseCost, FinishRecord, Keep, Reply, UnlinkRequest,
         spoolVars
    <2>4. CASE Start(w) \/ UnlinkRequest(w) \/ Raise(w) \/ Admit(w) \/ Launch(w) \/ EndProcess(w)
               \/ ReleaseCost(w)
      <3>1. UNCHANGED <<responses, outbox>>
        BY <2>4 DEF Start, UnlinkRequest, Raise, Admit, Launch, EndProcess, ReleaseCost, recordVars, spoolVars
      <3>2. at'[w] \notin {"refused", "keep", "reply"}
        <4>1. CASE Start(w) \/ UnlinkRequest(w) \/ Raise(w) \/ Admit(w) \/ ReleaseCost(w)
          BY <1>2, <4>1 DEF Start, UnlinkRequest, Raise, Admit, ReleaseCost, Goto
        <4>2. CASE Launch(w)
          BY <1>2, <4>2 DEF Launch, Goto
        <4>3. CASE EndProcess(w)
          BY <1>2, <4>3 DEF EndProcess, Goto
        <4>4. QED
          BY <2>4, <4>1, <4>2, <4>3
      <3>3. \A i \in Id : Backed(i, responses[i].answer)' /\ Backed(i, outbox[i])'
        BY <1>1, <3>1
      <3>4. QED
        BY <1>6, <2>2, <2>3, <3>2, <3>3 DEF clientVars
    <2>5. ASSUME \/ Lookup(w) \/ AnswerAtOnce(w) \/ Refuse(w) \/ FinishRecord(w)
                 \/ RecordRefusal(w) \/ RecordCall(w) \/ RecordUnusable(w),
                 at'[w] \in {"refused", "keep", "reply"} => Backed(job[w], result[w])'
          PROVE  AnswersBacked'
      <3>1. UNCHANGED <<responses, outbox>>
        BY <2>5 DEF Lookup, AnswerAtOnce, Refuse, FinishRecord, RecordRefusal, RecordCall, RecordUnusable,
                    recordVars, spoolVars
      <3>2. \A i \in Id : Backed(i, responses[i].answer)' /\ Backed(i, outbox[i])'
        BY <1>1, <3>1
      <3>3. QED
        BY <1>6, <2>2, <2>3, <2>5, <3>2 DEF clientVars
    <2>6. CASE Lookup(w)
      <3>1. job[w] \in Id /\ job' = job
        BY <1>3, <2>6 DEF Lookup
      <3>2. at'[w] = "reply" => result'[w] \in {responses[job[w]].answer, "collision"}
        BY <1>2, <2>6 DEF Lookup, Past, Goto
      <3>3. at'[w] \in {"admit", "reply"} /\ "collision" \notin ProcessOutcomes
        BY <1>2, <2>6 DEF Lookup, Goto, ProcessOutcomes
      <3>4. QED
        BY <1>1, <1>4, <2>5, <2>6, <3>1, <3>2, <3>3
    <2>7. CASE AnswerAtOnce(w)
      <3>1. job[w] \in Id /\ job' = job /\ content' = content
        BY <1>3, <2>7 DEF AnswerAtOnce
      <3>2. CASE content[w] \in cached
        <4>1. content[w] \in Free
          BY <3>2 DEF Shape, TypeOK
        <4>2. \E d \in Client : id[d] = job[w] /\ payload[d] = content[w]
          BY <2>7, <4>1 DEF AnswerAtOnce, Published, Provenance, Free
        <4>3. result'[w] = "completed"
          BY <1>2, <2>7, <3>2 DEF AnswerAtOnce
        <4>4. Backed(job[w], "completed")
          BY <3>2, <4>2 DEF Backed
        <4>5. QED
          BY <1>1, <2>5, <2>7, <3>1, <4>3, <4>4
      <3>3. CASE content[w] \notin cached
        <4>1. result'[w] \notin ProcessOutcomes
          BY <1>2, <2>7, <3>3 DEF AnswerAtOnce, ProcessOutcomes
        <4>2. QED
          BY <1>4, <2>5, <2>7, <4>1
      <3>4. QED
        BY <3>2, <3>3
    <2>8. CASE Refuse(w)
      <3>1. result'[w] \notin ProcessOutcomes
        BY <1>2, <2>8 DEF Refuse, ProcessOutcomes
      <3>2. QED
        BY <1>4, <2>5, <2>8, <3>1
    <2>9. CASE RecordUnusable(w)
      <3>1. result'[w] \notin ProcessOutcomes
        BY <1>2, <2>9 DEF RecordUnusable, ProcessOutcomes
      <3>2. QED
        BY <1>4, <2>5, <2>9, <3>1
    <2>10. CASE RecordCall(w)
      <3>1. at'[w] = "launch"
        BY <1>2, <2>10 DEF RecordCall, Goto
      <3>2. QED
        BY <2>5, <2>10, <3>1
    <2>11. CASE RecordRefusal(w)
      <3>1. job[w] \in Id /\ UNCHANGED <<job, result>> /\ at[w] = "refused"
        BY <1>3, <2>11 DEF RecordRefusal
      <3>2. QED
        BY <1>1, <2>5, <2>11, <3>1
    <2>12. CASE FinishRecord(w)
      <3>1. job[w] \in Id /\ UNCHANGED <<job, result>>
        BY <1>3, <2>12 DEF FinishRecord
      <3>2. /\ slot[w] \in DOMAIN ledger'
            /\ ledger'[slot[w]].outcome = result[w]
        <4>1. ledger \in Seq(Record)
          BY DEF Shape, TypeOK
        <4>2. ledger[slot[w]] \in Record
          <5>1. slot[w] \in DOMAIN ledger
            BY <2>12, FinishLedger
          <5>2. QED
            BY <4>1, <5>1
        <4>3. QED
          BY <2>12, <4>2, FinishLedger DEF Record
      <3>3. ledger'[slot[w]].id = job[w]
        <4>1. OwnRecord(w)
          BY <2>12 DEF FinishRecord, Shape, WorkerOK, Knows, Holding
        <4>2. ledger[slot[w]].id = job[w] /\ slot[w] \in DOMAIN ledger
          BY <4>1 DEF OwnRecord
        <4>3. QED
          BY <4>2, RecordsStay
      <3>4. Backed(job[w], result[w])'
        BY <3>1, <3>2, <3>3 DEF Backed
      <3>5. QED
        BY <2>5, <2>12, <3>4
    <2>13. CASE Keep(w)
      <3>1. job[w] \in Id /\ UNCHANGED <<job, result, outbox>> /\ Backed(job[w], result[w])
        BY <1>3, <2>13 DEF Keep, spoolVars
      <3>2. /\ responses'[job[w]].answer = result[w]
            /\ \A i \in Id \ {job[w]} : responses'[i] = responses[i]
        BY <1>2, <2>13, <3>1 DEF Keep
      <3>3. \A i \in Id : Backed(i, responses[i].answer)' /\ Backed(i, outbox[i])'
        BY <1>1, <3>1, <3>2
      <3>4. Backed(job[w], result[w])'
        BY <1>1, <3>1
      <3>5. QED
        BY <1>6, <2>2, <2>3, <3>3, <3>4 DEF clientVars
    <2>14. CASE Reply(w)
      <3>1. job[w] \in Id /\ UNCHANGED <<job, result, responses>> /\ Backed(job[w], result[w])
            /\ at'[w] = "unlink"
        BY <1>2, <1>3, <2>14 DEF Reply, Goto, recordVars
      <3>2. /\ outbox'[job[w]] = result[w]
            /\ \A i \in Id \ {job[w]} : outbox'[i] = outbox[i]
        BY <1>2, <2>14, <3>1 DEF Reply
      <3>3. \A i \in Id : Backed(i, responses[i].answer)' /\ Backed(i, outbox[i])'
        BY <1>1, <3>1, <3>2
      <3>4. QED
        BY <1>6, <2>2, <2>3, <3>1, <3>3 DEF clientVars
    <2>15. QED
      BY <1>10, <2>4, <2>6, <2>7, <2>8, <2>9, <2>10, <2>11, <2>12, <2>13, <2>14 DEF Work
  <1>11. QED
    BY <1>8, <1>9, <1>10 DEF Next

(* A client that was told how its process ended was told the truth: a record
   says so, or the answer of a free command was cached.  Replays, collisions,
   expired and shared ids never hand out an answer nobody recorded. *)
THEOREM ResultsRecorded == Spec => []EveryResultIsRecorded
  <1>1. Init => Provenance /\ AnswersBacked
    BY DEF Init, SpoolInit, Provenance, AnswersBacked, Backed, ProcessOutcomes
  <1>2. Shape /\ Provenance /\ AnswersBacked /\ [Next]_vars => Provenance' /\ AnswersBacked'
    BY ProvenanceKept, AnswersKept
  <1>3. AnswersBacked => EveryResultIsRecorded
    BY DEF AnswersBacked, Backed, EveryResultIsRecorded
  <1>4. QED
    BY <1>1, <1>2, <1>3, InitShape, ShapeInductive, PTL DEF Spec

-----------------------------------------------------------------------------
(* The gateway implements the meter. *)

(* No reservation passes a limit. *)
WithinAllowance == \A n \in Spending : used[n] <= Allowance[n]

LEMMA AllowanceKept == Shape /\ WithinAllowance /\ [Next]_vars => WithinAllowance'
  <1> SUFFICES ASSUME Shape, WithinAllowance, [Next]_vars, NEW n \in Spending
               PROVE  used'[n] <= Allowance[n]
    BY DEF WithinAllowance
  <1>1. n \in Counter /\ used[n] \in Nat /\ Allowance[n] \in Nat /\ used[n] <= Allowance[n]
    BY CostFacts, AllowanceAssumption DEF WithinAllowance, Shape, TypeOK, BudgetTypeOK
  <1>2. CASE UNCHANGED used
    BY <1>1, <1>2
  <1>3. ASSUME NEW w \in Worker, Admit(w)
        PROVE  used'[n] <= Allowance[n]
    <2>1. /\ n \in Cost(content[w]) => used[n] < Allowance[n] /\ used'[n] = used[n] + 1
          /\ n \notin Cost(content[w]) => used'[n] = used[n]
      BY <1>1, <1>3 DEF Admit, Reserve, Available
    <2>2. QED
      BY <1>1, <2>1
  <1>4. ASSUME NEW w \in Worker, ReleaseCost(w)
        PROVE  used'[n] <= Allowance[n]
    <2>1. used'[n] = used[n] - 1 \/ used'[n] = used[n]
      BY <1>1, <1>4 DEF ReleaseCost, Release
    <2>2. QED
      BY <1>1, <2>1
  <1>5. ASSUME NEW w \in Worker, Work(w)
        PROVE  Admit(w) \/ ReleaseCost(w) \/ UNCHANGED used
    BY <1>5 DEF Work, Start, Lookup, AnswerAtOnce, Refuse, RecordRefusal, RecordCall, RecordUnusable,
       Launch, Raise, EndProcess, FinishRecord, Keep, Reply, UnlinkRequest, recordVars
  <1>6. QED
    BY <1>2, <1>3, <1>4, <1>5, OtherSteps DEF recordVars

(* The calls are the records, but for those given back. *)
LEMMA CallsFacts ==
  ASSUME Shape
  PROVE  /\ Calls \in Seq(Record)
         /\ Len(Calls) = Len(ledger)
         /\ DOMAIN Calls = DOMAIN ledger
         /\ \A k \in DOMAIN ledger : ~GivenBack(k) => Calls[k] = ledger[k]
         /\ \A k \in DOMAIN ledger : GivenBack(k) =>
              Calls[k] = [ledger[k] EXCEPT !.outcome = "infrastructure_error"]
         /\ \A k \in DOMAIN ledger : GivenBack(k) => ledger[k].outcome = "running"
  <1>1. ledger \in Seq(Record) /\ DOMAIN ledger = 1 .. Len(ledger) /\ Len(ledger) \in Nat
    BY LenProperties DEF Shape, TypeOK
  <1>2. \A k \in DOMAIN ledger :
          ledger[k] \in Record /\ [ledger[k] EXCEPT !.outcome = "infrastructure_error"] \in Record
    <2> SUFFICES ASSUME NEW k \in DOMAIN ledger
                 PROVE  ledger[k] \in Record
                        /\ [ledger[k] EXCEPT !.outcome = "infrastructure_error"] \in Record
      OBVIOUS
    <2>1. ledger[k] \in Record
      BY <1>1
    <2>2. QED
      BY <2>1 DEF Record, Outcomes
  <1>3. Calls \in [1 .. Len(ledger) -> Record]
    BY <1>1, <1>2 DEF Calls
  <1>4. Calls \in Seq(Record) /\ Len(Calls) = Len(ledger)
    BY <1>1, <1>3
  <1>5. \A k \in DOMAIN ledger : GivenBack(k) => ledger[k].outcome = "running"
    <2> SUFFICES ASSUME NEW w \in Worker, at[w] = "finish" PROVE ledger[slot[w]].outcome = "running"
      BY DEF GivenBack
    <2>1. OwnRecord(w)
      BY DEF Shape, WorkerOK, Knows, Holding
    <2>2. QED
      BY <2>1 DEF OwnRecord
  <1>6. QED
    BY <1>1, <1>3, <1>4, <1>5 DEF Calls

(* The meter counts as the gateway does. *)
LEMMA SameCardinality == \A S : Meter!Cardinality(S) = Cardinality(S)
  BY Zenon DEF Meter!Cardinality, Cardinality

(* What the meter charges is what was spent and not given back. *)
LEMMA MeterCharges ==
  ASSUME Shape, NEW n \in Spending
  PROVE  Cardinality(Meter!Charges(n)) + Cardinality(Returned(n)) = Cardinality(Spent(n))
  <1> DEFINE Back == {slot[w] : w \in Returned(n)}
             place == [w \in Returned(n) |-> slot[w]]
  <1>1. \A w \in Returned(n) : at[w] = "finish" /\ OwnRecord(w) /\ n \in Cost(content[w])
    BY DEF Returned, Shape, WorkerOK, Knows, Holding
  <1>2. \A w \in Returned(n) : slot[w] \in Spent(n)
    <2> SUFFICES ASSUME NEW w \in Returned(n) PROVE slot[w] \in Spent(n)
      OBVIOUS
    <2>1. /\ slot[w] \in DOMAIN ledger
          /\ ledger[slot[w]].command = content[w]
          /\ ledger[slot[w]].charged = (content[w] \in Charged)
          /\ ledger[slot[w]].outcome = "running"
          /\ content[w] \in Charged \cup Free
      <3>1. OwnRecord(w)
        BY <1>1
      <3>2. QED
        BY <3>1 DEF OwnRecord
    <2>2. content[w] \in Charged
      BY <1>1, <2>1, CostFacts
    <2>3. QED
      BY <1>1, <2>1, <2>2 DEF Spent
  <1>3. Back \subseteq Spent(n)
    BY <1>2
  <1>4. place \in Bijection(Returned(n), Back)
    <2>1. place \in Surjection(Returned(n), Back)
      BY DEF Surjection
    <2>2. place \in Injection(Returned(n), Back)
      BY <1>1, <2>1 DEF Injection, IsInjective, Surjection, Ownership, Shape, Holding, Returned
    <2>3. QED
      BY <2>1, <2>2 DEF Bijection
  <1>5. Cardinality(Back) = Cardinality(Returned(n))
    <2>1. ExistsBijection(Returned(n), Back)
      BY <1>4 DEF ExistsBijection
    <2>2. QED
      BY <2>1, FiniteCounts, FS_Bijection
  <1>6. Meter!Charges(n) = Spent(n) \ Back
    <2>1. \A k \in DOMAIN ledger : ledger[k].command \in Fingerprint
      <3> SUFFICES ASSUME NEW k \in DOMAIN ledger PROVE ledger[k].command \in Fingerprint
        OBVIOUS
      <3>1. ledger[k] \in Record
        BY DEF Shape, TypeOK
      <3>2. QED
        BY <3>1 DEF Record
    <2>2. \A k \in Spent(n) : GivenBack(k) <=> k \in Back
      <3> SUFFICES ASSUME NEW k \in Spent(n) PROVE GivenBack(k) <=> k \in Back
        OBVIOUS
      <3>1. ASSUME NEW w \in Worker, at[w] = "finish", slot[w] = k,
                   result[w] = "infrastructure_error"
            PROVE  w \in Returned(n)
        <4>1. OwnRecord(w)
          BY <3>1 DEF Shape, WorkerOK, Knows, Holding
        <4>2. n \in Cost(content[w])
          BY <3>1, <4>1 DEF OwnRecord, Spent
        <4>3. QED
          BY <3>1, <4>2 DEF Returned
      <3>2. QED
        BY <3>1 DEF GivenBack, Returned
    <2>3. ASSUME NEW k \in DOMAIN ledger, GivenBack(k)
          PROVE  Calls[k].outcome = "infrastructure_error"
      <3>1. ledger[k] \in Record
        BY DEF Shape, TypeOK
      <3>2. QED
        BY <2>3, <3>1, CallsFacts DEF Record
    <2>4. \A k \in DOMAIN ledger :
            k \in Meter!Charges(n) <=> k \in Spent(n) /\ ~GivenBack(k)
      <3> SUFFICES ASSUME NEW k \in DOMAIN ledger
                   PROVE  k \in Meter!Charges(n) <=> k \in Spent(n) /\ ~GivenBack(k)
        OBVIOUS
      <3>1. CASE GivenBack(k)
        BY <2>3, <3>1, CallsFacts DEF Meter!Charges
      <3>2. CASE ~GivenBack(k)
        BY <2>1, <3>2, CallsFacts DEF Meter!Charges, Spent
      <3>3. QED
        BY <3>1, <3>2
    <2>5. QED
      BY <2>2, <2>4, CallsFacts DEF Meter!Charges, Spent
  <1>7. Spent(n) \cap Back = Back
    BY <1>3
  <1> HIDE DEF Back
  <1>8. Cardinality(Meter!Charges(n)) = Cardinality(Spent(n)) - Cardinality(Back)
    BY <1>6, <1>7, FiniteCounts, FS_Difference
  <1>9. QED
    BY <1>5, <1>8, FiniteCounts

(* A reservation is room for the record that takes it. *)
LEMMA Room ==
  ASSUME Shape, NoReservationLeaks, WithinAllowance, NEW w \in Worker, at[w] = "record"
  PROVE  Meter!Affordable(content[w])
  <1>1. content[w] \in Fingerprint
    BY DEF Shape, WorkerOK, Knows
  <1>2. ASSUME NEW n \in Cost(content[w])
        PROVE  Cardinality(Meter!Charges(n)) < Allowance[n]
    <2>1. n \in Spending
      BY CostFacts
    <2>2. used[n] + Cardinality(Returned(n)) = Cardinality(Spent(n)) + Cardinality(Reserving(n))
      BY <2>1 DEF NoReservationLeaks, Spending
    <2>3. Cardinality(Meter!Charges(n)) + Cardinality(Returned(n)) = Cardinality(Spent(n))
      BY <2>1, MeterCharges
    <2>4. Cardinality(Reserving(n)) # 0
      <3>1. w \in Reserving(n)
        BY <1>2 DEF Reserving
      <3>2. QED
        BY <2>1, <3>1, FiniteCounts, FS_EmptySet
    <2>5. used[n] <= Allowance[n] /\ Allowance[n] \in Nat
      BY <2>1, CostFacts, AllowanceAssumption DEF WithinAllowance
    <2>6. Cardinality(Meter!Charges(n)) \in Int
      <3>1. IsFiniteSet(DOMAIN ledger)
        BY FS_Interval, LenProperties DEF Shape, TypeOK
      <3>2. Meter!Charges(n) \subseteq DOMAIN ledger
        BY CallsFacts DEF Meter!Charges
      <3>3. QED
        BY <3>1, <3>2, FS_Subset, FS_CardinalityType
    <2>7. QED
      BY <2>1, <2>2, <2>3, <2>4, <2>5, <2>6, FiniteCounts
  <1>3. [f \in Fingerprint |-> Cost(f)][content[w]] = Cost(content[w])
    BY <1>1
  <1>4. QED
    BY <1>2, <1>3, SameCardinality, Zenon DEF Meter!Affordable

(* A release never raises RuntimeError, for any number of workers that fail at
   once: the call it is for is still charged, and what is charged is in the
   counters. *)
THEOREM ReleasesAreBacked == Spec => []ReleaseNeverRaises
  <1>1. Shape /\ NoReservationLeaks => ReleaseNeverRaises
    <2> SUFFICES ASSUME Shape, NoReservationLeaks, NEW w \in Worker, at[w] = "release",
                        NEW n \in Cost(content[w])
                 PROVE  used[n] > 0
      BY DEF ReleaseNeverRaises
    <2>1. n \in Spending
      BY CostFacts
    <2>2. /\ slot[w] \in DOMAIN ledger
          /\ ledger[slot[w]].command = content[w] /\ content[w] \in Fingerprint
          /\ ledger[slot[w]].charged /\ ledger[slot[w]].outcome = "running"
      <3>1. OwnRecord(w) /\ content[w] \in Fingerprint
        BY DEF Shape, WorkerOK, Knows, Holding
      <3>2. /\ slot[w] \in DOMAIN ledger
            /\ ledger[slot[w]].command = content[w]
            /\ ledger[slot[w]].charged = (content[w] \in Charged)
            /\ ledger[slot[w]].outcome = "running"
            /\ content[w] \in Charged \cup Free
        BY <3>1 DEF OwnRecord
      <3>3. QED
        BY <3>1, <3>2, CostFacts
    <2>3. ~GivenBack(slot[w])
      BY DEF GivenBack, Shape, Ownership, Holding
    <2>4. slot[w] \in Meter!Charges(n)
      BY <2>2, <2>3, CallsFacts DEF Meter!Charges
    <2>5. IsFiniteSet(Meter!Charges(n))
      <3>1. IsFiniteSet(DOMAIN ledger)
        BY FS_Interval, LenProperties DEF Shape, TypeOK
      <3>2. Meter!Charges(n) \subseteq DOMAIN ledger
        BY CallsFacts DEF Meter!Charges
      <3>3. QED
        BY <3>1, <3>2, FS_Subset
    <2>6. Cardinality(Meter!Charges(n)) \in Nat /\ Cardinality(Meter!Charges(n)) # 0
      BY <2>4, <2>5, FS_CardinalityType, FS_EmptySet
    <2>7. used[n] + Cardinality(Returned(n)) = Cardinality(Spent(n)) + Cardinality(Reserving(n))
      BY <2>1 DEF NoReservationLeaks, Spending
    <2>8. Cardinality(Meter!Charges(n)) + Cardinality(Returned(n)) = Cardinality(Spent(n))
      BY <2>1, MeterCharges
    <2>9. QED
      BY <2>1, <2>6, <2>7, <2>8, FiniteCounts
  <1>2. QED
    BY <1>1, CountersMatchLedger, InitShape, ShapeInductive, PTL DEF Spec

(* What a step of one worker does to the records given back. *)
LEMMA GivenBackFrame ==
  ASSUME Shape, NEW w \in Worker, Work(w), NEW k
  PROVE  GivenBack(k)' <=>
           \/ \E v \in Worker \ {w} :
                at[v] = "finish" /\ slot[v] = k /\ result[v] = "infrastructure_error"
           \/ at'[w] = "finish" /\ slot'[w] = k /\ result'[w] = "infrastructure_error"
  BY WorkFrame DEF GivenBack

(* Calls change only when a record is appended, given back or completed. *)
LEMMA CallsQuiet ==
  ASSUME Shape, NEW w \in Worker,
         \/ Start(w) \/ Lookup(w) \/ AnswerAtOnce(w) \/ Admit(w) \/ Refuse(w) \/ Launch(w) \/ Raise(w)
         \/ EndProcess(w) \/ Keep(w) \/ Reply(w) \/ UnlinkRequest(w)
  PROVE  Calls' = Calls
  <1>1. ledger' = ledger
    BY DEF Start, Lookup, AnswerAtOnce, Admit, Refuse, Launch, Raise, EndProcess, Keep, Reply,
           UnlinkRequest, recordVars
  <1>2. at[w] # "finish" /\ (at'[w] = "finish" => result'[w] # "infrastructure_error")
    <2>1. at \in [Worker -> WorkerPoint] /\ result \in [Worker -> Answers \cup {"none"}]
      BY DEF Shape, TypeOK
    <2>2. CASE EndProcess(w)
      BY <2>1, <2>2 DEF EndProcess, Goto, ProcessOutcomes
    <2>3. CASE Launch(w)
      BY <2>1, <2>3 DEF Launch, Goto
    <2>4. CASE \/ Start(w) \/ Lookup(w) \/ AnswerAtOnce(w) \/ Admit(w) \/ Refuse(w) \/ Raise(w)
               \/ Keep(w) \/ Reply(w) \/ UnlinkRequest(w)
      BY <2>1, <2>4 DEF Start, Lookup, AnswerAtOnce, Admit, Refuse, Raise, Keep, Reply,
                        UnlinkRequest, Goto
    <2>5. QED
      BY <2>2, <2>3, <2>4
  <1>3. \A k \in DOMAIN ledger : GivenBack(k)' <=> GivenBack(k)
    <2> SUFFICES ASSUME NEW k \in DOMAIN ledger PROVE GivenBack(k)' <=> GivenBack(k)
      OBVIOUS
    <2>1. Work(w)
      BY DEF Work
    <2>2. QED
      BY <1>2, <2>1, GivenBackFrame DEF GivenBack
  <1>4. QED
    BY <1>1, <1>3 DEF Calls

(* A charge that is given back ends the call as the infrastructure's. *)
LEMMA CallsReleased ==
  ASSUME Shape, NEW w \in Worker, ReleaseCost(w)
  PROVE  Meter!Step
  <1>1. /\ slot[w] \in DOMAIN ledger /\ ledger[slot[w]].outcome = "running"
        /\ at[w] = "release" /\ result[w] = "infrastructure_error"
    <2>1. OwnRecord(w)
      BY DEF ReleaseCost, Shape, WorkerOK, Knows, Holding
    <2>2. QED
      BY <2>1 DEF OwnRecord, ReleaseCost, Shape, WorkerOK, Knows
  <1>2. /\ ledger' = ledger /\ UNCHANGED <<slot, result>>
        /\ at'[w] = "finish"
    BY DEF ReleaseCost, Goto, Shape, TypeOK
  <1>3. \A k \in DOMAIN ledger : GivenBack(k)' <=> GivenBack(k) \/ k = slot[w]
    <2> SUFFICES ASSUME NEW k \in DOMAIN ledger PROVE GivenBack(k)' <=> GivenBack(k) \/ k = slot[w]
      OBVIOUS
    <2>1. Work(w)
      BY DEF Work
    <2>2. QED
      BY <1>1, <1>2, <2>1, GivenBackFrame DEF GivenBack
  <1>4. ~GivenBack(slot[w])
    BY <1>1 DEF GivenBack, Shape, Ownership, Holding
  <1>5. Calls[slot[w]] = ledger[slot[w]]
    BY <1>1, <1>4, CallsFacts
  <1>6. Calls' = [Calls EXCEPT ![slot[w]].outcome = "infrastructure_error"]
    BY <1>1, <1>2, <1>3, <1>4 DEF Calls
  <1>7. Meter!End(slot[w], "infrastructure_error")
    BY <1>1, <1>5, <1>6 DEF Meter!End
  <1>8. slot[w] \in DOMAIN Calls /\ "infrastructure_error" \in Meter!Endings
    BY <1>1, CallsFacts DEF Meter!Endings
  <1>9. QED
    BY <1>7, <1>8 DEF Meter!Step

(* A completed record ends its call, unless giving it back had ended it. *)
LEMMA CallsFinished ==
  ASSUME Shape, NEW w \in Worker, FinishRecord(w)
  PROVE  Meter!Step \/ Calls' = Calls
  <1>1. /\ slot[w] \in DOMAIN ledger /\ ledger[slot[w]].outcome = "running"
        /\ ledger[slot[w]] \in Record
        /\ at[w] = "finish" /\ result[w] \in Outcomes
    <2>1. OwnRecord(w) /\ result[w] \in Outcomes
      BY DEF FinishRecord, Shape, WorkerOK, Knows, Holding
    <2>2. QED
      BY <2>1 DEF OwnRecord, FinishRecord, Shape, TypeOK
  <1>2. /\ DOMAIN ledger' = DOMAIN ledger
        /\ \A k \in DOMAIN ledger : k # slot[w] => ledger'[k] = ledger[k]
        /\ ledger'[slot[w]] = [ledger[slot[w]] EXCEPT !.outcome = result[w]]
    BY FinishLedger
  <1>3. at'[w] = "keep"
    BY DEF FinishRecord, Goto, Shape, TypeOK
  <1>4. Work(w)
    BY DEF Work
  <1>5. \A k \in DOMAIN ledger : k # slot[w] => (GivenBack(k)' <=> GivenBack(k))
    BY <1>3, <1>4, GivenBackFrame DEF GivenBack
  <1>6. \A v \in Worker \ {w} : at[v] = "finish" => slot[v] # slot[w]
    BY <1>1 DEF Shape, Ownership, Holding
  <1>7. \A k : k = slot[w] => ~GivenBack(k)'
    BY <1>3, <1>4, <1>6, GivenBackFrame
  <1>8. GivenBack(slot[w]) <=> result[w] = "infrastructure_error"
    BY <1>1, <1>6, Zenon DEF GivenBack
  <1>9. CASE result[w] = "infrastructure_error"
    BY <1>1, <1>2, <1>5, <1>7, <1>8, <1>9 DEF Calls
  <1>10. CASE result[w] # "infrastructure_error"
    <2>1. Calls[slot[w]] = ledger[slot[w]]
      BY <1>1, <1>8, <1>10, CallsFacts
    <2>2. Calls' = [Calls EXCEPT ![slot[w]].outcome = result[w]]
      BY <1>1, <1>2, <1>5, <1>7, <1>8, <1>10 DEF Calls
    <2>3. Meter!End(slot[w], result[w])
      BY <1>1, <2>1, <2>2 DEF Meter!End
    <2>4. slot[w] \in DOMAIN Calls /\ result[w] \in Meter!Endings
      BY <1>1, CallsFacts DEF Meter!Endings, Outcomes, ProcessOutcomes
    <2>5. QED
      BY <2>3, <2>4 DEF Meter!Step
  <1>11. QED
    BY <1>9, <1>10

(* A record that is appended enters a call: one that the allowance has room
   for, or a refusal. *)
LEMMA CallsRecorded ==
  ASSUME Shape, NoReservationLeaks, WithinAllowance, NEW w \in Worker,
         RecordRefusal(w) \/ RecordCall(w) \/ RecordUnusable(w)
  PROVE  Meter!Step
  <1> PICK charged \in BOOLEAN, outcome \in Outcomes \cup {"running", "budget_exhausted"} :
             /\ AppendRecord(w, charged, outcome)
             /\ [id |-> job[w], command |-> content[w],
                 charged |-> charged, outcome |-> outcome] \in Record
             /\ \/ /\ RecordRefusal(w)
                   /\ charged = FALSE /\ outcome = "budget_exhausted"
                \/ /\ RecordCall(w)
                   /\ charged = (content[w] \in Charged) /\ outcome = "running"
                \/ /\ RecordUnusable(w)
                   /\ charged = TRUE /\ outcome = "model_error"
    BY RecordStep
  <1> DEFINE r == [id |-> job[w], command |-> content[w], charged |-> charged, outcome |-> outcome]
  <1>1. job[w] \in Id /\ content[w] \in Fingerprint
    BY NoneIsNew DEF Shape, TypeOK, WorkerOK, Knows, RecordRefusal, RecordCall, RecordUnusable
  <1>2. /\ ledger' = Append(ledger, r) /\ r \in Record
        /\ ledger \in Seq(Record) /\ Len(ledger) \in Nat
        /\ DOMAIN ledger = 1 .. Len(ledger)
        /\ DOMAIN ledger' = DOMAIN ledger \cup {Len(ledger) + 1}
        /\ \A k \in DOMAIN ledger : ledger'[k] = ledger[k]
        /\ ledger'[Len(ledger) + 1] = r
        /\ Len(ledger) + 1 \notin DOMAIN ledger
    BY AppendLedger, LenProperties DEF Shape, TypeOK, AppendRecord
  <1> HIDE DEF r
  <1>3. at[w] # "finish" /\ at'[w] # "finish"
    BY DEF RecordRefusal, RecordCall, RecordUnusable, Goto, Shape, TypeOK
  <1>4. Work(w)
    BY DEF Work
  <1>5. \A k : GivenBack(k)' <=> GivenBack(k)
    BY <1>3, <1>4, GivenBackFrame DEF GivenBack
  <1>6. ~GivenBack(Len(ledger) + 1)
    <2>1. \A v \in Worker : at[v] = "finish" => slot[v] \in DOMAIN ledger
      BY DEF Shape, WorkerOK, Knows, OwnRecord, Holding
    <2>2. QED
      BY <1>2, <2>1 DEF GivenBack
  <1>7. Calls' = Append(Calls, r)
    <2>1. /\ DOMAIN Calls' = DOMAIN Calls \cup {Len(ledger) + 1}
          /\ \A k \in DOMAIN Calls : Calls'[k] = Calls[k]
          /\ Calls'[Len(ledger) + 1] = r
      BY <1>2, <1>5, <1>6 DEF Calls
    <2>2. /\ Append(Calls, r) \in Seq(Record)
          /\ Len(Append(Calls, r)) = Len(ledger) + 1
          /\ \A k \in DOMAIN Calls : Append(Calls, r)[k] = Calls[k]
          /\ Append(Calls, r)[Len(ledger) + 1] = r
      BY <1>2, CallsFacts, AppendProperties
    <2>3. DOMAIN Append(Calls, r) = DOMAIN Calls \cup {Len(ledger) + 1}
      BY <1>2, <2>2, CallsFacts, LenProperties
    <2>4. Calls' = [k \in DOMAIN Calls' |-> Calls'[k]]
      BY DEF Calls
    <2>5. Append(Calls, r) = [k \in DOMAIN Append(Calls, r) |-> Append(Calls, r)[k]]
      <3>1. Append(Calls, r) \in [1 .. Len(Append(Calls, r)) -> Record]
        BY <2>2, LenProperties
      <3>2. QED
        BY <3>1
    <2>6. QED
      BY <2>1, <2>2, <2>3, <2>4, <2>5
  <1>8. Meter!Enter(job[w], content[w], charged, outcome)
    BY <1>7 DEF Meter!Enter, r
  <1>9. CASE RecordRefusal(w) /\ charged = FALSE /\ outcome = "budget_exhausted"
    BY <1>1, <1>8, <1>9 DEF Meter!Refuse, Meter!Step
  <1>10. CASE RecordCall(w) /\ charged = (content[w] \in Charged) /\ outcome = "running"
    <2>1. [f \in Fingerprint |-> Cost(f)][content[w]] = Cost(content[w])
      BY <1>1
    <2>2. content[w] \in Charged <=> Cost(content[w]) # {}
      BY <1>10, CostFacts DEF RecordCall, Cost
    <2>3. Meter!Affordable(content[w])
      BY <1>10, Room DEF RecordCall
    <2>4. Meter!Begin(job[w], content[w])
      BY <1>8, <1>10, <2>1, <2>2, <2>3 DEF Meter!Begin
    <2>5. QED
      BY <1>1, <2>4 DEF Meter!Step
  <1>11. CASE RecordUnusable(w) /\ charged = TRUE /\ outcome = "model_error"
    <2>1. Meter!Affordable(content[w])
      BY <1>11, Room DEF RecordUnusable
    <2>2. QED
      BY <1>1, <1>8, <1>11, <2>1 DEF Meter!Misuse, Meter!Step
  <1>12. QED
    BY <1>9, <1>10, <1>11

(* Every step of the gateway is a step of the meter or leaves the calls as
   they are. *)
LEMMA MeterStep ==
  ASSUME Shape, NoReservationLeaks, WithinAllowance, [Next]_vars
  PROVE  [Meter!Next]_Calls
  <1>1. ASSUME NEW w \in Worker, Work(w)
        PROVE  Meter!Step \/ Calls' = Calls
    BY <1>1, CallsQuiet, CallsReleased, CallsFinished, CallsRecorded DEF Work
  <1>2. CASE UNCHANGED <<workerVars, recordVars>>
    BY <1>2 DEF Calls, GivenBack, workerVars, recordVars
  <1>3. QED
    BY <1>1, <1>2, OtherSteps DEF Meter!Next

(* The gateway implements the meter, for any number of clients, ids and
   workers: however reservations, records, failures and give-backs of several
   workers interleave, nothing is charged that the allowance has no room for,
   a call ends once, and only a failed one gives its charge back. *)
THEOREM Refinement == Spec => ImplementsMeter
  <1>1. Init => Meter!Init
    BY DEF Init, Calls, Meter!Init
  <1>2. Init => WithinAllowance
    BY CostFacts, AllowanceAssumption DEF Init, BudgetInit, WithinAllowance
  <1>3. Shape /\ NoReservationLeaks /\ WithinAllowance /\ [Next]_vars => [Meter!Next]_Calls
    BY MeterStep
  <1>4. QED
    BY <1>1, <1>2, <1>3, AllowanceKept, CountersMatchLedger, InitShape, ShapeInductive, PTL
    DEF Spec, ImplementsMeter, Meter!Spec

===============================================================================
