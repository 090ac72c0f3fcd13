-------------------------- MODULE EpisodeLedger_proofs --------------------------
(***************************************************************************)
(* Proofs about EpisodeLedger, for any set of calls and any allowances with *)
(* at least one shell action.                                              *)
(*                                                                         *)
(* The properties speak of the copies the ledger is made of, the invariant  *)
(* has to relate each copy to what it was taken from, and that to the       *)
(* counters: the runner's own records (GenerationsOK, ShellOK), the calls   *)
(* of the services (CallsOK, Balanced), the attempts (AttemptsOK).  What    *)
(* the runner owns stands still while the ledger is assembled; the rest     *)
(* does so when no call is under way (QuietCopies).                         *)
(***************************************************************************)
EXTENDS EpisodeLedger, FiniteSetTheorems, SequenceTheorems, TLAPS

-----------------------------------------------------------------------------
(* Counting the records of a ledger. *)

(* The positions of the records in T. *)
Where(records, T) == {i \in DOMAIN records : records[i] \in T}

(* Positions whose records have a property are counted one more when such a
   record is appended. *)
LEMMA CountAppend ==
  ASSUME NEW S, NEW s \in Seq(S), NEW e \in S, NEW T
  PROVE  /\ IsFiniteSet(Where(s, T))
         /\ Cardinality(Where(s, T)) \in Nat
         /\ Cardinality(Where(s, T)) <= Len(s)
         /\ e \in T => Cardinality(Where(Append(s, e), T)) = Cardinality(Where(s, T)) + 1
         /\ e \notin T => Cardinality(Where(Append(s, e), T)) = Cardinality(Where(s, T))
  <1> DEFINE old == Where(s, T)
             new == Where(Append(s, e), T)
             n == Len(s)
  <1> USE DEF Where
  <1>1. n \in Nat /\ DOMAIN s = 1 .. n
    OBVIOUS
  <1>2. IsFiniteSet(1 .. n) /\ Cardinality(1 .. n) = n
    BY <1>1, FS_Interval
  <1>3. old \in SUBSET (1 .. n)
    BY <1>1
  <1>4. IsFiniteSet(old) /\ Cardinality(old) <= n
    BY <1>2, <1>3, FS_Subset
  <1>5. Cardinality(old) \in Nat
    BY <1>4, FS_CardinalityType
  <1>6. new = IF e \in T THEN old \cup {n + 1} ELSE old
    BY <1>1
  <1>7. n + 1 \notin old
    BY <1>1
  <1>8. Cardinality(old \cup {n + 1}) = Cardinality(old) + 1
    BY <1>4, <1>7, FS_AddElement
  <1>9. e \in T => Cardinality(new) = Cardinality(old) + 1
    BY <1>6, <1>8
  <1>10. e \notin T => Cardinality(new) = Cardinality(old)
    BY <1>6
  <1>11. QED
    BY <1>4, <1>5, <1>9, <1>10

-----------------------------------------------------------------------------
LoopPoint == {"query", "act", "command", "check"}

(* The points behind each copy. *)
PastEvents == {"pred", "counters", "used", "closed", "remaining", "submit", "done"}
PastPred == PastEvents \ {"pred"}
PastCounters == PastPred \ {"counters"}
PastUsed == PastCounters \ {"used"}
PastRemaining == {"submit", "done"}

WithinBudget == \A n \in Counter : used[n] <= Allowance[n]

(* In the loop every generation record is charged; the phase may end with
   one more, of a provider that failed. *)
GenerationsOK ==
  /\ Charged(gens) = used["model_generations"]
  /\ Len(gens) <= used["model_generations"] + 1
  /\ at \in LoopPoint => Len(gens) = used["model_generations"]

(* The loop does not go on after a refused action. *)
ShellOK ==
  /\ Charged(shell) = used["shell_actions"]
  /\ Len(shell) <= used["shell_actions"] + 1
  /\ at \in LoopPoint /\ Len(shell) # used["shell_actions"] =>
       at = "check" /\ Spent("shell_actions")

(* Only the newest action may be without its observation: while its command
   runs, or when packaging its output failed. *)
ActionsSeen ==
  /\ at = "command" => shell # <<>>
  /\ at \in LoopPoint => ~failed /\ ~quiet
  /\ \A i \in DOMAIN shell :
       \/ shell[i].seen /\ shell[i].outcome # "admitted"
       \/ i = Len(shell) /\ (at = "command" \/ failed)

(* Only the last attempt may be accepted, and then the session is closed. *)
AttemptsOK ==
  /\ Len(attempts) <= SubmitLimit
  /\ Accepted(attempts) = IF closed THEN {Len(attempts)} ELSE {}
  /\ closed => attempts # <<>>

(* What the ledger holds of the runner's own records, and of submissions. *)
Copies ==
  /\ at \in PastEvents => ledger.gens = gens /\ ledger.shell = shell
  /\ at \in PastCounters =>
       \A n \in {"model_generations", "shell_actions"} : ledger.status[n] = used[n]
  /\ at \in PastUsed => ledger.submitUsed <= Len(attempts)
  /\ at \in PastRemaining => closed \/ ledger.submitRemaining <= SubmitLimit - ledger.submitUsed
  /\ at \notin PastRemaining => ledger.submitRemaining = 0
  /\ at = "done" =>
       /\ Len(ledger.submit) <= SubmitLimit
       /\ ledger.submitUsed <= Len(ledger.submit)
       /\ \/ Accepted(ledger.submit) # {}
          \/ ledger.submitRemaining <= SubmitLimit - ledger.submitUsed

(* Where calls are, and the records they have left. *)
CallsOK ==
  /\ \A c \in Call : stage[c] \in {"reserved", "running", "released"} => kind[c] \in PredKinds
  /\ \A i \in DOMAIN pred : stage[pred[i].call] \notin {"unsent", "sent", "reserved"}
  /\ \A i, j \in DOMAIN pred : pred[i].call = pred[j].call => i = j

(* The records that cost counter n, and the calls that have yet to leave one. *)
Solving(records) == Count(records, LAMBDA r : r.charged /\ r.kind = "solve")
Pending == {c \in Call : stage[c] = "reserved"}
PendingCost(n) == {c \in Pending : n \in Cost(c)}

Balanced ==
  /\ IsFiniteSet(Pending)
  /\ ~lost =>
       /\ used["pred_calls"] = Charged(pred) + Cardinality(PendingCost("pred_calls"))
       /\ used["solve_calls"] = Solving(pred) + Cardinality(PendingCost("solve_calls"))

(* When no call is under way the ledger is a copy of one moment. *)
QuietCopies ==
  quiet =>
    /\ UnderWay = {}
    /\ at \in PastPred => ledger.pred = pred
    /\ at \in PastCounters => ledger.status = used
    /\ at \in PastUsed => ledger.submitUsed = Len(attempts)
    /\ at = "remaining" => ~closed
    /\ at \in PastRemaining =>
         ledger.submitRemaining = IF closed THEN 0 ELSE SubmitLimit - Len(attempts)
    /\ at = "done" => ledger.submit = attempts

-----------------------------------------------------------------------------
(* Counting records. *)

LEMMA ChargedAppend ==
  ASSUME NEW S, NEW s \in Seq(S), NEW e \in S
  PROVE  /\ Charged(s) \in Nat /\ Charged(s) <= Len(s)
         /\ e.charged => Charged(Append(s, e)) = Charged(s) + 1
         /\ ~e.charged => Charged(Append(s, e)) = Charged(s)
  <1> DEFINE T == {r \in S : r.charged}
  <1>1. Charged(s) = Cardinality(Where(s, T))
    <2>1. {i \in DOMAIN s : s[i].charged} = Where(s, T)
      BY DEF Where
    <2>2. QED
      BY <2>1 DEF Charged, Count
  <1>2. Charged(Append(s, e)) = Cardinality(Where(Append(s, e), T))
    <2>1. \A i \in DOMAIN Append(s, e) : Append(s, e)[i] \in S
      OBVIOUS
    <2>2. {i \in DOMAIN Append(s, e) : Append(s, e)[i].charged}
            = Where(Append(s, e), T)
      BY <2>1 DEF Where
    <2>3. QED
      BY <2>2 DEF Charged, Count
  <1>3. e \in T <=> e.charged
    OBVIOUS
  <1> HIDE DEF T
  <1>4. /\ Cardinality(Where(s, T)) \in Nat
        /\ Cardinality(Where(s, T)) <= Len(s)
        /\ e \in T => Cardinality(Where(Append(s, e), T)) = Cardinality(Where(s, T)) + 1
        /\ e \notin T => Cardinality(Where(Append(s, e), T)) = Cardinality(Where(s, T))
    BY CountAppend
  <1>5. QED
    BY <1>1, <1>2, <1>3, <1>4

LEMMA SolvingAppend ==
  ASSUME NEW S, NEW s \in Seq(S), NEW e \in S
  PROVE  /\ Solving(s) \in Nat
         /\ e.charged /\ e.kind = "solve" => Solving(Append(s, e)) = Solving(s) + 1
         /\ ~(e.charged /\ e.kind = "solve") => Solving(Append(s, e)) = Solving(s)
  <1> DEFINE T == {r \in S : r.charged /\ r.kind = "solve"}
  <1>1. Solving(s) = Cardinality(Where(s, T))
    <2>1. {i \in DOMAIN s : s[i].charged /\ s[i].kind = "solve"} = Where(s, T)
      BY DEF Where
    <2>2. QED
      BY <2>1 DEF Solving, Count
  <1>2. Solving(Append(s, e)) = Cardinality(Where(Append(s, e), T))
    <2>1. \A i \in DOMAIN Append(s, e) : Append(s, e)[i] \in S
      OBVIOUS
    <2>2. {i \in DOMAIN Append(s, e) : Append(s, e)[i].charged /\ Append(s, e)[i].kind = "solve"}
            = Where(Append(s, e), T)
      BY <2>1 DEF Where
    <2>3. QED
      BY <2>2 DEF Solving, Count
  <1>3. e \in T <=> e.charged /\ e.kind = "solve"
    OBVIOUS
  <1> HIDE DEF T
  <1>4. /\ Cardinality(Where(s, T)) \in Nat
        /\ Cardinality(Where(s, T)) <= Len(s)
        /\ e \in T => Cardinality(Where(Append(s, e), T)) = Cardinality(Where(s, T)) + 1
        /\ e \notin T => Cardinality(Where(Append(s, e), T)) = Cardinality(Where(s, T))
    BY CountAppend
  <1>5. QED
    BY <1>1, <1>2, <1>3, <1>4

LEMMA PredCounts ==
  ASSUME NEW S, NEW s \in Seq(S)
  PROVE  Charged(s) \in Nat /\ Solving(s) \in Nat
  <1>1. Len(s) \in Nat /\ DOMAIN s = 1 .. Len(s)
    OBVIOUS
  <1>2. IsFiniteSet(DOMAIN s)
    BY <1>1, FS_Interval
  <1>3. \A A \in SUBSET DOMAIN s : Cardinality(A) \in Nat
    BY <1>2, FS_Subset, FS_CardinalityType
  <1>4. {i \in DOMAIN s : s[i].charged} \in SUBSET DOMAIN s
        /\ {i \in DOMAIN s : s[i].charged /\ s[i].kind = "solve"} \in SUBSET DOMAIN s
    OBVIOUS
  <1>5. QED
    BY <1>3, <1>4 DEF Charged, Solving, Count

-----------------------------------------------------------------------------
(* Types, and what the runner's thread and the services leave alone. *)

Runners == {"model_generations", "shell_actions"}
Services == {"pred_calls", "solve_calls"}

LEMMA CounterFacts ==
  /\ Counter = Runners \cup Services
  /\ \A c \in Call : Cost(c) \subseteq Services
  BY DEF Counter, Runners, Services, Cost

LEMMA ReserveTypes ==
  ASSUME BudgetTypeOK, NEW names, Reserve(names)
  PROVE  /\ BudgetTypeOK'
         /\ \A n \in Counter : used'[n] = IF n \in names THEN used[n] + 1 ELSE used[n]
         /\ \A n \in Counter : n \in names => used[n] < Allowance[n]
  BY DEF BudgetTypeOK, Reserve, Available

LEMMA ReleaseTypes ==
  ASSUME BudgetTypeOK, NEW names \in SUBSET Counter, Release(names)
  PROVE  /\ BudgetTypeOK'
         /\ \A n \in Counter : used'[n] = IF n \in names THEN used[n] - 1 ELSE used[n]
  BY DEF BudgetTypeOK, Release

LEMMA ObserveTypes ==
  ASSUME TypeOK, ActionsSeen, at = "command", NEW outcome \in Outcomes, Observe(outcome)
  PROVE  /\ Len(shell) \in DOMAIN shell
         /\ shell' \in Seq(ShellEvent) /\ DOMAIN shell' = DOMAIN shell /\ Len(shell') = Len(shell)
         /\ \A i \in DOMAIN shell : i # Len(shell) => shell'[i] = shell[i]
         /\ shell'[Len(shell)].seen /\ shell'[Len(shell)].outcome = outcome
         /\ \A i \in DOMAIN shell : shell'[i].charged = shell[i].charged
  <1>1. shell \in Seq(ShellEvent) /\ shell # <<>>
    BY DEF TypeOK, ActionsSeen
  <1>2. Len(shell) \in DOMAIN shell /\ DOMAIN shell = 1 .. Len(shell) /\ Len(shell) \in Nat
    BY <1>1
  <1>3. shell[Len(shell)] \in ShellEvent
    BY <1>1, <1>2
  <1> DEFINE e == [shell[Len(shell)] EXCEPT !.outcome = outcome, !.seen = TRUE]
  <1>4. e \in ShellEvent /\ e.seen /\ e.outcome = outcome /\ e.charged = shell[Len(shell)].charged
    BY <1>3 DEF ShellEvent
  <1>5. shell' = [shell EXCEPT ![Len(shell)] = e]
    BY DEF Observe
  <1> HIDE DEF e
  <1>6. shell' \in Seq(ShellEvent) /\ Len(shell') = Len(shell)
    BY <1>1, <1>2, <1>4, <1>5, ExceptSeq
  <1>7. QED
    BY <1>1, <1>2, <1>4, <1>5, <1>6

LEMMA LoopTypes ==
  ASSUME TypeOK, ActionsSeen, Loop
  PROVE  TypeOK'
  <1> USE DEF TypeOK, EndPhase, Continue, serviceVars, Snapshots
  <1>1. CASE OutOfGenerations \/ CommandRaises \/ Check
    BY <1>1 DEF OutOfGenerations, CommandRaises, Check, BudgetTypeOK
  <1>2. CASE ProviderError
    <2>1. [charged |-> FALSE] \in Event
      BY DEF Event
    <2>2. gens' \in Seq(Event)
      BY <1>2, <2>1 DEF ProviderError
    <2>3. QED
      BY <1>2, <2>2 DEF ProviderError, BudgetTypeOK
  <1>3. ASSUME FormatError \/ \E next \in {"query", "act", "check"} : Respond(next)
        PROVE  TypeOK'
    <2>1. [charged |-> TRUE] \in Event
      BY DEF Event
    <2>2. gens' \in Seq(Event)
      <3>1. gens' = Append(gens, [charged |-> TRUE])
        BY <1>3 DEF FormatError, Respond
      <3>2. QED
        BY <2>1, <3>1, AppendProperties
    <2>3. BudgetTypeOK'
      BY <1>3, ReserveTypes DEF FormatError, Respond
    <2>4. QED
      BY <1>3, <2>2, <2>3 DEF FormatError, Respond
  <1>4. CASE Act
    <2>1. /\ [charged |-> TRUE, outcome |-> "admitted", seen |-> FALSE] \in ShellEvent
          /\ [charged |-> FALSE, outcome |-> "budget_exhausted", seen |-> TRUE] \in ShellEvent
      BY DEF ShellEvent, Outcomes
    <2>2. shell' \in Seq(ShellEvent)
      <3>1. \/ shell' = Append(shell, [charged |-> TRUE, outcome |-> "admitted", seen |-> FALSE])
            \/ shell' = Append(shell, [charged |-> FALSE, outcome |-> "budget_exhausted", seen |-> TRUE])
        BY <1>4 DEF Act
      <3>2. shell \in Seq(ShellEvent)
        OBVIOUS
      <3> HIDE DEF TypeOK
      <3>3. QED
        BY <2>1, <3>1, <3>2
    <2>3. BudgetTypeOK'
      <3>1. CASE Available({"shell_actions"})
        BY <1>4, <3>1, ReserveTypes DEF Act
      <3>2. CASE ~Available({"shell_actions"})
        BY <1>4, <3>2 DEF Act, BudgetTypeOK
      <3>3. QED
        BY <3>1, <3>2
    <2>4. QED
      BY <1>4, <2>2, <2>3 DEF Act
  <1>5. ASSUME NEW outcome \in {"completed", "nonzero_exit", "timeout"}, EndCommand(outcome)
        PROVE  TypeOK'
    <2>1. outcome \in Outcomes
      BY DEF Outcomes
    <2>2. shell' \in Seq(ShellEvent)
      BY <1>5, <2>1, ObserveTypes DEF EndCommand
    <2>3. QED
      BY <1>5, <2>2 DEF EndCommand, BudgetTypeOK
  <1>6. QED
    BY <1>1, <1>2, <1>3, <1>4, <1>5 DEF Loop

LEMMA AssembleTypes ==
  ASSUME TypeOK, AttemptsOK, Assemble
  PROVE  /\ TypeOK'
         /\ UNCHANGED <<used, failed, gens, shell, quiet, serviceVars>>
  <1> USE DEF TypeOK, Snapshot, Snapshots, serviceVars
  <1>1. UNCHANGED <<used, failed, gens, shell, quiet, serviceVars>>
    BY DEF Assemble, CopyEvents, CopyPred, CopyCounters, CopyUsed, AskClosed, CopyRemaining, CopyAttempts
  <1>2. at' \in Snapshots \cup {"done"}
    BY DEF Assemble, CopyEvents, CopyPred, CopyCounters, CopyUsed, AskClosed, CopyRemaining, CopyAttempts
  <1>3. ledger' \in Ledger
    <2>1. ledger \in Ledger
      OBVIOUS
    <2>2. CASE CopyEvents \/ CopyPred \/ AskClosed \/ CopyAttempts
      BY <2>1, <2>2 DEF CopyEvents, CopyPred, AskClosed, CopyAttempts, Ledger
    <2>3. CASE CopyCounters
      BY <2>1, <2>3 DEF CopyCounters, Ledger, BudgetTypeOK
    <2>4. Len(attempts) \in Nat /\ SubmitLimit - Len(attempts) \in Nat
      BY DEF AttemptsOK, SubmitLimit
    <2>5. CASE CopyUsed \/ CopyRemaining
      BY <2>1, <2>4, <2>5 DEF CopyUsed, CopyRemaining, Ledger
    <2>6. QED
      BY <2>2, <2>3, <2>5 DEF Assemble
  <1>4. QED
    BY <1>1, <1>2, <1>3 DEF BudgetTypeOK

LEMMA RecordTypes ==
  ASSUME TypeOK, NEW c \in Call, kind[c] \in PredKinds, NEW b \in BOOLEAN, Record(c, b)
  PROVE  /\ [call |-> c, kind |-> kind[c], charged |-> b] \in PredRecord
         /\ pred' = Append(pred, [call |-> c, kind |-> kind[c], charged |-> b])
         /\ pred' \in Seq(PredRecord)
  <1>1. [call |-> c, kind |-> kind[c], charged |-> b] \in PredRecord
    BY DEF PredRecord
  <1>2. pred \in Seq(PredRecord)
    BY DEF TypeOK
  <1>3. QED
    BY <1>1, <1>2, AppendProperties DEF Record

LEMMA CallTypes ==
  ASSUME TypeOK, CallsOK, NEW c \in Call, (\E k \in Kinds : Send(c, k)) \/ Serve(c)
  PROVE  /\ TypeOK'
         /\ UNCHANGED <<at, failed, gens, shell, quiet, ledger>>
         /\ \A n \in Runners : used'[n] = used[n]
         /\ \A d \in Call \ {c} : stage'[d] = stage[d] /\ kind'[d] = kind[d]
  <1> USE DEF TypeOK, runnerVars, To, Stages
  <1>1. stage \in [Call -> Stages] /\ kind \in [Call -> Kinds \cup {"none"}] /\ BudgetTypeOK
        /\ Cost(c) \in SUBSET Counter /\ Cost(c) \cap Runners = {} /\ Runners \subseteq Counter
    BY DEF Cost, Counter, Runners
  <1>2. CASE \E k \in Kinds : Send(c, k)
    BY <1>1, <1>2 DEF Send, BudgetTypeOK
  <1>3. CASE ReserveCall(c)
    BY <1>1, <1>3, ReserveTypes DEF ReserveCall
  <1>4. CASE ReleaseCall(c)
    BY <1>1, <1>4, ReleaseTypes DEF ReleaseCall
  <1>5. CASE RefuseCall(c) \/ RecordCall(c)
    <2>1. kind[c] \in PredKinds
      BY <1>5 DEF RefuseCall, RecordCall, CallsOK
    <2>2. pred' \in Seq(PredRecord)
      BY <1>5, <2>1, RecordTypes DEF RefuseCall, RecordCall
    <2>3. QED
      BY <1>1, <1>5, <2>2 DEF RefuseCall, RecordCall, BudgetTypeOK
  <1>6. CASE EndCall(c)
    BY <1>1, <1>6 DEF EndCall, BudgetTypeOK
  <1>7. ASSUME NEW verdict \in {"accept", "reject", "error"}, Judge(c, verdict)
        PROVE  /\ TypeOK'
               /\ UNCHANGED <<at, failed, gens, shell, quiet, ledger>>
               /\ \A n \in Runners : used'[n] = used[n]
               /\ \A d \in Call \ {c} : stage'[d] = stage[d] /\ kind'[d] = kind[d]
    <2>1. attempts' \in Seq(BOOLEAN) /\ closed' \in BOOLEAN
      <3>1. attempts \in Seq(BOOLEAN) /\ (verdict = "accept") \in BOOLEAN
        OBVIOUS
      <3>2. Append(attempts, verdict = "accept") \in Seq(BOOLEAN)
        BY <3>1, AppendProperties
      <3>3. QED
        BY <1>7, <3>1, <3>2 DEF Judge, Decide
    <2>2. QED
      BY <1>1, <1>7, <2>1 DEF Judge, BudgetTypeOK
  <1>8. QED
    BY <1>2, <1>3, <1>4, <1>5, <1>6, <1>7 DEF Serve

LEMMA LoopFrame ==
  ASSUME TypeOK, Loop
  PROVE  /\ at \in LoopPoint /\ at' \in LoopPoint \cup {"events"}
         /\ UNCHANGED <<ledger, kind, stage, pred, attempts, closed, lost>>
         /\ \A n \in Services : used'[n] = used[n]
         /\ at' \in LoopPoint => UNCHANGED <<failed, quiet>>
         /\ at' = "events" => quiet' = (UnderWay = {})
  <1> USE DEF EndPhase, Continue, serviceVars, LoopPoint
  <1>1. at \in LoopPoint /\ at' \in LoopPoint \cup {"events"}
        /\ UNCHANGED <<ledger, kind, stage, pred, attempts, closed, lost>>
        /\ (at' \in LoopPoint => UNCHANGED <<failed, quiet>>)
        /\ (at' = "events" => quiet' = (UnderWay = {}))
    BY DEF Loop, OutOfGenerations, ProviderError, FormatError, Respond, Act, EndCommand, CommandRaises, Check
  <1>2. \A n \in Services : used'[n] = used[n]
    BY DEF Loop, OutOfGenerations, ProviderError, FormatError, Respond, Act, EndCommand, CommandRaises,
           Check, Reserve, Services, Counter
  <1>3. QED
    BY <1>1, <1>2

(* Every step is one of the runner's thread or one for a single call. *)
LEMMA Steps ==
  ASSUME [Next]_vars
  PROVE  \/ Loop
         \/ Assemble
         \/ \E c \in Call : (\E k \in Kinds : Send(c, k)) \/ Serve(c)
         \/ UNCHANGED vars
  BY DEF Next

LEMMA TypesKept ==
  ASSUME TypeOK, ActionsSeen, AttemptsOK, CallsOK, [Next]_vars
  PROVE  TypeOK'
  <1>1. CASE UNCHANGED vars
    BY <1>1 DEF vars, runnerVars, serviceVars, TypeOK, BudgetTypeOK
  <1>2. QED
    BY <1>1, LoopTypes, AssembleTypes, CallTypes, Steps

LEMMA BudgetKept ==
  ASSUME TypeOK, AttemptsOK, CallsOK, WithinBudget, [Next]_vars
  PROVE  WithinBudget'
  <1> USE DEF WithinBudget
  <1>1. BudgetTypeOK /\ Allowance \in [Counter -> Nat]
    BY AllowanceAssumption DEF TypeOK
  <1>2. ASSUME NEW names, Reserve(names)
        PROVE  WithinBudget'
    <2>1. \A n \in Counter : used[n] \in Nat /\ Allowance[n] \in Nat
      BY <1>1 DEF BudgetTypeOK
    <2>2. QED
      BY <1>1, <1>2, <2>1, ReserveTypes
  <1>3. CASE UNCHANGED used
    BY <1>3
  <1>4. CASE Loop
    BY <1>2, <1>3, <1>4 DEF Loop, OutOfGenerations, ProviderError, FormatError, Respond, Act,
       EndCommand, CommandRaises, Check
  <1>5. CASE Assemble
    BY <1>3, <1>5, AssembleTypes
  <1>6. ASSUME NEW c \in Call, (\E k \in Kinds : Send(c, k)) \/ Serve(c)
        PROVE  WithinBudget'
    <2>1. CASE ReleaseCall(c)
      <3>1. Cost(c) \in SUBSET Counter /\ Release(Cost(c))
        BY <2>1, CounterFacts DEF ReleaseCall
      <3>2. \A n \in Counter : used[n] \in Nat /\ Allowance[n] \in Nat
        BY <1>1 DEF BudgetTypeOK
      <3>3. QED
        BY <1>1, <3>1, <3>2, ReleaseTypes
    <2>2. QED
      BY <1>2, <1>3, <1>6, <2>1 DEF Serve, Send, ReserveCall, RefuseCall, RecordCall, EndCall, Judge
  <1>7. QED
    BY <1>3, <1>4, <1>5, <1>6, Steps DEF vars

-----------------------------------------------------------------------------
(* The runner's own records. *)

LEMMA GenerationsKept ==
  ASSUME TypeOK, AttemptsOK, CallsOK, GenerationsOK, [Next]_vars
  PROVE  GenerationsOK'
  <1> DEFINE n == "model_generations"
  <1>1. n \in Runners /\ n \in Counter /\ used[n] \in Nat /\ gens \in Seq(Event) /\ Len(gens) \in Nat
    BY DEF TypeOK, BudgetTypeOK, Runners, Counter
  <1>2. CASE UNCHANGED gens /\ used'[n] = used[n] /\ (at' \in LoopPoint => at \in LoopPoint)
    BY <1>2 DEF GenerationsOK
  <1>3. ASSUME at = "query", Reserve({n}), gens' = Append(gens, [charged |-> TRUE])
        PROVE  GenerationsOK'
    <2>1. [charged |-> TRUE] \in Event /\ [charged |-> TRUE].charged
      BY DEF Event
    <2>2. Charged(gens') = Charged(gens) + 1 /\ Len(gens') = Len(gens) + 1
      BY <1>1, <1>3, <2>1, ChargedAppend
    <2>3. used'[n] = used[n] + 1
      BY <1>1, <1>3 DEF Reserve
    <2>4. QED
      BY <1>1, <1>3, <2>2, <2>3 DEF GenerationsOK, LoopPoint
  <1>4. CASE ProviderError
    <2>1. [charged |-> FALSE] \in Event /\ ~[charged |-> FALSE].charged
      BY DEF Event
    <2>2. gens' = Append(gens, [charged |-> FALSE])
      BY <1>4 DEF ProviderError
    <2>3. Charged(gens') = Charged(gens) /\ Len(gens') = Len(gens) + 1
      BY <1>1, <2>1, <2>2, ChargedAppend
    <2>4. at \in LoopPoint /\ at' \notin LoopPoint /\ UNCHANGED used
      BY <1>4 DEF ProviderError, EndPhase, LoopPoint
    <2>5. QED
      BY <1>1, <2>3, <2>4 DEF GenerationsOK
  <1>5. CASE Act \/ \E outcome \in {"completed", "nonzero_exit", "timeout"} : EndCommand(outcome)
    <2>1. UNCHANGED gens /\ at \in LoopPoint /\ used'[n] = used[n]
      BY <1>1, <1>5 DEF Act, EndCommand, LoopPoint, Reserve
    <2>2. QED
      BY <1>2, <2>1
  <1>6. CASE Loop
    BY <1>2, <1>3, <1>4, <1>5, <1>6 DEF Loop, OutOfGenerations, FormatError, Respond, CommandRaises,
       Check, LoopPoint
  <1>7. CASE Assemble
    <2>1. at' \notin LoopPoint
      BY <1>7 DEF Assemble, CopyEvents, CopyPred, CopyCounters, CopyUsed, AskClosed, CopyRemaining,
         CopyAttempts, Snapshot, LoopPoint
    <2>2. QED
      BY <1>2, <1>7, <2>1, AssembleTypes
  <1>8. CASE \E c \in Call : (\E k \in Kinds : Send(c, k)) \/ Serve(c)
    BY <1>1, <1>2, <1>8, CallTypes
  <1>9. QED
    BY <1>2, <1>6, <1>7, <1>8, Steps DEF vars, runnerVars

(* The steps of the runner that touch no action record. *)
LEMMA ActionsLeftAlone ==
  ASSUME TypeOK, AttemptsOK, CallsOK, [Next]_vars,
         ~Act, \A outcome \in {"completed", "nonzero_exit", "timeout"} : ~EndCommand(outcome)
  PROVE  /\ UNCHANGED shell /\ used'["shell_actions"] = used["shell_actions"]
         /\ at' \in LoopPoint => at \in LoopPoint /\ UNCHANGED <<failed, quiet>>
         /\ at' # at /\ at' \in LoopPoint => at = "query" \/ (Check /\ at = "check")
         /\ at' = at \/ at' # "command"
         /\ at = "command" /\ at' # at => failed'
         /\ failed => failed' \/ at \in LoopPoint
  <1> DEFINE Goal ==
         /\ UNCHANGED shell /\ used'["shell_actions"] = used["shell_actions"]
         /\ at' \in LoopPoint => at \in LoopPoint /\ UNCHANGED <<failed, quiet>>
         /\ at' # at /\ at' \in LoopPoint => at = "query" \/ (Check /\ at = "check")
         /\ at' = at \/ at' # "command"
         /\ at = "command" /\ at' # at => failed'
         /\ failed => failed' \/ at \in LoopPoint
  <1>1. "shell_actions" \in Counter /\ "shell_actions" \in Runners /\ BudgetTypeOK
    BY DEF Counter, Runners, TypeOK
  <1>2. CASE Loop
    <2>1. CASE OutOfGenerations \/ ProviderError \/ CommandRaises \/ Check
      BY <2>1 DEF OutOfGenerations, ProviderError, CommandRaises, Check, EndPhase, Continue, LoopPoint
    <2>2. CASE FormatError \/ \E next \in {"query", "act", "check"} : Respond(next)
      <3>1. Reserve({"model_generations"}) /\ at = "query" /\ UNCHANGED shell
        BY <2>2 DEF FormatError, Respond
      <3>2. used'["shell_actions"] = used["shell_actions"]
        BY <1>1, <3>1 DEF Reserve
      <3>3. (at' \in {"query", "act", "check"} /\ UNCHANGED <<failed, quiet>>) \/ at' = "events"
        BY <2>2 DEF FormatError, Respond, EndPhase, Continue
      <3>4. QED
        BY <3>1, <3>2, <3>3 DEF LoopPoint
    <2>3. QED
      BY <1>2, <2>1, <2>2 DEF Loop
  <1>3. CASE Assemble
    <2>1. at' \in PastEvents /\ at \notin LoopPoint
      BY <1>3 DEF Assemble, CopyEvents, CopyPred, CopyCounters, CopyUsed, AskClosed, CopyRemaining,
         CopyAttempts, Snapshot, PastEvents, LoopPoint
    <2>2. QED
      BY <1>3, <2>1, AssembleTypes DEF PastEvents, LoopPoint
  <1>4. CASE (\E c \in Call : (\E k \in Kinds : Send(c, k)) \/ Serve(c)) \/ UNCHANGED vars
    BY <1>1, <1>4, CallTypes DEF vars, runnerVars
  <1>5. QED
    BY <1>2, <1>3, <1>4, Steps

LEMMA ShellKept ==
  ASSUME TypeOK, AttemptsOK, CallsOK, WithinBudget, ActionsSeen, ShellOK, [Next]_vars
  PROVE  ShellOK'
  <1> DEFINE n == "shell_actions"
  <1>1. /\ n \in Counter /\ used[n] \in Nat /\ shell \in Seq(ShellEvent) /\ Len(shell) \in Nat
        /\ Allowance[n] \in Nat /\ Allowance[n] > 0
    BY AllowanceAssumption, ActionsAssumption DEF TypeOK, BudgetTypeOK, Counter
  <1>2. CASE Act
    <2>1. at = "act" /\ Charged(shell) = used[n] /\ Len(shell) = used[n]
      BY <1>2 DEF Act, ShellOK, LoopPoint
    <2>2. CASE Available({n})
      <3> DEFINE e == [charged |-> TRUE, outcome |-> "admitted", seen |-> FALSE]
      <3>1. e \in ShellEvent /\ e.charged
        BY DEF ShellEvent, Outcomes
      <3>2. shell' = Append(shell, e) /\ at' = "command" /\ used'[n] = used[n] + 1
        BY <1>1, <1>2, <2>2 DEF Act, Continue, Reserve
      <3> HIDE DEF e
      <3>3. Charged(shell') = Charged(shell) + 1 /\ Len(shell') = Len(shell) + 1
        BY <1>1, <3>1, <3>2, ChargedAppend
      <3>4. QED
        BY <1>1, <2>1, <3>2, <3>3 DEF ShellOK
    <2>3. CASE ~Available({n})
      <3> DEFINE e == [charged |-> FALSE, outcome |-> "budget_exhausted", seen |-> TRUE]
      <3>1. e \in ShellEvent /\ ~e.charged
        BY DEF ShellEvent, Outcomes
      <3>2. shell' = Append(shell, e) /\ at' = "check" /\ UNCHANGED used
        BY <1>2, <2>3 DEF Act, Continue
      <3> HIDE DEF e
      <3>3. Charged(shell') = Charged(shell) /\ Len(shell') = Len(shell) + 1
        BY <1>1, <3>1, <3>2, ChargedAppend
      <3>4. Spent(n)'
        BY <1>1, <2>3, <3>2 DEF Available, Spent
      <3>5. QED
        BY <1>1, <2>1, <3>2, <3>3, <3>4 DEF ShellOK
    <2>4. QED
      BY <2>2, <2>3
  <1>3. ASSUME NEW outcome \in {"completed", "nonzero_exit", "timeout"}, EndCommand(outcome)
        PROVE  ShellOK'
    <2>1. at = "command" /\ outcome \in Outcomes /\ Observe(outcome) /\ UNCHANGED used
      BY <1>3 DEF EndCommand, Outcomes
    <2>2. Len(shell') = Len(shell) /\ DOMAIN shell' = DOMAIN shell
          /\ \A i \in DOMAIN shell : shell'[i].charged = shell[i].charged
      BY <2>1, ObserveTypes
    <2>3. {i \in DOMAIN shell' : shell'[i].charged} = {i \in DOMAIN shell : shell[i].charged}
      BY <2>2
    <2>4. Charged(shell') = Charged(shell)
      BY <2>3 DEF Charged, Count
    <2>5. Len(shell) = used[n]
      BY <2>1 DEF ShellOK, LoopPoint
    <2>6. QED
      BY <1>1, <2>1, <2>2, <2>4, <2>5 DEF ShellOK
  <1>4. CASE ~Act /\ \A outcome \in {"completed", "nonzero_exit", "timeout"} : ~EndCommand(outcome)
    <2>1. UNCHANGED shell /\ used'[n] = used[n] /\ (Spent(n) => Spent(n)')
      BY <1>4, ActionsLeftAlone DEF Spent
    <2>2. ASSUME at' \in LoopPoint, Len(shell') # used'[n]
          PROVE  at' = "check" /\ Spent(n)'
      <3>1. at \in LoopPoint
        BY <1>4, <2>2, ActionsLeftAlone
      <3>2. at = "check" /\ Spent(n)
        BY <2>1, <2>2, <3>1 DEF ShellOK
      <3>3. Check /\ at' # at => at' \notin LoopPoint
        BY <3>2 DEF Check, HardExhausted, EndPhase, LoopPoint
      <3>4. at' = at
        BY <1>4, <2>2, <3>2, <3>3, ActionsLeftAlone
      <3>5. QED
        BY <2>1, <3>2, <3>4
    <2>3. QED
      BY <2>1, <2>2 DEF ShellOK
  <1>5. QED
    BY <1>2, <1>3, <1>4

LEMMA SeenKept ==
  ASSUME TypeOK, AttemptsOK, CallsOK, ActionsSeen, [Next]_vars
  PROVE  ActionsSeen'
  <1>1. shell \in Seq(ShellEvent) /\ Len(shell) \in Nat /\ DOMAIN shell = 1 .. Len(shell)
    BY DEF TypeOK
  <1>2. CASE Act
    <2>1. ~failed /\ ~quiet /\ at = "act" /\ \A i \in DOMAIN shell : shell[i].seen /\ shell[i].outcome # "admitted"
      BY <1>2 DEF Act, ActionsSeen, LoopPoint
    <2>2. PICK e \in ShellEvent :
            /\ shell' = Append(shell, e) /\ UNCHANGED <<failed, quiet>>
            /\ at' = "command" \/ (e.seen /\ e.outcome # "admitted")
      <3>1. /\ [charged |-> TRUE, outcome |-> "admitted", seen |-> FALSE] \in ShellEvent
            /\ [charged |-> FALSE, outcome |-> "budget_exhausted", seen |-> TRUE] \in ShellEvent
        BY DEF ShellEvent, Outcomes
      <3>2. QED
        BY <1>2, <3>1 DEF Act, Continue
    <2>3. /\ shell' # <<>> /\ Len(shell') = Len(shell) + 1 /\ DOMAIN shell' = 1 .. Len(shell) + 1
          /\ shell'[Len(shell) + 1] = e /\ \A i \in DOMAIN shell : shell'[i] = shell[i]
      BY <1>1, <2>2
    <2>4. QED
      BY <1>1, <2>1, <2>2, <2>3 DEF ActionsSeen
  <1>3. ASSUME NEW outcome \in {"completed", "nonzero_exit", "timeout"}, EndCommand(outcome)
        PROVE  ActionsSeen'
    <2>1. at = "command" /\ outcome \in Outcomes /\ outcome # "admitted" /\ Observe(outcome)
      BY <1>3 DEF EndCommand, Outcomes
    <2>2. ~failed /\ ~quiet /\ \A i \in DOMAIN shell :
            i # Len(shell) => shell[i].seen /\ shell[i].outcome # "admitted"
      BY <2>1 DEF ActionsSeen, LoopPoint
    <2>3. \A i \in DOMAIN shell' : shell'[i].seen /\ shell'[i].outcome # "admitted"
      BY <2>1, <2>2, ObserveTypes
    <2>4. at' # "command" /\ (at' \in LoopPoint => UNCHANGED <<failed, quiet>>)
      BY <1>3 DEF EndCommand, EndPhase, Continue, LoopPoint
    <2>5. QED
      BY <2>2, <2>3, <2>4 DEF ActionsSeen
  <1>4. CASE ~Act /\ \A outcome \in {"completed", "nonzero_exit", "timeout"} : ~EndCommand(outcome)
    BY <1>4, ActionsLeftAlone DEF ActionsSeen, LoopPoint
  <1>5. QED
    BY <1>2, <1>3, <1>4

-----------------------------------------------------------------------------
(* Attempts, and the copies of what the runner owns. *)

LEMMA JudgeAttempts ==
  ASSUME TypeOK, AttemptsOK, NEW c \in Call, NEW verdict \in {"accept", "reject", "error"},
         Judge(c, verdict)
  PROVE  /\ AttemptsOK'
         /\ Len(attempts) <= Len(attempts')
         /\ closed => closed'
  <1>1. attempts \in Seq(BOOLEAN) /\ Len(attempts) \in Nat /\ DOMAIN attempts = 1 .. Len(attempts)
    BY DEF TypeOK
  <1>2. CASE closed \/ Len(attempts) >= SubmitLimit \/ verdict = "error"
    BY <1>1, <1>2 DEF Judge, Decide, AttemptsOK
  <1>3. CASE ~(closed \/ Len(attempts) >= SubmitLimit \/ verdict = "error")
    <2>1. attempts' = Append(attempts, verdict = "accept") /\ closed' = (verdict = "accept")
      BY <1>3 DEF Judge, Decide
    <2>2. (verdict = "accept") \in BOOLEAN
      OBVIOUS
    <2>3. /\ DOMAIN attempts' = 1 .. Len(attempts) + 1 /\ Len(attempts') = Len(attempts) + 1
          /\ \A i \in DOMAIN attempts : attempts'[i] = attempts[i]
          /\ attempts'[Len(attempts) + 1] = (verdict = "accept")
      BY <1>1, <2>1, <2>2, AppendProperties
    <2>4. Len(attempts) + 1 <= SubmitLimit
      BY <1>1, <1>3 DEF SubmitLimit
    <2>5. \A i \in DOMAIN attempts : ~attempts[i]
      BY <1>3 DEF AttemptsOK, Accepted
    <2>6. Accepted(attempts') = IF closed' THEN {Len(attempts')} ELSE {}
      BY <1>1, <2>1, <2>3, <2>5 DEF Accepted
    <2>7. attempts' # <<>>
      BY <1>1, <2>3
    <2>8. QED
      BY <1>1, <1>3, <2>3, <2>4, <2>6, <2>7 DEF AttemptsOK
  <1>4. QED
    BY <1>2, <1>3

LEMMA AttemptsKept ==
  ASSUME TypeOK, AttemptsOK, CallsOK, [Next]_vars
  PROVE  /\ AttemptsOK'
         /\ Len(attempts) <= Len(attempts')
         /\ closed => closed'
  <1>1. Len(attempts) \in Nat
    BY DEF TypeOK
  <1>2. CASE UNCHANGED <<attempts, closed>>
    BY <1>1, <1>2 DEF AttemptsOK
  <1>3. CASE Loop \/ Assemble \/ UNCHANGED vars
    BY <1>2, <1>3, LoopFrame, AssembleTypes DEF serviceVars, vars
  <1>4. ASSUME NEW c \in Call, (\E k \in Kinds : Send(c, k)) \/ Serve(c)
        PROVE  /\ AttemptsOK'
               /\ Len(attempts) <= Len(attempts')
               /\ closed => closed'
    <2>1. CASE \E verdict \in {"accept", "reject", "error"} : Judge(c, verdict)
      BY <2>1, JudgeAttempts
    <2>2. CASE ~\E verdict \in {"accept", "reject", "error"} : Judge(c, verdict)
      BY <1>2, <1>4, <2>2 DEF Serve, Send, ReserveCall, RefuseCall, RecordCall, EndCall, ReleaseCall
    <2>3. QED
      BY <2>1, <2>2
  <1>5. QED
    BY <1>3, <1>4, Steps

LEMMA LedgerFields ==
  ASSUME TypeOK, NEW g, NEW h, NEW p, NEW u, NEW m, NEW r, NEW t
  PROVE  /\ LET l == [ledger EXCEPT !.gens = g, !.shell = h] IN
              /\ l.gens = g /\ l.shell = h /\ l.submitRemaining = ledger.submitRemaining
         /\ LET l == [ledger EXCEPT !.pred = p] IN
              /\ l.gens = ledger.gens /\ l.shell = ledger.shell /\ l.pred = p
              /\ l.submitRemaining = ledger.submitRemaining
         /\ LET l == [ledger EXCEPT !.status = u] IN
              /\ l.gens = ledger.gens /\ l.shell = ledger.shell /\ l.pred = ledger.pred /\ l.status = u
              /\ l.submitRemaining = ledger.submitRemaining
         /\ LET l == [ledger EXCEPT !.submitUsed = m] IN
              /\ l.gens = ledger.gens /\ l.shell = ledger.shell /\ l.pred = ledger.pred
              /\ l.status = ledger.status /\ l.submitUsed = m /\ l.submitRemaining = ledger.submitRemaining
         /\ LET l == [ledger EXCEPT !.submitRemaining = r] IN
              /\ l.gens = ledger.gens /\ l.shell = ledger.shell /\ l.pred = ledger.pred
              /\ l.status = ledger.status /\ l.submitUsed = ledger.submitUsed /\ l.submitRemaining = r
         /\ LET l == [ledger EXCEPT !.submit = t] IN
              /\ l.gens = ledger.gens /\ l.shell = ledger.shell /\ l.pred = ledger.pred
              /\ l.status = ledger.status /\ l.submitUsed = ledger.submitUsed
              /\ l.submitRemaining = ledger.submitRemaining /\ l.submit = t
  BY DEF TypeOK, Ledger

(* What each copy is, and what it leaves of the others. *)
LEMMA AssembleSteps ==
  ASSUME TypeOK, Assemble
  PROVE  \/ /\ at = "events" /\ at' = "pred"
            /\ ledger'.gens = gens /\ ledger'.shell = shell
            /\ ledger'.submitRemaining = ledger.submitRemaining
         \/ /\ ledger'.gens = ledger.gens /\ ledger'.shell = ledger.shell
            /\ \/ /\ at = "pred" /\ at' = "counters" /\ ledger'.pred = pred
                  /\ ledger'.submitRemaining = ledger.submitRemaining
               \/ /\ ledger'.pred = ledger.pred
                  /\ \/ /\ at = "counters" /\ at' = "used" /\ ledger'.status = used
                        /\ ledger'.submitRemaining = ledger.submitRemaining
                     \/ /\ ledger'.status = ledger.status
                        /\ \/ /\ at = "used" /\ at' = "closed" /\ ledger'.submitUsed = Len(attempts)
                              /\ ledger'.submitRemaining = ledger.submitRemaining
                           \/ /\ ledger'.submitUsed = ledger.submitUsed
                              /\ \/ /\ at = "closed" /\ at' = (IF closed THEN "submit" ELSE "remaining")
                                    /\ ledger'.submitRemaining = ledger.submitRemaining
                                 \/ /\ at = "remaining" /\ at' = "submit"
                                    /\ ledger'.submitRemaining = SubmitLimit - Len(attempts)
                                 \/ /\ at = "submit" /\ at' = "done" /\ ledger'.submit = attempts
                                    /\ ledger'.submitRemaining = ledger.submitRemaining
  <1> USE DEF Snapshot
  <1>1. CASE CopyEvents
    BY <1>1, LedgerFields DEF CopyEvents
  <1>2. CASE CopyPred
    BY <1>2, LedgerFields DEF CopyPred
  <1>3. CASE CopyCounters
    BY <1>3, LedgerFields DEF CopyCounters
  <1>4. CASE CopyUsed
    BY <1>4, LedgerFields DEF CopyUsed
  <1>5. CASE AskClosed
    BY <1>5 DEF AskClosed
  <1>6. CASE CopyRemaining
    BY <1>6, LedgerFields DEF CopyRemaining
  <1>7. CASE CopyAttempts
    BY <1>7, LedgerFields DEF CopyAttempts
  <1>8. QED
    BY <1>1, <1>2, <1>3, <1>4, <1>5, <1>6, <1>7 DEF Assemble

LEMMA CopiesKept ==
  ASSUME TypeOK, ActionsSeen, AttemptsOK, CallsOK, Copies, [Next]_vars
  PROVE  Copies'
  <1> USE DEF PastEvents, PastPred, PastCounters, PastUsed, PastRemaining
  <1>1. /\ Len(attempts) \in Nat /\ Len(attempts') \in Nat /\ Len(attempts) <= Len(attempts')
        /\ Len(attempts) <= SubmitLimit /\ (closed => closed') /\ AttemptsOK
        /\ SubmitLimit \in Nat
    BY AttemptsKept, TypesKept DEF TypeOK, AttemptsOK, SubmitLimit
  <1>2. ledger.submitUsed \in Nat /\ ledger.submitRemaining \in Nat
    BY DEF TypeOK, Ledger
  <1>3. CASE Loop
    BY <1>3, LoopFrame DEF Copies, LoopPoint
  <1>4. CASE Assemble
    <2>1. UNCHANGED <<used, gens, shell, attempts, closed>>
      BY <1>4, AssembleTypes DEF serviceVars
    <2>2. closed => Accepted(attempts) # {}
      BY DEF AttemptsOK
    <2>3. QED
      BY <1>1, <1>2, <1>4, <2>1, <2>2, AssembleSteps DEF Copies
  <1>5. CASE UNCHANGED <<at, gens, shell, ledger>> /\ \A n \in Runners : used'[n] = used[n]
    BY <1>1, <1>2, <1>5 DEF Copies, Runners
  <1>6. QED
    BY <1>3, <1>4, <1>5, CallTypes, Steps DEF vars, runnerVars

-----------------------------------------------------------------------------
(* The services: one record per call, and counters that agree with them. *)

(* Where one step of the services takes a call. *)
LEMMA CallStages ==
  ASSUME TypeOK, NEW c \in Call, (\E k \in Kinds : Send(c, k)) \/ Serve(c)
  PROVE  /\ stage[c] \in {"unsent", "sent", "reserved", "running", "released"}
         /\ stage'[c] \in {"sent", "reserved", "running", "released", "ended"}
         /\ stage[c] = "unsent" => at = "command" /\ stage'[c] = "sent"
         /\ stage[c] # "unsent" => UNCHANGED kind /\ stage'[c] # "sent"
         /\ stage'[c] = "reserved" <=> ReserveCall(c)
         /\ stage[c] = "reserved" <=> RecordCall(c)
  <1> USE DEF To
  <1>1. stage \in [Call -> Stages]
    BY DEF TypeOK
  <1>2. CASE \E k \in Kinds : Send(c, k)
    BY <1>1, <1>2 DEF Send, ReserveCall, RecordCall
  <1>3. CASE ReserveCall(c) \/ RefuseCall(c) \/ RecordCall(c)
    BY <1>1, <1>3 DEF ReserveCall, RefuseCall, RecordCall
  <1>4. CASE EndCall(c) \/ ReleaseCall(c)
    BY <1>1, <1>4 DEF EndCall, ReleaseCall, ReserveCall, RecordCall
  <1>5. CASE \E verdict \in {"accept", "reject", "error"} : Judge(c, verdict)
    BY <1>1, <1>5 DEF Judge, ReserveCall, RecordCall
  <1>6. QED
    BY <1>2, <1>3, <1>4, <1>5 DEF Serve

LEMMA CallsKept ==
  ASSUME TypeOK, AttemptsOK, CallsOK, [Next]_vars
  PROVE  CallsOK'
  <1>1. CASE UNCHANGED <<kind, stage, pred>>
    BY <1>1 DEF CallsOK
  <1>2. ASSUME NEW c \in Call, (\E k \in Kinds : Send(c, k)) \/ Serve(c)
        PROVE  CallsOK'
    <2>1. \A d \in Call \ {c} : stage'[d] = stage[d] /\ kind'[d] = kind[d]
      BY <1>2, CallTypes
    <2>2. /\ pred \in Seq(PredRecord) /\ Len(pred) \in Nat /\ DOMAIN pred = 1 .. Len(pred)
          /\ \A i \in DOMAIN pred : pred[i].call \in Call
      <3>1. pred \in Seq(PredRecord)
        BY DEF TypeOK
      <3>2. \A i \in DOMAIN pred : pred[i] \in PredRecord
        BY <3>1
      <3>3. QED
        BY <3>1, <3>2 DEF PredRecord
    <2>3. \A d \in Call : stage'[d] \in {"reserved", "running", "released"} => kind'[d] \in PredKinds
      <3>1. CASE stage[c] \in {"reserved", "running", "released"}
        BY <1>2, <2>1, <3>1, CallStages DEF CallsOK
      <3>2. CASE stage[c] \in {"unsent", "sent"}
        <4>1. stage'[c] \in {"reserved", "running", "released"} => kind'[c] \in PredKinds
          BY <1>2, <3>2, CallStages DEF Serve, Send, ReserveCall, RefuseCall, RecordCall, EndCall,
             ReleaseCall, Judge, To, TypeOK
        <4>2. QED
          BY <2>1, <4>1 DEF CallsOK
      <3>3. QED
        BY <1>2, <3>1, <3>2, CallStages
    <2>4. \A i \in DOMAIN pred : stage'[pred[i].call] \notin {"unsent", "sent", "reserved"}
      <3>1. stage[c] \notin {"unsent", "sent", "reserved"} => stage'[c] \notin {"unsent", "sent", "reserved"}
        BY <1>2, CallStages DEF ReserveCall
      <3>2. QED
        BY <2>1, <2>2, <3>1 DEF CallsOK
    <2>5. CASE UNCHANGED pred
      BY <2>3, <2>4, <2>5 DEF CallsOK
    <2>6. CASE RefuseCall(c) \/ RecordCall(c)
      <3>1. stage[c] \in {"sent", "reserved"} /\ stage'[c] \notin {"unsent", "sent", "reserved"}
        BY <2>6 DEF RefuseCall, RecordCall, To, TypeOK
      <3>2. kind[c] \in PredKinds
        BY <2>6 DEF RefuseCall, RecordCall, CallsOK
      <3>3. PICK b \in BOOLEAN : Record(c, b)
        BY <2>6 DEF RefuseCall, RecordCall
      <3>4. PICK r \in PredRecord : pred' = Append(pred, r) /\ r.call = c
        BY <3>2, <3>3, RecordTypes DEF Record
      <3>5. /\ DOMAIN pred' = 1 .. Len(pred) + 1 /\ pred'[Len(pred) + 1].call = c
            /\ \A i \in DOMAIN pred : pred'[i] = pred[i]
        BY <2>2, <3>4, AppendProperties
      <3>6. \A i \in DOMAIN pred : pred[i].call # c
        BY <3>1 DEF CallsOK
      <3>7. \A i \in DOMAIN pred' : i \in DOMAIN pred \/ i = Len(pred) + 1
        BY <2>2, <3>5
      <3>8. \A i \in DOMAIN pred' : stage'[pred'[i].call] \notin {"unsent", "sent", "reserved"}
        BY <2>4, <3>1, <3>5, <3>7
      <3>9. \A i, j \in DOMAIN pred' : pred'[i].call = pred'[j].call => i = j
        BY <3>5, <3>6, <3>7 DEF CallsOK
      <3>10. QED
        BY <2>3, <3>8, <3>9 DEF CallsOK
    <2>7. QED
      BY <1>2, <2>5, <2>6 DEF Serve, Send, ReserveCall, EndCall, ReleaseCall, Judge
  <1>3. QED
    BY <1>1, <1>2, LoopFrame, AssembleTypes, Steps DEF vars, serviceVars

LEMMA BalanceKept ==
  ASSUME TypeOK, AttemptsOK, CallsOK, Balanced, [Next]_vars
  PROVE  Balanced'
  <1>1. CASE UNCHANGED <<kind, stage, pred, lost>> /\ \A n \in Services : used'[n] = used[n]
    <2>1. Pending' = Pending /\ \A n \in Services : PendingCost(n)' = PendingCost(n)
      BY <1>1 DEF Pending, PendingCost, Cost
    <2>2. QED
      BY <1>1, <2>1 DEF Balanced, Services
  <1>2. CASE Loop \/ Assemble \/ UNCHANGED vars
    BY <1>1, <1>2, LoopFrame, AssembleTypes DEF vars, serviceVars
  <1>3. ASSUME NEW c \in Call, (\E k \in Kinds : Send(c, k)) \/ Serve(c)
        PROVE  Balanced'
    <2>1. \A d \in Call \ {c} : stage'[d] = stage[d] /\ kind'[d] = kind[d]
      BY <1>3, CallTypes
    <2>2. \A d \in Call \ {c} : Cost(d)' = Cost(d)
      BY <2>1 DEF Cost
    <2>3. BudgetTypeOK /\ BudgetTypeOK' /\ Services \subseteq Counter /\ Cost(c) \in SUBSET Services
      BY <1>3, CallTypes, CounterFacts DEF TypeOK
    <2>4. /\ IsFiniteSet(Pending)
          /\ \A n : IsFiniteSet(PendingCost(n)) /\ Cardinality(PendingCost(n)) \in Nat
      <3>1. IsFiniteSet(Pending)
        BY DEF Balanced
      <3>2. \A n : PendingCost(n) \in SUBSET Pending
        BY DEF PendingCost
      <3>3. QED
        BY <3>1, <3>2, FS_Subset, FS_CardinalityType
    <2>5. CASE ReserveCall(c)
      <3>1. stage[c] = "sent" /\ stage'[c] = "reserved" /\ UNCHANGED <<kind, pred, lost>> /\ Reserve(Cost(c))
        BY <2>5 DEF ReserveCall, To, TypeOK
      <3>2. c \notin Pending /\ Pending' = Pending \cup {c} /\ Cost(c)' = Cost(c)
        BY <2>1, <3>1 DEF Pending, Cost
      <3>3. IsFiniteSet(Pending')
        BY <2>4, <3>2, FS_AddElement
      <3>4. ASSUME NEW n \in Services
            PROVE  used'[n] - Cardinality(PendingCost(n)') = used[n] - Cardinality(PendingCost(n))
        <4>1. used'[n] = IF n \in Cost(c) THEN used[n] + 1 ELSE used[n]
          BY <2>3, <3>1, ReserveTypes
        <4>2. c \notin PendingCost(n)
          BY <3>2 DEF PendingCost
        <4>3. PendingCost(n)' = IF n \in Cost(c) THEN PendingCost(n) \cup {c} ELSE PendingCost(n)
          BY <2>2, <3>2 DEF PendingCost, Pending
        <4>4. Cardinality(PendingCost(n) \cup {c}) = Cardinality(PendingCost(n)) + 1
          BY <2>4, <4>2, FS_AddElement
        <4>5. used[n] \in Nat /\ Cardinality(PendingCost(n)) \in Nat
          BY <2>3, <2>4 DEF BudgetTypeOK
        <4>6. QED
          BY <4>1, <4>3, <4>4, <4>5
      <3>5. Charged(pred) \in Nat /\ Solving(pred) \in Nat /\ UNCHANGED <<Charged(pred), Solving(pred)>>
        BY <3>1, PredCounts DEF TypeOK
      <3>6. \A n \in Services : /\ used[n] \in Nat /\ used'[n] \in Nat
                                /\ Cardinality(PendingCost(n)) \in Nat
                                /\ Cardinality(PendingCost(n)') \in Nat
        <4>1. \A n : PendingCost(n)' \in SUBSET Pending'
          BY DEF PendingCost
        <4>2. QED
          BY <2>3, <2>4, <3>3, <4>1, FS_Subset, FS_CardinalityType DEF BudgetTypeOK
      <3>7. QED
        BY <3>1, <3>3, <3>4, <3>5, <3>6 DEF Balanced, Services
    <2>6. CASE RecordCall(c)
      <3>1. /\ stage[c] = "reserved" /\ stage'[c] = "running" /\ UNCHANGED <<used, kind, lost>>
            /\ kind[c] \in PredKinds /\ Record(c, Cost(c) # {})
        BY <2>6 DEF RecordCall, To, TypeOK, CallsOK
      <3>2. c \in Pending /\ Pending' = Pending \ {c}
        BY <2>1, <3>1 DEF Pending
      <3>3. IsFiniteSet(Pending')
        BY <2>4, <3>2, FS_RemoveElement
      <3> DEFINE r == [call |-> c, kind |-> kind[c], charged |-> Cost(c) # {}]
      <3>4. r \in PredRecord /\ pred' = Append(pred, r) /\ pred \in Seq(PredRecord)
        BY <3>1, RecordTypes DEF TypeOK
      <3>5. /\ r.charged <=> "pred_calls" \in Cost(c)
            /\ r.charged /\ r.kind = "solve" <=> "solve_calls" \in Cost(c)
        BY <3>1 DEF Cost, PredKinds
      <3> HIDE DEF r
      <3>6. /\ Charged(pred') = IF "pred_calls" \in Cost(c) THEN Charged(pred) + 1 ELSE Charged(pred)
            /\ Solving(pred') = IF "solve_calls" \in Cost(c) THEN Solving(pred) + 1 ELSE Solving(pred)
        BY <3>4, <3>5, ChargedAppend, SolvingAppend
      <3>7. ASSUME NEW n \in Services
            PROVE  Cardinality(PendingCost(n))
                     = IF n \in Cost(c) THEN Cardinality(PendingCost(n)') + 1
                                        ELSE Cardinality(PendingCost(n)')
        <4>1. PendingCost(n)' = IF n \in Cost(c) THEN PendingCost(n) \ {c} ELSE PendingCost(n)
          BY <2>2, <3>2 DEF PendingCost, Pending
        <4>2. n \in Cost(c) => c \in PendingCost(n)
          BY <3>2 DEF PendingCost
        <4>3. n \in Cost(c) => Cardinality(PendingCost(n) \ {c}) = Cardinality(PendingCost(n)) - 1
          BY <2>4, <4>2, FS_RemoveElement
        <4>4. QED
          BY <2>4, <4>1, <4>3
      <3>8. \A n \in Services : used[n] \in Nat /\ Cardinality(PendingCost(n)') \in Nat
        <4>1. \A n : PendingCost(n)' \in SUBSET Pending'
          BY DEF PendingCost
        <4>2. QED
          BY <2>3, <3>3, <4>1, FS_Subset, FS_CardinalityType DEF BudgetTypeOK
      <3>9. Charged(pred) \in Nat /\ Solving(pred) \in Nat
        BY <3>4, PredCounts
      <3>10. QED
        BY <3>1, <3>3, <3>6, <3>7, <3>8, <3>9 DEF Balanced, Services
    <2>7. CASE ~ReserveCall(c) /\ ~RecordCall(c)
      <3>1. stage[c] # "reserved" /\ stage'[c] # "reserved"
        BY <1>3, <2>7, CallStages
      <3>2. Pending' = Pending /\ \A n : PendingCost(n)' = PendingCost(n)
        BY <2>1, <2>2, <3>1 DEF Pending, PendingCost
      <3>3. CASE RefuseCall(c)
        <4>1. UNCHANGED <<used, lost>> /\ kind[c] \in PredKinds /\ Record(c, FALSE)
          BY <3>3 DEF RefuseCall
        <4> DEFINE r == [call |-> c, kind |-> kind[c], charged |-> FALSE]
        <4>2. r \in PredRecord /\ ~r.charged /\ pred' = Append(pred, r) /\ pred \in Seq(PredRecord)
          BY <4>1, RecordTypes DEF TypeOK
        <4> HIDE DEF r
        <4>3. Charged(pred') = Charged(pred) /\ Solving(pred') = Solving(pred)
          BY <4>2, ChargedAppend, SolvingAppend
        <4>4. QED
          BY <3>2, <4>1, <4>3 DEF Balanced
      <3>4. CASE ReleaseCall(c)
        BY <3>2, <3>4 DEF ReleaseCall, Balanced
      <3>5. CASE ~RefuseCall(c) /\ ~ReleaseCall(c)
        <4>1. UNCHANGED <<used, pred, lost>>
          BY <1>3, <2>7, <3>5 DEF Serve, Send, EndCall, Judge
        <4>2. QED
          BY <3>2, <4>1 DEF Balanced
      <3>6. QED
        BY <3>3, <3>4, <3>5
    <2>8. QED
      BY <2>5, <2>6, <2>7
  <1>4. QED
    BY <1>2, <1>3, Steps

-----------------------------------------------------------------------------
(* A ledger begun when no call was under way. *)

LEMMA QuietKept ==
  ASSUME TypeOK, ActionsSeen, AttemptsOK, CallsOK, Copies, QuietCopies, [Next]_vars
  PROVE  QuietCopies'
  <1> USE DEF PastEvents, PastPred, PastCounters, PastUsed, PastRemaining
  <1>1. CASE Loop
    <2>1. at' \in LoopPoint => ~quiet'
      BY <1>1, LoopFrame DEF ActionsSeen
    <2>2. at' = "events" /\ quiet' => UnderWay' = {}
      BY <1>1, LoopFrame DEF UnderWay
    <2>3. QED
      BY <1>1, <2>1, <2>2, LoopFrame DEF QuietCopies, LoopPoint
  <1>2. CASE Assemble
    <2>1. UNCHANGED <<used, quiet, stage, pred, attempts, closed>> /\ UnderWay' = UnderWay
      BY <1>2, AssembleTypes DEF serviceVars, UnderWay
    <2>2. ledger.submitRemaining = 0 \/ at \in PastRemaining
      BY DEF Copies
    <2>3. QED
      BY <1>2, <2>1, <2>2, AssembleSteps DEF QuietCopies
  <1>3. ASSUME NEW c \in Call, (\E k \in Kinds : Send(c, k)) \/ Serve(c)
        PROVE  QuietCopies'
    <2>1. UNCHANGED quiet
      BY <1>3, CallTypes
    <2>2. stage[c] \notin {"unsent", "ended"} => UnderWay # {}
      BY DEF UnderWay
    <2>3. stage[c] = "unsent" => ~quiet
      BY <1>3, CallStages DEF ActionsSeen, LoopPoint
    <2>4. QED
      BY <1>3, <2>1, <2>2, <2>3, CallStages DEF QuietCopies
  <1>4. CASE UNCHANGED vars
    <2>1. UnderWay' = UnderWay
      BY <1>4 DEF vars, serviceVars, UnderWay
    <2>2. QED
      BY <1>4, <2>1 DEF vars, runnerVars, serviceVars, QuietCopies
  <1>5. QED
    BY <1>1, <1>2, <1>3, <1>4, Steps

-----------------------------------------------------------------------------
(* The theorems. *)

IInv ==
  /\ TypeOK
  /\ WithinBudget
  /\ GenerationsOK
  /\ ShellOK
  /\ ActionsSeen
  /\ AttemptsOK
  /\ Copies
  /\ CallsOK
  /\ Balanced
  /\ QuietCopies

LEMMA InitInvariant == Init => IInv
  <1> SUFFICES ASSUME Init PROVE IInv
    OBVIOUS
  <1> USE DEF Init, BudgetInit
  <1>1. TypeOK
    <2>1. ledger \in Ledger
      BY DEF Empty, Ledger
    <2>2. BudgetTypeOK
      BY DEF BudgetTypeOK
    <2>3. kind \in [Call -> Kinds \cup {"none"}] /\ stage \in [Call -> Stages]
      BY DEF Stages
    <2>4. gens \in Seq(Event) /\ shell \in Seq(ShellEvent) /\ pred \in Seq(PredRecord)
          /\ attempts \in Seq(BOOLEAN)
      OBVIOUS
    <2>5. QED
      BY <2>1, <2>2, <2>3, <2>4 DEF TypeOK
  <1>2. WithinBudget
    BY AllowanceAssumption DEF WithinBudget, Counter
  <1>3. Charged(<<>>) = 0 /\ Solving(<<>>) = 0
    <2>1. {i \in DOMAIN <<>> : <<>>[i].charged} = {}
          /\ {i \in DOMAIN <<>> : <<>>[i].charged /\ <<>>[i].kind = "solve"} = {}
      OBVIOUS
    <2>2. QED
      BY <2>1, FS_EmptySet DEF Charged, Solving, Count
  <1>4. GenerationsOK /\ ShellOK
    BY <1>3 DEF GenerationsOK, ShellOK, Counter
  <1>5. ActionsSeen /\ AttemptsOK
    BY DEF ActionsSeen, AttemptsOK, Accepted, SubmitLimit
  <1>6. Copies /\ QuietCopies
    BY DEF Copies, QuietCopies, PastEvents, PastPred, PastCounters, PastUsed, PastRemaining, Empty
  <1>7. CallsOK
    BY DEF CallsOK
  <1>8. Balanced
    <2>1. Pending = {} /\ \A n : PendingCost(n) = {}
      BY DEF Pending, PendingCost
    <2>2. IsFiniteSet(Pending) /\ \A n : Cardinality(PendingCost(n)) = 0
      BY <2>1, FS_EmptySet
    <2>3. used["pred_calls"] = 0 /\ used["solve_calls"] = 0
      BY DEF Counter
    <2>4. QED
      BY <1>3, <2>2, <2>3 DEF Balanced
  <1>9. QED
    BY <1>1, <1>2, <1>4, <1>5, <1>6, <1>7, <1>8 DEF IInv

THEOREM Invariance == Spec => []IInv
  <1>1. IInv /\ [Next]_vars => IInv'
    BY TypesKept, BudgetKept, GenerationsKept, ShellKept, SeenKept, AttemptsKept, CopiesKept, CallsKept,
       BalanceKept, QuietKept DEF IInv
  <1>2. QED
    BY <1>1, InitInvariant, PTL DEF Spec

(* The records, counters and copies of an episode have their types. *)
THEOREM TypeCorrect == Spec => []TypeOK
  <1>1. IInv => TypeOK
    BY DEF IInv
  <1>2. QED
    BY <1>1, Invariance, PTL

(* What the runner's thread owns is accepted whatever the services do while
   the ledger is assembled, and no submission is claimed that was not made. *)
THEOREM OwnPartsAccepted == Spec => []OwnPartsAlwaysAccepted
  <1>1. IInv => OwnPartsAlwaysAccepted
    <2> SUFFICES ASSUME IInv, Done PROVE OwnPartsAlwaysAccepted
      BY DEF OwnPartsAlwaysAccepted
    <2> USE DEF IInv
    <2>1. at = "done" /\ ~failed
      BY DEF Done
    <2>2. /\ ledger.gens = gens /\ ledger.shell = shell
          /\ \A n \in {"model_generations", "shell_actions"} : ledger.status[n] = used[n]
      BY <2>1 DEF Copies, PastEvents, PastPred, PastCounters
    <2>3. \A n \in {"model_generations", "shell_actions"} :
            used[n] \in Nat /\ Allowance[n] \in Nat /\ used[n] <= Allowance[n]
      BY AllowanceAssumption DEF TypeOK, BudgetTypeOK, WithinBudget, Counter
    <2>4. Len(gens) \in Nat /\ Len(shell) \in Nat
      BY DEF TypeOK
    <2>5. EpisodeEventsValid(ledger, Allowance)
      BY <2>2, <2>3, <2>4 DEF EpisodeEventsValid, MatchesCounter, GenerationsOK, ShellOK
    <2>6. ObservationsValid(ledger)
      BY <2>1, <2>2 DEF ObservationsValid, ActionsSeen
    <2>7. QED
      BY <2>1, <2>5, <2>6 DEF OwnPartsAlwaysAccepted, Copies
  <1>2. QED
    BY <1>1, Invariance, PTL

(* An episode whose calls were over when its ledger was begun is accepted by
   the contract: the counters and the records of the services agree. *)
THEOREM QuietAccepted == Spec => []QuietLedgerAccepted
  <1>1. IInv /\ OwnPartsAlwaysAccepted => QuietLedgerAccepted
    <2> SUFFICES ASSUME IInv, OwnPartsAlwaysAccepted, Done, quiet, ~lost, Len(pred) <= PredBound(Allowance)
                 PROVE  EpisodeLedgerValid(ledger, Allowance)
      BY DEF QuietLedgerAccepted
    <2> USE DEF IInv
    <2>1. at = "done"
      BY DEF Done
    <2>2. /\ ledger.pred = pred /\ ledger.status = used /\ ledger.submitUsed = Len(attempts)
          /\ ledger.submitRemaining = IF closed THEN 0 ELSE SubmitLimit - Len(attempts)
          /\ ledger.submit = attempts /\ UnderWay = {}
      BY <2>1 DEF QuietCopies, PastPred, PastEvents, PastCounters, PastUsed, PastRemaining
    <2>3. StatusValid(ledger, Allowance)
      BY <2>2, AllowanceAssumption DEF StatusValid, WithinBudget
    <2>4. EpisodeEventsValid(ledger, Allowance) /\ ObservationsValid(ledger)
      BY DEF OwnPartsAlwaysAccepted
    <2>5. PredLedgerValid(ledger, Allowance)
      <3>1. \A n : PendingCost(n) = {}
        BY <2>2 DEF UnderWay, PendingCost, Pending
      <3>2. Charged(pred) \in Nat /\ Solving(pred) \in Nat
        BY PredCounts DEF TypeOK
      <3>3. Charged(pred) = used["pred_calls"] /\ Solving(pred) = used["solve_calls"]
        <4>1. \A n : Cardinality(PendingCost(n)) = 0
          BY <3>1, FS_EmptySet
        <4>2. QED
          BY <3>2, <4>1 DEF Balanced
      <3>4. QED
        BY <2>2, <3>3 DEF PredLedgerValid, CallsOK, Solving
    <2>6. SubmitLedgerValid(ledger)
      <3>1. Cardinality(Accepted(attempts)) <= 1
        <4>1. Cardinality({Len(attempts)}) = 1 /\ Cardinality({}) = 0
          BY FS_Singleton, FS_EmptySet
        <4>2. QED
          BY <4>1 DEF AttemptsOK
      <3>2. closed <=> Accepted(attempts) # {}
        BY DEF AttemptsOK
      <3>3. QED
        BY <2>2, <3>1, <3>2 DEF SubmitLedgerValid, AttemptsOK
    <2>7. QED
      BY <2>3, <2>4, <2>5, <2>6 DEF EpisodeLedgerValid
  <1>2. QED
    BY <1>1, Invariance, OwnPartsAccepted, PTL

===============================================================================
