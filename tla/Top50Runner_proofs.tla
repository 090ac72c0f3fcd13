-------------------------- MODULE Top50Runner_proofs --------------------------
(***************************************************************************)
(* Proofs about Top50Runner, for every inventory, shortlist size, triage    *)
(* budget and any number of runs and crashes: the output file implements    *)
(* RunRecord, and a crash loses at most the episode in progress.            *)
(*                                                                         *)
(* What makes both inductive is how far the file may be behind the process  *)
(* at each of its steps (FileAgrees).                                      *)
(***************************************************************************)
EXTENDS Top50Runner, FiniteSetTheorems, SequenceTheorems, TLAPS

-----------------------------------------------------------------------------
(* Counting the records of triage. *)

(* The positions of the records in T. *)
Where(records, T) == {i \in DOMAIN records : records[i] \in T}

(* Positions whose records have a property are counted one more when such a
   record is appended. *)
LEMMA CountAppend ==
  ASSUME NEW S, NEW s \in Seq(S), NEW e \in S, NEW T
  PROVE  /\ IsFiniteSet(Where(s, T))
         /\ Cardinality(Where(s, T)) \in Nat
         /\ Cardinality(Where(s, T)) <= Len(s)
         /\ e \in T => Cardinality(Where(Append(s, e), T)) = Cardinality(Where(s, T)) + 1
         /\ e \notin T => Cardinality(Where(Append(s, e), T)) = Cardinality(Where(s, T))
  <1> DEFINE old == Where(s, T)
             new == Where(Append(s, e), T)
             n == Len(s)
  <1> USE DEF Where
  <1>1. n \in Nat /\ DOMAIN s = 1 .. n
    OBVIOUS
  <1>2. IsFiniteSet(1 .. n) /\ Cardinality(1 .. n) = n
    BY <1>1, FS_Interval
  <1>3. old \in SUBSET (1 .. n)
    BY <1>1
  <1>4. IsFiniteSet(old) /\ Cardinality(old) <= n
    BY <1>2, <1>3, FS_Subset
  <1>5. Cardinality(old) \in Nat
    BY <1>4, FS_CardinalityType
  <1>6. new = IF e \in T THEN old \cup {n + 1} ELSE old
    BY <1>1
  <1>7. n + 1 \notin old
    BY <1>1
  <1>8. Cardinality(old \cup {n + 1}) = Cardinality(old) + 1
    BY <1>4, <1>7, FS_AddElement
  <1>9. e \in T => Cardinality(new) = Cardinality(old) + 1
    BY <1>6, <1>8
  <1>10. e \notin T => Cardinality(new) = Cardinality(old)
    BY <1>6
  <1>11. QED
    BY <1>4, <1>5, <1>9, <1>10

-----------------------------------------------------------------------------
(* The file knows nothing of this run yet, or its episodes up to here. *)
UpToDate ==
  \/ output.run < run /\ episodes = <<>>
  \/ output.run = run /\ output.error = "incomplete" /\ output.episodes = episodes

(* The file is up to date but for the newest episode. *)
AlmostUpToDate ==
  \/ output.run < run /\ File!Extends(episodes, <<>>)
  \/ /\ output.run = run
     /\ output.error = "incomplete"
     /\ File!Extends(episodes, output.episodes)

Complete(record) == record.error = "none" => Len(record.episodes) = ShortlistSize

FileAgrees ==
  /\ at # "down" => run > 0
  /\ output.run <= run
  /\ shortlist = <<>> \/ Len(shortlist) = ShortlistSize
  /\ at \in {"query", "act", "check", "leave"} => output.run < run /\ episodes = <<>>
  /\ at = "episode" => UpToDate /\ Len(shortlist) = ShortlistSize
  /\ at \in {"write", "flush", "replace"} =>
       /\ result \in Record
       /\ result.run = run
       /\ result.episodes = episodes
       /\ Complete(result)
       /\ result.error = "incomplete" => Len(shortlist) = ShortlistSize
       /\ AlmostUpToDate
  /\ at = "replace" => temporary = result

IInv == TypeOK /\ FileAgrees /\ LosesAtMostOneEpisode

-----------------------------------------------------------------------------
(* Sequences that grow by one element. *)

LEMMA AppendExtends ==
  ASSUME NEW S, NEW s \in Seq(S), NEW e \in S
  PROVE  File!Extends(Append(s, e), s)
  <1> DEFINE t == Append(s, e)
  <1>1. /\ t \in Seq(S)
        /\ Len(t) = Len(s) + 1
        /\ \A i \in 1..Len(s) : t[i] = s[i]
    BY AppendProperties
  <1>2. SubSeq(t, 1, Len(s)) = s
    <2> DEFINE u == SubSeq(t, 1, Len(s))
    <2>1. Len(s) \in Nat
      BY LenProperties
    <2>2. /\ u \in Seq(S)
          /\ Len(u) = IF 1 <= Len(s) THEN Len(s) - 1 + 1 ELSE 0
          /\ \A i \in 1 .. Len(s) - 1 + 1 : u[i] = t[1 + i - 1]
      BY <1>1, <2>1, SubSeqProperties
    <2>3. Len(u) = Len(s)
      BY <2>1, <2>2
    <2>4. \A i \in 1..Len(s) : u[i] = s[i]
      BY <1>1, <2>1, <2>2
    <2>5. QED
      BY <2>2, <2>3, <2>4, SeqEqual
  <1>3. QED
    BY <1>1, <1>2 DEF File!Extends

LEMMA PrefixOfItself ==
  ASSUME NEW S, NEW s \in Seq(S)
  PROVE  SubSeq(s, 1, Len(s)) = s
  BY SubSeqFull

-----------------------------------------------------------------------------
(* Type correctness. *)

LEMMA Domain == DOMAIN Limits = {"model_generations", "shell_actions"}
  BY DEF Limits

LEMMA LimitsAreNat == \A n \in DOMAIN Limits : Limits[n] \in Nat
  BY RunnerAssumption, Domain DEF Limits

LEMMA InitInv == Init => IInv
  <1> SUFFICES ASSUME Init PROVE IInv
    OBVIOUS
  <1>1. TypeOK
    <2>1. used \in [DOMAIN Limits -> Nat]
      BY DEF Init, NothingUsed
    <2>2. run \in 0..MaxRuns
      BY RunnerAssumption DEF Init
    <2>3. events \in Seq(TriageEvent) /\ shortlist \in Seq(Inventory) /\ episodes \in Seq(EpisodeRecord)
      BY EmptySeq DEF Init
    <2>4. QED
      BY <2>1, <2>2, <2>3 DEF Init, TypeOK, Errors
  <1>2. FileAgrees
    BY DEF Init, FileAgrees, Absent
  <1>3. LosesAtMostOneEpisode
    BY DEF Init, LosesAtMostOneEpisode
  <1>4. QED
    BY <1>1, <1>2, <1>3 DEF IInv

LEMMA LedgersType == Ledgers \subseteq Seq(BOOLEAN)
  BY DEF Ledgers

LEMMA ShortlistType ==
  ASSUME NEW c \in Candidates, Acceptable(c)
  PROVE  c \in Seq(Inventory) /\ Len(c) = ShortlistSize
  <1>1. c \in Seq(Inventory \cup {Foreign})
    BY RunnerAssumption
  <1>2. Len(c) \in Nat /\ DOMAIN c = 1..Len(c)
    BY <1>1, LenProperties
  <1>3. \A i \in 1..Len(c) : c[i] \in Inventory
    BY <1>2 DEF Acceptable, ShortlistValid
  <1>4. SubSeq(c, 1, Len(c)) \in Seq(Inventory)
    BY <1>2, <1>3, SubSeqProperties
  <1>5. SubSeq(c, 1, Len(c)) = c
    BY <1>1, SubSeqFull
  <1>6. QED
    BY <1>4, <1>5 DEF Acceptable, ShortlistValid

LEMMA DebitType ==
  ASSUME TypeOK, NEW counter \in DOMAIN Limits,
         NEW type \in {"model_generation", "shell_action"}, Debit(counter, type)
  PROVE  used' \in [DOMAIN Limits -> Nat] /\ events' \in Seq(TriageEvent)
  <1>1. used' \in [DOMAIN Limits -> Nat]
    BY DEF TypeOK, Debit
  <1>2. Len(events) \in Nat
    BY LenProperties DEF TypeOK
  <1>3. Left(counter) \in BOOLEAN
    BY DEF Left
  <1>4. [type |-> type, sequence |-> Len(events) + 1, charged |-> Left(counter)] \in TriageEvent
    BY <1>2, <1>3 DEF TriageEvent
  <1>5. QED
    BY <1>1, <1>4, AppendProperties DEF TypeOK, Debit

LEMMA ResultType ==
  ASSUME TypeOK, run > 0, NEW why \in Errors, NEW done \in Seq(EpisodeRecord)
  PROVE  /\ Result(why, done) \in Record
         /\ Result(why, done).run = run
         /\ Result(why, done).error = why
         /\ Result(why, done).episodes = done
  <1>1. triage \in TriageLedger
    BY DEF triage, TriageLedger, TypeOK
  <1>2. run \in 1..MaxRuns
    BY RunnerAssumption DEF TypeOK
  <1>3. QED
    BY <1>1, <1>2 DEF Result, Record, TypeOK

-----------------------------------------------------------------------------
(* Each action keeps the invariant. *)

LEMMA TriageKeeps ==
  ASSUME IInv, NEW next \in {"query", "act", "check", "leave"}, TriageStep(next),
         at \in {"query", "act", "check", "leave"},
         used' \in [DOMAIN Limits -> Nat],
         events' \in Seq(TriageEvent),
         shortlist' = shortlist \/ (shortlist' \in Seq(Inventory) /\ Len(shortlist') = ShortlistSize),
         error' \in {error, "triage"}
  PROVE  IInv'
  <1>1. TypeOK'
    BY DEF IInv, TypeOK, TriageStep, fileVars, Errors
  <1>2. FileAgrees'
    BY DEF IInv, FileAgrees, TriageStep, fileVars
  <1>3. LosesAtMostOneEpisode'
    BY DEF IInv, LosesAtMostOneEpisode, TriageStep, fileVars
  <1>4. QED
    BY <1>1, <1>2, <1>3 DEF IInv

LEMMA DieKeeps ==
  ASSUME IInv, Die
  PROVE  IInv'
  <1>1. TypeOK'
    <2>1. used' \in [DOMAIN Limits -> Nat]
      BY DEF Die, NothingUsed
    <2>2. events' \in Seq(TriageEvent) /\ shortlist' \in Seq(Inventory)
      BY EmptySeq DEF Die
    <2>3. QED
      BY <2>1, <2>2 DEF IInv, TypeOK, Die, fileVars, Errors
  <1>2. FileAgrees'
    BY DEF IInv, FileAgrees, Die, fileVars
  <1>3. LosesAtMostOneEpisode'
    BY DEF IInv, LosesAtMostOneEpisode, Die, fileVars
  <1>4. QED
    BY <1>1, <1>2, <1>3 DEF IInv

LEMMA StartKeeps ==
  ASSUME IInv, Start
  PROVE  IInv'
  <1>1. output.run \in Nat /\ run \in Nat
    BY RunnerAssumption DEF IInv, TypeOK, Record, Absent
  <1>2. TypeOK'
    <2>1. run' \in 0..MaxRuns
      BY RunnerAssumption, <1>1 DEF Start
    <2>2. episodes' \in Seq(EpisodeRecord)
      BY EmptySeq DEF Start
    <2>3. QED
      BY <2>1, <2>2 DEF IInv, TypeOK, Start, triageVars, fileVars
  <1>3. FileAgrees'
    BY <1>1 DEF IInv, FileAgrees, Start, triageVars, fileVars
  <1>4. LosesAtMostOneEpisode'
    BY DEF LosesAtMostOneEpisode, Start
  <1>5. QED
    BY <1>2, <1>3, <1>4 DEF IInv

LEMMA LeaveTriageKeeps ==
  ASSUME IInv, LeaveTriage
  PROVE  IInv'
  <1> USE DEF IInv, LeaveTriage, fileVars
  <1>1. run > 0 /\ output.run < run /\ episodes = <<>>
    BY DEF FileAgrees
  <1>2. CASE error = "none" /\ shortlist # <<>>
    <2>1. TypeOK'
      BY <1>2 DEF TypeOK
    <2>2. FileAgrees'
      BY <1>1, <1>2 DEF FileAgrees, UpToDate
    <2>3. LosesAtMostOneEpisode'
      BY <1>2 DEF LosesAtMostOneEpisode
    <2>4. QED
      BY <2>1, <2>2, <2>3
  <1>3. CASE ~(error = "none" /\ shortlist # <<>>)
    <2>1. result' = Result("triage", <<>>) /\ at' = "write" /\ error' = "triage"
      BY <1>3 DEF Persist
    <2>2. /\ result' \in Record
          /\ result'.run = run
          /\ result'.error = "triage"
          /\ result'.episodes = <<>>
      BY <1>1, <2>1, ResultType, EmptySeq DEF Errors
    <2>3. TypeOK'
      BY <2>1, <2>2 DEF TypeOK, Errors
    <2>4. FileAgrees'
      BY <1>1, <2>1, <2>2 DEF FileAgrees, AlmostUpToDate, Complete, File!Extends
    <2>5. LosesAtMostOneEpisode'
      BY <1>1, <2>1 DEF LosesAtMostOneEpisode
    <2>6. QED
      BY <2>3, <2>4, <2>5
  <1>4. QED
    BY <1>2, <1>3

LEMMA RunEpisodeKeeps ==
  ASSUME IInv, NEW raised \in BOOLEAN, NEW submit \in Ledgers, RunEpisode(raised, submit)
  PROVE  IInv'
  <1> DEFINE record == [rule |-> NextRule, status |-> StatusOf(raised, submit), submit |-> submit]
             why == IF raised THEN "episode" ELSE "incomplete"
  <1> USE DEF IInv
  <1>1. /\ at = "episode"
        /\ Len(episodes) < Len(shortlist)
        /\ episodes' = Append(episodes, record)
        /\ result' = Result(why, episodes')
        /\ at' = "write"
        /\ error' \in Errors
    BY DEF RunEpisode, Persist, Errors
  <1>2. episodes \in Seq(EpisodeRecord) /\ Len(episodes) \in Nat
    BY LenProperties DEF TypeOK
  <1>3. record \in EpisodeRecord
    <2>1. NextRule \in Inventory
      <3>1. shortlist \in Seq(Inventory) /\ Len(shortlist) \in Nat
        BY LenProperties DEF TypeOK
      <3>2. Len(episodes) + 1 \in 1..Len(shortlist)
        BY <1>1, <1>2, <3>1
      <3>3. QED
        BY <3>1, <3>2, ElementOfSeq DEF NextRule
    <2>2. StatusOf(raised, submit) \in {"run_error", "bug_found", "completed"}
      BY DEF StatusOf
    <2>3. QED
      BY <2>1, <2>2, LedgersType DEF EpisodeRecord
  <1>4. /\ episodes' \in Seq(EpisodeRecord)
        /\ Len(episodes') = Len(episodes) + 1
        /\ File!Extends(episodes', episodes)
    BY <1>1, <1>2, <1>3, AppendProperties, AppendExtends
  <1>5. /\ result' \in Record
        /\ result'.run = run
        /\ result'.error = why
        /\ result'.episodes = episodes'
    BY <1>1, <1>4, ResultType DEF FileAgrees, Errors
  <1>6. UpToDate /\ Len(shortlist) = ShortlistSize /\ run > 0
    BY <1>1 DEF FileAgrees
  <1>7. UNCHANGED <<run, certified, used, events, shortlist, temporary, output>>
    BY DEF RunEpisode, fileVars
  <1>8. TypeOK'
    BY <1>1, <1>4, <1>5, <1>7 DEF TypeOK
  <1>9. FileAgrees'
    <2>1. AlmostUpToDate'
      BY <1>4, <1>6, <1>7 DEF UpToDate, AlmostUpToDate
    <2>2. QED
      BY <2>1, <1>1, <1>5, <1>6, <1>7 DEF FileAgrees, Complete
  <1>10. LosesAtMostOneEpisode'
    <2>1. CASE episodes = <<>>
      BY <2>1, <1>4, EmptySeq DEF LosesAtMostOneEpisode
    <2>2. CASE episodes # <<>>
      BY <2>2, <1>2, <1>4, <1>6, <1>7 DEF LosesAtMostOneEpisode, UpToDate, File!Extends
    <2>3. QED
      BY <2>1, <2>2
  <1>11. QED
    BY <1>8, <1>9, <1>10

LEMMA FinishKeeps ==
  ASSUME IInv, Finish
  PROVE  IInv'
  <1> USE DEF IInv
  <1>1. /\ at = "episode"
        /\ Len(episodes) = Len(shortlist)
        /\ result' = Result("none", episodes)
        /\ at' = "write"
    BY DEF Finish, Persist
  <1>2. UpToDate /\ Len(shortlist) = ShortlistSize /\ run > 0
    BY <1>1 DEF FileAgrees
  <1>3. /\ result' \in Record
        /\ result'.run = run
        /\ result'.error = "none"
        /\ result'.episodes = episodes
    BY <1>1, <1>2, ResultType DEF TypeOK, Errors
  <1>4. UNCHANGED <<run, certified, used, events, shortlist, episodes, error, temporary, output>>
    BY DEF Finish, fileVars
  <1>5. TypeOK'
    BY <1>1, <1>3, <1>4 DEF TypeOK
  <1>6. FileAgrees'
    BY <1>1, <1>2, <1>3, <1>4 DEF FileAgrees, UpToDate, AlmostUpToDate, Complete, File!Extends
  <1>7. LosesAtMostOneEpisode'
    BY <1>4 DEF LosesAtMostOneEpisode
  <1>8. QED
    BY <1>5, <1>6, <1>7

LEMMA WriteKeeps ==
  ASSUME IInv, BeginWrite \/ EndWrite
  PROVE  IInv'
  <1> USE DEF IInv, BeginWrite, EndWrite, FileStep, triageVars
  <1>1. TypeOK'
    BY DEF TypeOK
  <1>2. FileAgrees'
    BY DEF FileAgrees, AlmostUpToDate
  <1>3. LosesAtMostOneEpisode'
    BY DEF LosesAtMostOneEpisode
  <1>4. QED
    BY <1>1, <1>2, <1>3

LEMMA ReplaceKeeps ==
  ASSUME IInv, ReplaceOutput
  PROVE  IInv'
  <1> USE DEF IInv
  <1>1. /\ at = "replace"
        /\ output' = result
        /\ temporary' = Absent
        /\ at' = IF result.error = "incomplete" THEN "episode" ELSE "ended"
        /\ UNCHANGED <<run, certified, used, events, shortlist, episodes, error, result>>
    BY DEF ReplaceOutput, FileStep, triageVars, FileAgrees
  <1>2. /\ result \in Record
        /\ result.run = run
        /\ result.episodes = episodes
        /\ result.error = "incomplete" => Len(shortlist) = ShortlistSize
        /\ run > 0
    BY <1>1 DEF FileAgrees
  <1>3. TypeOK'
    BY <1>1, <1>2 DEF TypeOK
  <1>4. FileAgrees'
    BY <1>1, <1>2 DEF FileAgrees, UpToDate, TypeOK
  <1>5. LosesAtMostOneEpisode'
    <2>1. episodes \in Seq(EpisodeRecord) /\ Len(episodes) \in Nat
      BY LenProperties DEF TypeOK
    <2>2. QED
      BY <1>1, <1>2, <2>1, PrefixOfItself DEF LosesAtMostOneEpisode
  <1>6. QED
    BY <1>3, <1>4, <1>5

-----------------------------------------------------------------------------
(* The steps of triage, one action each. *)

LEMMA DebitKeeps ==
  ASSUME IInv, NEW next \in {"query", "act", "check", "leave"}, TriageStep(next),
         at \in {"query", "act", "check", "leave"},
         NEW counter \in DOMAIN Limits,
         NEW type \in {"model_generation", "shell_action"},
         Debit(counter, type), UNCHANGED <<shortlist, error>>
  PROVE  IInv'
  <1>1. used' \in [DOMAIN Limits -> Nat] /\ events' \in Seq(TriageEvent)
    BY DebitType DEF IInv
  <1>2. QED
    BY <1>1, TriageKeeps

LEMMA ProviderErrorKeeps ==
  ASSUME IInv, ProviderError
  PROVE  IInv'
  <1> DEFINE event == [type |-> "model_generation", sequence |-> Len(events) + 1,
                       charged |-> FALSE]
  <1>1. used \in [DOMAIN Limits -> Nat] /\ events \in Seq(TriageEvent)
    BY DEF IInv, TypeOK
  <1>2. event \in TriageEvent
    BY <1>1, LenProperties DEF TriageEvent
  <1>3. events' \in Seq(TriageEvent)
    BY <1>1, <1>2, AppendProperties DEF ProviderError
  <1>4. QED
    BY <1>1, <1>3, TriageKeeps DEF ProviderError

LEMMA CommitKeeps ==
  ASSUME IInv, NEW c \in Candidates, Commit(c)
  PROVE  IInv'
  <1> DEFINE admitted == Append(events, [type |-> "shell_action",
                                         sequence |-> Len(events) + 1, charged |-> TRUE])
             frozen == [type |-> "shortlist_commit", sequence |-> 0, charged |-> FALSE]
  <1>1. used \in [DOMAIN Limits -> Nat] /\ events \in Seq(TriageEvent)
    BY DEF IInv, TypeOK
  <1>2. used' \in [DOMAIN Limits -> Nat]
    BY <1>1, Domain DEF Commit
  <1>3. admitted \in Seq(TriageEvent)
    <2>1. [type |-> "shell_action", sequence |-> Len(events) + 1, charged |-> TRUE] \in TriageEvent
      BY <1>1, LenProperties DEF TriageEvent
    <2>2. QED
      BY <1>1, <2>1, AppendProperties
  <1>4. Append(admitted, frozen) \in Seq(TriageEvent)
    <2>1. frozen \in TriageEvent
      BY DEF TriageEvent
    <2>2. QED
      BY <1>3, <2>1, AppendProperties
  <1>5. at = "act" /\ TriageStep("check") /\ error' = error
    BY DEF Commit
  <1>6. CASE Acceptable(c)
    <2>1. shortlist' = c /\ events' = Append(admitted, frozen)
      BY <1>6 DEF Commit
    <2>2. QED
      BY <1>2, <1>4, <1>5, <1>6, <2>1, ShortlistType, TriageKeeps
  <1>7. CASE ~Acceptable(c)
    <2>1. shortlist' = shortlist /\ events' = admitted
      BY <1>7 DEF Commit
    <2>2. QED
      BY <1>2, <1>3, <1>5, <2>1, TriageKeeps
  <1>8. QED
    BY <1>6, <1>7

LEMMA StepInv == IInv /\ [Next]_vars => IInv'
  <1> SUFFICES ASSUME IInv, [Next]_vars PROVE IInv'
    OBVIOUS
  <1>1. used \in [DOMAIN Limits -> Nat] /\ events \in Seq(TriageEvent)
    BY DEF IInv, TypeOK
  <1>2. ASSUME NEW next \in {"query", "act", "check", "leave"}, Respond(next)
        PROVE  IInv'
    BY <1>2, DebitKeeps, Domain DEF Respond
  <1>3. CASE OutOfGenerations
    BY <1>1, <1>3, TriageKeeps DEF OutOfGenerations
  <1>4. CASE ProviderError
    BY <1>4, ProviderErrorKeeps
  <1>5. CASE Explore
    BY <1>5, DebitKeeps, Domain DEF Explore
  <1>6. ASSUME NEW c \in Candidates, Commit(c) PROVE IInv'
    BY <1>6, CommitKeeps
  <1>7. CASE TriageRaises
    BY <1>1, <1>7, TriageKeeps DEF TriageRaises
  <1>8. CASE Check
    <2>1. CASE Spent \/ shortlist # <<>>
      BY <1>1, <1>8, <2>1, TriageKeeps DEF Check
    <2>2. CASE ~(Spent \/ shortlist # <<>>)
      BY <1>1, <1>8, <2>2, TriageKeeps DEF Check
    <2>3. QED
      BY <2>1, <2>2
  <1>9. CASE LeaveTriage
    BY <1>9, LeaveTriageKeeps
  <1>10. ASSUME NEW raised \in BOOLEAN, NEW submit \in Ledgers, RunEpisode(raised, submit)
         PROVE  IInv'
    BY <1>10, RunEpisodeKeeps
  <1>11. CASE Finish
    BY <1>11, FinishKeeps
  <1>12. CASE BeginWrite \/ EndWrite
    BY <1>12, WriteKeeps
  <1>13. CASE ReplaceOutput
    BY <1>13, ReplaceKeeps
  <1>14. CASE Exit \/ Crash
    BY <1>14, DieKeeps DEF Exit, Crash
  <1>15. CASE Start
    BY <1>15, StartKeeps
  <1>16. CASE UNCHANGED vars
    <2> USE <1>16 DEF vars, triageVars, fileVars
    <2>1. TypeOK' = TypeOK
      BY DEF TypeOK
    <2>2. FileAgrees' = FileAgrees
      BY DEF FileAgrees, UpToDate, AlmostUpToDate
    <2>3. LosesAtMostOneEpisode' = LosesAtMostOneEpisode
      BY DEF LosesAtMostOneEpisode
    <2>4. QED
      BY <2>1, <2>2, <2>3 DEF IInv
  <1>17. QED
    BY <1>2, <1>3, <1>4, <1>5, <1>6, <1>7, <1>8, <1>9, <1>10, <1>11, <1>12, <1>13,
       <1>14, <1>15, <1>16 DEF Next, Process

LEMMA Invariance == Spec => []IInv
  BY InitInv, StepInv, PTL DEF Spec

(* Every variable keeps to its type: the counters are those of the triage
   budget, and what is written is a whole record of a run. *)
THEOREM TypeCorrect == Spec => []TypeOK
  BY Invariance, PTL DEF IInv

(* Once a run has a second episode, the output file holds all its episodes
   but at most the last, wherever the process stands or died. *)
THEOREM CrashSafe == Spec => []LosesAtMostOneEpisode
  BY Invariance, PTL DEF IInv

-----------------------------------------------------------------------------
(* The output file, seen as RunRecord sees it. *)

LEMMA ReplacePublishes ==
  ASSUME IInv, ReplaceOutput
  PROVE  File!Next
  <1>1. /\ output' = result
        /\ result \in Record
        /\ result.run = run
        /\ result.episodes = episodes
        /\ Complete(result)
        /\ AlmostUpToDate
        /\ run > 0
    BY DEF IInv, FileAgrees, ReplaceOutput
  <1>2. run \in Nat /\ output.run \in Nat
    BY RunnerAssumption DEF IInv, TypeOK, Record, Absent
  <1>3. /\ Published'.run = run
        /\ Published'.episodes = episodes
        /\ Published'.outcome = IF result.error = "none" THEN "completed"
                                ELSE IF result.error = "incomplete" THEN "incomplete" ELSE "failed"
    BY <1>1, <1>2 DEF Published
  <1>4. Published.run = output.run
    BY DEF Published
  <1>5. Published'.outcome = "completed" => Len(Published'.episodes) = ShortlistSize
    BY <1>1, <1>3 DEF Complete
  <1>6. CASE output.run < run
    <2>1. File!Extends(episodes, <<>>)
      BY <1>1, <1>2, <1>6 DEF AlmostUpToDate
    <2>2. File!Replace
      BY <1>2, <1>3, <1>4, <1>5, <1>6, <2>1 DEF File!Replace, File!Publish
    <2>3. QED
      BY <2>2 DEF File!Next
  <1>7. CASE ~(output.run < run)
    <2>1. /\ output.run = run
          /\ output.error = "incomplete"
          /\ File!Extends(episodes, output.episodes)
      BY <1>1, <1>7 DEF AlmostUpToDate
    <2>2. Published.outcome = "incomplete" /\ Published.episodes = output.episodes
      BY <1>1, <1>2, <2>1 DEF Published
    <2>3. File!Continue
      BY <1>3, <1>4, <1>5, <2>1, <2>2 DEF File!Continue, File!Publish
    <2>4. QED
      BY <2>3 DEF File!Next
  <1>8. QED
    BY <1>6, <1>7

LEMMA OnlyReplaceWrites ==
  ASSUME [Next]_vars, ~ReplaceOutput
  PROVE  UNCHANGED output
  BY DEF Next, Process, vars, fileVars, TriageStep, FileStep, Die, Respond,
         OutOfGenerations, ProviderError, Explore, Commit, TriageRaises, Check,
         LeaveTriage, RunEpisode, Finish, BeginWrite, EndWrite, Exit, Start, Crash

(* Whatever crashes and restarts do, the output file is at every moment one
   whole record of one run; a run's records grow by one episode at a time, and
   its last word is replaced by a later run only. *)
THEOREM FileRefinement == Spec => ImplementsRecord
  <1>1. Init => File!Init
    BY DEF Init, File!Init, File!Nothing, Published, Absent
  <1>2. IInv /\ [Next]_vars => [File!Next]_Published
    <2> SUFFICES ASSUME IInv, [Next]_vars PROVE [File!Next]_Published
      OBVIOUS
    <2>1. CASE ReplaceOutput
      BY <2>1, ReplacePublishes
    <2>2. CASE ~ReplaceOutput
      BY <2>2, OnlyReplaceWrites DEF Published
    <2>3. QED
      BY <2>1, <2>2
  <1>3. QED
    BY <1>1, <1>2, Invariance, PTL DEF Spec, ImplementsRecord, File!Spec

-----------------------------------------------------------------------------
(* What makes a rankable record valid: the counters and the events of triage,
   the shortlist, and the episodes behind the process. *)

(* What the contract counts in the events of triage. *)
GenerationsCharged(es) == Count(es, LAMBDA e : e.type = "model_generation" /\ e.charged)
ActionsCharged(es) == Count(es, LAMBDA e : e.type = "shell_action" /\ e.charged)
Commits(es) == Count(es, LAMBDA e : e.type = "shortlist_commit")

Units == used["model_generations"] + used["shell_actions"]

WithinLimits == \A n \in DOMAIN Limits : used[n] <= Limits[n]

(* Every unit has its event.  There may be one event more: the commit, or the
   one that ends triage, of a refused action or a provider that failed. *)
CountersAgree ==
  /\ GenerationsCharged(events) = used["model_generations"]
  /\ ActionsCharged(events) = used["shell_actions"]
  /\ Len(events) <= Units + 1
  /\ at \in {"down", "query", "act"} => Len(events) = Units
  /\ at = "check" /\ Len(events) # Units => Spent \/ shortlist # <<>>

(* The commit of the frozen shortlist is the last event; the others are
   numbered by their positions. *)
EventsInOrder ==
  /\ at \in {"down", "query", "act"} => shortlist = <<>>
  /\ shortlist # <<>> => events # <<>>
  /\ \A i \in DOMAIN events :
       IF shortlist # <<>> /\ i = Len(events)
       THEN events[i].type = "shortlist_commit" /\ events[i].sequence = 0
       ELSE events[i].type # "shortlist_commit" /\ events[i].sequence = i

ShortlistOK == shortlist # <<>> => ShortlistValid(shortlist, ShortlistSize, Inventory)

(* While episodes are to come, those behind follow the shortlist, and none of
   them raised. *)
Follows(records) ==
  \A i \in DOMAIN records :
    records[i].rule = shortlist[i] /\ records[i].status = StatusOf(FALSE, records[i].submit)

EpisodesToCome ==
  \/ at = "episode"
  \/ at \in {"write", "flush", "replace"} /\ result.error = "incomplete"

EpisodesFollow == EpisodesToCome => Follows(episodes)

Valid(record) ==
  record.run > 0 /\ record.rankable =>
    SubmissionValid(record, ShortlistSize, Inventory, Limits)

TriageOK == WithinLimits /\ CountersAgree /\ EventsInOrder /\ ShortlistOK

LEMMA NatFacts ==
  ASSUME TypeOK
  PROVE  /\ used["model_generations"] \in Nat /\ used["shell_actions"] \in Nat
         /\ Units \in Nat
         /\ events \in Seq(TriageEvent)
         /\ Len(events) \in Nat /\ DOMAIN events = 1 .. Len(events)
         /\ Limits["model_generations"] = Generations /\ Limits["shell_actions"] = Actions
         /\ Generations \in Nat \ {0} /\ Actions \in Nat \ {0}
  BY RunnerAssumption, Domain, LenProperties DEF TypeOK, Units, Limits

(* The events the contract counts. *)
ChargedGeneration == {e \in TriageEvent : e.type = "model_generation" /\ e.charged}
ChargedAction == {e \in TriageEvent : e.type = "shell_action" /\ e.charged}

LEMMA EventCounts ==
  ASSUME NEW es \in Seq(TriageEvent)
  PROVE  /\ GenerationsCharged(es) = Cardinality(Where(es, ChargedGeneration))
         /\ ActionsCharged(es) = Cardinality(Where(es, ChargedAction))
  <1>1. \A i \in DOMAIN es : es[i] \in TriageEvent
    OBVIOUS
  <1>2. {i \in DOMAIN es : es[i].type = "model_generation" /\ es[i].charged}
          = Where(es, ChargedGeneration)
    BY <1>1 DEF Where, ChargedGeneration
  <1>3. {i \in DOMAIN es : es[i].type = "shell_action" /\ es[i].charged}
          = Where(es, ChargedAction)
    BY <1>1 DEF Where, ChargedAction
  <1>4. QED
    BY <1>2, <1>3 DEF GenerationsCharged, ActionsCharged, Count

LEMMA NoEvents == GenerationsCharged(<<>>) = 0 /\ ActionsCharged(<<>>) = 0
  <1>1. \A T : Where(<<>>, T) = {}
    BY DEF Where
  <1>2. <<>> \in Seq(TriageEvent)
    BY EmptySeq
  <1>3. QED
    BY <1>1, <1>2, EventCounts, FS_EmptySet

(* The event of a generation or an action. *)
NewEvent(type, charged) ==
  [type |-> type, sequence |-> Len(events) + 1, charged |-> charged]

LEMMA Grown ==
  ASSUME TypeOK, EventsInOrder, shortlist = <<>>,
         NEW type \in {"model_generation", "shell_action"}, NEW charged \in BOOLEAN
  PROVE  LET grown == Append(events, NewEvent(type, charged)) IN
         /\ grown \in Seq(TriageEvent)
         /\ Len(grown) = Len(events) + 1
         /\ GenerationsCharged(grown) = GenerationsCharged(events)
              + (IF charged /\ type = "model_generation" THEN 1 ELSE 0)
         /\ ActionsCharged(grown) = ActionsCharged(events)
              + (IF charged /\ type = "shell_action" THEN 1 ELSE 0)
         /\ \A i \in DOMAIN grown :
              grown[i].type # "shortlist_commit" /\ grown[i].sequence = i
  <1> DEFINE e == NewEvent(type, charged)
             grown == Append(events, e)
  <1>1. /\ e \in TriageEvent
        /\ e.type = type /\ e.sequence = Len(events) + 1 /\ e.charged = charged
    BY NatFacts DEF NewEvent, TriageEvent
  <1> HIDE DEF e
  <1>2. /\ grown \in Seq(TriageEvent)
        /\ Len(grown) = Len(events) + 1
        /\ \A i \in 1 .. Len(events) : grown[i] = events[i]
        /\ grown[Len(events) + 1] = e
    BY <1>1, NatFacts, AppendProperties
  <1>3. /\ e \in ChargedGeneration <=> charged /\ type = "model_generation"
        /\ e \in ChargedAction <=> charged /\ type = "shell_action"
    BY <1>1 DEF ChargedGeneration, ChargedAction
  <1>4. GenerationsCharged(grown) = GenerationsCharged(events)
          + (IF charged /\ type = "model_generation" THEN 1 ELSE 0)
    <2>1. /\ Cardinality(Where(events, ChargedGeneration)) \in Nat
          /\ e \in ChargedGeneration =>
               Cardinality(Where(grown, ChargedGeneration))
                 = Cardinality(Where(events, ChargedGeneration)) + 1
          /\ e \notin ChargedGeneration =>
               Cardinality(Where(grown, ChargedGeneration))
                 = Cardinality(Where(events, ChargedGeneration))
      BY <1>1, NatFacts, CountAppend
    <2>2. /\ GenerationsCharged(events) = Cardinality(Where(events, ChargedGeneration))
          /\ GenerationsCharged(grown) = Cardinality(Where(grown, ChargedGeneration))
      BY <1>2, NatFacts, EventCounts
    <2> HIDE DEF grown
    <2>3. CASE charged /\ type = "model_generation"
      BY <1>3, <2>1, <2>2, <2>3
    <2>4. CASE ~(charged /\ type = "model_generation")
      <3>1. GenerationsCharged(grown) = GenerationsCharged(events)
        BY <1>3, <2>1, <2>2, <2>4
      <3>2. QED
        BY <2>1, <2>2, <2>4, <3>1
    <2>5. QED
      BY <2>3, <2>4
  <1>5. ActionsCharged(grown) = ActionsCharged(events)
          + (IF charged /\ type = "shell_action" THEN 1 ELSE 0)
    <2>1. /\ Cardinality(Where(events, ChargedAction)) \in Nat
          /\ e \in ChargedAction =>
               Cardinality(Where(grown, ChargedAction))
                 = Cardinality(Where(events, ChargedAction)) + 1
          /\ e \notin ChargedAction =>
               Cardinality(Where(grown, ChargedAction))
                 = Cardinality(Where(events, ChargedAction))
      BY <1>1, NatFacts, CountAppend
    <2>2. /\ ActionsCharged(events) = Cardinality(Where(events, ChargedAction))
          /\ ActionsCharged(grown) = Cardinality(Where(grown, ChargedAction))
      BY <1>2, NatFacts, EventCounts
    <2> HIDE DEF grown
    <2>3. CASE charged /\ type = "shell_action"
      BY <1>3, <2>1, <2>2, <2>3
    <2>4. CASE ~(charged /\ type = "shell_action")
      <3>1. ActionsCharged(grown) = ActionsCharged(events)
        BY <1>3, <2>1, <2>2, <2>4
      <3>2. QED
        BY <2>1, <2>2, <2>4, <3>1
    <2>5. QED
      BY <2>3, <2>4
  <1>6. \A i \in DOMAIN grown :
          grown[i].type # "shortlist_commit" /\ grown[i].sequence = i
    <2> SUFFICES ASSUME NEW i \in DOMAIN grown
                 PROVE  grown[i].type # "shortlist_commit" /\ grown[i].sequence = i
      OBVIOUS
    <2>1. i \in 1 .. Len(events) \/ i = Len(events) + 1
      BY <1>2, NatFacts, LenProperties
    <2>2. CASE i \in 1 .. Len(events)
      BY <1>2, <2>2, NatFacts DEF EventsInOrder
    <2>3. CASE i = Len(events) + 1
      BY <1>1, <1>2, <2>3
    <2>4. QED
      BY <2>1, <2>2, <2>3
  <1>7. QED
    BY <1>2, <1>4, <1>5, <1>6 DEF e

-----------------------------------------------------------------------------
(* Triage keeps its counters, its events and its shortlist in agreement. *)

LEMMA TriageGrows ==
  ASSUME IInv, TriageOK, at \in {"query", "act"},
         NEW counter \in DOMAIN Limits,
         NEW type \in {"model_generation", "shell_action"},
         counter = "model_generations" <=> type = "model_generation",
         NEW charged \in BOOLEAN, charged => Left(counter),
         used' = IF charged THEN [used EXCEPT ![counter] = @ + 1] ELSE used,
         events' = Append(events, NewEvent(type, charged)),
         shortlist' = shortlist,
         at' \in {"query", "act", "check", "leave"},
         charged \/ at' = "leave" \/ (at' = "check" /\ Spent')
  PROVE  TriageOK'
  <1>1. TypeOK /\ shortlist = <<>> /\ Len(events) = Units /\ used \in [DOMAIN Limits -> Nat]
    BY DEF IInv, TypeOK, TriageOK, EventsInOrder, CountersAgree
  <1>2. /\ events' \in Seq(TriageEvent)
        /\ Len(events') = Len(events) + 1
        /\ GenerationsCharged(events') = GenerationsCharged(events)
             + (IF charged /\ type = "model_generation" THEN 1 ELSE 0)
        /\ ActionsCharged(events') = ActionsCharged(events)
             + (IF charged /\ type = "shell_action" THEN 1 ELSE 0)
        /\ \A i \in DOMAIN events' :
             events'[i].type # "shortlist_commit" /\ events'[i].sequence = i
    BY <1>1, Grown DEF TriageOK
  <1>3. /\ used'["model_generations"] = used["model_generations"]
             + (IF charged /\ type = "model_generation" THEN 1 ELSE 0)
        /\ used'["shell_actions"] = used["shell_actions"]
             + (IF charged /\ type = "shell_action" THEN 1 ELSE 0)
    <2>1. counter = IF type = "model_generation" THEN "model_generations" ELSE "shell_actions"
      BY Domain
    <2>2. CASE charged
      BY <1>1, <2>1, <2>2, Domain, NatFacts
    <2>3. CASE ~charged
      BY <1>1, <2>3, NatFacts
    <2>4. QED
      BY <2>2, <2>3
  <1>4. WithinLimits'
    <2>1. \A n \in DOMAIN Limits : used[n] \in Nat /\ Limits[n] \in Nat /\ used[n] <= Limits[n]
      BY <1>1, LimitsAreNat DEF TriageOK, WithinLimits
    <2>2. CASE charged
      <3>1. used[counter] < Limits[counter]
        BY <2>2 DEF Left
      <3>2. QED
        BY <1>1, <2>1, <2>2, <3>1 DEF WithinLimits
    <2>3. CASE ~charged
      BY <2>1, <2>3 DEF WithinLimits
    <2>4. QED
      BY <2>2, <2>3
  <1>5. CountersAgree'
    <2>1. Units' = Units + (IF charged THEN 1 ELSE 0)
      BY <1>1, <1>3, NatFacts DEF Units
    <2>2. QED
      BY <1>1, <1>2, <1>3, <2>1, NatFacts DEF TriageOK, CountersAgree
  <1>6. EventsInOrder'
    BY <1>1, <1>2 DEF EventsInOrder
  <1>7. ShortlistOK'
    BY <1>1 DEF ShortlistOK
  <1>8. QED
    BY <1>4, <1>5, <1>6, <1>7 DEF TriageOK

LEMMA DebitGrows ==
  ASSUME IInv, TriageOK, at \in {"query", "act"},
         NEW counter \in DOMAIN Limits,
         NEW type \in {"model_generation", "shell_action"},
         counter = "model_generations" <=> type = "model_generation",
         Debit(counter, type), shortlist' = shortlist,
         at' \in {"query", "act", "check", "leave"},
         Left(counter) \/ at' = "check"
  PROVE  TriageOK'
  <1>1. /\ used' = IF Left(counter) THEN [used EXCEPT ![counter] = @ + 1] ELSE used
        /\ events' = Append(events, NewEvent(type, Left(counter)))
        /\ Left(counter) \in BOOLEAN
    BY DEF Debit, NewEvent, Left
  <1>2. CASE Left(counter)
    BY <1>1, <1>2, TriageGrows
  <1>3. CASE ~Left(counter)
    <2>1. used \in [DOMAIN Limits -> Nat] /\ used' = used
      BY <1>1, <1>3 DEF IInv, TypeOK
    <2>2. Limits[counter] > 0 /\ Limits[counter] \in Nat
      BY Domain, NatFacts DEF IInv
    <2>3. used[counter] > 0
      BY <1>3, <2>1, <2>2 DEF Left
    <2>4. Spent'
      BY <1>3, <2>1, <2>3 DEF Spent, Left
    <2>5. QED
      BY <1>1, <1>3, <2>4, TriageGrows
  <1>4. QED
    BY <1>2, <1>3

LEMMA ProviderErrorGrows ==
  ASSUME IInv, TriageOK, ProviderError
  PROVE  TriageOK'
  <1>1. /\ at = "query" /\ at' = "leave"
        /\ used' = used /\ shortlist' = shortlist
        /\ events' = Append(events, NewEvent("model_generation", FALSE))
    BY DEF ProviderError, TriageStep, NewEvent
  <1>2. QED
    BY <1>1, Domain, TriageGrows

(* A step that leaves triage's own state alone, and does not go on after a
   spent budget or a commit. *)
LEMMA TriageStays ==
  ASSUME TriageOK, UNCHANGED triageVars,
         \/ at' \notin {"down", "query", "act", "check"}
         \/ at' = "query" /\ (at = "down" \/ (at = "check" /\ ~Spent /\ shortlist = <<>>))
         \/ at' = at
  PROVE  TriageOK'
  <1> USE DEF triageVars
  <1>1. WithinLimits'
    BY DEF TriageOK, WithinLimits
  <1>2. CountersAgree'
    BY DEF TriageOK, CountersAgree, Units, Spent, Left
  <1>3. EventsInOrder'
    BY DEF TriageOK, EventsInOrder
  <1>4. ShortlistOK'
    BY DEF TriageOK, ShortlistOK
  <1>5. QED
    BY <1>1, <1>2, <1>3, <1>4 DEF TriageOK

LEMMA NothingAgrees ==
  ASSUME used = NothingUsed, events = <<>>, shortlist = <<>>
  PROVE  TriageOK
  <1>1. used["model_generations"] = 0 /\ used["shell_actions"] = 0 /\ Units = 0
    BY Domain DEF NothingUsed, Units
  <1>2. WithinLimits
    BY LimitsAreNat DEF WithinLimits, NothingUsed
  <1>3. Len(events) = 0
    OBVIOUS
  <1>4. CountersAgree
    BY <1>1, <1>3, NoEvents DEF CountersAgree
  <1>5. EventsInOrder /\ ShortlistOK
    BY DEF EventsInOrder, ShortlistOK
  <1>6. QED
    BY <1>2, <1>4, <1>5 DEF TriageOK

(* The event that freezes the shortlist. *)
Frozen == [type |-> "shortlist_commit", sequence |-> 0, charged |-> FALSE]

LEMMA FrozenCounts ==
  ASSUME NEW es \in Seq(TriageEvent)
  PROVE  /\ Append(es, Frozen) \in Seq(TriageEvent)
         /\ GenerationsCharged(Append(es, Frozen)) = GenerationsCharged(es)
         /\ ActionsCharged(Append(es, Frozen)) = ActionsCharged(es)
  <1>1. /\ Frozen \in TriageEvent
        /\ Frozen \notin ChargedGeneration
        /\ Frozen \notin ChargedAction
    BY DEF Frozen, TriageEvent, ChargedGeneration, ChargedAction
  <1>2. Append(es, Frozen) \in Seq(TriageEvent)
    BY <1>1, AppendProperties
  <1>3. /\ Cardinality(Where(Append(es, Frozen), ChargedGeneration))
             = Cardinality(Where(es, ChargedGeneration))
        /\ Cardinality(Where(Append(es, Frozen), ChargedAction))
             = Cardinality(Where(es, ChargedAction))
    BY <1>1, CountAppend
  <1>4. QED
    BY <1>2, <1>3, EventCounts

LEMMA CommitAgrees ==
  ASSUME IInv, TriageOK, NEW c \in Candidates, Commit(c)
  PROVE  TriageOK'
  <1> DEFINE admitted == Append(events, NewEvent("shell_action", TRUE))
  <1>1. /\ at = "act" /\ at' = "check" /\ Left("shell_actions")
        /\ used' = [used EXCEPT !["shell_actions"] = @ + 1]
        /\ IF Acceptable(c) THEN shortlist' = c /\ events' = Append(admitted, Frozen)
                            ELSE shortlist' = shortlist /\ events' = admitted
    BY DEF Commit, TriageStep, NewEvent, Frozen
  <1>2. CASE ~Acceptable(c)
    BY <1>1, <1>2, Domain, TriageGrows
  <1>3. CASE Acceptable(c)
    <2>1. /\ shortlist' = c /\ ShortlistValid(c, ShortlistSize, Inventory)
          /\ shortlist = <<>> /\ TypeOK /\ Len(events) = Units
          /\ events' = Append(admitted, Frozen)
      BY <1>1, <1>3 DEF Acceptable, IInv, TriageOK, CountersAgree
    <2>2. c # <<>>
      BY <2>1, RunnerAssumption DEF ShortlistValid
    <2>3. /\ admitted \in Seq(TriageEvent)
          /\ Len(admitted) = Len(events) + 1
          /\ GenerationsCharged(admitted) = GenerationsCharged(events)
          /\ ActionsCharged(admitted) = ActionsCharged(events) + 1
          /\ \A i \in DOMAIN admitted :
               admitted[i].type # "shortlist_commit" /\ admitted[i].sequence = i
      <3>1. GenerationsCharged(events) \in Nat /\ ActionsCharged(events) \in Nat
        BY <2>1, NatFacts DEF TriageOK, CountersAgree
      <3>2. EventsInOrder
        BY DEF TriageOK
      <3>3. /\ admitted \in Seq(TriageEvent)
            /\ Len(admitted) = Len(events) + 1
            /\ GenerationsCharged(admitted) = GenerationsCharged(events) + 0
            /\ ActionsCharged(admitted) = ActionsCharged(events) + 1
            /\ \A i \in DOMAIN admitted :
                 admitted[i].type # "shortlist_commit" /\ admitted[i].sequence = i
        BY <2>1, <3>2, Grown
      <3> HIDE DEF admitted
      <3>4. GenerationsCharged(admitted) = GenerationsCharged(events)
        BY <3>1, <3>3
      <3>5. QED
        BY <3>3, <3>4
    <2> HIDE DEF admitted
    <2>4. /\ events' \in Seq(TriageEvent)
          /\ GenerationsCharged(events') = GenerationsCharged(events)
          /\ ActionsCharged(events') = ActionsCharged(events) + 1
          /\ Len(events') = Len(events) + 2
          /\ \A i \in 1 .. Len(events) + 1 : events'[i] = admitted[i]
          /\ events'[Len(events) + 2] = Frozen
      <3>1. Frozen \in TriageEvent
        BY DEF Frozen, TriageEvent
      <3>2. QED
        BY <2>1, <2>3, <3>1, FrozenCounts, NatFacts, AppendProperties
    <2>5. /\ used'["model_generations"] = used["model_generations"]
          /\ used'["shell_actions"] = used["shell_actions"] + 1
          /\ Units' = Units + 1
      <3>1. used \in [DOMAIN Limits -> Nat]
        BY <2>1 DEF TypeOK
      <3>2. /\ used'["model_generations"] = used["model_generations"]
            /\ used'["shell_actions"] = used["shell_actions"] + 1
        BY <1>1, <3>1, Domain
      <3>3. QED
        BY <2>1, <3>2, NatFacts DEF Units
    <2>6. WithinLimits'
      <3>1. \A n \in DOMAIN Limits : used[n] \in Nat /\ Limits[n] \in Nat /\ used[n] <= Limits[n]
        BY <2>1, LimitsAreNat DEF TriageOK, WithinLimits, TypeOK
      <3>2. used["shell_actions"] < Limits["shell_actions"]
        BY <1>1 DEF Left
      <3>3. QED
        BY <2>5, <3>1, <3>2, Domain DEF WithinLimits
    <2>7. CountersAgree'
      BY <1>1, <2>1, <2>2, <2>4, <2>5, NatFacts DEF TriageOK, CountersAgree
    <2>8. EventsInOrder'
      <3>1. ASSUME NEW i \in DOMAIN events'
            PROVE  IF i = Len(events')
                   THEN events'[i].type = "shortlist_commit" /\ events'[i].sequence = 0
                   ELSE events'[i].type # "shortlist_commit" /\ events'[i].sequence = i
        <4>1. i \in 1 .. Len(events) + 2
          BY <2>1, <2>4, NatFacts, LenProperties
        <4>2. CASE i = Len(events) + 2
          BY <2>4, <4>2 DEF Frozen
        <4>3. CASE i # Len(events) + 2
          <5>1. i \in 1 .. Len(events) + 1 /\ i \in DOMAIN admitted /\ i # Len(events')
            BY <2>1, <2>3, <2>4, <4>1, <4>3, NatFacts
          <5>2. QED
            BY <2>3, <2>4, <5>1
        <4>4. QED
          BY <4>2, <4>3
      <3>2. events' # <<>>
        BY <2>1, <2>4, NatFacts
      <3>3. QED
        BY <1>1, <2>1, <2>2, <3>1, <3>2 DEF EventsInOrder
    <2>9. ShortlistOK'
      BY <2>1 DEF ShortlistOK
    <2>10. QED
      BY <2>6, <2>7, <2>8, <2>9 DEF TriageOK
  <1>4. QED
    BY <1>2, <1>3

LEMMA TriageInit == Init => TriageOK
  BY NothingAgrees DEF Init

LEMMA TriageStepInv == IInv /\ TriageOK /\ [Next]_vars => TriageOK'
  <1> SUFFICES ASSUME IInv, TriageOK, [Next]_vars PROVE TriageOK'
    OBVIOUS
  <1>1. ASSUME NEW next \in {"query", "act", "check", "leave"}, Respond(next)
        PROVE  TriageOK'
    BY <1>1, DebitGrows, Domain DEF Respond, TriageStep
  <1>2. CASE OutOfGenerations
    BY <1>2, TriageStays DEF OutOfGenerations, TriageStep, triageVars
  <1>3. CASE ProviderError
    BY <1>3, ProviderErrorGrows
  <1>4. CASE Explore
    BY <1>4, DebitGrows, Domain DEF Explore, TriageStep
  <1>5. ASSUME NEW c \in Candidates, Commit(c) PROVE TriageOK'
    BY <1>5, CommitAgrees
  <1>6. CASE TriageRaises
    BY <1>6, TriageStays DEF TriageRaises, TriageStep, triageVars
  <1>7. CASE Check
    BY <1>7, TriageStays DEF Check, TriageStep, triageVars
  <1>8. CASE LeaveTriage
    BY <1>8, TriageStays DEF LeaveTriage, Persist, triageVars
  <1>9. ASSUME NEW raised \in BOOLEAN, NEW submit \in Ledgers, RunEpisode(raised, submit)
        PROVE  TriageOK'
    BY <1>9, TriageStays DEF RunEpisode, Persist, triageVars
  <1>10. CASE Finish
    BY <1>10, TriageStays DEF Finish, Persist, triageVars
  <1>11. CASE BeginWrite \/ EndWrite
    BY <1>11, TriageStays DEF BeginWrite, EndWrite, FileStep
  <1>12. CASE ReplaceOutput
    BY <1>12, TriageStays DEF ReplaceOutput, FileStep
  <1>13. CASE Exit \/ Crash
    <2>1. used' = NothingUsed' /\ events' = <<>> /\ shortlist' = <<>>
      BY <1>13 DEF Exit, Crash, Die, NothingUsed
    <2>2. (used = NothingUsed /\ events = <<>> /\ shortlist = <<>> => TriageOK)'
      BY NothingAgrees, PTL
    <2>3. QED
      BY <2>1, <2>2
  <1>14. CASE Start
    BY <1>14, TriageStays DEF Start
  <1>15. CASE UNCHANGED vars
    BY <1>15, TriageStays DEF vars
  <1>16. QED
    BY <1>1, <1>2, <1>3, <1>4, <1>5, <1>6, <1>7, <1>8, <1>9, <1>10, <1>11, <1>12, <1>13,
       <1>14, <1>15 DEF Next, Process

-----------------------------------------------------------------------------
(* The episodes behind the process follow the shortlist. *)

LEMMA EpisodesInit == Init => EpisodesFollow
  BY DEF Init, EpisodesFollow, EpisodesToCome

LEMMA RunEpisodeFollows ==
  ASSUME IInv, EpisodesFollow,
         NEW raised \in BOOLEAN, NEW submit \in Ledgers, RunEpisode(raised, submit)
  PROVE  EpisodesFollow'
  <1> DEFINE record == [rule |-> NextRule, status |-> StatusOf(raised, submit), submit |-> submit]
             why == IF raised THEN "episode" ELSE "incomplete"
  <1>1. /\ at = "episode" /\ at' = "write"
        /\ result' = Result(why, episodes')
        /\ episodes' = Append(episodes, record)
        /\ shortlist' = shortlist
    BY DEF RunEpisode, Persist
  <1>2. Follows(episodes)
    BY <1>1 DEF EpisodesFollow, EpisodesToCome
  <1>3. episodes \in Seq(EpisodeRecord)
    BY DEF IInv, TypeOK
  <1>4. CASE raised
    <2>1. result'.error = "episode"
      BY <1>1, <1>4 DEF Result
    <2>2. QED
      BY <1>1, <2>1 DEF EpisodesFollow, EpisodesToCome
  <1>5. CASE ~raised
    <2>1. /\ record.rule = shortlist[Len(episodes) + 1]
          /\ record.submit = submit
          /\ record.status = StatusOf(FALSE, record.submit)
      BY <1>5 DEF NextRule
    <2> HIDE DEF record
    <2>2. ASSUME NEW i \in DOMAIN episodes'
          PROVE  /\ episodes'[i].rule = shortlist'[i]
                 /\ episodes'[i].status = StatusOf(FALSE, episodes'[i].submit)
      <3>1. CASE i = Len(episodes) + 1
        <4>1. episodes'[i] = record
          BY <1>1, <1>3, <3>1
        <4>2. QED
          BY <1>1, <2>1, <3>1, <4>1
      <3>2. CASE i # Len(episodes) + 1
        <4>1. i \in DOMAIN episodes /\ episodes'[i] = episodes[i]
          BY <1>1, <1>3, <3>2
        <4>2. QED
          BY <1>1, <1>2, <4>1 DEF Follows
      <3>3. QED
        BY <3>1, <3>2
    <2>3. Follows(episodes)'
      BY <2>2 DEF Follows, StatusOf
    <2>4. QED
      BY <2>3 DEF EpisodesFollow
  <1>6. QED
    BY <1>4, <1>5

LEMMA EpisodesStepInv == IInv /\ EpisodesFollow /\ [Next]_vars => EpisodesFollow'
  <1> SUFFICES ASSUME IInv, EpisodesFollow, [Next]_vars PROVE EpisodesFollow'
    OBVIOUS
  <1>1. ASSUME NEW raised \in BOOLEAN, NEW submit \in Ledgers, RunEpisode(raised, submit)
        PROVE  EpisodesFollow'
    BY <1>1, RunEpisodeFollows
  <1>2. ASSUME at' \notin {"episode", "write", "flush", "replace"}
        PROVE  EpisodesFollow'
    BY <1>2 DEF EpisodesFollow, EpisodesToCome
  <1>3. CASE LeaveTriage
    <2>1. episodes' = <<>>
      BY <1>3 DEF LeaveTriage, IInv, FileAgrees
    <2>2. QED
      BY <2>1 DEF EpisodesFollow, Follows
  <1>4. CASE Finish
    <2>1. Follows(episodes)
      BY <1>4 DEF Finish, EpisodesFollow, EpisodesToCome
    <2>2. QED
      BY <1>4, <2>1 DEF Finish, EpisodesFollow, Follows, StatusOf
  <1>5. CASE BeginWrite \/ EndWrite \/ ReplaceOutput
    <2>1. /\ UNCHANGED <<shortlist, episodes, result>>
          /\ at \in {"write", "flush", "replace"}
          /\ at' = "episode" => result.error = "incomplete"
      BY <1>5 DEF BeginWrite, EndWrite, ReplaceOutput, FileStep, triageVars
    <2>2. EpisodesToCome' => EpisodesToCome
      BY <2>1 DEF EpisodesToCome
    <2>3. QED
      BY <2>1, <2>2 DEF EpisodesFollow, Follows, StatusOf
  <1>6. ASSUME \/ \E next \in {"query", "act", "check", "leave"} : Respond(next)
               \/ OutOfGenerations \/ ProviderError \/ Explore
               \/ \E c \in Candidates : Commit(c)
               \/ TriageRaises \/ Check \/ Exit \/ Crash \/ Start
        PROVE  EpisodesFollow'
    BY <1>2, <1>6 DEF Respond, OutOfGenerations, ProviderError, Explore, Commit,
                      TriageRaises, Check, TriageStep, Exit, Crash, Die, Start
  <1>7. CASE UNCHANGED vars
    BY <1>7 DEF vars, triageVars, EpisodesFollow, EpisodesToCome, Follows, StatusOf
  <1>8. QED
    BY <1>1, <1>3, <1>4, <1>5, <1>6, <1>7 DEF Next, Process

-----------------------------------------------------------------------------
(* A rankable record is valid when it is written, and stays what it is. *)

LEMMA TriageLedgerValid ==
  ASSUME TypeOK, TriageOK, shortlist # <<>>
  PROVE  StatusValid(triage, Limits) /\ TriageEventsValid(triage, Limits)
  <1>1. /\ triage.status = used /\ triage.events = events
        /\ Len(events) \in Nat /\ DOMAIN events = 1 .. Len(events)
        /\ Len(events) > 0
    <2>1. events # <<>> /\ events \in Seq(TriageEvent)
      BY DEF TriageOK, EventsInOrder, TypeOK
    <2>2. QED
      BY <2>1, EmptySeq, LenProperties DEF triage
  <1>2. StatusValid(triage, Limits)
    BY <1>1 DEF StatusValid, TriageOK, WithinLimits
  <1>3. Len(events) <= Limits["model_generations"] + Limits["shell_actions"] + 3
    <2>1. /\ used["model_generations"] <= Limits["model_generations"]
          /\ used["shell_actions"] <= Limits["shell_actions"]
          /\ Len(events) <= used["model_generations"] + used["shell_actions"] + 1
      BY Domain DEF TriageOK, WithinLimits, CountersAgree, Units
    <2>2. QED
      BY <1>1, <2>1, NatFacts
  <1>4. Commits(events) = 1
    <2>1. {i \in DOMAIN events : events[i].type = "shortlist_commit"} = {Len(events)}
      BY <1>1 DEF TriageOK, EventsInOrder
    <2>2. QED
      BY <2>1, FS_Singleton DEF Commits, Count
  <1>5. ASSUME NEW i \in Numbered(events)
        PROVE  events[i].sequence = Cardinality({j \in Numbered(events) : j <= i})
    <2>1. Numbered(events) = 1 .. Len(events) - 1
      BY <1>1 DEF Numbered, TriageOK, EventsInOrder
    <2>2. i \in 1 .. Len(events) - 1
      BY <2>1, <1>5
    <2>3. {j \in Numbered(events) : j <= i} = 1 .. i
      BY <1>1, <2>1, <2>2
    <2>4. Cardinality(1 .. i) = i
      BY <1>1, <2>2, FS_Interval
    <2>5. events[i].sequence = i
      BY <1>1, <2>2 DEF TriageOK, EventsInOrder
    <2>6. QED
      BY <2>3, <2>4, <2>5
  <1>6. /\ GenerationsCharged(events) = used["model_generations"]
        /\ ActionsCharged(events) = used["shell_actions"]
    BY DEF TriageOK, CountersAgree
  <1>7. TriageEventsValid(triage, Limits)
    BY <1>1, <1>3, <1>4, <1>5, <1>6
       DEF TriageEventsValid, GenerationsCharged, ActionsCharged, Commits
  <1>8. QED
    BY <1>2, <1>7

LEMMA FinalIsValid ==
  ASSUME IInv, TriageOK, EpisodesFollow, at = "episode", Len(episodes) = Len(shortlist)
  PROVE  Valid(Result("none", episodes))
  <1> DEFINE record == Result("none", episodes)
  <1>1. SUFFICES ASSUME record.run > 0, record.rankable
                 PROVE  SubmissionValid(record, ShortlistSize, Inventory, Limits)
    BY DEF Valid
  <1>2. /\ record.error = "none"
        /\ record.shortlist = shortlist
        /\ record.triage = triage
        /\ record.episodes = episodes
        /\ triage.shortlist = shortlist
    BY DEF Result, triage
  <1>3. Len(shortlist) = ShortlistSize /\ shortlist # <<>>
    BY RunnerAssumption DEF IInv, FileAgrees
  <1>4. ShortlistValid(shortlist, ShortlistSize, Inventory)
    BY <1>3 DEF TriageOK, ShortlistOK
  <1>5. StatusValid(triage, Limits) /\ TriageEventsValid(triage, Limits)
    BY <1>3, TriageLedgerValid DEF IInv
  <1>6. \A i \in DOMAIN episodes :
          /\ episodes[i].rule = shortlist[i]
          /\ episodes[i].status =
               IF Accepted(episodes[i].submit) # {} THEN "bug_found" ELSE "completed"
    BY DEF EpisodesFollow, EpisodesToCome, Follows, StatusOf
  <1> HIDE DEF record
  <1>7. QED
    BY <1>1, <1>2, <1>3, <1>4, <1>5, <1>6 DEF SubmissionValid

RecordsValid == Valid(result) /\ Valid(output)

RecordsInv == IInv /\ TriageOK /\ EpisodesFollow /\ RecordsValid

LEMMA NotRankable ==
  ASSUME NEW why \in Errors \ {"none"}, NEW done
  PROVE  Valid(Result(why, done))
  BY DEF Valid, Result

LEMMA RecordsStepInv == RecordsInv /\ [Next]_vars => RecordsValid'
  <1> SUFFICES ASSUME RecordsInv, [Next]_vars PROVE RecordsValid'
    OBVIOUS
  <1> USE DEF RecordsValid
  <1>1. IInv /\ TriageOK /\ EpisodesFollow /\ Valid(result) /\ Valid(output)
    BY DEF RecordsInv
  <1>2. CASE LeaveTriage
    <2>1. output' = output /\ (result' = result \/ result' = Result("triage", <<>>))
      BY <1>2 DEF LeaveTriage, Persist, fileVars
    <2>2. QED
      BY <1>1, <2>1, NotRankable DEF Errors, Valid, Limits
  <1>3. ASSUME NEW raised \in BOOLEAN, NEW submit \in Ledgers, RunEpisode(raised, submit)
        PROVE  RecordsValid'
    <2>1. /\ output' = output
          /\ result' = Result("episode", episodes') \/ result' = Result("incomplete", episodes')
      BY <1>3 DEF RunEpisode, Persist, fileVars
    <2>2. QED
      BY <1>1, <2>1, NotRankable DEF Errors, Valid, Limits
  <1>4. CASE Finish
    <2>1. output' = output /\ result' = Result("none", episodes)
      BY <1>4 DEF Finish, Persist, fileVars
    <2>2. Valid(Result("none", episodes))
      BY <1>1, <1>4, FinalIsValid DEF Finish
    <2>3. QED
      BY <1>1, <2>1, <2>2 DEF Valid, Limits
  <1>5. CASE ReplaceOutput
    <2>1. output' = result /\ result' = result
      BY <1>1, <1>5 DEF ReplaceOutput, FileStep, IInv, FileAgrees
    <2>2. QED
      BY <1>1, <2>1 DEF Valid, Limits
  <1>6. CASE Exit \/ Crash
    <2>1. output' = output /\ result' = Absent
      BY <1>6 DEF Exit, Crash, Die, fileVars
    <2>2. QED
      BY <1>1, <2>1 DEF Valid, Absent, Limits
  <1>7. ASSUME UNCHANGED <<result, output>>
        PROVE  RecordsValid'
    BY <1>1, <1>7 DEF Valid, Limits
  <1>8. ASSUME \/ \E next \in {"query", "act", "check", "leave"} : Respond(next)
               \/ OutOfGenerations \/ ProviderError \/ Explore
               \/ \E c \in Candidates : Commit(c)
               \/ TriageRaises \/ Check \/ BeginWrite \/ EndWrite \/ Start
               \/ UNCHANGED vars
        PROVE  RecordsValid'
    BY <1>7, <1>8 DEF Respond, OutOfGenerations, ProviderError, Explore, Commit,
                      TriageRaises, Check, TriageStep, BeginWrite, EndWrite, FileStep, Start,
                      vars, fileVars
  <1>9. QED
    BY <1>2, <1>3, <1>4, <1>5, <1>6, <1>8 DEF Next, Process

LEMMA RecordsInvariance == Spec => []RecordsInv
  <1>1. Init => RecordsInv
    <2> SUFFICES ASSUME Init PROVE RecordsInv
      OBVIOUS
    <2>1. Valid(result) /\ Valid(output)
      BY DEF Init, Valid, Absent
    <2>2. QED
      BY <2>1, InitInv, TriageInit, EpisodesInit DEF RecordsInv, RecordsValid
  <1>2. RecordsInv /\ [Next]_vars => RecordsInv'
    BY StepInv, TriageStepInv, EpisodesStepInv, RecordsStepInv DEF RecordsInv
  <1>3. QED
    BY <1>1, <1>2, PTL DEF Spec

(* Whatever crashes, errors and earlier runs came before it, a file that calls
   itself rankable is accepted by the contract: its counters and its events
   add up within the budget of triage, its shortlist was frozen once and is
   valid, and its episodes follow it, all of them and in order. *)
THEOREM RankableAccepted == Spec => []RankableIsValid
  <1>1. RecordsInv => RankableIsValid
    BY DEF RecordsInv, RecordsValid, Valid, RankableIsValid
  <1>2. QED
    BY <1>1, RecordsInvariance, PTL

===============================================================================
