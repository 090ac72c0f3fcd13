------------------------------ MODULE Top50Runner ------------------------------
(***************************************************************************)
(* A whole Top50 run: triage, which freezes a shortlist, one fresh episode  *)
(* per entry, a checkpoint of the output file after each, and the final     *)
(* result (benchmark/top50_runner.py).  The process may die at any step and *)
(* be started again on the same output file.  What happens inside an        *)
(* episode is EpisodeLedger's; here it ends with a record, or raises.       *)
(***************************************************************************)
EXTENDS Top50Contract

CONSTANTS
  Inventory,    \* rules of the pinned library
  Foreign,      \* a rule that is not in the inventory
  ShortlistSize,
  Generations,  \* TRIAGE_BUDGET: model generations
  Actions,      \* TRIAGE_BUDGET: shell actions
  Candidates,   \* shortlist files the agent may write
  MaxRuns       \* bound on the starts of the process

ASSUME RunnerAssumption ==
  /\ Foreign \notin Inventory
  /\ ShortlistSize \in Nat \ {0}
  /\ Generations \in Nat \ {0}
  /\ Actions \in Nat \ {0}
  /\ Candidates \subseteq Seq(Inventory \cup {Foreign})
  /\ MaxRuns \in Nat

VARIABLES
  at,         \* where the process is; "down" when there is none
  run,        \* runs started so far
  certified,  \* this run was built by build_rankable_runner
  used,       \* triage counters
  events,     \* triage events
  shortlist,  \* the frozen shortlist; <<>> when there is none
  episodes,   \* records of the episodes of this run
  error,      \* why this run ends early: "none", "triage" or "episode"
  result,     \* the record being persisted
  temporary,  \* the temporary file beside the output
  output      \* the output file

triageVars == <<used, events, shortlist>>
fileVars == <<temporary, output>>
vars == <<at, run, certified, triageVars, episodes, error, result, fileVars>>

Limits == [model_generations |-> Generations, shell_actions |-> Actions]
TriageEvent ==
  [type : {"model_generation", "shell_action", "shortlist_commit"},
   sequence : Nat, charged : BOOLEAN]
EpisodeRecord ==
  [rule : Inventory, status : {"run_error", "bug_found", "completed"}, submit : Seq(BOOLEAN)]
TriageLedger ==
  [status : [DOMAIN Limits -> Nat], events : Seq(TriageEvent), shortlist : Seq(Inventory)]
Errors == {"none", "triage", "episode", "incomplete"}
Record ==
  [run : 1..MaxRuns, error : Errors, rankable : BOOLEAN, shortlist : Seq(Inventory),
   triage : TriageLedger, episodes : Seq(EpisodeRecord)]
Absent == [run |-> 0]
Torn == [run |-> MaxRuns + 1]

TypeOK ==
  /\ at \in {"down", "query", "act", "check", "leave", "episode", "write", "flush", "replace", "ended"}
  /\ run \in 0..MaxRuns
  /\ certified \in BOOLEAN
  /\ used \in [DOMAIN Limits -> Nat]
  /\ events \in Seq(TriageEvent)
  /\ shortlist \in Seq(Inventory)
  /\ episodes \in Seq(EpisodeRecord)
  /\ error \in Errors
  /\ result \in Record \cup {Absent}
  /\ temporary \in Record \cup {Absent, Torn}
  /\ output \in Record \cup {Absent}

NothingUsed == [n \in DOMAIN Limits |-> 0]

Init ==
  /\ at = "down"
  /\ run = 0
  /\ certified = FALSE
  /\ used = NothingUsed
  /\ events = <<>>
  /\ shortlist = <<>>
  /\ episodes = <<>>
  /\ error = "none"
  /\ result = Absent
  /\ temporary = Absent
  /\ output = Absent

(* A run starts from nothing but the output file, which it does not read. *)
Start ==
  /\ at = "down"
  /\ run < MaxRuns
  /\ at' = "query"
  /\ run' = run + 1
  /\ certified' \in BOOLEAN
  /\ episodes' = <<>>
  /\ UNCHANGED <<triageVars, error, result, fileVars>>

(* The process is gone, and its memory with it; how far its episodes had come
   is remembered for the properties only. *)
Die ==
  /\ at' = "down"
  /\ certified' = FALSE
  /\ used' = NothingUsed
  /\ events' = <<>>
  /\ shortlist' = <<>>
  /\ error' = "none"
  /\ result' = Absent
  /\ UNCHANGED <<run, episodes, fileVars>>

(* The process dies or is interrupted; what it wrote stays.  A failure of the
   machine that loses writes not yet synced (_persist does not sync) is not
   modelled. *)
Crash == at \notin {"down", "ended"} /\ Die

-----------------------------------------------------------------------------
(* Triage. *)

Left(counter) == used[counter] < Limits[counter]

TriageStep(next) ==
  /\ at' = next
  /\ UNCHANGED <<run, certified, episodes, result, fileVars>>

(* Reserve a unit if one is left, and append a numbered event. *)
Debit(counter, type) ==
  /\ used' = IF Left(counter) THEN [used EXCEPT ![counter] = @ + 1] ELSE used
  /\ events' = Append(events,
                 [type |-> type, sequence |-> Len(events) + 1, charged |-> Left(counter)])

(* The agent is asked; it answers with one command, with several, or with
   none or nothing readable.  After too many of the last kind it gives up. *)
Respond(next) ==
  /\ at = "query"
  /\ Left("model_generations")
  /\ Debit("model_generations", "model_generation")
  /\ TriageStep(next)
  /\ UNCHANGED <<shortlist, error>>

OutOfGenerations ==
  /\ at = "query"
  /\ ~Left("model_generations")
  /\ TriageStep("leave")
  /\ UNCHANGED <<used, events, shortlist, error>>

ProviderError ==
  /\ at = "query"
  /\ Left("model_generations")
  /\ events' = Append(events, [type |-> "model_generation", sequence |-> Len(events) + 1,
                               charged |-> FALSE])
  /\ error' = "triage"
  /\ TriageStep("leave")
  /\ UNCHANGED <<used, shortlist>>

(* A shell action that is no commit, or is refused. *)
Explore ==
  /\ at = "act"
  /\ Debit("shell_actions", "shell_action")
  /\ TriageStep("check")
  /\ UNCHANGED <<shortlist, error>>

(* Mutant of Acceptable: the inventory is not looked at. *)
AcceptableForeign(c) ==
  shortlist = <<>> /\ Len(c) = ShortlistSize /\ \A i, j \in DOMAIN c : i # j => c[i] # c[j]
Acceptable(c) == shortlist = <<>> /\ ShortlistValid(c, ShortlistSize, Inventory)

(* commit-top50: the action is recorded, then the file is read, validated and
   frozen; the commit's own event carries no number. *)
Commit(c) ==
  /\ at = "act"
  /\ Left("shell_actions")
  /\ used' = [used EXCEPT !["shell_actions"] = @ + 1]
  /\ LET admitted == Append(events, [type |-> "shell_action", sequence |-> Len(events) + 1,
                                     charged |-> TRUE])
         frozen == [type |-> "shortlist_commit", sequence |-> 0, charged |-> FALSE]
     IN IF Acceptable(c)
        THEN shortlist' = c /\ events' = Append(admitted, frozen)
        ELSE shortlist' = shortlist /\ events' = admitted
  /\ TriageStep("check")
  /\ UNCHANGED error

(* Anything that raises after an action ends the phase with an error, a
   frozen shortlist notwithstanding. *)
TriageRaises ==
  /\ at = "check"
  /\ error' = "triage"
  /\ TriageStep("leave")
  /\ UNCHANGED <<used, events, shortlist>>

Spent == \E n \in DOMAIN Limits : used[n] > 0 /\ ~Left(n)

(* Mutant of Check: the loop goes on after the commit. *)
CheckBudgetOnly ==
  /\ at = "check"
  /\ TriageStep(IF Spent THEN "leave" ELSE "query")
  /\ UNCHANGED <<used, events, shortlist, error>>

Check ==
  /\ at = "check"
  /\ TriageStep(IF Spent \/ shortlist # <<>> THEN "leave" ELSE "query")
  /\ UNCHANGED <<used, events, shortlist, error>>

-----------------------------------------------------------------------------
(* The run and its result. *)

(* TriageSession.ledger, copied when triage is left; nothing changes it later. *)
triage == [status |-> used, events |-> events, shortlist |-> shortlist]

(* Mutant of Result: an error is not written down. *)
ResultWithoutErrors(why, done) ==
  [run |-> run, error |-> IF why = "incomplete" THEN why ELSE "none",
   rankable |-> certified /\ why = "none" /\ Len(done) = ShortlistSize,
   shortlist |-> shortlist, triage |-> triage, episodes |-> done]

Result(why, done) ==
  [run |-> run, error |-> why,
   rankable |-> certified /\ why = "none" /\ Len(done) = ShortlistSize,
   shortlist |-> shortlist, triage |-> triage, episodes |-> done]

(* Mutant of Persist: no checkpoints. *)
PersistLast(why, done) ==
  /\ result' = Result(why, done)
  /\ at' = IF why = "incomplete" THEN "episode" ELSE "write"

Persist(why, done) ==
  /\ result' = Result(why, done)
  /\ at' = "write"

(* The triage session is left with its ledger.  Without a shortlist, or after
   an error, the result is final. *)
LeaveTriage ==
  /\ at = "leave"
  /\ IF error = "none" /\ shortlist # <<>>
     THEN at' = "episode" /\ UNCHANGED <<error, result>>
     ELSE error' = "triage" /\ Persist("triage", <<>>)
  /\ UNCHANGED <<run, certified, used, events, shortlist, episodes, fileVars>>

NextRule == shortlist[Len(episodes) + 1]

StatusOf(raised, submit) ==
  IF raised THEN "run_error" ELSE IF Accepted(submit) # {} THEN "bug_found" ELSE "completed"

(* An episode ends with its record, or raises (in a phase, on entering or on
   leaving the session); a checkpoint follows, or the final result. *)
RunEpisode(raised, submit) ==
  /\ at = "episode"
  /\ Len(episodes) < Len(shortlist)
  /\ episodes' = Append(episodes,
       [rule |-> NextRule, status |-> StatusOf(raised, submit), submit |-> submit])
  /\ error' = IF raised THEN "episode" ELSE "none"
  /\ Persist(IF raised THEN "episode" ELSE "incomplete", episodes')
  /\ UNCHANGED <<run, certified, used, events, shortlist, fileVars>>

(* Mutant of Finish: off by one. *)
FinishTooLate ==
  /\ at = "episode"
  /\ Len(episodes) > Len(shortlist)
  /\ Persist("none", episodes)
  /\ UNCHANGED <<run, certified, used, events, shortlist, episodes, error, fileVars>>

Finish ==
  /\ at = "episode"
  /\ Len(episodes) = Len(shortlist)
  /\ Persist("none", episodes)
  /\ UNCHANGED <<run, certified, used, events, shortlist, episodes, error, fileVars>>

-----------------------------------------------------------------------------
(* _persist: the record is written to a temporary file, which then replaces
   the output file. *)

FileStep(next) ==
  /\ at' = next
  /\ UNCHANGED <<run, certified, triageVars, episodes, error, result>>

BeginWrite ==
  /\ at = "write"
  /\ temporary' = Torn
  /\ FileStep("flush")
  /\ UNCHANGED output

EndWrite ==
  /\ at = "flush"
  /\ temporary' = result
  /\ FileStep("replace")
  /\ UNCHANGED output

ReplaceOutput ==
  /\ at = "replace"
  /\ output' = temporary
  /\ temporary' = Absent
  /\ FileStep(IF result.error = "incomplete" THEN "episode" ELSE "ended")

(* The process of a finished run ends. *)
Exit == at = "ended" /\ Die

-----------------------------------------------------------------------------
Ledgers == {<<>>, <<FALSE>>, <<FALSE, TRUE>>}

Process ==
  \/ \E next \in {"query", "act", "check", "leave"} : Respond(next)
  \/ OutOfGenerations \/ ProviderError \/ Explore
  \/ \E c \in Candidates : Commit(c)
  \/ TriageRaises \/ Check \/ LeaveTriage
  \/ \E raised \in BOOLEAN, submit \in Ledgers : RunEpisode(raised, submit)
  \/ Finish \/ BeginWrite \/ EndWrite \/ ReplaceOutput \/ Exit

Next == Process \/ Start \/ Crash

Spec == Init /\ [][Next]_vars

(* A started process runs until it ends or dies. *)
FairSpec == Spec /\ WF_vars(Process)

-----------------------------------------------------------------------------
(* Properties. *)

(* A file that calls itself rankable is accepted by the contract, whatever
   crashes, errors and earlier runs came before it: its triage ledger adds
   up, its episodes follow the frozen shortlist in order and none is missing. *)
RankableIsValid ==
  output.run > 0 /\ output.rankable =>
    SubmissionValid(output, ShortlistSize, Inventory, Limits)

(* While a run is past its first checkpoint, or after it went down there, the
   file holds all its finished episodes but the last. *)
LosesAtMostOneEpisode ==
  Len(episodes) > 1 =>
    /\ output.run = run
    /\ Len(output.episodes) >= Len(episodes) - 1
    /\ output.episodes = SubSeq(episodes, 1, Len(output.episodes))

(* The file is what RunRecord promises, at every step of every run. *)
Published ==
  IF output.run = 0 THEN [run |-> 0, episodes |-> <<>>, outcome |-> "none"]
  ELSE [run |-> output.run, episodes |-> output.episodes,
        outcome |-> IF output.error = "none" THEN "completed"
                    ELSE IF output.error = "incomplete" THEN "incomplete" ELSE "failed"]

File == INSTANCE RunRecord WITH Size <- ShortlistSize, published <- Published
ImplementsRecord == File!Spec

(* A run that is started publishes its last word or dies. *)
RunEnds ==
  \A r \in 1..MaxRuns :
    (run = r /\ at # "down") ~>
      (at = "down" \/ (output.run = r /\ output.error # "incomplete"))

=============================================================================
