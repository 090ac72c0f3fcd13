----------------------------- MODULE ScoringQueue -----------------------------
(***************************************************************************)
(* From an uploaded submission to a public leaderboard entry: the intake    *)
(* worker, the objects in R2, the daily job of score-from-r2.yml with the   *)
(* scorer it runs (benchmark/backend_score.py) and the plan of its moves    *)
(* (benchmark/r2_queue.py), and the pull requests a maintainer decides on.  *)
(*                                                                         *)
(* One job runs at a time (the workflow's concurrency group).  It works on  *)
(* copies: what it pulled of R2, the commit it checked out.  It may stop at *)
(* any step, leaving R2 and GitHub as they are; the next day's job starts   *)
(* from nothing but those.  Uploads arrive and the maintainer acts at any   *)
(* moment.                                                                 *)
(***************************************************************************)
EXTENDS EgressGuard

CONSTANTS
  Submission,   \* uploads, numbered in the order of their entries' names
  Kinds,        \* the kinds of submission that may be uploaded
  MaxMishaps,   \* bound on faults, kills and stops of jobs
  MaxPRs        \* bound on the pull requests per entry

(***************************************************************************)
(* Submissions, by what scoring makes of them.  "ranked" ones are scored    *)
(* and published; a "test" is scored and kept private; an "unpublishable"   *)
(* one is scored, but its entry holds a word the egress guard forbids (its  *)
(* model may be called certificate-1).  "refused" ones break the contract   *)
(* or belong to another round.  The data of a "raises" one makes the        *)
(* contract's code itself raise (a triage that is a string).                *)
(***************************************************************************)
Admissible == {"ranked", "test", "unpublishable"}
Public == {"ranked", "unpublishable"}

ASSUME QueueAssumption ==
  /\ Submission \subseteq Nat
  /\ Kinds \subseteq Admissible \cup {"refused", "raises"}
  /\ MaxMishaps \in Nat
  /\ MaxPRs \in Nat

VARIABLES
  kind,        \* what each submission is; "none" until it is uploaded
  prefix,      \* the R2 prefixes that hold its object
  diagnosed,   \* submissions with a diagnostic under failed-status/
  detail,      \* results/<stem>.json in R2: private scored detail
  entry,       \* results/board/<slug>.json in R2
  main,        \* entries on the protected branch
  open,        \* entries with an open pull request
  prs,         \* pull requests ever opened for an entry
  step,        \* where the job is
  base,        \* the entries of the commit the job checked out
  manifest,    \* the queue keys the job listed and downloaded
  status,      \* the job's <stem>.status.json
  current,     \* the submission the job's loop is at
  scored,      \* the job's copy of detail
  board,       \* the job's copy of entry
  todo,        \* entries the publishing loop has not reached
  mishaps      \* faults, kills and stops so far

storeVars == <<prefix, diagnosed, detail, entry>>
githubVars == <<main, open, prs>>
jobVars == <<step, base, manifest, status, current, scored, board, todo>>
vars == <<kind, storeVars, githubVars, jobVars, mishaps>>

File == {"none", "torn", "whole"}   \* write_text does not replace atomically
Prefixes == {"incoming", "processed", "failed"}
Nobody == -1
Steps == {"idle", "take", "judge", "finish", "sync", "move", "publish"}

TypeOK ==
  /\ kind \in [Submission -> Kinds \cup {"none"}]
  /\ prefix \in [Submission -> SUBSET Prefixes]
  /\ diagnosed \in SUBSET Submission
  /\ detail \in [Submission -> File]
  /\ entry \in [Submission -> File]
  /\ main \in SUBSET Submission
  /\ open \in SUBSET Submission
  /\ prs \in [Submission -> Nat]
  /\ step \in Steps
  /\ base \in SUBSET Submission
  /\ manifest \in SUBSET Submission
  /\ status \in [Submission -> {"none", "RUNNING", "FINISHED", "REFUSED", "RETRY"}]
  /\ current \in Submission \cup {Nobody}
  /\ scored \in [Submission -> File]
  /\ board \in [Submission -> File]
  /\ todo \in SUBSET Submission
  /\ mishaps \in 0..MaxMishaps

Nothing == [s \in Submission |-> "none"]

Init ==
  /\ kind = Nothing
  /\ prefix = [s \in Submission |-> {}]
  /\ diagnosed = {}
  /\ detail = Nothing
  /\ entry = Nothing
  /\ main = {}
  /\ open = {}
  /\ prs = [s \in Submission |-> 0]
  /\ step = "idle"
  /\ base = {}
  /\ manifest = {}
  /\ status = Nothing
  /\ current = Nobody
  /\ scored = Nothing
  /\ board = Nothing
  /\ todo = {}
  /\ mishaps = 0

Incoming == {s \in Submission : "incoming" \in prefix[s]}

(* The intake worker stores an upload under a fresh name. *)
Deposit(s, k) ==
  /\ kind[s] = "none"
  /\ kind' = [kind EXCEPT ![s] = k]
  /\ prefix' = [prefix EXCEPT ![s] = {"incoming"}]
  /\ UNCHANGED <<diagnosed, detail, entry, githubVars, jobVars, mishaps>>

-----------------------------------------------------------------------------
(* Scoring. *)

(* Mutant: earlier results are not pulled. *)
PullQueueOnly ==
  /\ step = "idle"
  /\ step' = "take"
  /\ base' = main
  /\ manifest' = Incoming
  /\ UNCHANGED <<kind, storeVars, githubVars, status, current, scored, board, todo, mishaps>>

(* The job checks out the branch, lists and downloads the queue and all
   earlier results.  It starts without any status file. *)
Pull ==
  /\ step = "idle"
  /\ step' = "take"
  /\ base' = main
  /\ manifest' = Incoming
  /\ scored' = detail
  /\ board' = entry
  /\ UNCHANGED <<kind, storeVars, githubVars, status, current, todo, mishaps>>

Mark(s, st) == status' = [status EXCEPT ![s] = st]

(* The scorer's loop takes up the next pending submission. *)
Pending == {s \in manifest : status[s] = "none"}
TakeUp(s) ==
  /\ step = "take"
  /\ s \in Pending
  /\ Mark(s, "RUNNING")
  /\ current' = s
  /\ step' = "judge"
  /\ UNCHANGED <<kind, storeVars, githubVars, base, manifest, scored, board, todo, mishaps>>

(* The submission is admissible: its scored detail is written ... *)
WriteDetail ==
  /\ step = "judge"
  /\ kind[current] \in Admissible
  /\ scored' = [scored EXCEPT ![current] = "whole"]
  /\ step' = "finish"
  /\ UNCHANGED <<kind, storeVars, githubVars, base, manifest, status, current, board, todo, mishaps>>

LeaveScoring(st) ==
  /\ Mark(current, st)
  /\ current' = Nobody
  /\ step' = "take"

(* ... then its status. *)
Finish ==
  /\ step = "finish"
  /\ LeaveScoring("FINISHED")
  /\ UNCHANGED <<kind, storeVars, githubVars, base, manifest, scored, board, todo, mishaps>>

(* A PermanentSubmissionError: the contract reports problems. *)
Refuse ==
  /\ step = "judge"
  /\ kind[current] = "refused"
  /\ LeaveScoring("REFUSED")
  /\ UNCHANGED <<kind, storeVars, githubVars, base, manifest, scored, board, todo, mishaps>>

(* The contract's code raises on the data; any exception that is not a
   PermanentSubmissionError counts as retryable. *)
Raise ==
  /\ step = "judge"
  /\ kind[current] = "raises"
  /\ LeaveScoring("RETRY")
  /\ UNCHANGED <<kind, storeVars, githubVars, base, manifest, scored, board, todo, mishaps>>

Mishap ==
  /\ mishaps < MaxMishaps
  /\ mishaps' = mishaps + 1

(* Writing the detail of the current submission stops half way. *)
TearDetail ==
  /\ step = "judge"
  /\ kind[current] \in Admissible
  /\ scored' = [scored EXCEPT ![current] = "torn"]

(* Mutant: every exception counts as permanent. *)
FaultForGood ==
  /\ step \in {"judge", "finish"}
  /\ Mishap
  /\ LeaveScoring("REFUSED")
  /\ UNCHANGED <<kind, storeVars, githubVars, base, manifest, scored, board, todo>>

(* An exception of the verifier or the file system. *)
Fault ==
  /\ step \in {"judge", "finish"}
  /\ Mishap
  /\ LeaveScoring("RETRY")
  /\ TearDetail \/ UNCHANGED scored
  /\ UNCHANGED <<kind, storeVars, githubVars, base, manifest, board, todo>>

(* Mutant: tests get an entry too. *)
EntriesWithTests == {s \in Submission : scored[s] = "whole"}

(* Results that get a public entry: every one that can be read, tests excepted. *)
Entries == {s \in Submission : scored[s] = "whole" /\ kind[s] \in Public}

(* The loop is over: the entry files are rewritten. *)
Aggregate ==
  /\ step = "take"
  /\ Pending = {}
  /\ board' = [s \in Submission |-> IF s \in Entries THEN "whole" ELSE board[s]]
  /\ step' = "sync"
  /\ UNCHANGED <<kind, storeVars, githubVars, base, manifest, status, current, scored, todo, mishaps>>

(* The scorer's container dies; the job continues on error. *)
KillScorer ==
  /\ step \in {"take", "judge", "finish"}
  /\ Mishap
  /\ \/ UNCHANGED <<scored, board>>
     \/ TearDetail /\ UNCHANGED board
     \/ /\ step = "take"
        /\ Pending = {}
        /\ \E t \in Entries, rewritten \in SUBSET Entries :
             board' = [s \in Submission |->
                         IF s = t THEN "torn"
                         ELSE IF s \in rewritten THEN "whole" ELSE board[s]]
        /\ UNCHANGED scored
  /\ current' = Nobody
  /\ step' = "sync"
  /\ UNCHANGED <<kind, storeVars, githubVars, base, manifest, status, todo>>

-----------------------------------------------------------------------------
(* Persisting results, then moving the listed objects. *)

(* aws s3 sync copies what is new or differs and deletes nothing; its uploads
   are concurrent. *)
Newer(copy, store) == {s \in Submission : copy[s] \notin {"none", store[s]}}

Upload(s) ==
  /\ step = "sync"
  /\ s \in Newer(scored, detail)
  /\ detail' = [detail EXCEPT ![s] = scored[s]]
  /\ UNCHANGED <<kind, prefix, diagnosed, entry, githubVars, jobVars, mishaps>>

UploadEntry(s) ==
  /\ step = "sync"
  /\ s \in Newer(board, entry)
  /\ entry' = [entry EXCEPT ![s] = board[s]]
  /\ UNCHANGED <<kind, prefix, diagnosed, detail, githubVars, jobVars, mishaps>>

(* Mutant: the objects are moved without waiting for the results. *)
EndSyncEarly ==
  /\ step = "sync"
  /\ step' = "move"
  /\ UNCHANGED <<kind, storeVars, githubVars, base, manifest, status, current, scored, board, todo, mishaps>>

EndSync ==
  /\ step = "sync"
  /\ Newer(scored, detail) \cup Newer(board, entry) = {}
  /\ step' = "move"
  /\ UNCHANGED <<kind, storeVars, githubVars, base, manifest, status, current, scored, board, todo, mishaps>>

(* Mutant: refused ones are left where they are. *)
PlannedFinished == {s \in manifest : status[s] = "FINISHED"}

(* plan_manifest: only listed keys, only those with a terminal status. *)
Planned == {s \in manifest : status[s] \in {"FINISHED", "REFUSED"}}

(* Mutant: the object is moved to the prefix of its status. *)
DestinationOfStatus(s) == IF status[s] = "FINISHED" THEN "processed" ELSE "failed-status"
Destination(s) == IF status[s] = "FINISHED" THEN "processed" ELSE "failed"

Diagnose(s) ==
  /\ step = "move"
  /\ current = Nobody
  /\ s \in Planned \ diagnosed
  /\ status[s] = "REFUSED"
  /\ diagnosed' = diagnosed \cup {s}
  /\ UNCHANGED <<kind, prefix, detail, entry, githubVars, jobVars, mishaps>>

(* Mutant: the original goes although the copy was not made. *)
CopyNothing(s) ==
  /\ step = "move"
  /\ current = Nobody
  /\ s \in Planned \cap Incoming
  /\ prefix' = [prefix EXCEPT ![s] = @ \ {"incoming"}]
  /\ UNCHANGED <<kind, diagnosed, detail, entry, githubVars, jobVars, mishaps>>

(* aws s3 mv copies the object ... *)
Copy(s) ==
  /\ step = "move"
  /\ current = Nobody
  /\ s \in Planned \cap Incoming
  /\ status[s] = "REFUSED" => s \in diagnosed
  /\ prefix' = [prefix EXCEPT ![s] = @ \cup {Destination(s)}]
  /\ current' = s
  /\ UNCHANGED <<kind, diagnosed, detail, entry, githubVars, step, base, manifest, status,
                 scored, board, todo, mishaps>>

(* ... then removes the original. *)
Remove ==
  /\ step = "move"
  /\ current # Nobody
  /\ prefix' = [prefix EXCEPT ![current] = @ \ {"incoming"}]
  /\ current' = Nobody
  /\ UNCHANGED <<kind, diagnosed, detail, entry, githubVars, step, base, manifest, status,
                 scored, board, todo, mishaps>>

EndMove ==
  /\ step = "move"
  /\ current = Nobody
  /\ Planned \cap Incoming = {}
  /\ step' = "publish"
  /\ todo' = {s \in Submission : board[s] # "none"}
  /\ UNCHANGED <<kind, storeVars, githubVars, base, manifest, status, current, scored, board, mishaps>>

-----------------------------------------------------------------------------
(* Publishing: one pull request per entry, in the order of the names. *)

AtEntry(s) == step = "publish" /\ s \in todo /\ \A t \in todo : s <= t

Reached(s) ==
  /\ todo' = todo \ {s}
  /\ UNCHANGED <<kind, storeVars, step, base, manifest, status, current, scored, board, mishaps>>

Unchanged(s) == board[s] = "whole" /\ s \in base

(* The entry is already on the branch, as of the checkout. *)
Skip(s) ==
  /\ AtEntry(s)
  /\ Unchanged(s)
  /\ Reached(s)
  /\ UNCHANGED githubVars

(* The file of a submission's public entry (top50_public_entry); its score
   does not matter to the guard. *)
EntryFile(s) ==
  [forbidden |-> kind[s] = "unpublishable", shape |-> "object",
   entries |-> << [object |-> TRUE, extra |-> FALSE, model |-> s, bugs |-> 1] >>]

Refused(s) == ~Passes(IF board[s] = "torn" THEN Torn ELSE EntryFile(s))

(* The entry's branch is rewritten; its open pull request is edited, or a
   new one is created when none is open. *)
Propose(s) ==
  /\ AtEntry(s)
  /\ ~Unchanged(s)
  /\ ~Refused(s)
  /\ open' = open \cup {s}
  /\ prs' = IF s \in open THEN prs ELSE [prs EXCEPT ![s] = @ + 1]
  /\ Reached(s)
  /\ UNCHANGED main

(* The job is over; its machine, with every local file, is gone. *)
EndJob ==
  /\ step' = "idle"
  /\ base' = {}
  /\ manifest' = {}
  /\ status' = Nothing
  /\ current' = Nobody
  /\ scored' = Nothing
  /\ board' = Nothing
  /\ todo' = {}
  /\ UNCHANGED <<kind, storeVars, githubVars>>

(* jq cannot read the entry, or check_aggregate refuses it: the shell exits
   on error and the step ends. *)
StopAtEntry(s) ==
  /\ AtEntry(s)
  /\ ~Unchanged(s)
  /\ Refused(s)
  /\ EndJob
  /\ UNCHANGED mishaps

EndPublish ==
  /\ step = "publish"
  /\ todo = {}
  /\ EndJob
  /\ UNCHANGED mishaps

(* A failing step, a cancelled or timed-out job, a lost machine. *)
Abort ==
  /\ step # "idle"
  /\ Mishap
  /\ EndJob

-----------------------------------------------------------------------------
(* The maintainer; bounded so that no entry gets more than MaxPRs requests. *)

Merge(s) ==
  /\ s \in open
  /\ prs[s] < MaxPRs
  /\ main' = main \cup {s}
  /\ open' = open \ {s}
  /\ UNCHANGED <<kind, storeVars, prs, jobVars, mishaps>>

Close(s) ==
  /\ s \in open
  /\ prs[s] < MaxPRs
  /\ open' = open \ {s}
  /\ UNCHANGED <<kind, storeVars, main, prs, jobVars, mishaps>>

Revert(s) ==
  /\ s \in main
  /\ prs[s] < MaxPRs
  /\ main' = main \ {s}
  /\ UNCHANGED <<kind, storeVars, open, prs, jobVars, mishaps>>

-----------------------------------------------------------------------------
Scoring ==
  \/ \E s \in Submission : TakeUp(s)
  \/ WriteDetail \/ Finish \/ Refuse \/ Raise \/ Aggregate

Persisting ==
  \/ \E s \in Submission : Upload(s) \/ UploadEntry(s) \/ Diagnose(s) \/ Copy(s)
  \/ EndSync \/ Remove \/ EndMove

Publishing ==
  \/ \E s \in Submission : Skip(s) \/ Propose(s) \/ StopAtEntry(s)
  \/ EndPublish

Job == Pull \/ Scoring \/ Persisting \/ Publishing
Trouble == Fault \/ KillScorer \/ Abort
Others ==
  \E s \in Submission :
    \/ \E k \in Kinds : Deposit(s, k)
    \/ Merge(s) \/ Close(s) \/ Revert(s)

Next == Job \/ Trouble \/ Others

Spec == Init /\ [][Next]_vars

(* The daily schedule starts a job, and a job takes its next step. *)
FairSpec == Spec /\ WF_vars(Job)

-----------------------------------------------------------------------------
(* Properties. *)

(* An upload that was accepted is under some prefix of R2 forever, whatever
   job dies between copying and removing it, and whatever arrives while a
   job is running. *)
NothingLost == \A s \in Submission : kind[s] # "none" => prefix[s] # {}

(* What has left the queue was decided on.  Under processed/ sits what was
   admissible, and unless it is half moved its detail is complete in R2: it
   will not be scored again, so a detail missing or torn there would never be
   repaired.  Under failed/ sits, with a diagnostic, what retrying cannot fix,
   however often scoring was disturbed. *)
MovedIsDecided ==
  \A s \in Submission :
    /\ "processed" \in prefix[s] =>
         kind[s] \in Admissible /\ (detail[s] = "whole" \/ s \in Incoming)
    /\ "failed" \in prefix[s] => s \in diagnosed /\ kind[s] = "refused"

(* An entry is proposed or published only for a ranked submission, and its
   private detail is complete in R2 or will be written again: a job that dies
   during the upload may leave an entry there without its detail. *)
PublicIsBacked ==
  \A s \in open \cup main :
    kind[s] = "ranked" /\ (detail[s] = "whole" \/ s \in Incoming)

(* The queue keeps the promises of SubmissionLifecycle: an object is scored
   or refused once it has been copied to its destination, and public once a
   pull request has been opened for it. *)
StageOf(s) ==
  IF kind[s] = "none" THEN "absent"
  ELSE IF "processed" \in prefix[s] THEN "scored"
  ELSE IF "failed" \in prefix[s] THEN "refused"
  ELSE "queued"

Lifecycle == INSTANCE SubmissionLifecycle
  WITH Admissible <- Admissible, Refusable <- {"refused"}, Publishable <- {"ranked"},
       stage <- [s \in Submission |-> StageOf(s)],
       public <- {s \in Submission : prs[s] > 0}
ImplementsLifecycle == Lifecycle!Spec

(* Every upload the contract decides on leaves the queue, however often jobs
   fail before. *)
LeavesQueue ==
  \A s \in Submission :
    (s \in Incoming /\ kind[s] \in Admissible \cup {"refused"}) ~> (s \notin Incoming)

(* Every ranked submission gets its pull request, unless an entry before it
   in the order of names can never be published. *)
RankedUnlessBlocked ==
  \A s \in Submission :
    (kind[s] = "ranked") ~>
      (prs[s] > 0 \/ \E t \in Submission : t < s /\ kind[t] = "unpublishable")

=============================================================================
