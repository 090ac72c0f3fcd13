-------------------------- MODULE ScoringQueue_proofs --------------------------
(***************************************************************************)
(* Proofs about the scoring queue, for any number of uploads of any kinds,  *)
(* any mishaps and any maintainer: nothing is lost, what was moved is       *)
(* decided, what is public is backed, and the queue implements the          *)
(* lifecycle of a submission.                                              *)
(***************************************************************************)
EXTENDS ScoringQueue, TLAPS

-----------------------------------------------------------------------------
(* The inductive invariant. *)

(* Its detail is complete in R2, or it will be scored again. *)
Backed(s) == detail[s] = "whole" \/ s \in Incoming

(* The scorer's loop and the moves keep to one submission at a time. *)
LoopOK ==
  /\ step = "idle" => status = Nothing
  /\ step \in {"idle", "take", "sync", "publish"} => current = Nobody
  /\ step \in {"judge", "finish"} => current \in manifest /\ status[current] = "RUNNING"
  /\ step = "finish" => kind[current] \in Admissible /\ scored[current] = "whole"
  /\ step = "move" /\ current # Nobody =>
       current \in Planned /\ Destination(current) \in prefix[current]

(* A terminal status is earned. *)
StatusesOK ==
  \A s \in Submission :
    /\ status[s] # "none" => s \in manifest
    /\ status[s] = "FINISHED" => kind[s] \in Admissible /\ scored[s] = "whole"
    /\ status[s] = "REFUSED" => kind[s] = "refused"

(* Until the moves, what the job works on is in the queue, and its copies of
   everything else are as in R2. *)
CopiesOK ==
  step \in {"take", "judge", "finish", "sync"} =>
    /\ manifest \subseteq Incoming
    /\ \A s \in Submission \ manifest : scored[s] = detail[s]

(* From the moves on, what was scored is complete in R2. *)
SyncedOK ==
  step \in {"move", "publish"} =>
    \A s \in Submission : status[s] = "FINISHED" => detail[s] = "whole"

(* Entries, in R2 or with the job, are of submissions that may have one. *)
EntriesOK ==
  \A s \in Submission :
    /\ entry[s] # "none" \/ board[s] # "none" => kind[s] \in Public /\ Backed(s)
    /\ s \in todo => step = "publish" /\ board[s] # "none"

IInv ==
  /\ TypeOK /\ LoopOK /\ StatusesOK /\ CopiesOK /\ SyncedOK /\ EntriesOK
  /\ NothingLost /\ MovedIsDecided /\ PublicIsBacked

-----------------------------------------------------------------------------
(* The loop's "nobody" is no submission. *)
LEMMA Nobodies == Nobody \notin Submission
  BY QueueAssumption DEF Nobody

(* The guard lets no entry through that holds a forbidden word. *)
LEMMA Unrefused ==
  ASSUME NEW s \in Submission, ~Refused(s)
  PROVE  kind[s] # "unpublishable"
  BY DEF Refused, Passes, Problems, Torn, EntryFile

(* The job starts from R2 and the branch, with no status. *)
LEMMA PullKeeps ==
  ASSUME IInv, Pull
  PROVE  IInv'
  <1>1. TypeOK'
    BY DEF IInv, TypeOK, Steps, Incoming, Pull, storeVars, githubVars
  <1>2. LoopOK'
    BY DEF IInv, LoopOK, Pull
  <1>3. StatusesOK'
    BY DEF IInv, StatusesOK, TypeOK, LoopOK, Nothing, Pull
  <1>4. CopiesOK'
    BY DEF CopiesOK, Incoming, Pull, storeVars
  <1>5. SyncedOK'
    BY DEF SyncedOK, Pull
  <1>6. EntriesOK'
    BY DEF IInv, EntriesOK, TypeOK, Backed, Incoming, Pull, storeVars
  <1>7. NothingLost' /\ MovedIsDecided' /\ PublicIsBacked'
    BY DEF IInv, NothingLost, MovedIsDecided, PublicIsBacked, Incoming, Pull, storeVars,
         githubVars
  <1> QED
    BY <1>1, <1>2, <1>3, <1>4, <1>5, <1>6, <1>7 DEF IInv

(* One submission of the queue is taken up. *)
LEMMA TakeUpKeeps ==
  ASSUME IInv, NEW s \in Submission, TakeUp(s)
  PROVE  IInv'
  <1>1. TypeOK'
    BY DEF IInv, TypeOK, Steps, TakeUp, Mark, storeVars, githubVars
  <1>2. LoopOK'
    BY DEF IInv, LoopOK, TypeOK, TakeUp, Mark, Pending
  <1>3. StatusesOK'
    BY DEF IInv, StatusesOK, TakeUp, Mark, Pending
  <1>4. CopiesOK'
    BY DEF IInv, CopiesOK, Incoming, TakeUp, storeVars
  <1>5. SyncedOK'
    BY DEF SyncedOK, TakeUp
  <1>6. EntriesOK'
    BY DEF IInv, EntriesOK, Backed, Incoming, TakeUp, storeVars
  <1>7. NothingLost' /\ MovedIsDecided' /\ PublicIsBacked'
    BY DEF IInv, NothingLost, MovedIsDecided, PublicIsBacked, Incoming, TakeUp, storeVars,
         githubVars
  <1> QED
    BY <1>1, <1>2, <1>3, <1>4, <1>5, <1>6, <1>7 DEF IInv

(* Only the submission at hand is written. *)
LEMMA WriteDetailKeeps ==
  ASSUME IInv, WriteDetail
  PROVE  IInv'
  <1>1. TypeOK'
    BY DEF IInv, TypeOK, LoopOK, File, Steps, WriteDetail, storeVars, githubVars
  <1>2. LoopOK'
    BY DEF IInv, LoopOK, TypeOK, StatusesOK, Destination, WriteDetail
  <1>3. StatusesOK'
    BY DEF IInv, StatusesOK, WriteDetail
  <1>4. CopiesOK'
    BY DEF IInv, CopiesOK, LoopOK, Incoming, WriteDetail, storeVars
  <1>5. SyncedOK'
    BY DEF SyncedOK, WriteDetail
  <1>6. EntriesOK'
    BY DEF IInv, EntriesOK, Backed, Incoming, WriteDetail, storeVars
  <1>7. NothingLost' /\ MovedIsDecided' /\ PublicIsBacked'
    BY DEF IInv, NothingLost, MovedIsDecided, PublicIsBacked, Incoming, WriteDetail,
         storeVars, githubVars
  <1> QED
    BY <1>1, <1>2, <1>3, <1>4, <1>5, <1>6, <1>7 DEF IInv

(* FINISHED is earned by a detail that is complete. *)
LEMMA FinishKeeps ==
  ASSUME IInv, Finish
  PROVE  IInv'
  <1>1. TypeOK'
    BY DEF IInv, TypeOK, LoopOK, Steps, Finish, LeaveScoring, Mark, storeVars, githubVars
  <1>2. LoopOK'
    BY DEF LoopOK, Finish, LeaveScoring
  <1>3. StatusesOK'
    BY DEF IInv, StatusesOK, LoopOK, Finish, LeaveScoring, Mark
  <1>4. CopiesOK'
    BY DEF IInv, CopiesOK, TypeOK, Incoming, Finish, storeVars
  <1>5. SyncedOK'
    BY DEF SyncedOK, Finish, LeaveScoring
  <1>6. EntriesOK'
    BY DEF IInv, EntriesOK, TypeOK, Backed, Incoming, Finish, storeVars
  <1>7. NothingLost' /\ MovedIsDecided' /\ PublicIsBacked'
    BY DEF IInv, NothingLost, MovedIsDecided, PublicIsBacked, Incoming, Finish, storeVars,
         githubVars
  <1> QED
    BY <1>1, <1>2, <1>3, <1>4, <1>5, <1>6, <1>7 DEF IInv

(* REFUSED is earned by what the contract refuses. *)
LEMMA RefuseKeeps ==
  ASSUME IInv, Refuse
  PROVE  IInv'
  <1>1. TypeOK'
    BY DEF IInv, TypeOK, LoopOK, Steps, Refuse, LeaveScoring, Mark, storeVars, githubVars
  <1>2. LoopOK'
    BY DEF LoopOK, Refuse, LeaveScoring
  <1>3. StatusesOK'
    BY DEF IInv, StatusesOK, LoopOK, Refuse, LeaveScoring, Mark
  <1>4. CopiesOK'
    BY DEF IInv, CopiesOK, Incoming, Refuse, storeVars
  <1>5. SyncedOK'
    BY DEF SyncedOK, Refuse, LeaveScoring
  <1>6. EntriesOK'
    BY DEF IInv, EntriesOK, Backed, Incoming, Refuse, storeVars
  <1>7. NothingLost' /\ MovedIsDecided' /\ PublicIsBacked'
    BY DEF IInv, NothingLost, MovedIsDecided, PublicIsBacked, Incoming, Refuse, storeVars,
         githubVars
  <1> QED
    BY <1>1, <1>2, <1>3, <1>4, <1>5, <1>6, <1>7 DEF IInv

(* What makes the contract raise stays in the queue. *)
LEMMA RaiseKeeps ==
  ASSUME IInv, Raise
  PROVE  IInv'
  <1>1. TypeOK'
    BY DEF IInv, TypeOK, LoopOK, Steps, Raise, LeaveScoring, Mark, storeVars, githubVars
  <1>2. LoopOK'
    BY DEF LoopOK, Raise, LeaveScoring
  <1>3. StatusesOK'
    BY DEF IInv, StatusesOK, LoopOK, Raise, LeaveScoring, Mark
  <1>4. CopiesOK'
    BY DEF IInv, CopiesOK, Incoming, Raise, storeVars
  <1>5. SyncedOK'
    BY DEF SyncedOK, Raise, LeaveScoring
  <1>6. EntriesOK'
    BY DEF IInv, EntriesOK, Backed, Incoming, Raise, storeVars
  <1>7. NothingLost' /\ MovedIsDecided' /\ PublicIsBacked'
    BY DEF IInv, NothingLost, MovedIsDecided, PublicIsBacked, Incoming, Raise, storeVars,
         githubVars
  <1> QED
    BY <1>1, <1>2, <1>3, <1>4, <1>5, <1>6, <1>7 DEF IInv

(* Entries are made of complete details: of this job, or as they are in R2. *)
LEMMA AggregateKeeps ==
  ASSUME IInv, Aggregate
  PROVE  IInv'
  <1>1. TypeOK'
    BY DEF IInv, TypeOK, File, Steps, Aggregate, storeVars, githubVars
  <1>2. LoopOK'
    BY DEF IInv, LoopOK, Aggregate
  <1>3. CopiesOK'
    BY DEF IInv, CopiesOK, Incoming, Aggregate, storeVars
  <1>4. SyncedOK'
    BY DEF SyncedOK, Aggregate
  <1>5. EntriesOK'
    BY DEF IInv, EntriesOK, CopiesOK, Backed, Incoming, Aggregate, Entries, storeVars
  <1>6. StatusesOK' /\ NothingLost' /\ MovedIsDecided' /\ PublicIsBacked'
    BY DEF IInv, StatusesOK, NothingLost, MovedIsDecided, PublicIsBacked, Incoming, Aggregate,
         storeVars, githubVars
  <1> QED
    BY <1>1, <1>2, <1>3, <1>4, <1>5, <1>6 DEF IInv

(* A fault marks the submission for another try, perhaps with a torn detail. *)
LEMMA FaultKeeps ==
  ASSUME IInv, Fault
  PROVE  IInv'
  <1>1. TypeOK'
    BY QueueAssumption DEF IInv, TypeOK, LoopOK, File, Steps, Fault, Mishap, LeaveScoring,
         Mark, TearDetail, storeVars, githubVars
  <1>2. LoopOK'
    BY DEF LoopOK, Fault, LeaveScoring
  <1>3. StatusesOK'
    BY DEF IInv, StatusesOK, TypeOK, LoopOK, Fault, LeaveScoring, Mark, TearDetail
  <1>4. CopiesOK'
    BY DEF IInv, CopiesOK, TypeOK, LoopOK, Incoming, Fault, TearDetail, storeVars
  <1>5. SyncedOK'
    BY DEF SyncedOK, Fault, LeaveScoring
  <1>6. EntriesOK'
    BY DEF IInv, EntriesOK, TypeOK, Backed, Incoming, Fault, storeVars
  <1>7. NothingLost' /\ MovedIsDecided' /\ PublicIsBacked'
    BY DEF IInv, NothingLost, MovedIsDecided, PublicIsBacked, Incoming, Fault, storeVars,
         githubVars
  <1> QED
    BY <1>1, <1>2, <1>3, <1>4, <1>5, <1>6, <1>7 DEF IInv

(* A killed scorer leaves torn files of submissions that are in the queue. *)
LEMMA KillScorerKeeps ==
  ASSUME IInv, KillScorer
  PROVE  IInv'
  <1>1. TypeOK'
    BY QueueAssumption DEF IInv, TypeOK, File, Steps, KillScorer, Mishap, TearDetail,
         storeVars, githubVars
  <1>2. LoopOK'
    BY DEF LoopOK, KillScorer
  <1>3. StatusesOK'
    BY DEF IInv, StatusesOK, TypeOK, LoopOK, KillScorer, TearDetail
  <1>4. CopiesOK'
    BY DEF IInv, CopiesOK, TypeOK, LoopOK, Incoming, KillScorer, TearDetail, storeVars
  <1>5. SyncedOK'
    BY DEF SyncedOK, KillScorer
  <1>6. EntriesOK'
    BY DEF IInv, EntriesOK, CopiesOK, Backed, Incoming, KillScorer, Entries, storeVars
  <1>7. NothingLost' /\ MovedIsDecided' /\ PublicIsBacked'
    BY DEF IInv, NothingLost, MovedIsDecided, PublicIsBacked, Incoming, KillScorer, storeVars,
         githubVars
  <1> QED
    BY <1>1, <1>2, <1>3, <1>4, <1>5, <1>6, <1>7 DEF IInv

(* Only what the job worked on differs from R2, and that is still incoming. *)
LEMMA UploadKeeps ==
  ASSUME IInv, NEW s \in Submission, Upload(s)
  PROVE  IInv'
  <1>1. TypeOK'
    BY DEF IInv, TypeOK, Upload, githubVars, jobVars
  <1>2. CopiesOK'
    BY DEF IInv, CopiesOK, Incoming, Upload, jobVars
  <1>3. SyncedOK'
    BY DEF SyncedOK, Upload, jobVars
  <1>4. EntriesOK'
    BY DEF IInv, EntriesOK, CopiesOK, Backed, Incoming, Upload, jobVars
  <1>5. MovedIsDecided'
    BY DEF IInv, MovedIsDecided, CopiesOK, Incoming, Upload
  <1>6. PublicIsBacked'
    BY DEF IInv, PublicIsBacked, CopiesOK, Incoming, Upload, githubVars
  <1>7. LoopOK' /\ StatusesOK' /\ NothingLost'
    BY DEF IInv, LoopOK, StatusesOK, NothingLost, Upload, jobVars
  <1> QED
    BY <1>1, <1>2, <1>3, <1>4, <1>5, <1>6, <1>7 DEF IInv

(* An entry is stored as the job has it. *)
LEMMA UploadEntryKeeps ==
  ASSUME IInv, NEW s \in Submission, UploadEntry(s)
  PROVE  IInv'
  <1>1. TypeOK'
    BY DEF IInv, TypeOK, UploadEntry, githubVars, jobVars
  <1>2. EntriesOK'
    BY DEF IInv, EntriesOK, Backed, Incoming, UploadEntry, jobVars
  <1>3. LoopOK' /\ StatusesOK' /\ CopiesOK' /\ SyncedOK' /\ NothingLost' /\ MovedIsDecided'
       /\ PublicIsBacked'
    BY DEF IInv, LoopOK, StatusesOK, CopiesOK, SyncedOK, NothingLost, MovedIsDecided,
         PublicIsBacked, Incoming, UploadEntry, githubVars, jobVars
  <1> QED
    BY <1>1, <1>2, <1>3 DEF IInv

(* Now what is FINISHED is complete in R2. *)
LEMMA EndSyncKeeps ==
  ASSUME IInv, EndSync
  PROVE  IInv'
  <1>1. TypeOK'
    BY DEF IInv, TypeOK, Steps, EndSync, storeVars, githubVars
  <1>2. LoopOK'
    BY DEF IInv, LoopOK, EndSync
  <1>3. CopiesOK'
    BY DEF CopiesOK, EndSync
  <1>4. SyncedOK'
    BY DEF IInv, SyncedOK, StatusesOK, EndSync, Newer, storeVars
  <1>5. EntriesOK'
    BY DEF IInv, EntriesOK, Backed, Incoming, EndSync, storeVars
  <1>6. StatusesOK' /\ NothingLost' /\ MovedIsDecided' /\ PublicIsBacked'
    BY DEF IInv, StatusesOK, NothingLost, MovedIsDecided, PublicIsBacked, Incoming, EndSync,
         storeVars, githubVars
  <1> QED
    BY <1>1, <1>2, <1>3, <1>4, <1>5, <1>6 DEF IInv

(* A diagnostic disturbs nothing else. *)
LEMMA DiagnoseKeeps ==
  ASSUME IInv, NEW s \in Submission, Diagnose(s)
  PROVE  IInv'
  <1>1. TypeOK'
    BY DEF IInv, TypeOK, Diagnose, githubVars, jobVars
  <1>2. MovedIsDecided'
    BY DEF IInv, MovedIsDecided, TypeOK, Incoming, Diagnose
  <1>3. LoopOK' /\ StatusesOK' /\ CopiesOK' /\ SyncedOK' /\ EntriesOK' /\ NothingLost'
       /\ PublicIsBacked'
    BY DEF IInv, LoopOK, StatusesOK, CopiesOK, SyncedOK, EntriesOK, NothingLost,
         PublicIsBacked, Incoming, Backed, Diagnose, githubVars, jobVars
  <1> QED
    BY <1>1, <1>2, <1>3 DEF IInv

(* The destination is that of the status. *)
LEMMA CopyKeeps ==
  ASSUME IInv, NEW s \in Submission, Copy(s)
  PROVE  IInv'
  <1>1. TypeOK'
    BY DEF IInv, TypeOK, Prefixes, Destination, Copy, githubVars
  <1>2. LoopOK'
    BY DEF IInv, LoopOK, TypeOK, Planned, Destination, Copy
  <1>3. CopiesOK'
    BY DEF CopiesOK, Copy
  <1>4. EntriesOK'
    BY DEF IInv, EntriesOK, Backed, Incoming, Copy
  <1>5. NothingLost'
    BY DEF IInv, NothingLost, Copy
  <1>6. MovedIsDecided'
    BY DEF IInv, MovedIsDecided, StatusesOK, Incoming, Planned, Destination, Copy
  <1>7. PublicIsBacked'
    BY DEF IInv, PublicIsBacked, Incoming, Copy, githubVars
  <1>8. StatusesOK' /\ SyncedOK'
    BY DEF IInv, StatusesOK, SyncedOK, Copy
  <1> QED
    BY <1>1, <1>2, <1>3, <1>4, <1>5, <1>6, <1>7, <1>8 DEF IInv

(* The original goes once the copy is there. *)
LEMMA RemoveKeeps ==
  ASSUME IInv, Remove
  PROVE  IInv'
  <1>1. TypeOK'
    BY DEF IInv, TypeOK, Remove, githubVars
  <1>2. LoopOK'
    BY DEF LoopOK, Remove
  <1>3. CopiesOK'
    BY DEF CopiesOK, Remove
  <1>4. EntriesOK'
    BY DEF IInv, EntriesOK, LoopOK, StatusesOK, SyncedOK, Backed, Incoming, Public, Planned,
         Remove
  <1>5. NothingLost'
    BY DEF IInv, NothingLost, LoopOK, Destination, Remove
  <1>6. MovedIsDecided'
    BY DEF IInv, MovedIsDecided, LoopOK, StatusesOK, SyncedOK, Incoming, Planned, Admissible,
         Remove
  <1>7. PublicIsBacked'
    BY DEF IInv, PublicIsBacked, TypeOK, LoopOK, StatusesOK, SyncedOK, Incoming, Planned,
         Remove, githubVars
  <1>8. StatusesOK' /\ SyncedOK'
    BY DEF IInv, StatusesOK, SyncedOK, Remove
  <1> QED
    BY <1>1, <1>2, <1>3, <1>4, <1>5, <1>6, <1>7, <1>8 DEF IInv

(* The entries are those the job has. *)
LEMMA EndMoveKeeps ==
  ASSUME IInv, EndMove
  PROVE  IInv'
  <1>1. TypeOK'
    BY DEF IInv, TypeOK, Steps, EndMove, storeVars, githubVars
  <1>2. LoopOK'
    BY DEF LoopOK, EndMove
  <1>3. CopiesOK'
    BY DEF CopiesOK, EndMove
  <1>4. SyncedOK'
    BY DEF IInv, SyncedOK, EndMove, storeVars
  <1>5. EntriesOK'
    BY DEF IInv, EntriesOK, Backed, Incoming, EndMove, storeVars
  <1>6. StatusesOK' /\ NothingLost' /\ MovedIsDecided' /\ PublicIsBacked'
    BY DEF IInv, StatusesOK, NothingLost, MovedIsDecided, PublicIsBacked, Incoming, EndMove,
         storeVars, githubVars
  <1> QED
    BY <1>1, <1>2, <1>3, <1>4, <1>5, <1>6 DEF IInv

(* An unchanged entry is passed over. *)
LEMMA SkipKeeps ==
  ASSUME IInv, NEW s \in Submission, Skip(s)
  PROVE  IInv'
  <1>1. TypeOK'
    BY DEF IInv, TypeOK, Skip, Reached, storeVars, githubVars
  <1>2. EntriesOK'
    BY DEF IInv, EntriesOK, Backed, Incoming, Skip, Reached, storeVars
  <1>3. LoopOK' /\ StatusesOK' /\ CopiesOK' /\ SyncedOK' /\ NothingLost' /\ MovedIsDecided'
       /\ PublicIsBacked'
    BY DEF IInv, LoopOK, StatusesOK, CopiesOK, SyncedOK, NothingLost, MovedIsDecided,
         PublicIsBacked, Planned, Destination, Incoming, Skip, Reached, storeVars, githubVars
  <1> QED
    BY <1>1, <1>2, <1>3 DEF IInv

(* An entry that passes the guard is a ranked one. *)
LEMMA ProposeKeeps ==
  ASSUME IInv, NEW s \in Submission, Propose(s)
  PROVE  IInv'
  <1>1. TypeOK'
    BY Unrefused DEF IInv, TypeOK, Propose, Reached, storeVars
  <1>2. EntriesOK'
    BY Unrefused DEF IInv, EntriesOK, Backed, Incoming, Propose, Reached, storeVars
  <1>3. PublicIsBacked'
    BY Unrefused DEF IInv, PublicIsBacked, EntriesOK, Incoming, Public, Backed, Propose,
         AtEntry, Reached, storeVars
  <1>4. LoopOK' /\ StatusesOK' /\ CopiesOK' /\ SyncedOK' /\ NothingLost' /\ MovedIsDecided'
    BY DEF IInv, LoopOK, StatusesOK, CopiesOK, SyncedOK, NothingLost, MovedIsDecided, Planned,
         Destination, Incoming, Propose, Reached, storeVars
  <1> QED
    BY <1>1, <1>2, <1>3, <1>4 DEF IInv

(* A refused entry ends the job. *)
LEMMA StopAtEntryKeeps ==
  ASSUME IInv, NEW s \in Submission, StopAtEntry(s)
  PROVE  IInv'
  <1>1. TypeOK'
    BY DEF IInv, TypeOK, File, Steps, Nothing, StopAtEntry, EndJob, storeVars, githubVars
  <1>2. LoopOK'
    BY DEF LoopOK, StopAtEntry, EndJob
  <1>3. StatusesOK'
    BY DEF StatusesOK, Nothing, StopAtEntry, EndJob
  <1>4. CopiesOK'
    BY DEF CopiesOK, StopAtEntry, EndJob
  <1>5. SyncedOK'
    BY DEF SyncedOK, StopAtEntry, EndJob
  <1>6. EntriesOK'
    BY DEF IInv, EntriesOK, Nothing, Backed, Incoming, StopAtEntry, EndJob, storeVars
  <1>7. NothingLost' /\ MovedIsDecided' /\ PublicIsBacked'
    BY DEF IInv, NothingLost, MovedIsDecided, PublicIsBacked, Incoming, StopAtEntry, EndJob,
         storeVars, githubVars
  <1> QED
    BY <1>1, <1>2, <1>3, <1>4, <1>5, <1>6, <1>7 DEF IInv

(* So does the last entry. *)
LEMMA EndPublishKeeps ==
  ASSUME IInv, EndPublish
  PROVE  IInv'
  <1>1. TypeOK'
    BY DEF IInv, TypeOK, File, Steps, Nothing, EndPublish, EndJob, storeVars, githubVars
  <1>2. LoopOK'
    BY DEF LoopOK, EndPublish, EndJob
  <1>3. StatusesOK'
    BY DEF StatusesOK, Nothing, EndPublish, EndJob
  <1>4. CopiesOK'
    BY DEF CopiesOK, EndPublish, EndJob
  <1>5. SyncedOK'
    BY DEF SyncedOK, EndPublish, EndJob
  <1>6. EntriesOK'
    BY DEF IInv, EntriesOK, TypeOK, Nothing, Backed, Incoming, EndPublish, EndJob, storeVars
  <1>7. NothingLost' /\ MovedIsDecided' /\ PublicIsBacked'
    BY DEF IInv, NothingLost, MovedIsDecided, PublicIsBacked, Incoming, EndPublish, EndJob,
         storeVars, githubVars
  <1> QED
    BY <1>1, <1>2, <1>3, <1>4, <1>5, <1>6, <1>7 DEF IInv

(* A job that dies leaves R2 and GitHub as they are. *)
LEMMA AbortKeeps ==
  ASSUME IInv, Abort
  PROVE  IInv'
  <1>1. TypeOK'
    BY QueueAssumption DEF IInv, TypeOK, File, Steps, Nothing, Abort, EndJob, Mishap,
         storeVars, githubVars
  <1>2. LoopOK'
    BY DEF LoopOK, Abort, EndJob
  <1>3. StatusesOK'
    BY DEF StatusesOK, Nothing, Abort, EndJob
  <1>4. CopiesOK'
    BY DEF CopiesOK, Abort, EndJob
  <1>5. SyncedOK'
    BY DEF SyncedOK, Abort, EndJob
  <1>6. EntriesOK'
    BY DEF IInv, EntriesOK, TypeOK, Nothing, Backed, Incoming, Abort, EndJob, storeVars
  <1>7. NothingLost' /\ MovedIsDecided' /\ PublicIsBacked'
    BY DEF IInv, NothingLost, MovedIsDecided, PublicIsBacked, Incoming, Abort, EndJob,
         storeVars, githubVars
  <1> QED
    BY <1>1, <1>2, <1>3, <1>4, <1>5, <1>6, <1>7 DEF IInv

(* The maintainer merges what was proposed, *)
LEMMA MergeKeeps ==
  ASSUME IInv, NEW s \in Submission, Merge(s)
  PROVE  IInv'
  <1>1. TypeOK'
    BY DEF IInv, TypeOK, Merge, storeVars, jobVars
  <1>2. PublicIsBacked'
    BY DEF IInv, PublicIsBacked, TypeOK, Incoming, Merge, storeVars
  <1>3. LoopOK' /\ StatusesOK' /\ CopiesOK' /\ SyncedOK' /\ EntriesOK' /\ NothingLost'
       /\ MovedIsDecided'
    BY DEF IInv, LoopOK, StatusesOK, CopiesOK, SyncedOK, EntriesOK, NothingLost,
         MovedIsDecided, Planned, Destination, Incoming, Backed, Merge, storeVars, jobVars
  <1> QED
    BY <1>1, <1>2, <1>3 DEF IInv

(* closes it, *)
LEMMA CloseKeeps ==
  ASSUME IInv, NEW s \in Submission, Close(s)
  PROVE  IInv'
  <1>1. TypeOK'
    BY DEF IInv, TypeOK, Close, storeVars, jobVars
  <1>2. PublicIsBacked'
    BY DEF IInv, PublicIsBacked, Incoming, Close, storeVars
  <1>3. LoopOK' /\ StatusesOK' /\ CopiesOK' /\ SyncedOK' /\ EntriesOK' /\ NothingLost'
       /\ MovedIsDecided'
    BY DEF IInv, LoopOK, StatusesOK, CopiesOK, SyncedOK, EntriesOK, NothingLost,
         MovedIsDecided, Planned, Destination, Incoming, Backed, Close, storeVars, jobVars
  <1> QED
    BY <1>1, <1>2, <1>3 DEF IInv

(* or takes it back. *)
LEMMA RevertKeeps ==
  ASSUME IInv, NEW s \in Submission, Revert(s)
  PROVE  IInv'
  <1>1. TypeOK'
    BY DEF IInv, TypeOK, Revert, storeVars, jobVars
  <1>2. PublicIsBacked'
    BY DEF IInv, PublicIsBacked, Incoming, Revert, storeVars
  <1>3. LoopOK' /\ StatusesOK' /\ CopiesOK' /\ SyncedOK' /\ EntriesOK' /\ NothingLost'
       /\ MovedIsDecided'
    BY DEF IInv, LoopOK, StatusesOK, CopiesOK, SyncedOK, EntriesOK, NothingLost,
         MovedIsDecided, Planned, Destination, Incoming, Backed, Revert, storeVars, jobVars
  <1> QED
    BY <1>1, <1>2, <1>3 DEF IInv

(* An upload arrives in the queue. *)
LEMMA DepositKeeps ==
  ASSUME IInv, NEW s \in Submission, NEW k \in Kinds, Deposit(s,k)
  PROVE  IInv'
  <1>1. TypeOK'
    BY DEF IInv, TypeOK, Prefixes, Deposit, githubVars, jobVars
  <1>2. LoopOK'
    BY DEF IInv, LoopOK, StatusesOK, Planned, Destination, Admissible, Deposit, jobVars
  <1>3. StatusesOK'
    BY DEF IInv, StatusesOK, Admissible, Deposit, jobVars
  <1>4. CopiesOK'
    BY DEF IInv, CopiesOK, Incoming, Deposit, jobVars
  <1>5. EntriesOK'
    BY DEF IInv, EntriesOK, Backed, Incoming, Public, Deposit, jobVars
  <1>6. NothingLost'
    BY DEF IInv, NothingLost, TypeOK, Deposit
  <1>7. MovedIsDecided'
    BY DEF IInv, MovedIsDecided, TypeOK, Incoming, Deposit
  <1>8. PublicIsBacked'
    BY DEF IInv, PublicIsBacked, Incoming, Deposit, githubVars
  <1>9. SyncedOK'
    BY DEF IInv, SyncedOK, Deposit, jobVars
  <1> QED
    BY <1>1, <1>2, <1>3, <1>4, <1>5, <1>6, <1>7, <1>8, <1>9 DEF IInv

-----------------------------------------------------------------------------
(* The invariant and what follows from it. *)

LEMMA Initially == Init => IInv
  BY QueueAssumption DEF Init, IInv, TypeOK, LoopOK, StatusesOK, CopiesOK, SyncedOK, EntriesOK,
         NothingLost, MovedIsDecided, PublicIsBacked, Nothing, File, Prefixes, Steps, Nobody

LEMMA Inductive == IInv /\ [Next]_vars => IInv'
  <1> SUFFICES ASSUME IInv, [Next]_vars PROVE IInv'
    OBVIOUS
  <1>1. CASE Scoring
    BY <1>1, TakeUpKeeps, WriteDetailKeeps, FinishKeeps, RefuseKeeps, RaiseKeeps, AggregateKeeps
       DEF Scoring
  <1>2. CASE Persisting
    BY <1>2, UploadKeeps, UploadEntryKeeps, EndSyncKeeps, DiagnoseKeeps, CopyKeeps, RemoveKeeps,
       EndMoveKeeps DEF Persisting
  <1>3. CASE Publishing
    BY <1>3, SkipKeeps, ProposeKeeps, StopAtEntryKeeps, EndPublishKeeps DEF Publishing
  <1>4. CASE Trouble
    BY <1>4, FaultKeeps, KillScorerKeeps, AbortKeeps DEF Trouble
  <1>5. CASE Others
    BY <1>5, DepositKeeps, MergeKeeps, CloseKeeps, RevertKeeps DEF Others
  <1>6. CASE UNCHANGED vars
    BY <1>6 DEF IInv, TypeOK, LoopOK, StatusesOK, CopiesOK, SyncedOK, EntriesOK, NothingLost,
         MovedIsDecided, PublicIsBacked, Backed, Incoming, Planned, Destination, vars, storeVars,
         githubVars, jobVars
  <1>7. QED
    BY <1>1, <1>2, <1>3, <1>4, <1>5, <1>6, PullKeeps DEF Next, Job

LEMMA Invariance == Spec => []IInv
  BY Initially, Inductive, PTL DEF Spec

(* Every variable keeps its type, for any uploads and any bounds. *)
THEOREM TypeCorrect == Spec => []TypeOK
  BY Invariance, PTL DEF IInv

(* An accepted upload is in R2 under some prefix for ever: no job that dies
   between copying an object and removing it loses one. *)
THEOREM UploadsKept == Spec => []NothingLost
  BY Invariance, PTL DEF IInv

(* What left the queue was decided on, and a processed submission's detail is
   complete, however jobs were disturbed. *)
THEOREM MovesAreDecided == Spec => []MovedIsDecided
  BY Invariance, PTL DEF IInv

(* What was proposed or published is ranked and backed by its detail. *)
THEOREM PublicAlwaysBacked == Spec => []PublicIsBacked
  BY Invariance, PTL DEF IInv

-----------------------------------------------------------------------------
(* The lifecycle of a submission. *)

Stage == [s \in Submission |-> StageOf(s)]
Announced == {s \in Submission : prs[s] > 0}

LEMMA LifecycleInit == Init => Lifecycle!Init
  BY DEF Init, Nothing, StageOf, Lifecycle!Init

(* Neither a stage nor an announcement depends on anything else. *)
LEMMA LifecycleFrame ==
  ASSUME UNCHANGED <<kind, prefix, prs>>
  PROVE  UNCHANGED Lifecycle!lifecycleVars
  BY DEF Lifecycle!lifecycleVars, StageOf

LEMMA DepositAccepts ==
  ASSUME IInv, NEW s \in Submission, NEW k \in Kinds, Deposit(s, k)
  PROVE  Lifecycle!Next
  <1>1. kind' = [kind EXCEPT ![s] = k] /\ Stage[s] = "absent"
    BY DEF Deposit, Stage, StageOf
  <1>2. k # "none" /\ k \in Admissible \cup {"refused"} \cup {"raises"}
    BY QueueAssumption DEF Admissible
  <1>3. Stage' = [Stage EXCEPT ![s] = "queued"]
    BY <1>2 DEF IInv, TypeOK, Deposit, Stage, StageOf
  <1>4. Announced' = Announced
    BY DEF Deposit, githubVars, Announced
  <1>5. Lifecycle!Accept(s, k)
    BY <1>1, <1>3, <1>4 DEF Lifecycle!Accept, Stage, Announced
  <1>6. QED
    BY <1>2, <1>5 DEF Lifecycle!Next

(* The copy at its destination decides; a second one, after a job that died
   before it removed the original, decides the same. *)
LEMMA CopyDecides ==
  ASSUME IInv, NEW s \in Submission, Copy(s)
  PROVE  Lifecycle!Next \/ UNCHANGED Lifecycle!lifecycleVars
  <1>1. kind' = kind /\ Announced' = Announced
    BY DEF Copy, githubVars, Announced
  <1>2. CASE status[s] = "FINISHED"
    <2>1. kind[s] \in Admissible /\ "failed" \notin prefix[s]
      BY <1>2 DEF IInv, StatusesOK, MovedIsDecided, Admissible
    <2>2. Stage' = [Stage EXCEPT ![s] = "scored"]
      BY <1>2, <2>1 DEF IInv, TypeOK, Copy, Destination, Stage, StageOf, Admissible
    <2>3. Stage[s] \in {"queued", "scored"}
      BY <2>1 DEF Stage, StageOf, Admissible
    <2>4. Stage[s] = "scored" => Stage' = Stage
      BY <2>2 DEF Stage
    <2>5. Stage[s] = "queued" => Lifecycle!Score(s)
      BY <1>1, <2>1, <2>2 DEF Lifecycle!Score, Stage, Announced
    <2>6. QED
      BY <1>1, <2>3, <2>4, <2>5 DEF Lifecycle!Next, Lifecycle!lifecycleVars, Stage, Announced
  <1>3. CASE status[s] # "FINISHED"
    <2>1. kind[s] = "refused" /\ "processed" \notin prefix[s]
      BY <1>3 DEF IInv, StatusesOK, MovedIsDecided, Copy, Planned, Admissible
    <2>2. Stage' = [Stage EXCEPT ![s] = "refused"]
      BY <1>3, <2>1 DEF IInv, TypeOK, Copy, Destination, Stage, StageOf
    <2>3. Stage[s] \in {"queued", "refused"}
      BY <2>1 DEF Stage, StageOf
    <2>4. Stage[s] = "refused" => Stage' = Stage
      BY <2>2 DEF Stage
    <2>5. Stage[s] = "queued" => Lifecycle!Refuse(s)
      BY <1>1, <2>1, <2>2 DEF Lifecycle!Refuse, Stage, Announced
    <2>6. QED
      BY <1>1, <2>3, <2>4, <2>5 DEF Lifecycle!Next, Lifecycle!lifecycleVars, Stage, Announced
  <1>4. QED
    BY <1>2, <1>3

(* The removed original leaves the stage as it is. *)
LEMMA RemoveStutters ==
  ASSUME IInv, Remove
  PROVE  UNCHANGED Lifecycle!lifecycleVars
  BY DEF IInv, TypeOK, Remove, StageOf, githubVars, Lifecycle!lifecycleVars

LEMMA ProposeAnnounces ==
  ASSUME IInv, NEW s \in Submission, Propose(s)
  PROVE  Lifecycle!Next \/ UNCHANGED Lifecycle!lifecycleVars
  <1>1. kind[s] = "ranked"
    BY Unrefused DEF IInv, EntriesOK, Propose, AtEntry, Public
  <1>2. Stage[s] \in {"queued", "scored"}
    BY <1>1 DEF IInv, MovedIsDecided, Stage, StageOf
  <1>3. kind' = kind /\ Stage' = Stage
    BY DEF Propose, Reached, storeVars, Stage, StageOf
  <1>4. CASE s \in open
    BY <1>3, <1>4 DEF Propose, Stage, Lifecycle!lifecycleVars
  <1>5. CASE s \notin open
    <2>1. prs' = [prs EXCEPT ![s] = @ + 1] /\ prs \in [Submission -> Nat]
      BY <1>5 DEF Propose, IInv, TypeOK
    <2>2. Announced' = Announced \cup {s}
      BY <2>1 DEF Announced
    <2>3. Lifecycle!Announce(s)
      BY <1>1, <1>2, <1>3, <2>2 DEF Lifecycle!Announce, Stage, Announced
    <2>4. QED
      BY <2>3 DEF Lifecycle!Next
  <1>6. QED
    BY <1>4, <1>5

LEMMA LifecycleStep == IInv /\ [Next]_vars => [Lifecycle!Next]_(Lifecycle!lifecycleVars)
  <1> SUFFICES ASSUME IInv, [Next]_vars
               PROVE  Lifecycle!Next \/ UNCHANGED Lifecycle!lifecycleVars
    OBVIOUS
  <1>1. CASE Pull \/ Scoring
    BY <1>1, LifecycleFrame DEF Pull, Scoring, TakeUp, WriteDetail, Finish, Refuse, Raise, Aggregate,
         storeVars, githubVars
  <1>2. CASE Persisting
    <2>1. ASSUME NEW s \in Submission, Upload(s) \/ UploadEntry(s) \/ Diagnose(s)
          PROVE  UNCHANGED Lifecycle!lifecycleVars
      BY <2>1, LifecycleFrame DEF Upload, UploadEntry, Diagnose, githubVars
    <2>2. CASE EndSync \/ EndMove
      BY <2>2, LifecycleFrame DEF EndSync, EndMove, storeVars, githubVars
    <2>3. QED
      BY <1>2, <2>1, <2>2, CopyDecides, RemoveStutters DEF Persisting
  <1>3. CASE Publishing
    <2>1. ASSUME NEW s \in Submission, Skip(s) \/ StopAtEntry(s)
          PROVE  UNCHANGED Lifecycle!lifecycleVars
      BY <2>1, LifecycleFrame DEF Skip, Reached, StopAtEntry, EndJob, storeVars, githubVars
    <2>2. CASE EndPublish
      BY <2>2, LifecycleFrame DEF EndPublish, EndJob, storeVars, githubVars
    <2>3. QED
      BY <1>3, <2>1, <2>2, ProposeAnnounces DEF Publishing
  <1>4. CASE Trouble
    BY <1>4, LifecycleFrame DEF Trouble, Fault, KillScorer, Abort, EndJob, storeVars, githubVars
  <1>5. CASE Others
    <2>1. ASSUME NEW s \in Submission, Merge(s) \/ Close(s) \/ Revert(s)
          PROVE  UNCHANGED Lifecycle!lifecycleVars
      BY <2>1, LifecycleFrame DEF Merge, Close, Revert, storeVars
    <2>2. QED
      BY <1>5, <2>1, DepositAccepts DEF Others
  <1>6. CASE UNCHANGED vars
    BY <1>6, LifecycleFrame DEF vars, storeVars, githubVars
  <1>7. QED
    BY <1>1, <1>2, <1>3, <1>4, <1>5, <1>6 DEF Next, Job

(* The queue keeps the promises of the lifecycle: whatever job dies where, a
   submission is scored or refused once and for good, and announced only if
   it may be published. *)
THEOREM Refinement == Spec => ImplementsLifecycle
  <1>1. Spec => Lifecycle!Init
    BY LifecycleInit DEF Spec
  <1>2. Spec => [][Lifecycle!Next]_(Lifecycle!lifecycleVars)
    BY Invariance, LifecycleStep, PTL DEF Spec
  <1>3. QED
    BY <1>1, <1>2 DEF ImplementsLifecycle, Lifecycle!Spec

=============================================================================
