---------------------------- MODULE ProcessControl ----------------------------
(***************************************************************************)
(* One bounded run of a process (benchmark/process_control.py) by a worker  *)
(* of the pred gateway, and the gateway's exit, which kills what runs       *)
(* (benchmark/evidence_budget.py).                                         *)
(*                                                                         *)
(* The process leads a group of its own.  It may leave children behind that *)
(* hold the write end of its output; a child may also leave the group.  A   *)
(* reader thread moves the output into a capture that keeps its head and    *)
(* its tail.  Characters are numbered in the order they are written, so a   *)
(* capture is a sequence of numbers.  The second stream of a run that does  *)
(* not combine its streams has a reader and a capture of its own and is     *)
(* left out.                                                               *)
(***************************************************************************)
EXTENDS Naturals, Sequences, SequencesExt

CONSTANTS
  Child,       \* processes that descend from the leader
  Leader,
  MaxChars,    \* bound on the characters written
  Chunk,       \* characters a reader asks for: 64 Ki in the code
  Retained,    \* characters a capture may keep: its limit less 160
  NoResult     \* before a run has a result

ASSUME ProcessAssumption ==
  /\ Leader \notin Child
  /\ MaxChars \in Nat /\ Chunk \in Nat \ {0} /\ Retained \in Nat

Process == Child \cup {Leader}
HeadLimit == Retained \div 2
TailLimit == Retained - HeadLimit

VARIABLES
  caller,    \* control point of run_capped_process
  proc,      \* the state of each process
  away,      \* processes that left the leader's group
  holding,   \* processes that hold the write end of the pipe
  written,   \* characters written so far
  taken,     \* characters the reader has put into the capture
  reader,    \* the reader thread
  head,      \* the kept head
  tail,      \* the kept tail: a sequence of chunks
  result,    \* what the run returns
  active,    \* the process is in the gateway's set of active processes
  owner,     \* progress of the gateway's owner through __exit__
  doomed     \* the process is in the owner's copy of that set

groupVars == <<proc, away, holding, written>>
readerVars == <<taken, reader, head, tail>>
ownerVars == <<owner, doomed>>
vars == <<caller, groupVars, readerVars, result, active, ownerVars>>

Ended == {"returned", "raised", "cancelled"}
CallerPoint == {"queued", "register", "start", "wait", "kill", "join", "collect", "finish"} \cup Ended

Text == Seq(1 .. MaxChars)
Chars(chunks) == Len(FlattenSeq(chunks))

(* The capture stays within its limits whatever was written. *)
TypeOK ==
  /\ caller \in CallerPoint
  /\ proc \in [Process -> {"unborn", "running", "dead"}]
  /\ away \in SUBSET Child
  /\ holding \in SUBSET {p \in Process : proc[p] = "running"}
  /\ written \in 0 .. MaxChars
  /\ taken \in 0 .. written
  /\ reader \in {"unstarted", "running", "done"}
  /\ head \in Text /\ Len(head) <= HeadLimit
  /\ tail \in Seq(Text) /\ Chars(tail) <= TailLimit
  /\ result \in [text : Text, total : Nat, truncated : BOOLEAN] \cup {NoResult}
  /\ active \in BOOLEAN
  /\ owner \in {"open", "stopping", "killing", "waiting", "closed"}
  /\ doomed \in BOOLEAN

Init ==
  /\ caller = "queued"
  /\ proc = [p \in Process |-> "unborn"]
  /\ away = {}
  /\ holding = {}
  /\ written = 0
  /\ taken = 0
  /\ reader = "unstarted"
  /\ head = <<>>
  /\ tail = <<>>
  /\ result = NoResult
  /\ active = FALSE
  /\ owner = "open"
  /\ doomed = FALSE

-----------------------------------------------------------------------------
(* The processes.  A child inherits the group and, unless its output is
   redirected, the pipe; the leader cannot leave its own group. *)

Fork(p) ==
  /\ proc[p] = "unborn"
  /\ p \in Child
  /\ \E q \in Process :
       /\ proc[q] = "running"
       /\ away' = IF q \in away THEN away \cup {p} ELSE away
       /\ holding' \in {holding, IF q \in holding THEN holding \cup {p} ELSE holding}
  /\ proc' = [proc EXCEPT ![p] = "running"]
  /\ UNCHANGED <<caller, written, readerVars, result, active, ownerVars>>

LeaveGroup(p) ==
  /\ proc[p] = "running"
  /\ p \in Child \ away
  /\ away' = away \cup {p}
  /\ UNCHANGED <<caller, proc, holding, written, readerVars, result, active, ownerVars>>

Write(p) ==
  /\ p \in holding
  /\ written < MaxChars
  /\ written' = written + 1
  /\ UNCHANGED <<caller, proc, away, holding, readerVars, result, active, ownerVars>>

Die(dying) ==
  /\ proc' = [p \in Process |-> IF p \in dying /\ proc[p] = "running" THEN "dead" ELSE proc[p]]
  /\ holding' = holding \ dying

ExitProcess(p) ==
  /\ proc[p] = "running"
  /\ Die({p})
  /\ UNCHANGED <<caller, away, written, readerVars, result, active, ownerVars>>

(* Mutant of KillGroup: the leader alone is killed. *)
KillLeader == Die({Leader})

(* terminate_process_group: killpg; a group that is gone is no error. *)
KillGroup == Die(Process \ away)

-----------------------------------------------------------------------------
(* The reader thread: _CombinedCapture.drain and _StreamCapture.add. *)

(* Drop characters from the front until the limit is kept. *)
Trim[t \in Seq(Text)] ==
  LET excess == Chars(t) - TailLimit IN
  IF Chars(t) <= TailLimit THEN t
  ELSE IF Len(t[1]) <= excess THEN Trim[Tail(t)]
  ELSE [t EXCEPT ![1] = SubSeq(@, excess + 1, Len(@))]

(* Mutant of Add: a chunk that is larger than the tail's limit is cut, one that
   makes the tail larger is not. *)
AddCuttingChunk(chunk) ==
  LET room == HeadLimit - Len(head)
      rest == SubSeq(chunk, room + 1, Len(chunk)) IN
  /\ head' = head \o SubSeq(chunk, 1, IF room < Len(chunk) THEN room ELSE Len(chunk))
  /\ tail' = IF rest = <<>> \/ TailLimit = 0 THEN tail ELSE tail \o Trim[<<rest>>]

(* The head takes what it has room for, the tail the rest of the chunk. *)
Add(chunk) ==
  LET room == HeadLimit - Len(head)
      rest == SubSeq(chunk, room + 1, Len(chunk)) IN
  /\ head' = head \o SubSeq(chunk, 1, IF room < Len(chunk) THEN room ELSE Len(chunk))
  /\ tail' = IF rest = <<>> \/ TailLimit = 0 THEN tail ELSE Trim[Append(tail, rest)]

(* A read waits for a whole chunk or for the end of the stream, which comes
   when nobody holds the pipe. *)
Read ==
  /\ reader = "running"
  /\ LET unread == written - taken IN
       /\ unread >= Chunk \/ holding = {}
       /\ IF unread = 0
          THEN reader' = "done" /\ UNCHANGED <<taken, head, tail>>
          ELSE LET n == IF unread < Chunk THEN unread ELSE Chunk IN
                 /\ Add([i \in 1 .. n |-> taken + i])
                 /\ taken' = taken + n
                 /\ UNCHANGED reader
  /\ UNCHANGED <<caller, groupVars, result, active, ownerVars>>

-----------------------------------------------------------------------------
(* run_capped_process. *)

Goto(point) == caller' = point

(* The process is launched in a session of its own, or Popen raises. *)
Launch ==
  /\ caller = "queued"
  /\ \/ /\ Goto("register")
        /\ proc' = [proc EXCEPT ![Leader] = "running"]
        /\ holding' = {Leader}
     \/ Goto("raised") /\ UNCHANGED <<proc, holding>>
  /\ UNCHANGED <<away, written, readerVars, result, active, ownerVars>>

(* on_start: the gateway tracks the process. *)
Register ==
  /\ caller = "register"
  /\ active' = TRUE
  /\ Goto("start")
  /\ UNCHANGED <<groupVars, readerVars, result, ownerVars>>

(* A thread that cannot be started raises: the run is left by its finally
   clause, which kills nothing. *)
StartReader ==
  /\ caller = "start"
  /\ \/ Goto("wait") /\ reader' = "running"
     \/ Goto("finish") /\ UNCHANGED reader
  /\ UNCHANGED <<groupVars, taken, head, tail, result, active, ownerVars>>

(* Mutant of LeaderEnded: after a normal end nothing is killed. *)
LeaderEndedAlone ==
  /\ caller = "wait"
  /\ proc[Leader] = "dead"
  /\ Goto("join")
  /\ UNCHANGED <<groupVars, readerVars, result, active, ownerVars>>

LeaderEnded ==
  /\ caller = "wait"
  /\ proc[Leader] = "dead"
  /\ Goto("kill")
  /\ UNCHANGED <<groupVars, readerVars, result, active, ownerVars>>

Timeout ==
  /\ caller = "wait"
  /\ proc[Leader] = "running"
  /\ Goto("kill")
  /\ UNCHANGED <<groupVars, readerVars, result, active, ownerVars>>

Kill ==
  /\ caller = "kill"
  /\ KillGroup
  /\ Goto("join")
  /\ UNCHANGED <<away, written, readerVars, result, active, ownerVars>>

(* Mutant of Join: the capture is read without waiting for the reader. *)
JoinNobody ==
  /\ caller = "join"
  /\ Goto("collect")
  /\ UNCHANGED <<groupVars, readerVars, result, active, ownerVars>>

Join ==
  /\ caller = "join"
  /\ reader = "done"
  /\ Goto("collect")
  /\ UNCHANGED <<groupVars, readerVars, result, active, ownerVars>>

(* _StreamCapture.result *)
Collect ==
  /\ caller = "collect"
  /\ LET text == head \o FlattenSeq(tail) IN
       result' = [text |-> text, total |-> taken, truncated |-> taken > Len(text)]
  /\ Goto("finish")
  /\ UNCHANGED <<groupVars, readerVars, active, ownerVars>>

(* on_finish, also when the run raises. *)
Finish ==
  /\ caller = "finish"
  /\ active' = FALSE
  /\ Goto(IF result = NoResult THEN "raised" ELSE "returned")
  /\ UNCHANGED <<groupVars, readerVars, result, ownerVars>>

Run ==
  \/ Launch \/ Register \/ StartReader \/ LeaderEnded \/ Timeout
  \/ Kill \/ Join \/ Collect \/ Finish

-----------------------------------------------------------------------------
(* PredGatewaySession.__exit__, after the service thread has been joined. *)

Owner(from, to) == owner = from /\ owner' = to

Stop ==
  /\ Owner("open", "stopping")
  /\ UNCHANGED <<caller, groupVars, readerVars, result, active, doomed>>

(* The active processes are copied under the lock ... *)
CopyActive ==
  /\ Owner("stopping", "killing")
  /\ doomed' = active
  /\ UNCHANGED <<caller, groupVars, readerVars, result, active>>

(* ... and killed after it is released: a run may have ended or begun. *)
KillActive ==
  /\ Owner("killing", "waiting")
  /\ IF doomed THEN KillGroup ELSE UNCHANGED <<proc, holding>>
  /\ UNCHANGED <<caller, away, written, readerVars, result, active, doomed>>

(* The executor cancels what has not started ... *)
Cancel ==
  /\ owner = "waiting"
  /\ caller = "queued"
  /\ Goto("cancelled")
  /\ UNCHANGED <<groupVars, readerVars, result, active, ownerVars>>

(* ... and waits for what has. *)
Close ==
  /\ Owner("waiting", "closed")
  /\ caller \in Ended
  /\ UNCHANGED <<caller, groupVars, readerVars, result, active, doomed>>

Exit == Stop \/ CopyActive \/ KillActive \/ Cancel \/ Close

-----------------------------------------------------------------------------
Next ==
  \/ \E p \in Process : Fork(p) \/ LeaveGroup(p) \/ Write(p) \/ ExitProcess(p)
  \/ Read \/ Run \/ Exit

(* Threads are scheduled and the watchdog fires; processes may do anything,
   or nothing for ever. *)
Fairness ==
  /\ WF_vars(Read) /\ WF_vars(Run)
  /\ WF_vars(CopyActive) /\ WF_vars(KillActive) /\ WF_vars(Cancel) /\ WF_vars(Close)

Spec == Init /\ [][Next]_vars /\ Fairness

-----------------------------------------------------------------------------
(* Properties. *)

Positions(first, last) == [i \in 1 .. (last + 1 - first) |-> first + i - 1]

(* A run returns all that its processes wrote, or when that is too long the
   first HeadLimit and the last TailLimit characters, and says which: however
   writes, reads, background children and the kill interleave, and wherever
   the boundaries of the chunks fall. *)
CaptureIsExact ==
  result # NoResult =>
    /\ result.total = written
    /\ result.truncated = (written > Retained)
    /\ result.text =
         IF result.truncated
         THEN Positions(1, HeadLimit) \o Positions(written - TailLimit + 1, written)
         ELSE Positions(1, written)

(* No process of the group outlives a run that returned, be it an orphan of a
   leader that ended by itself; nor the gateway, unless the run raised because
   its reader could not be started. *)
NothingSurvives ==
  caller = "returned" \/ (owner = "closed" /\ caller # "raised") =>
    \A p \in Process : proc[p] = "running" => p \in away

(* A child that left the group and holds the pipe. *)
Escaped == holding \cap away # {}

(* Every run ends, and leaving the gateway does, also when a process starts
   after the copy of the active ones was made; only a child that left the
   group with the pipe open can keep them. *)
RunsEnd ==
  /\ caller = "register" ~> (caller \in Ended \/ Escaped)
  /\ owner = "stopping" ~> (owner = "closed" \/ Escaped)

=============================================================================
