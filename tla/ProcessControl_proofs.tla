------------------------- MODULE ProcessControl_proofs -------------------------
(***************************************************************************)
(* Proofs about ProcessControl, for any processes and any sizes.            *)
(*                                                                         *)
(* A kill reaches the processes of the group at one moment; that it needs   *)
(* no second one is the invariant's business: once nothing runs in the      *)
(* group nothing can start in it again (GroupGone), and once nobody holds   *)
(* the pipe nobody can write to it (the last line of Drained).              *)
(*                                                                         *)
(* The capture is exact because its head and its tail are, at every moment, *)
(* functions of the number of characters taken (HeadExact, TailExact); what *)
(* Trim does to a sequence of chunks is proved by induction on its length.  *)
(***************************************************************************)
EXTENDS ProcessControl, SequenceTheorems, WellFoundedInduction, TLAPS

-----------------------------------------------------------------------------
(* Induction and recursion.  The library states them with operators as
   parameters, which the provers cannot instantiate; here the property is a
   set and the step a function. *)

(* A set of natural numbers that is not empty has a least one. *)
LEMMA LeastNatural ==
  ASSUME NEW T \in SUBSET Nat, T # {}
  PROVE  \E m \in T : \A k \in T : m <= k
  <1>1. IsWellFoundedOn(OpToRel(<, Nat), Nat)
    BY NatLessThanWellFounded
  <1>2. PICK m \in T : \A k \in T : ~(<<k, m>> \in OpToRel(<, Nat))
    BY <1>1, WFMin
  <1>3. \A k \in T : ~(k < m)
    BY <1>2 DEF OpToRel
  <1>4. QED
    BY <1>3

(* Induction: the property is a set. *)
LEMMA Induction ==
  ASSUME NEW T, 0 \in T, \A n \in Nat : n \in T => n + 1 \in T
  PROVE  \A n \in Nat : n \in T
  <1>1. SUFFICES ASSUME Nat \ T # {} PROVE FALSE
    OBVIOUS
  <1>2. PICK m \in Nat \ T : \A k \in Nat \ T : m <= k
    BY <1>1, LeastNatural
  <1>3. m - 1 \in Nat /\ m - 1 \in T
    BY <1>2
  <1>4. QED
    BY <1>2, <1>3

(* Recursion over the natural numbers: the step is a function. *)
Recursive(f, X, x0, G) ==
  /\ f \in [Nat -> X]
  /\ f[0] = x0
  /\ \A n \in Nat : f[n + 1] = G[<<n, f[n]>>]

LEMMA Recursion ==
  ASSUME NEW X, NEW x0 \in X, NEW G \in [Nat \X X -> X]
  PROVE  \E f : Recursive(f, X, x0, G)
  <1> DEFINE Good(n, f) == /\ f \in [0 .. n -> X]
                           /\ f[0] = x0
                           /\ \A i \in 0 .. n - 1 : f[i + 1] = G[<<i, f[i]>>]
             T == {n \in Nat : \E f : Good(n, f)}
  <1>1. 0 \in T
    <2>1. Good(0, [i \in 0 .. 0 |-> x0])
      OBVIOUS
    <2>2. QED
      BY <2>1
  <1>2. ASSUME NEW n \in Nat, n \in T PROVE n + 1 \in T
    <2>1. PICK f : Good(n, f)
      BY <1>2
    <2> DEFINE g == [i \in 0 .. n + 1 |-> IF i = n + 1 THEN G[<<n, f[n]>>] ELSE f[i]]
    <2>2. \A i \in 0 .. n : f[i] \in X
      BY <2>1
    <2>3. G[<<n, f[n]>>] \in X
      BY <2>2
    <2>4. g \in [0 .. n + 1 -> X]
      BY <2>2, <2>3
    <2>5. ASSUME NEW i \in 0 .. n PROVE g[i + 1] = G[<<i, g[i]>>]
      <3>1. g[i] = f[i]
        <4>1. i \in 0 .. n + 1 /\ i # n + 1
          OBVIOUS
        <4>2. QED
          BY <4>1
      <3>2. CASE i = n
        <4>1. n + 1 \in 0 .. n + 1
          OBVIOUS
        <4>2. g[n + 1] = G[<<n, f[n]>>]
          BY <4>1
        <4> HIDE DEF g
        <4>3. QED
          BY <3>1, <3>2, <4>2
      <3>3. CASE i # n
        <4>1. i \in 0 .. n - 1 /\ i + 1 \in 0 .. n + 1 /\ i + 1 # n + 1
          BY <3>3
        <4>2. g[i + 1] = f[i + 1]
          BY <4>1
        <4>3. f[i + 1] = G[<<i, f[i]>>]
          BY <2>1, <4>1
        <4>4. QED
          BY <3>1, <4>2, <4>3
      <3>4. QED
        BY <3>2, <3>3
    <2>6. g[0] = x0
      <3>1. 0 \in 0 .. n + 1 /\ 0 # n + 1
        OBVIOUS
      <3>2. g[0] = f[0]
        BY <3>1
      <3>3. QED
        BY <2>1, <3>2
    <2>7. Good(n + 1, g)
      <3>1. (n + 1) - 1 = n
        OBVIOUS
      <3> HIDE DEF g
      <3>2. QED
        BY <2>4, <2>5, <2>6, <3>1
    <2> HIDE DEF g, Good
    <2>8. QED
      BY <2>7
  <1>3. \A n \in Nat : \E f : Good(n, f)
    <2> HIDE DEF T
    <2>1. \A n \in Nat : n \in T
      BY <1>1, <1>2, Induction
    <2>2. QED
      BY <2>1 DEF T
  <1>4. ASSUME NEW n \in Nat, NEW m \in Nat, NEW f, NEW g, Good(n, f), Good(m, g)
        PROVE  \A i \in Nat : i <= n /\ i <= m => f[i] = g[i]
    <2> DEFINE U == {i \in Nat : i <= n /\ i <= m => f[i] = g[i]}
    <2>1. 0 \in U
      BY <1>4
    <2>2. ASSUME NEW i \in Nat, i \in U PROVE i + 1 \in U
      <3> SUFFICES ASSUME i + 1 <= n, i + 1 <= m PROVE f[i + 1] = g[i + 1]
        OBVIOUS
      <3>1. i \in 0 .. n - 1 /\ i \in 0 .. m - 1 /\ f[i] = g[i]
        BY <2>2
      <3>2. f[i + 1] = G[<<i, f[i]>>] /\ g[i + 1] = G[<<i, g[i]>>]
        BY <1>4, <3>1
      <3>3. QED
        BY <3>1, <3>2
    <2> HIDE DEF U
    <2>3. \A i \in Nat : i \in U
      BY <2>1, <2>2, Induction
    <2>4. QED
      BY <2>3 DEF U
  <1> DEFINE upTo(n) == CHOOSE f : Good(n, f)
             F == [n \in Nat |-> upTo(n)[n]]
  <1>5. \A n \in Nat : Good(n, upTo(n))
    BY <1>3
  <1> HIDE DEF upTo
  <1>6. F \in [Nat -> X]
    BY <1>5
  <1>7. F[0] = x0
    BY <1>5
  <1>8. ASSUME NEW n \in Nat PROVE F[n + 1] = G[<<n, F[n]>>]
    <2>1. Good(n, upTo(n)) /\ Good(n + 1, upTo(n + 1))
      BY <1>5
    <2>2. upTo(n + 1)[n + 1] = G[<<n, upTo(n + 1)[n]>>]
      <3>1. n \in 0 .. (n + 1) - 1
        OBVIOUS
      <3>2. QED
        BY <2>1, <3>1
    <2> HIDE DEF Good
    <2>3. upTo(n + 1)[n] = upTo(n)[n]
      BY <1>4, <2>1
    <2>4. QED
      BY <2>2, <2>3
  <1> HIDE DEF F
  <1>9. Recursive(F, X, x0, G)
    BY <1>6, <1>7, <1>8 DEF Recursive
  <1>10. QED
    BY <1>9

(* Joining sequences. *)
LEMMA Associative ==
  ASSUME NEW A
  PROVE  \A x, y, z \in Seq(A) : (x \o y) \o z = x \o (y \o z)
  <1>1. ASSUME NEW x \in Seq(A), NEW y \in Seq(A), NEW z \in Seq(A)
        PROVE  (x \o y) \o z = x \o (y \o z)
    BY ConcatAssociative
  <1>2. QED
    BY <1>1, Zenon

LEMMA ElementsType ==
  ASSUME NEW A, NEW B, NEW x \in Seq(A), \A i \in 1 .. Len(x) : x[i] \in B
  PROVE  x \in Seq(B)
  OBVIOUS

-----------------------------------------------------------------------------
(* The part of TypeOK that does not depend on what a capture holds. *)
ControlTypeOK ==
  /\ caller \in CallerPoint
  /\ proc \in [Process -> {"unborn", "running", "dead"}]
  /\ away \in SUBSET Child
  /\ holding \in SUBSET {p \in Process : proc[p] = "running"}
  /\ written \in 0 .. MaxChars
  /\ taken \in 0 .. written
  /\ reader \in {"unstarted", "running", "done"}
  /\ active \in BOOLEAN
  /\ owner \in {"open", "stopping", "killing", "waiting", "closed"}
  /\ doomed \in BOOLEAN

(* Nothing runs but what has left the group. *)
GroupGone == \A p \in Process : proc[p] = "running" => p \in away

(* Where a run has not begun, and where its group has been killed. *)
Unbegun == {"queued", "cancelled"}
Killed == {"join", "collect", "returned"}

(* Before the launch there is no process; from the kill on there is none in
   the group, unless the run raised before it came to the kill. *)
GroupKilled ==
  /\ caller \in Unbegun => \A p \in Process : proc[p] = "unborn"
  /\ caller \in Killed => GroupGone
  /\ caller = "finish" /\ result # NoResult => GroupGone
  /\ result # NoResult => caller \in {"finish", "returned", "raised"}

(* The gateway closes behind a run that is over. *)
ClosedBehind == owner = "closed" => caller \in Ended

(* A reader that is done has read all there is, and there will be no more. *)
Drained ==
  /\ caller \in {"queued", "cancelled", "register", "start"} => reader = "unstarted"
  /\ caller \in {"collect", "returned"} => reader = "done"
  /\ result # NoResult => reader = "done" /\ result.total = taken
  /\ reader = "done" => taken = written /\ holding = {}

-----------------------------------------------------------------------------
(* Types. *)

LEMMA InitControl == Init => ControlTypeOK /\ GroupKilled /\ ClosedBehind /\ Drained
  <1> SUFFICES ASSUME Init PROVE ControlTypeOK /\ GroupKilled /\ ClosedBehind /\ Drained
    OBVIOUS
  <1> USE DEF Init
  <1>1. ControlTypeOK
    <2>1. written \in 0 .. MaxChars /\ taken \in 0 .. written
      BY ProcessAssumption
    <2>2. holding \in SUBSET {p \in Process : proc[p] = "running"} /\ away \in SUBSET Child
      OBVIOUS
    <2>3. proc \in [Process -> {"unborn", "running", "dead"}] /\ caller \in CallerPoint
      BY DEF CallerPoint
    <2>4. QED
      BY <2>1, <2>2, <2>3 DEF ControlTypeOK
  <1>2. GroupKilled /\ ClosedBehind
    BY DEF GroupKilled, ClosedBehind, Unbegun, Killed
  <1>3. Drained
    BY DEF Drained
  <1>4. QED
    BY <1>1, <1>2, <1>3

(* What a kill does, of the group or of one process. *)
LEMMA DieTypes ==
  ASSUME ControlTypeOK, NEW dying \in SUBSET Process, Die(dying)
  PROVE  /\ proc' \in [Process -> {"unborn", "running", "dead"}]
         /\ holding' \in SUBSET {p \in Process : proc'[p] = "running"}
         /\ holding' \subseteq holding
         /\ \A p \in Process : proc'[p] = "running" <=> proc[p] = "running" /\ p \notin dying
         /\ \A p \in Process : proc[p] = "unborn" => proc'[p] = "unborn"
  BY DEF ControlTypeOK, Die

LEMMA ProcessTypes ==
  ASSUME ControlTypeOK, NEW p \in Process, Fork(p) \/ LeaveGroup(p) \/ Write(p) \/ ExitProcess(p)
  PROVE  ControlTypeOK'
  <1> USE ProcessAssumption DEF ControlTypeOK
  <1>1. CASE Fork(p)
    <2>1. PICK q \in Process :
            /\ proc[q] = "running"
            /\ away' = IF q \in away THEN away \cup {p} ELSE away
            /\ holding' \in {holding, IF q \in holding THEN holding \cup {p} ELSE holding}
      BY <1>1 DEF Fork
    <2>2. p \in Child /\ proc' = [proc EXCEPT ![p] = "running"]
      BY <1>1 DEF Fork
    <2>3. \A o \in Process : proc[o] = "running" => proc'[o] = "running"
      BY <2>2
    <2>4. holding' \in SUBSET {o \in Process : proc'[o] = "running"}
      BY <2>1, <2>2, <2>3
    <2>5. QED
      BY <1>1, <2>1, <2>2, <2>4 DEF Fork, readerVars, ownerVars
  <1>2. CASE LeaveGroup(p)
    BY <1>2 DEF LeaveGroup, readerVars, ownerVars
  <1>3. CASE Write(p)
    BY <1>3 DEF Write, readerVars, ownerVars
  <1>4. CASE ExitProcess(p)
    BY <1>4, DieTypes DEF ExitProcess, readerVars, ownerVars
  <1>5. QED
    BY <1>1, <1>2, <1>3, <1>4

LEMMA ReadTypes ==
  ASSUME ControlTypeOK, Read
  PROVE  ControlTypeOK' /\ UNCHANGED <<caller, groupVars, result, active, ownerVars>>
  BY ProcessAssumption DEF ControlTypeOK, Read, groupVars, ownerVars

LEMMA KillGroupTypes ==
  ASSUME ControlTypeOK, KillGroup
  PROVE  /\ proc' \in [Process -> {"unborn", "running", "dead"}]
         /\ holding' \in SUBSET {p \in Process : proc'[p] = "running"}
         /\ holding' \subseteq holding
         /\ \A p \in Process : proc'[p] = "running" => proc[p] = "running" /\ p \in away
         /\ \A p \in Process : proc[p] = "unborn" => proc'[p] = "unborn"
  <1>1. Process \ away \in SUBSET Process /\ Die(Process \ away)
    BY DEF KillGroup
  <1>2. QED
    BY <1>1, DieTypes

LEMMA RunTypes ==
  ASSUME ControlTypeOK, Run
  PROVE  ControlTypeOK'
  <1> USE ProcessAssumption DEF ControlTypeOK, CallerPoint, Ended, Goto, groupVars, readerVars, ownerVars
  <1>1. CASE Launch
    BY <1>1 DEF Launch, Process
  <1>2. CASE Register \/ StartReader \/ LeaderEnded \/ Timeout \/ Join
    BY <1>2 DEF Register, StartReader, LeaderEnded, Timeout, Join
  <1>3. CASE Kill
    BY <1>3, KillGroupTypes DEF Kill
  <1>4. CASE Collect
    BY <1>4 DEF Collect
  <1>5. CASE Finish
    BY <1>5 DEF Finish
  <1>6. QED
    BY <1>1, <1>2, <1>3, <1>4, <1>5 DEF Run

LEMMA ExitTypes ==
  ASSUME ControlTypeOK, Exit
  PROVE  ControlTypeOK'
  <1> USE DEF ControlTypeOK, CallerPoint, Ended, Goto, Owner, groupVars, readerVars, ownerVars
  <1>1. CASE Stop \/ CopyActive \/ Cancel \/ Close
    BY <1>1 DEF Stop, CopyActive, Cancel, Close
  <1>2. CASE KillActive
    <2>1. CASE doomed
      BY <1>2, <2>1, KillGroupTypes DEF KillActive
    <2>2. CASE ~doomed
      BY <1>2, <2>2 DEF KillActive
    <2>3. QED
      BY <2>1, <2>2
  <1>3. QED
    BY <1>1, <1>2 DEF Exit

LEMMA TypesKept == ControlTypeOK /\ [Next]_vars => ControlTypeOK'
  <1>1. UNCHANGED vars /\ ControlTypeOK => ControlTypeOK'
    BY DEF vars, groupVars, readerVars, ownerVars, ControlTypeOK
  <1>2. QED
    BY <1>1, ProcessTypes, ReadTypes, RunTypes, ExitTypes DEF Next

(* The control points and the processes have their types: one run and one exit,
   whatever the processes do. *)
THEOREM ControlTypes == Spec => []ControlTypeOK
  BY InitControl, TypesKept, PTL DEF Spec

-----------------------------------------------------------------------------
(* The group is gone once it was killed. *)

LEMMA GroupKilledKept ==
  ASSUME ControlTypeOK, GroupKilled, [Next]_vars
  PROVE  GroupKilled'
  <1> USE DEF GroupKilled, GroupGone, Unbegun, Killed
  <1>1. ASSUME NEW p \in Process, Fork(p)
        PROVE  GroupKilled'
    <2>1. PICK q \in Process :
            proc[q] = "running" /\ away' = IF q \in away THEN away \cup {p} ELSE away
      BY <1>1 DEF Fork
    <2>2. \A o \in Process : proc'[o] = "running" => proc[o] = "running" \/ o = p
      BY <1>1 DEF Fork, ControlTypeOK
    <2>3. UNCHANGED <<caller, result>>
      BY <1>1 DEF Fork
    <2>4. caller \notin Unbegun
      BY <2>1
    <2>5. GroupGone => GroupGone'
      BY <2>1, <2>2
    <2>6. QED
      BY <2>3, <2>4, <2>5
  <1>2. ASSUME NEW p \in Process, LeaveGroup(p) \/ Write(p)
        PROVE  GroupKilled'
    BY <1>2 DEF LeaveGroup, Write
  <1>3. ASSUME NEW p \in Process, ExitProcess(p)
        PROVE  GroupKilled'
    BY <1>3, DieTypes DEF ExitProcess
  <1>4. CASE Read
    BY <1>4, ReadTypes DEF groupVars
  <1>5. CASE Launch \/ Register \/ StartReader \/ LeaderEnded \/ Timeout
    BY <1>5 DEF Launch, Register, StartReader, LeaderEnded, Timeout, Goto, groupVars
  <1>6. CASE Kill
    BY <1>6, KillGroupTypes DEF Kill, Goto
  <1>7. CASE Join \/ Collect \/ Finish
    BY <1>7 DEF Join, Collect, Finish, Goto, groupVars
  <1>8. CASE Stop \/ CopyActive \/ Cancel \/ Close
    BY <1>8 DEF Stop, CopyActive, Cancel, Close, Goto, groupVars
  <1>9. CASE KillActive
    <2>1. CASE doomed
      BY <1>9, <2>1, KillGroupTypes DEF KillActive
    <2>2. CASE ~doomed
      BY <1>9, <2>2 DEF KillActive
    <2>3. QED
      BY <2>1, <2>2
  <1>10. CASE UNCHANGED vars
    BY <1>10 DEF vars, groupVars
  <1>11. QED
    BY <1>1, <1>2, <1>3, <1>4, <1>5, <1>6, <1>7, <1>8, <1>9, <1>10 DEF Next, Run, Exit

LEMMA ClosedKept ==
  ASSUME ClosedBehind, [Next]_vars
  PROVE  ClosedBehind'
  <1> USE DEF ClosedBehind, Ended
  <1>1. CASE \E p \in Process : Fork(p) \/ LeaveGroup(p) \/ Write(p) \/ ExitProcess(p)
    BY <1>1 DEF Fork, LeaveGroup, Write, ExitProcess, ownerVars
  <1>2. CASE Read \/ UNCHANGED vars
    BY <1>2 DEF Read, vars, ownerVars
  <1>3. CASE Run
    BY <1>3 DEF Run, Launch, Register, StartReader, LeaderEnded, Timeout, Kill, Join, Collect, Finish,
                Goto, ownerVars
  <1>4. CASE Exit
    BY <1>4 DEF Exit, Stop, CopyActive, KillActive, Cancel, Close, Owner, Goto
  <1>5. QED
    BY <1>1, <1>2, <1>3, <1>4 DEF Next

(* What a run leaves behind, and a gateway that was left: nothing but children
   that left the group.  One kill is enough, whether it meets the group whole,
   half gone or not yet forked, and whoever else kills beside it. *)
THEOREM NothingLeftBehind == Spec => []NothingSurvives
  <1>1. GroupKilled /\ ClosedBehind => NothingSurvives
    BY DEF GroupKilled, GroupGone, ClosedBehind, NothingSurvives, Unbegun, Killed, Ended
  <1>2. QED
    BY <1>1, InitControl, TypesKept, GroupKilledKept, ClosedKept, PTL DEF Spec

-----------------------------------------------------------------------------
(* Nothing written is lost on the way to the capture. *)

LEMMA DrainedKept ==
  ASSUME ControlTypeOK, GroupKilled, Drained, [Next]_vars
  PROVE  Drained'
  <1> USE DEF Drained
  <1>1. ASSUME NEW p \in Process, Fork(p)
        PROVE  Drained'
    <2>1. holding = {} => holding' = {}
      BY <1>1 DEF Fork
    <2>2. QED
      BY <1>1, <2>1 DEF Fork, readerVars
  <1>2. ASSUME NEW p \in Process, LeaveGroup(p) \/ Write(p)
        PROVE  Drained'
    BY <1>2 DEF LeaveGroup, Write, readerVars
  <1>3. ASSUME NEW p \in Process, ExitProcess(p)
        PROVE  Drained'
    BY <1>3 DEF ExitProcess, Die, readerVars
  <1>4. CASE Read
    <2>1. reader = "running" /\ reader' \in {"running", "done"}
      BY <1>4 DEF Read
    <2>2. result = NoResult /\ caller \notin {"queued", "cancelled", "register", "start", "collect", "returned"}
      BY <2>1
    <2>3. reader' = "done" => taken' = written' /\ holding' = {}
      <3>1. CASE written - taken = 0
        <4>1. UNCHANGED taken /\ UNCHANGED groupVars
          BY <1>4, <3>1 DEF Read
        <4>2. ~(0 >= Chunk) /\ holding = {}
          BY <1>4, <3>1, ProcessAssumption DEF Read
        <4>3. QED
          BY <3>1, <4>1, <4>2 DEF ControlTypeOK, groupVars
      <3>2. CASE written - taken # 0
        BY <1>4, <2>1, <3>2 DEF Read
      <3>3. QED
        BY <3>1, <3>2
    <2>4. QED
      BY <1>4, <2>2, <2>3, ReadTypes
  <1>5. CASE Launch \/ Register \/ StartReader \/ LeaderEnded \/ Timeout \/ Join
    BY <1>5 DEF Launch, Register, StartReader, LeaderEnded, Timeout, Join, Goto, groupVars, readerVars,
                GroupKilled
  <1>6. CASE Kill
    BY <1>6, KillGroupTypes DEF Kill, Goto, readerVars
  <1>7. CASE Collect
    BY <1>7 DEF Collect, Goto, groupVars, readerVars
  <1>8. CASE Finish
    BY <1>8 DEF Finish, Goto, groupVars, readerVars
  <1>9. CASE Stop \/ CopyActive \/ Cancel \/ Close
    BY <1>9 DEF Stop, CopyActive, Cancel, Close, Goto, groupVars, readerVars
  <1>10. CASE KillActive
    <2>1. holding' \subseteq holding
      <3>1. CASE doomed
        BY <1>10, <3>1, KillGroupTypes DEF KillActive
      <3>2. CASE ~doomed
        BY <1>10, <3>2 DEF KillActive
      <3>3. QED
        BY <3>1, <3>2
    <2>2. QED
      BY <1>10, <2>1 DEF KillActive, readerVars
  <1>11. CASE UNCHANGED vars
    BY <1>11 DEF vars, groupVars, readerVars
  <1>12. QED
    BY <1>1, <1>2, <1>3, <1>4, <1>5, <1>6, <1>7, <1>8, <1>9, <1>10, <1>11 DEF Next, Run, Exit

(* A result counts every character that was ever written: none comes after the
   count, be it of a background child, and none is left in the pipe. *)
THEOREM NothingIsLost == Spec => [](result # NoResult => result.total = written)
  <1>1. ControlTypeOK /\ Drained => (result # NoResult => result.total = written)
    BY DEF Drained
  <1>2. QED
    BY <1>1, InitControl, TypesKept, GroupKilledKept, DrainedKept, PTL DEF Spec

-----------------------------------------------------------------------------
(* The kept head is the beginning of the output, as much as there is room for. *)

HeadLength == IF taken < HeadLimit THEN taken ELSE HeadLimit

HeadExact ==
  /\ head \in Seq(Nat)
  /\ Len(head) = HeadLength
  /\ \A i \in 1 .. HeadLength : head[i] = i

LEMMA HeadLimitType == HeadLimit \in Nat
  BY ProcessAssumption DEF HeadLimit

LEMMA HeadGrows ==
  ASSUME ControlTypeOK, HeadExact, NEW n \in Nat \ {0}, Add([i \in 1 .. n |-> taken + i]),
         taken' = taken + n
  PROVE  HeadExact'
  <1> DEFINE chunk == [i \in 1 .. n |-> taken + i]
             room == HeadLimit - Len(head)
             m == IF room < n THEN room ELSE n
  <1>1. taken \in Nat /\ HeadLimit \in Nat /\ HeadLength \in Nat
    BY HeadLimitType, ProcessAssumption DEF ControlTypeOK, HeadLength
  <1>2. chunk \in Seq(Nat) /\ Len(chunk) = n
    BY <1>1
  <1>3. room \in Nat /\ m \in 0 .. n
    BY <1>1 DEF HeadExact, HeadLength
  <1>4. head' = head \o SubSeq(chunk, 1, m)
    BY <1>2 DEF Add
  <1>5. /\ SubSeq(chunk, 1, m) \in Seq(Nat)
        /\ Len(SubSeq(chunk, 1, m)) = m
        /\ \A i \in 1 .. m : SubSeq(chunk, 1, m)[i] = taken + i
    BY <1>1, <1>2, <1>3
  <1> HIDE DEF chunk, m
  <1>6. /\ head' \in Seq(Nat)
        /\ Len(head') = HeadLength + m
        /\ \A i \in 1 .. HeadLength : head'[i] = i
        /\ \A i \in HeadLength + 1 .. HeadLength + m : head'[i] = taken + (i - HeadLength)
    <2>1. m \in Nat
      BY <1>3
    <2> DEFINE cut == SubSeq(chunk, 1, m)
    <2>2. cut \in Seq(Nat) /\ head \in Seq(Nat) /\ head' = head \o cut
          /\ Len(cut) = m /\ Len(head) = HeadLength
      BY <1>4, <1>5 DEF HeadExact
    <2>3. \A i \in 1 .. m : cut[i] = taken + i
      BY <1>5
    <2> HIDE DEF cut
    <2>4. /\ head' \in Seq(Nat)
          /\ Len(head') = HeadLength + m
          /\ \A i \in 1 .. HeadLength + m :
               head'[i] = IF i <= HeadLength THEN head[i] ELSE cut[i - HeadLength]
      BY <2>2, ConcatProperties
    <2>5. \A i \in HeadLength + 1 .. HeadLength + m : i - HeadLength \in 1 .. m /\ ~(i <= HeadLength)
      BY <1>1, <2>1
    <2>6. \A i \in 1 .. HeadLength : i \in 1 .. HeadLength + m /\ i <= HeadLength
      BY <1>1, <2>1
    <2>7. \A i \in 1 .. HeadLength : head'[i] = i
      <3>1. \A i \in 1 .. HeadLength : head[i] = i
        BY DEF HeadExact
      <3>2. QED
        BY <2>4, <2>6, <3>1
    <2>8. \A i \in HeadLength + 1 .. HeadLength + m : i \in 1 .. HeadLength + m
      BY <1>1, <2>1
    <2>9. \A i \in HeadLength + 1 .. HeadLength + m : head'[i] = taken + (i - HeadLength)
      BY <2>3, <2>4, <2>5, <2>8
    <2>10. QED
      BY <2>4, <2>7, <2>9
  <1>7. HeadLength' = HeadLength + m /\ (m # 0 => HeadLength = taken)
    BY <1>1, <1>3 DEF HeadLength, HeadExact, m
  <1>8. QED
    BY <1>1, <1>3, <1>6, <1>7 DEF HeadExact

LEMMA HeadExactKept ==
  ASSUME ControlTypeOK, HeadExact, [Next]_vars
  PROVE  HeadExact'
  <1>1. CASE Read
    <2>1. CASE written - taken = 0
      BY <1>1, <2>1 DEF Read, HeadExact, HeadLength
    <2>2. CASE written - taken # 0
      <3> DEFINE n == IF written - taken < Chunk THEN written - taken ELSE Chunk
      <3>1. n \in Nat \ {0}
        BY <2>2, ProcessAssumption DEF ControlTypeOK
      <3>2. Add([i \in 1 .. n |-> taken + i]) /\ taken' = taken + n
        BY <1>1, <2>2 DEF Read
      <3>3. QED
        BY <3>1, <3>2, HeadGrows
    <2>3. QED
      BY <2>1, <2>2
  <1>2. CASE \E p \in Process : Fork(p) \/ LeaveGroup(p) \/ Write(p) \/ ExitProcess(p)
    <2>1. UNCHANGED <<taken, head>>
      BY <1>2 DEF Fork, LeaveGroup, Write, ExitProcess, readerVars
    <2>2. QED
      BY <2>1 DEF HeadExact, HeadLength
  <1>3. CASE Run \/ Exit \/ UNCHANGED vars
    <2>1. UNCHANGED <<taken, head>>
      BY <1>3 DEF Run, Launch, Register, StartReader, LeaderEnded, Timeout, Kill, Join, Collect, Finish,
                  Exit, Stop, CopyActive, KillActive, Cancel, Close, vars, readerVars
    <2>2. QED
      BY <2>1 DEF HeadExact, HeadLength
  <1>4. QED
    BY <1>1, <1>2, <1>3 DEF Next

(* However the chunks fall, the head holds the first characters in order. *)
THEOREM HeadIsExact == Spec => [](head = Positions(1, HeadLength))
  <1>1. Init => HeadExact
    <2>1. HeadLimit \in Nat
      BY HeadLimitType
    <2>2. Init => HeadLength = 0
      BY <2>1 DEF Init, HeadLength
    <2>3. QED
      BY <2>2 DEF Init, HeadExact
  <1>2. ControlTypeOK /\ HeadExact => head = Positions(1, HeadLength)
    <2>1. ControlTypeOK => HeadLength \in Nat
      BY HeadLimitType, ProcessAssumption DEF ControlTypeOK, HeadLength
    <2>2. QED
      BY <2>1 DEF HeadExact, Positions
  <1>3. QED
    BY <1>1, <1>2, InitControl, TypesKept, HeadExactKept, PTL DEF Spec

-----------------------------------------------------------------------------
(* Joining chunks. *)

(* g[i] is what the first i of some texts make. *)
Partial(g, texts, A) ==
  /\ g \in [Nat -> Seq(A)]
  /\ g[0] = <<>>
  /\ \A i \in 0 .. Len(texts) - 1 : g[i + 1] = g[i] \o texts[i + 1]

LEMMA PartialExists ==
  ASSUME NEW A, NEW s \in Seq(Seq(A))
  PROVE  \E g : Partial(g, s, A)
  <1> DEFINE n == Len(s)
             text(i) == IF i \in 1 .. n THEN s[i] ELSE <<>>
             G == [q \in Nat \X Seq(A) |-> q[2] \o text(q[1] + 1)]
  <1>1. n \in Nat /\ \A i \in 1 .. n : s[i] \in Seq(A)
    OBVIOUS
  <1>2. <<>> \in Seq(A)
    BY EmptySeq
  <1>3. \A i \in Nat : text(i) \in Seq(A)
    BY <1>1, <1>2
  <1>4. G \in [Nat \X Seq(A) -> Seq(A)]
    <2> HIDE DEF text
    <2>1. ASSUME NEW q \in Nat \X Seq(A) PROVE q[2] \o text(q[1] + 1) \in Seq(A)
      <3>1. q[2] \in Seq(A) /\ q[1] + 1 \in Nat
        OBVIOUS
      <3>2. QED
        BY <1>3, <3>1, ConcatProperties
    <2>2. QED
      BY <2>1
  <1>5. \A i \in Nat, x \in Seq(A) : G[<<i, x>>] = x \o text(i + 1)
    OBVIOUS
  <1> HIDE DEF G
  <1>6. PICK g : Recursive(g, Seq(A), <<>>, G)
    BY <1>2, <1>4, Recursion
  <1>7. ASSUME NEW i \in 0 .. n - 1 PROVE g[i + 1] = g[i] \o s[i + 1]
    <2>1. i \in Nat /\ i + 1 \in 1 .. n
      BY <1>1
    <2>2. g[i] \in Seq(A) /\ g[i + 1] = G[<<i, g[i]>>]
      BY <1>6, <2>1 DEF Recursive
    <2>3. g[i + 1] = g[i] \o text(i + 1)
      BY <1>5, <2>1, <2>2
    <2>4. QED
      BY <2>1, <2>3
  <1>8. QED
    BY <1>6, <1>7 DEF Partial, Recursive

LEMMA FlattenIs ==
  ASSUME NEW A, NEW s \in Seq(Seq(A)), NEW g, Partial(g, s, A)
  PROVE  FlattenSeq(s) = g[Len(s)]
  <1> DEFINE n == Len(s)
             joined(f) == f = [i \in 1 .. n |-> IF i = 1 THEN s[i] ELSE f[i - 1] \o s[i]]
  <1>1. n \in Nat /\ \A i \in 1 .. n : s[i] \in Seq(A)
    OBVIOUS
  <1>2. CASE n = 0
    BY <1>2 DEF Partial, FlattenSeq
  <1>3. CASE n # 0
    <2> DEFINE f == CHOOSE f : joined(f)
    <2>1. FlattenSeq(s) = f[n]
      BY <1>3 DEF FlattenSeq
    <2>2. g[1] = s[1]
      <3>1. 0 \in 0 .. n - 1 /\ s[1] \in Seq(A)
        BY <1>1, <1>3
      <3>2. g[0 + 1] = g[0] \o s[0 + 1] /\ g[0] = <<>>
        BY <3>1 DEF Partial
      <3>3. QED
        BY <3>1, <3>2, ConcatEmptySeq
    <2>3. joined([i \in 1 .. n |-> g[i]])
      <3> DEFINE h == [i \in 1 .. n |-> g[i]]
      <3>1. ASSUME NEW i \in 1 .. n
            PROVE  h[i] = IF i = 1 THEN s[i] ELSE h[i - 1] \o s[i]
        <4>1. CASE i = 1
          BY <2>2, <4>1
        <4>2. CASE i # 1
          <5>1. i - 1 \in 0 .. n - 1 /\ i - 1 \in 1 .. n /\ (i - 1) + 1 = i
            BY <1>1, <4>2
          <5>2. g[i] = g[i - 1] \o s[i]
            BY <5>1 DEF Partial
          <5>3. QED
            BY <4>2, <5>1, <5>2
        <4>3. QED
          BY <4>1, <4>2
      <3>2. QED
        BY <3>1
    <2> HIDE DEF joined
    <2>4. joined(f)
      BY <2>3
    <2> HIDE DEF f
    <2>5. ASSUME NEW i \in 1 .. n PROVE f[i] = IF i = 1 THEN s[i] ELSE f[i - 1] \o s[i]
      BY <2>4 DEF joined
    <2> DEFINE T == {i \in Nat : i + 1 <= n => f[i + 1] = g[i + 1]}
    <2>6. 0 \in T
      BY <1>1, <1>3, <2>2, <2>5
    <2>7. ASSUME NEW i \in Nat, i \in T PROVE i + 1 \in T
      <3> SUFFICES ASSUME (i + 1) + 1 <= n PROVE f[(i + 1) + 1] = g[(i + 1) + 1]
        OBVIOUS
      <3> DEFINE j == i + 1
      <3>1. j + 1 \in 1 .. n /\ j + 1 # 1 /\ (j + 1) - 1 = j /\ j \in 0 .. n - 1 /\ j <= n
        BY <1>1
      <3>2. f[j] = g[j]
        BY <2>7, <3>1
      <3> HIDE DEF j
      <3>3. f[j + 1] = f[j] \o s[j + 1]
        BY <2>5, <3>1
      <3>4. g[j + 1] = g[j] \o s[j + 1]
        BY <3>1 DEF Partial
      <3>5. QED
        BY <3>2, <3>3, <3>4 DEF j
    <2> HIDE DEF T
    <2>8. \A i \in Nat : i \in T
      BY <2>6, <2>7, Induction
    <2>9. n - 1 \in Nat /\ (n - 1) + 1 = n
      BY <1>1, <1>3
    <2>10. f[(n - 1) + 1] = g[(n - 1) + 1]
      <3>1. (n - 1) \in T
        BY <2>8, <2>9
      <3>2. (n - 1) + 1 <= n
        BY <1>1
      <3>3. QED
        BY <3>1, <3>2 DEF T
    <2>11. QED
      BY <2>1, <2>9, <2>10
  <1>4. QED
    BY <1>2, <1>3

LEMMA FlattenType ==
  ASSUME NEW A, NEW s \in Seq(Seq(A))
  PROVE  FlattenSeq(s) \in Seq(A)
  <1>1. PICK g : Partial(g, s, A)
    BY PartialExists
  <1>2. Len(s) \in Nat
    OBVIOUS
  <1>3. QED
    BY <1>1, <1>2, FlattenIs DEF Partial

LEMMA FlattenEmpty == FlattenSeq(<<>>) = <<>>
  BY DEF FlattenSeq

LEMMA FlattenAppend ==
  ASSUME NEW A, NEW s \in Seq(Seq(A)), NEW c \in Seq(A)
  PROVE  FlattenSeq(Append(s, c)) = FlattenSeq(s) \o c
  <1> DEFINE t == Append(s, c)
             n == Len(s)
  <1>1. /\ t \in Seq(Seq(A)) /\ Len(t) = n + 1 /\ n \in Nat
        /\ \A i \in 1 .. n : t[i] = s[i]
        /\ t[n + 1] = c
    BY AppendProperties
  <1> HIDE DEF t
  <1>2. PICK g : Partial(g, t, A)
    BY <1>1, PartialExists
  <1>3. Partial(g, s, A)
    <2>1. ASSUME NEW i \in 0 .. n - 1 PROVE g[i + 1] = g[i] \o s[i + 1]
      <3>1. i \in 0 .. n /\ i + 1 \in 1 .. n
        BY <1>1
      <3>2. 0 .. Len(t) - 1 = 0 .. n
        BY <1>1
      <3>3. g[i + 1] = g[i] \o t[i + 1]
        BY <1>2, <3>1, <3>2 DEF Partial
      <3>4. QED
        BY <1>1, <3>1, <3>3
    <2>2. QED
      BY <1>2, <2>1 DEF Partial
  <1>4. FlattenSeq(t) = g[n + 1] /\ FlattenSeq(s) = g[n]
    BY <1>1, <1>2, <1>3, FlattenIs
  <1>5. g[n + 1] = g[n] \o t[n + 1]
    <2>1. n \in 0 .. Len(t) - 1
      BY <1>1
    <2>2. QED
      BY <1>2, <2>1 DEF Partial
  <1>6. QED
    BY <1>1, <1>4, <1>5 DEF t

LEMMA FlattenFirst ==
  ASSUME NEW A, NEW s \in Seq(Seq(A)), s # <<>>
  PROVE  /\ s[1] \in Seq(A) /\ Tail(s) \in Seq(Seq(A))
         /\ FlattenSeq(s) = s[1] \o FlattenSeq(Tail(s))
  <1> DEFINE r == Tail(s)
             n == Len(s)
  <1>1. /\ n \in Nat /\ n >= 1 /\ \A i \in 1 .. n : s[i] \in Seq(A)
        /\ r \in Seq(Seq(A)) /\ Len(r) = n - 1
        /\ \A i \in 1 .. n - 1 : r[i] = s[i + 1]
    BY HeadTailProperties
  <1>2. s[1] \in Seq(A)
    BY <1>1
  <1> HIDE DEF r
  <1>3. PICK g : Partial(g, r, A)
    BY <1>1, PartialExists
  <1> DEFINE h == [i \in Nat |-> IF i = 0 THEN <<>> ELSE s[1] \o g[i - 1]]
  <1>4. \A i \in Nat : g[i] \in Seq(A)
    BY <1>3 DEF Partial
  <1>5. h \in [Nat -> Seq(A)]
    <2>1. ASSUME NEW i \in Nat PROVE (IF i = 0 THEN <<>> ELSE s[1] \o g[i - 1]) \in Seq(A)
      <3>1. CASE i = 0
        BY <3>1, EmptySeq
      <3>2. CASE i # 0
        <4>1. g[i - 1] \in Seq(A)
          BY <1>4, <3>2
        <4>2. QED
          BY <1>2, <3>2, <4>1, ConcatProperties
      <3>3. QED
        BY <3>1, <3>2
    <2>2. QED
      BY <2>1
  <1>6. h[0] = <<>> /\ \A i \in Nat : h[i + 1] = s[1] \o g[i]
    <2>1. h[0] = <<>>
      OBVIOUS
    <2>2. ASSUME NEW i \in Nat PROVE h[i + 1] = s[1] \o g[i]
      <3>1. i + 1 \in Nat /\ i + 1 # 0 /\ (i + 1) - 1 = i
        OBVIOUS
      <3>2. h[i + 1] = s[1] \o g[(i + 1) - 1]
        BY <3>1
      <3>3. QED
        BY <3>1, <3>2
    <2>3. QED
      BY <2>1, <2>2
  <1> HIDE DEF h
  <1>7. ASSUME NEW i \in 0 .. n - 1 PROVE h[i + 1] = h[i] \o s[i + 1]
    <2>1. CASE i = 0
      <3>1. g[0] = <<>>
        BY <1>3 DEF Partial
      <3>2. h[0 + 1] = s[1] \o <<>>
        BY <1>6, <3>1
      <3>3. s[1] \o <<>> = s[1] /\ <<>> \o s[1] = s[1]
        BY <1>2, ConcatEmptySeq
      <3>4. h[0 + 1] = h[0] \o s[0 + 1]
        BY <1>6, <3>2, <3>3
      <3>5. QED
        BY <2>1, <3>4
    <2>2. CASE i # 0
      <3> DEFINE j == i - 1
      <3>1. j \in Nat /\ j + 1 = i /\ j \in 0 .. Len(r) - 1 /\ j + 1 \in 1 .. n - 1 /\ i \in Nat
        BY <1>1, <2>2
      <3> HIDE DEF j
      <3>2. g[j + 1] = g[j] \o r[j + 1]
        BY <1>3, <3>1 DEF Partial
      <3>3. r[i] = s[i + 1] /\ r[i] \in Seq(A)
        BY <1>1, <3>1
      <3>4. h[i + 1] = s[1] \o g[i] /\ h[j + 1] = s[1] \o g[j]
        BY <1>6, <3>1
      <3>5. g[j] \in Seq(A)
        BY <1>4, <3>1
      <3>6. (s[1] \o g[j]) \o r[i] = s[1] \o (g[j] \o r[i])
        <4> DEFINE x == s[1]
                   y == g[j]
                   z == r[i]
        <4>1. x \in Seq(A) /\ y \in Seq(A) /\ z \in Seq(A)
          BY <1>2, <3>3, <3>5
        <4> HIDE DEF x, y, z
        <4>2. (x \o y) \o z = x \o (y \o z)
          BY <4>1, Associative, SMTT(30)
        <4>3. QED
          BY <4>2 DEF x, y, z
      <3>7. QED
        BY <3>1, <3>2, <3>3, <3>4, <3>6
    <2>3. QED
      BY <2>1, <2>2
  <1>8. Partial(h, s, A)
    BY <1>5, <1>6, <1>7 DEF Partial
  <1>9. FlattenSeq(s) = h[n] /\ FlattenSeq(r) = g[n - 1]
    BY <1>1, <1>3, <1>8, FlattenIs
  <1>10. h[n] = s[1] \o g[n - 1]
    <2>1. n - 1 \in Nat /\ (n - 1) + 1 = n
      BY <1>1
    <2>2. QED
      BY <1>6, <2>1
  <1>12. QED
    BY <1>1, <1>2, <1>9, <1>10 DEF r

-----------------------------------------------------------------------------
(* The last characters of a text, and numbered characters. *)

LastOf(x) == IF Len(x) <= TailLimit THEN x ELSE SubSeq(x, Len(x) - TailLimit + 1, Len(x))

LEMMA LimitTypes ==
  /\ HeadLimit \in Nat /\ TailLimit \in Nat
  /\ HeadLimit + TailLimit = Retained
  BY ProcessAssumption DEF HeadLimit, TailLimit

LEMMA LastIs ==
  ASSUME NEW A, NEW x \in Seq(A)
  PROVE  /\ LastOf(x) \in Seq(A)
         /\ Len(LastOf(x)) = IF Len(x) <= TailLimit THEN Len(x) ELSE TailLimit
         /\ \A i \in 1 .. Len(LastOf(x)) : LastOf(x)[i] = x[Len(x) - Len(LastOf(x)) + i]
  <1> DEFINE n == Len(x)
             m == n - TailLimit + 1
  <1>1. n \in Nat /\ TailLimit \in Nat /\ \A i \in 1 .. n : x[i] \in A
    BY LimitTypes
  <1>2. CASE n <= TailLimit
    BY <1>1, <1>2 DEF LastOf
  <1>3. CASE ~(n <= TailLimit)
    <2>1. m \in Int /\ m >= 1 /\ m <= n + 1 /\ n - m + 1 = TailLimit
      BY <1>1, <1>3
    <2>2. LastOf(x) = SubSeq(x, m, n)
      BY <1>3 DEF LastOf
    <2> HIDE DEF m, n
    <2>3. \A i \in m .. n : x[i] \in A
      BY <1>1, <2>1
    <2>4. /\ SubSeq(x, m, n) \in Seq(A)
          /\ Len(SubSeq(x, m, n)) = IF m <= n THEN n - m + 1 ELSE 0
          /\ \A i \in 1 .. n - m + 1 : SubSeq(x, m, n)[i] = x[m + i - 1]
      BY <1>1, <2>1, <2>3, SubSeqProperties
    <2>5. Len(LastOf(x)) = TailLimit
      BY <1>1, <2>1, <2>2, <2>4
    <2>6. \A i \in 1 .. TailLimit : LastOf(x)[i] = x[n - TailLimit + i]
      <3>1. \A i \in 1 .. TailLimit : m + i - 1 = n - TailLimit + i
        BY <1>1 DEF m
      <3>2. QED
        BY <2>1, <2>2, <2>4, <3>1
    <2>7. QED
      BY <1>3, <2>2, <2>4, <2>5, <2>6 DEF n
  <1>4. QED
    BY <1>2, <1>3

LEMMA LastLong ==
  ASSUME NEW A, NEW x \in Seq(A), TailLimit <= Len(x)
  PROVE  /\ LastOf(x) \in Seq(A)
         /\ Len(LastOf(x)) = TailLimit
         /\ \A i \in 1 .. TailLimit : LastOf(x)[i] = x[(Len(x) - TailLimit) + i]
  <1>1. TailLimit \in Nat /\ Len(x) \in Nat
    BY LimitTypes
  <1>2. Len(LastOf(x)) = TailLimit
    BY <1>1, LastIs
  <1>3. QED
    BY <1>2, LastIs

(* What came before a text that is long enough does not matter. *)
LEMMA LastSkips ==
  ASSUME NEW A, NEW x \in Seq(A), NEW y \in Seq(A), TailLimit <= Len(y)
  PROVE  LastOf(x \o y) = LastOf(y)
  <1> DEFINE u == LastOf(x \o y)
             v == LastOf(y)
             k == Len(x)
             n == Len(y)
  <1>1. /\ x \o y \in Seq(A) /\ Len(x \o y) = k + n
        /\ \A i \in 1 .. k + n : (x \o y)[i] = IF i <= k THEN x[i] ELSE y[i - k]
    BY ConcatProperties
  <1>2. k \in Nat /\ n \in Nat /\ TailLimit \in Nat
    BY LimitTypes
  <1>3. u \in Seq(A) /\ Len(u) = TailLimit /\ \A i \in 1 .. TailLimit : u[i] = (x \o y)[((k + n) - TailLimit) + i]
    <2> DEFINE w == x \o y
    <2>1. w \in Seq(A) /\ TailLimit <= Len(w) /\ Len(w) = k + n
      BY <1>1, <1>2
    <2> HIDE DEF w
    <2>2. /\ LastOf(w) \in Seq(A) /\ Len(LastOf(w)) = TailLimit
          /\ \A i \in 1 .. TailLimit : LastOf(w)[i] = w[(Len(w) - TailLimit) + i]
      BY <2>1, LastLong
    <2>3. QED
      BY <2>1, <2>2 DEF w
  <1>4. v \in Seq(A) /\ Len(v) = TailLimit /\ \A i \in 1 .. TailLimit : v[i] = y[(n - TailLimit) + i]
    BY LastLong
  <1> HIDE DEF u, v, n, k
  <1>5. ASSUME NEW i \in 1 .. TailLimit PROVE u[i] = v[i]
    <2>1. /\ (k + n) - TailLimit + i \in 1 .. k + n
          /\ ~((k + n) - TailLimit + i <= k)
          /\ ((k + n) - TailLimit + i) - k = n - TailLimit + i
      BY <1>2 DEF n
    <2>2. QED
      BY <1>1, <1>3, <1>4, <2>1
  <1>6. u = v
    BY <1>3, <1>4, <1>5, SeqEqual
  <1>7. QED
    BY <1>6 DEF u, v

(* A text that is cut at its front, where the cut falls within its first part. *)
LEMMA LastCuts ==
  ASSUME NEW A, NEW x \in Seq(A), NEW y \in Seq(A), NEW excess,
         excess = (Len(x) + Len(y)) - TailLimit, excess > 0, excess < Len(x)
  PROVE  /\ SubSeq(x, excess + 1, Len(x)) \in Seq(A)
         /\ LastOf(x \o y) = SubSeq(x, excess + 1, Len(x)) \o y
  <1> DEFINE c == SubSeq(x, excess + 1, Len(x))
             u == LastOf(x \o y)
             k == Len(x)
             n == Len(y)
  <1>1. k \in Nat /\ n \in Nat /\ TailLimit \in Nat /\ excess \in Nat /\ excess < k
    BY LimitTypes
  <1>2. /\ x \o y \in Seq(A) /\ Len(x \o y) = k + n
        /\ \A i \in 1 .. k + n : (x \o y)[i] = IF i <= k THEN x[i] ELSE y[i - k]
    BY ConcatProperties
  <1>3. u \in Seq(A) /\ Len(u) = TailLimit /\ \A i \in 1 .. TailLimit : u[i] = (x \o y)[((k + n) - TailLimit) + i]
    <2> DEFINE w == x \o y
    <2>1. w \in Seq(A) /\ TailLimit <= Len(w) /\ Len(w) = k + n
      BY <1>1, <1>2
    <2> HIDE DEF w
    <2>2. /\ LastOf(w) \in Seq(A) /\ Len(LastOf(w)) = TailLimit
          /\ \A i \in 1 .. TailLimit : LastOf(w)[i] = w[(Len(w) - TailLimit) + i]
      BY <2>1, LastLong
    <2>3. QED
      BY <2>1, <2>2 DEF w
  <1>4. c \in Seq(A) /\ Len(c) = k - excess /\ \A i \in 1 .. k - excess : c[i] = x[excess + i]
    <2>1. \A i \in excess + 1 .. k : x[i] \in A
      BY <1>1
    <2>2. excess + 1 \in Int /\ k \in Int /\ excess + 1 <= k /\ k - (excess + 1) + 1 = k - excess
      BY <1>1
    <2>3. /\ c \in Seq(A)
          /\ Len(c) = IF excess + 1 <= k THEN k - (excess + 1) + 1 ELSE 0
          /\ \A i \in 1 .. k - (excess + 1) + 1 : c[i] = x[(excess + 1) + i - 1]
      BY <2>1, <2>2, SubSeqProperties
    <2>4. \A i \in 1 .. k - excess : (excess + 1) + i - 1 = excess + i
      BY <1>1
    <2> HIDE DEF c
    <2>5. QED
      BY <2>2, <2>3, <2>4
  <1> HIDE DEF u, c, n, k
  <1>5. /\ c \o y \in Seq(A) /\ Len(c \o y) = (k - excess) + n
        /\ \A i \in 1 .. (k - excess) + n : (c \o y)[i] = IF i <= k - excess THEN c[i] ELSE y[i - (k - excess)]
    BY <1>4, ConcatProperties DEF n
  <1>6. (k - excess) + n = TailLimit /\ (k + n) - TailLimit = excess
    BY <1>1 DEF k, n
  <1>7. ASSUME NEW i \in 1 .. TailLimit PROVE u[i] = (c \o y)[i]
    <2>1. excess + i \in 1 .. k + n
      BY <1>1, <1>6
    <2>4. u[i] = (x \o y)[excess + i]
      BY <1>3, <1>6
    <2>2. CASE i <= k - excess
      <3>1. excess + i <= k /\ i \in 1 .. k - excess
        BY <1>1, <2>2
      <3>2. QED
        BY <1>2, <1>4, <1>5, <1>6, <2>1, <2>2, <2>4, <3>1
    <2>3. CASE ~(i <= k - excess)
      <3>1. ~(excess + i <= k) /\ (excess + i) - k = i - (k - excess)
        BY <1>1, <2>3
      <3>2. QED
        BY <1>2, <1>5, <1>6, <2>1, <2>3, <2>4, <3>1
    <2>5. QED
      BY <2>2, <2>3
  <1>8. u = c \o y
    BY <1>3, <1>5, <1>6, <1>7, SeqEqual
  <1>9. QED
    BY <1>4, <1>8 DEF u, c

(* What is cut off before more comes would be cut off afterwards. *)
LEMMA LastOfLast ==
  ASSUME NEW A, NEW x \in Seq(A), NEW y \in Seq(A)
  PROVE  LastOf(LastOf(x) \o y) = LastOf(x \o y)
  <1> DEFINE l == LastOf(x)
             d == Len(x) - Len(l)
             u == LastOf(l \o y)
             v == LastOf(x \o y)
             k == Len(l)
             n == Len(y)
  <1>1. /\ l \in Seq(A) /\ Len(l) = IF Len(x) <= TailLimit THEN Len(x) ELSE TailLimit
        /\ \A i \in 1 .. k : l[i] = x[(Len(x) - k) + i]
    BY LastIs
  <1>2. CASE Len(x) <= TailLimit
    BY <1>2 DEF LastOf
  <1>3. CASE ~(Len(x) <= TailLimit)
    <2>1. /\ k \in Nat /\ n \in Nat /\ k = TailLimit /\ TailLimit \in Nat /\ d \in Nat
          /\ Len(x) = d + k
      BY <1>1, <1>3, LimitTypes
    <2>2. /\ l \o y \in Seq(A) /\ Len(l \o y) = k + n
          /\ \A i \in 1 .. k + n : (l \o y)[i] = IF i <= k THEN l[i] ELSE y[i - k]
      BY <1>1, ConcatProperties
    <2>3. /\ x \o y \in Seq(A) /\ Len(x \o y) = (d + k) + n
          /\ \A i \in 1 .. (d + k) + n : (x \o y)[i] = IF i <= d + k THEN x[i] ELSE y[i - (d + k)]
      BY <2>1, ConcatProperties
    <2>4. \A i \in 1 .. k : l[i] = x[d + i]
      BY <1>1
    <2> HIDE DEF l, d
    <2>5. ASSUME NEW i \in 1 .. k + n PROVE (l \o y)[i] = (x \o y)[d + i]
      <3>1. d + i \in 1 .. (d + k) + n /\ (d + i <= d + k <=> i <= k) /\ (d + i) - (d + k) = i - k
        BY <2>1
      <3>2. CASE i <= k
        <4>1. i \in 1 .. k
          BY <2>1, <3>2
        <4>2. QED
          BY <2>2, <2>3, <2>4, <3>1, <3>2, <4>1
      <3>3. CASE ~(i <= k)
        BY <2>2, <2>3, <3>1, <3>3
      <3>4. QED
        BY <3>2, <3>3
    <2>6. TailLimit <= k + n /\ TailLimit <= (d + k) + n
      BY <2>1
    <2> HIDE DEF n, k
    <2>7. u \in Seq(A) /\ Len(u) = TailLimit
          /\ \A i \in 1 .. TailLimit : u[i] = (l \o y)[((k + n) - TailLimit) + i]
      <3> DEFINE w == l \o y
      <3>1. w \in Seq(A) /\ TailLimit <= Len(w) /\ Len(w) = k + n
        BY <2>2, <2>6
      <3> HIDE DEF w
      <3>2. /\ LastOf(w) \in Seq(A) /\ Len(LastOf(w)) = TailLimit
            /\ \A i \in 1 .. TailLimit : LastOf(w)[i] = w[(Len(w) - TailLimit) + i]
        BY <3>1, LastLong
      <3>3. QED
        BY <3>1, <3>2 DEF w
    <2>8. v \in Seq(A) /\ Len(v) = TailLimit
          /\ \A i \in 1 .. TailLimit : v[i] = (x \o y)[(((d + k) + n) - TailLimit) + i]
      <3> DEFINE w == x \o y
      <3>1. w \in Seq(A) /\ TailLimit <= Len(w) /\ Len(w) = (d + k) + n
        BY <2>3, <2>6
      <3> HIDE DEF w
      <3>2. /\ LastOf(w) \in Seq(A) /\ Len(LastOf(w)) = TailLimit
            /\ \A i \in 1 .. TailLimit : LastOf(w)[i] = w[(Len(w) - TailLimit) + i]
        BY <3>1, LastLong
      <3>3. QED
        BY <3>1, <3>2 DEF w
    <2> HIDE DEF u, v
    <2>9. ASSUME NEW i \in 1 .. TailLimit PROVE u[i] = v[i]
      <3>1. /\ ((k + n) - TailLimit) + i \in 1 .. k + n
            /\ d + (((k + n) - TailLimit) + i) = (((d + k) + n) - TailLimit) + i
        BY <2>1
      <3>2. QED
        BY <2>5, <2>7, <2>8, <3>1
    <2>10. u = v
      BY <2>7, <2>8, <2>9, SeqEqual
    <2>11. QED
      BY <2>10 DEF u, v, l
  <1>4. QED
    BY <1>2, <1>3

(* Numbered characters. *)
LEMMA PositionsIs ==
  ASSUME NEW a \in Nat \ {0}, NEW b \in Nat, a <= b + 1
  PROVE  /\ Positions(a, b) \in Seq(a .. b) /\ Positions(a, b) \in Seq(Nat)
         /\ Len(Positions(a, b)) = (b + 1) - a
         /\ \A i \in 1 .. (b + 1) - a : Positions(a, b)[i] = (a + i) - 1
  <1>1. (b + 1) - a \in Nat /\ \A i \in 1 .. (b + 1) - a : (a + i) - 1 \in a .. b
    OBVIOUS
  <1>2. QED
    BY <1>1 DEF Positions

LEMMA PositionsJoin ==
  ASSUME NEW a \in Nat \ {0}, NEW b \in Nat, NEW c \in Nat, a <= b + 1, b <= c
  PROVE  Positions(a, b) \o Positions(b + 1, c) = Positions(a, c)
  <1> DEFINE x == Positions(a, b)
             y == Positions(b + 1, c)
             z == Positions(a, c)
  <1>1. x \in Seq(Nat) /\ Len(x) = (b + 1) - a /\ \A i \in 1 .. (b + 1) - a : x[i] = (a + i) - 1
    BY PositionsIs
  <1>2. y \in Seq(Nat) /\ Len(y) = c - b /\ \A i \in 1 .. c - b : y[i] = b + i
    <2>1. b + 1 \in Nat \ {0} /\ b + 1 <= c + 1 /\ (c + 1) - (b + 1) = c - b
      OBVIOUS
    <2>2. \A i \in 1 .. c - b : ((b + 1) + i) - 1 = b + i
      OBVIOUS
    <2>3. /\ y \in Seq((b + 1) .. c) /\ Len(y) = (c + 1) - (b + 1)
          /\ \A i \in 1 .. (c + 1) - (b + 1) : y[i] = ((b + 1) + i) - 1
      BY <2>1, PositionsIs
    <2> HIDE DEF y
    <2>4. QED
      BY <2>1, <2>2, <2>3
  <1>3. z \in Seq(Nat) /\ Len(z) = (c + 1) - a /\ \A i \in 1 .. (c + 1) - a : z[i] = (a + i) - 1
    BY PositionsIs
  <1> HIDE DEF x, y, z
  <1>4. /\ x \o y \in Seq(Nat) /\ Len(x \o y) = Len(x) + Len(y)
        /\ \A i \in 1 .. Len(x) + Len(y) : (x \o y)[i] = IF i <= Len(x) THEN x[i] ELSE y[i - Len(x)]
    BY <1>1, <1>2, ConcatProperties
  <1>5. Len(x) + Len(y) = (c + 1) - a
    BY <1>1, <1>2
  <1>6. ASSUME NEW i \in 1 .. (c + 1) - a PROVE (x \o y)[i] = z[i]
    <2>1. CASE i <= Len(x)
      BY <1>1, <1>3, <1>4, <1>5, <2>1
    <2>2. CASE ~(i <= Len(x))
      <3>1. i - Len(x) \in 1 .. c - b /\ b + (i - Len(x)) = (a + i) - 1
        BY <1>1, <2>2
      <3>2. QED
        BY <1>2, <1>3, <1>4, <1>5, <2>2, <3>1
    <2>3. QED
      BY <2>1, <2>2
  <1>7. x \o y = z
    BY <1>3, <1>4, <1>5, <1>6, SeqEqual
  <1>8. QED
    BY <1>7 DEF x, y, z

LEMMA PositionsLast ==
  ASSUME NEW a \in Nat \ {0}, NEW b \in Nat, a <= b + 1
  PROVE  LastOf(Positions(a, b)) =
           IF (b + 1) - a <= TailLimit THEN Positions(a, b) ELSE Positions((b - TailLimit) + 1, b)
  <1> DEFINE x == Positions(a, b)
             first == (b - TailLimit) + 1
             y == Positions(first, b)
             u == LastOf(x)
  <1>1. x \in Seq(Nat) /\ Len(x) = (b + 1) - a /\ \A i \in 1 .. (b + 1) - a : x[i] = (a + i) - 1
    BY PositionsIs
  <1>2. CASE (b + 1) - a <= TailLimit
    BY <1>1, <1>2 DEF LastOf
  <1>3. CASE ~((b + 1) - a <= TailLimit)
    <2>1. TailLimit \in Nat /\ first \in Nat \ {0} /\ first <= b + 1 /\ (b + 1) - first = TailLimit
      BY <1>3, LimitTypes
    <2>2. y \in Seq(first .. b) /\ Len(y) = TailLimit /\ \A i \in 1 .. TailLimit : y[i] = (first + i) - 1
      <3> HIDE DEF first
      <3>1. QED
        BY <2>1, PositionsIs
    <2>3. y \in Seq(Nat)
      <3> HIDE DEF first
      <3>1. QED
        BY <2>1, PositionsIs
    <2>4. u \in Seq(Nat) /\ Len(u) = TailLimit
          /\ \A i \in 1 .. TailLimit : u[i] = x[(((b + 1) - a) - TailLimit) + i]
      <3> HIDE DEF x
      <3>1. TailLimit <= Len(x)
        BY <1>1, <1>3, <2>1
      <3>2. /\ LastOf(x) \in Seq(Nat) /\ Len(LastOf(x)) = TailLimit
            /\ \A i \in 1 .. TailLimit : LastOf(x)[i] = x[(Len(x) - TailLimit) + i]
        BY <1>1, <3>1, LastLong
      <3>3. QED
        BY <1>1, <3>2
    <2> HIDE DEF u, y, x
    <2>5. ASSUME NEW i \in 1 .. TailLimit PROVE u[i] = y[i]
      <3>1. /\ (((b + 1) - a) - TailLimit) + i \in 1 .. (b + 1) - a
            /\ (a + ((((b + 1) - a) - TailLimit) + i)) - 1 = (first + i) - 1
        BY <1>3, <2>1
      <3>2. QED
        BY <1>1, <2>2, <2>4, <3>1
    <2>6. u = y
      BY <2>2, <2>3, <2>4, <2>5, SeqEqual
    <2>7. QED
      BY <1>3, <2>6 DEF u, y, x
  <1>4. QED
    BY <1>2, <1>3

-----------------------------------------------------------------------------
(* Trim: that there is such a function, and what it does. *)

(* Trim of t, given Trim of its rest. *)
TrimStep(t, rest) ==
  LET excess == Chars(t) - TailLimit IN
  IF Chars(t) <= TailLimit THEN t
  ELSE IF Len(t[1]) <= excess THEN rest
  ELSE [t EXCEPT ![1] = SubSeq(@, excess + 1, Len(@))]

LEMMA CharsType ==
  ASSUME NEW A, NEW t \in Seq(Seq(A))
  PROVE  Chars(t) \in Nat
  BY FlattenType DEF Chars

LEMMA TrimStepEmpty ==
  ASSUME NEW rest
  PROVE  TrimStep(<<>>, rest) = <<>>
  <1>1. Chars(<<>>) = 0
    BY FlattenEmpty DEF Chars
  <1>2. Chars(<<>>) <= TailLimit
    BY <1>1, LimitTypes
  <1>3. QED
    BY <1>2 DEF TrimStep

LEMMA TrimStepType ==
  ASSUME NEW t \in Seq(Text), NEW rest \in Seq(Text)
  PROVE  TrimStep(t, rest) \in Seq(Text)
  <1> DEFINE excess == Chars(t) - TailLimit
  <1>1. CASE Chars(t) <= TailLimit
    BY <1>1 DEF TrimStep
  <1>2. CASE ~(Chars(t) <= TailLimit)
    <2>1. t \in Seq(Seq(1 .. MaxChars))
      BY DEF Text
    <2>2. t # <<>>
      BY <1>2, FlattenEmpty, LimitTypes DEF Chars
    <2>3. t[1] \in Text /\ 1 \in 1 .. Len(t)
      BY <2>2
    <2>4. excess \in Nat
      BY <1>2, <2>1, CharsType, LimitTypes
    <2> HIDE DEF excess
    <2> DEFINE x == t[1]
               cut == SubSeq(x, excess + 1, Len(x))
    <2>5. cut \in Text
      <3>1. x \in Seq(1 .. MaxChars)
        BY <2>3 DEF Text
      <3> HIDE DEF x
      <3>2. ASSUME NEW i \in excess + 1 .. Len(x) PROVE x[i] \in 1 .. MaxChars
        <4>1. i \in 1 .. Len(x)
          BY <2>4
        <4>2. QED
          BY <3>1, <4>1, ElementOfSeq
      <3>3. excess + 1 \in Int /\ Len(x) \in Int
        BY <2>4, <3>1
      <3>4. cut \in Seq(1 .. MaxChars)
        BY <3>2, <3>3, SubSeqProperties
      <3>5. QED
        BY <3>4 DEF Text
    <2> HIDE DEF cut
    <2>6. [t EXCEPT ![1] = cut] \in Seq(Text)
      BY <2>3, <2>5, ExceptSeq
    <2>7. TrimStep(t, rest) \in {rest, [t EXCEPT ![1] = cut]}
      BY <1>2 DEF TrimStep, cut, excess
    <2>8. QED
      BY <2>6, <2>7
  <1>3. QED
    BY <1>1, <1>2

LEMMA TrimExists == \E F : F = [t \in Seq(Text) |-> TrimStep(t, F[Tail(t)])]
  <1> DEFINE X == [Seq(Text) -> Seq(Text)]
             step(f) == [t \in Seq(Text) |-> IF t = <<>> THEN t ELSE TrimStep(t, f[Tail(t)])]
             G == [q \in Nat \X X |-> step(q[2])]
  <1>1. ASSUME NEW f \in X PROVE step(f) \in X
    <2>1. ASSUME NEW t \in Seq(Text)
          PROVE  (IF t = <<>> THEN t ELSE TrimStep(t, f[Tail(t)])) \in Seq(Text)
      <3>1. CASE t = <<>>
        BY <3>1
      <3>2. CASE t # <<>>
        <4>1. Tail(t) \in Seq(Text)
          BY <3>2, HeadTailProperties
        <4>2. f[Tail(t)] \in Seq(Text)
          BY <4>1
        <4>3. QED
          BY <3>2, <4>2, TrimStepType
      <3>3. QED
        BY <3>1, <3>2
    <2>2. QED
      BY <2>1
  <1> HIDE DEF step, X
  <1>2. G \in [Nat \X X -> X]
    BY <1>1
  <1>3. \A n \in Nat, f \in X : G[<<n, f>>] = step(f)
    OBVIOUS
  <1>4. [t \in Seq(Text) |-> t] \in X
    BY DEF X
  <1> HIDE DEF G
  <1>5. PICK h : Recursive(h, X, [t \in Seq(Text) |-> t], G)
    BY <1>2, <1>4, Recursion
  <1>6. h[0] = [t \in Seq(Text) |-> t] /\ \A n \in Nat : h[n] \in X /\ h[n + 1] = step(h[n])
    BY <1>3, <1>5 DEF Recursive
  <1> DEFINE F == [t \in Seq(Text) |-> h[Len(t)][t]]
  <1>7. ASSUME NEW t \in Seq(Text)
        PROVE  h[Len(t)][t] = TrimStep(t, F[Tail(t)])
    <2>1. CASE t = <<>>
      <3>1. Len(t) = 0
        BY <2>1
      <3>2. h[Len(t)][t] = t
        BY <1>6, <3>1
      <3>3. QED
        BY <2>1, <3>2, TrimStepEmpty
    <2>2. CASE t # <<>>
      <3> DEFINE n == Len(t) - 1
      <3>1. Tail(t) \in Seq(Text) /\ Len(Tail(t)) = n
        BY <2>2, HeadTailProperties
      <3>2. n \in Nat /\ n + 1 = Len(t)
        BY <2>2
      <3>3. F[Tail(t)] = h[n][Tail(t)]
        BY <3>1
      <3> HIDE DEF n, F
      <3>4. h[n + 1] = step(h[n])
        BY <1>6, <3>2
      <3>5. step(h[n])[t] = TrimStep(t, h[n][Tail(t)])
        BY <2>2 DEF step
      <3>6. QED
        BY <3>2, <3>3, <3>4, <3>5
    <2>3. QED
      BY <2>1, <2>2
  <1>8. F = [t \in Seq(Text) |-> TrimStep(t, F[Tail(t)])]
    <2>1. \A t \in Seq(Text) : h[Len(t)][t] = TrimStep(t, F[Tail(t)])
      BY <1>7
    <2> DEFINE H == [t \in Seq(Text) |-> TrimStep(t, F[Tail(t)])]
    <2>2. \A t \in Seq(Text) : F[t] = H[t]
      <3> DEFINE E(t) == TrimStep(t, F[Tail(t)])
      <3>1. \A t \in Seq(Text) : h[Len(t)][t] = E(t)
        BY <2>1
      <3> HIDE DEF E
      <3>2. \A t \in Seq(Text) : F[t] = E(t)
        BY <3>1
      <3>3. \A t \in Seq(Text) : H[t] = E(t)
        BY DEF E
      <3>4. QED
        BY <3>2, <3>3
    <2>3. DOMAIN F = Seq(Text) /\ F = [t \in DOMAIN F |-> F[t]]
      OBVIOUS
    <2>4. DOMAIN H = Seq(Text) /\ H = [t \in DOMAIN H |-> H[t]]
      OBVIOUS
    <2> HIDE DEF F, H
    <2>5. F = H
      BY <2>2, <2>3, <2>4
    <2>6. QED
      BY <2>5 DEF H
  <1> HIDE DEF F
  <1>9. QED
    BY <1>8

LEMMA TrimIs ==
  ASSUME NEW t \in Seq(Text)
  PROVE  Trim[t] = TrimStep(t, Trim[Tail(t)])
  <1> DEFINE is(F) == F = [u \in Seq(Text) |-> TrimStep(u, F[Tail(u)])]
  <1>1. \E F : is(F)
    BY TrimExists
  <1>2. Trim = CHOOSE F : is(F)
    BY DEF Trim, TrimStep
  <1>3. is(Trim)
    <2> HIDE DEF is
    <2>1. QED
      BY <1>1, <1>2
  <1> DEFINE E(u) == TrimStep(u, Trim[Tail(u)])
  <1>4. Trim = [u \in Seq(Text) |-> E(u)]
    BY <1>3
  <1> HIDE DEF E
  <1>5. Trim[t] = E(t)
    BY <1>4
  <1>6. QED
    BY <1>5 DEF E

(* Trim keeps the last characters, wherever the boundaries of the chunks fall. *)
TrimKeepsLast(t) == Trim[t] \in Seq(Text) /\ FlattenSeq(Trim[t]) = LastOf(FlattenSeq(t))

LEMMA TrimLonger ==
  ASSUME NEW t \in Seq(Text), t # <<>>, TrimKeepsLast(Tail(t))
  PROVE  TrimKeepsLast(t)
  <1> DEFINE C == 1 .. MaxChars
             x == t[1]
             r == Tail(t)
             y == FlattenSeq(r)
             excess == Chars(t) - TailLimit
  <1>1. /\ t \in Seq(Seq(C)) /\ r \in Seq(Seq(C)) /\ x \in Seq(C)
        /\ FlattenSeq(t) = x \o y
    BY FlattenFirst DEF Text
  <1>2. y \in Seq(C)
    BY <1>1, FlattenType
  <1>3. Chars(t) = Len(x) + Len(y) /\ Len(x) \in Nat /\ Len(y) \in Nat /\ TailLimit \in Nat
    <2>1. Len(x \o y) = Len(x) + Len(y)
      BY <1>1, <1>2, ConcatProperties
    <2> HIDE DEF x, y
    <2>2. QED
      BY <1>1, <1>2, <2>1, LimitTypes DEF Chars
  <1>4. Trim[t] = TrimStep(t, Trim[r])
    BY TrimIs
  <1>5. TrimStep(t, Trim[r]) =
          IF Chars(t) <= TailLimit THEN t
          ELSE IF Len(x) <= excess THEN Trim[r]
          ELSE [t EXCEPT ![1] = SubSeq(x, excess + 1, Len(x))]
    BY DEF TrimStep
  <1> HIDE DEF x, y, excess
  <1>6. CASE Chars(t) <= TailLimit
    <2>1. Trim[t] = t
      BY <1>4, <1>5, <1>6
    <2>2. LastOf(FlattenSeq(t)) = FlattenSeq(t)
      BY <1>6 DEF LastOf, Chars
    <2>3. QED
      BY <2>1, <2>2 DEF TrimKeepsLast
  <1>7. CASE ~(Chars(t) <= TailLimit) /\ Len(x) <= excess
    <2>1. Trim[t] = Trim[r]
      BY <1>4, <1>5, <1>7
    <2>2. TailLimit <= Len(y)
      BY <1>3, <1>7 DEF excess
    <2>3. LastOf(x \o y) = LastOf(y)
      BY <1>1, <1>2, <2>2, LastSkips
    <2>4. QED
      BY <1>1, <2>1, <2>3 DEF TrimKeepsLast, y
  <1>8. CASE ~(Chars(t) <= TailLimit) /\ ~(Len(x) <= excess)
    <2> DEFINE c == SubSeq(x, excess + 1, Len(x))
               u == [t EXCEPT ![1] = c]
    <2>1. excess = (Len(x) + Len(y)) - TailLimit /\ excess > 0 /\ excess < Len(x)
      BY <1>3, <1>8 DEF excess
    <2>2. c \in Seq(C) /\ LastOf(x \o y) = c \o y
      BY <1>1, <1>2, <2>1, LastCuts
    <2>3. Trim[t] = u
      BY <1>4, <1>5, <1>8
    <2> HIDE DEF c, C
    <2>4. 1 \in 1 .. Len(t)
      OBVIOUS
    <2>5. /\ u \in Seq(Seq(C)) /\ Len(u) = Len(t)
          /\ \A j \in 1 .. Len(t) : u[j] = IF j = 1 THEN c ELSE t[j]
      BY <1>1, <2>2, <2>4, ExceptSeq
    <2>6. u # <<>> /\ u[1] = c
      BY <2>4, <2>5
    <2>7. Tail(u) = r
      <3>1. /\ Tail(u) \in Seq(Seq(C)) /\ Len(Tail(u)) = Len(t) - 1
            /\ \A j \in 1 .. Len(t) - 1 : Tail(u)[j] = u[j + 1]
        BY <2>5, <2>6, HeadTailProperties
      <3>2. Len(r) = Len(t) - 1 /\ \A j \in 1 .. Len(t) - 1 : r[j] = t[j + 1]
        BY HeadTailProperties
      <3>3. ASSUME NEW j \in 1 .. Len(t) - 1 PROVE u[j + 1] = t[j + 1]
        <4>1. j + 1 \in 1 .. Len(t) /\ j + 1 # 1
          BY <2>4
        <4>2. QED
          BY <2>5, <4>1
      <3> HIDE DEF u, r
      <3>4. QED
        BY <1>1, <3>1, <3>2, <3>3, SeqEqual
    <2>8. FlattenSeq(u) = c \o y
      <3>1. FlattenSeq(u) = u[1] \o FlattenSeq(Tail(u))
        BY <2>5, <2>6, FlattenFirst
      <3>2. QED
        BY <2>6, <2>7, <3>1 DEF y
    <2>9. Seq(Seq(C)) = Seq(Text)
      BY DEF Text, C
    <2>10. QED
      BY <1>1, <2>2, <2>3, <2>5, <2>8, <2>9 DEF TrimKeepsLast
  <1>9. QED
    BY <1>6, <1>7, <1>8

LEMMA TrimSpec ==
  ASSUME NEW t \in Seq(Text)
  PROVE  TrimKeepsLast(t)
  <1> DEFINE T == {n \in Nat : \A u \in Seq(Text) : Len(u) = n => TrimKeepsLast(u)}
  <1>1. TrimKeepsLast(<<>>)
    <2>1. <<>> \in Seq(Text) /\ Trim[<<>>] = <<>>
      <3>1. <<>> \in Seq(Text)
        OBVIOUS
      <3>2. QED
        BY <3>1, TrimIs, TrimStepEmpty
    <2>2. LastOf(<<>>) = <<>>
      BY LimitTypes DEF LastOf
    <2>3. QED
      BY <2>1, <2>2, FlattenEmpty DEF TrimKeepsLast
  <1>2. 0 \in T
    <2>1. \A u \in Seq(Text) : Len(u) = 0 => u = <<>>
      OBVIOUS
    <2>2. QED
      BY <1>1, <2>1
  <1>3. ASSUME NEW n \in Nat, n \in T PROVE n + 1 \in T
    <2> SUFFICES ASSUME NEW u \in Seq(Text), Len(u) = n + 1
                 PROVE  TrimKeepsLast(u)
      OBVIOUS
    <2>1. u # <<>>
      OBVIOUS
    <2>2. Tail(u) \in Seq(Text) /\ Len(Tail(u)) = n
      BY <2>1, HeadTailProperties
    <2>3. TrimKeepsLast(Tail(u))
      BY <1>3, <2>2
    <2>4. QED
      BY <2>1, <2>3, TrimLonger
  <1> HIDE DEF T
  <1>4. \A n \in Nat : n \in T
    BY <1>2, <1>3, Induction
  <1>5. Len(t) \in Nat
    OBVIOUS
  <1>6. QED
    BY <1>4, <1>5 DEF T

-----------------------------------------------------------------------------
(* The kept tail is the end of what did not go to the head. *)

TailExact ==
  /\ tail \in Seq(Text)
  /\ FlattenSeq(tail) = LastOf(Positions(HeadLength + 1, taken))

LEMMA HeadLengthType ==
  ASSUME ControlTypeOK
  PROVE  /\ taken \in Nat /\ written \in Nat /\ taken <= written /\ written <= MaxChars
         /\ HeadLength \in Nat /\ HeadLength <= taken /\ HeadLength <= HeadLimit
         /\ HeadLength < HeadLimit => HeadLength = taken
  BY LimitTypes, ProcessAssumption DEF ControlTypeOK, HeadLength

(* What the head has no room for comes after what the tail was given before. *)
LEMMA RestFollows ==
  ASSUME ControlTypeOK, NEW n \in Nat \ {0}, taken + n <= written,
         taken' = taken + n, NEW rest,
         rest = SubSeq([i \in 1 .. n |-> taken + i], (HeadLimit - HeadLength) + 1, n)
  PROVE  /\ rest \in Text /\ rest \in Seq(Nat)
         /\ Positions(HeadLength + 1, taken) \in Seq(Nat)
         /\ Positions(HeadLength' + 1, taken') = Positions(HeadLength + 1, taken) \o rest
  <1> DEFINE room == HeadLimit - HeadLength
             chunk == [i \in 1 .. n |-> taken + i]
             x == Positions(HeadLength + 1, taken)
             k == taken + n
  <1>1. /\ taken \in Nat /\ k \in Nat /\ k <= MaxChars /\ room \in Nat
        /\ HeadLength \in Nat /\ HeadLength <= taken /\ HeadLimit \in Nat
        /\ room # 0 => HeadLength = taken
    BY HeadLengthType, LimitTypes, ProcessAssumption
  <1>2. chunk \in Seq(Nat) /\ Len(chunk) = n /\ \A i \in 1 .. n : chunk[i] = taken + i
    BY <1>1
  <1>3. x \in Seq(Nat)
    <2>1. HeadLength + 1 \in Nat \ {0} /\ HeadLength + 1 <= taken + 1
      BY <1>1
    <2>2. QED
      BY <1>1, <2>1, PositionsIs
  <1>4. room # 0 => x = <<>>
    <2>1. room # 0 => Len(x) = 0
      <3>1. room # 0 => x = Positions(taken + 1, taken)
        BY <1>1
      <3>2. taken + 1 \in Nat \ {0} /\ (taken + 1) - (taken + 1) = 0
        BY <1>1
      <3>3. Len(Positions(taken + 1, taken)) = 0
        BY <1>1, <3>2, PositionsIs
      <3>4. QED
        BY <3>1, <3>3
    <2> HIDE DEF x
    <2>2. QED
      BY <1>3, <2>1
  <1>5. rest = SubSeq(chunk, room + 1, n)
    OBVIOUS
  <1>6. HeadLength' = IF k < HeadLimit THEN k ELSE HeadLimit
    BY DEF HeadLength
  <1> HIDE DEF chunk, x
  <1>7. CASE n <= room
    <2>1. rest = <<>>
      <3>1. \A i \in room + 1 .. n : chunk[i] \in Nat
        BY <1>1, <1>7
      <3>2. room + 1 \in Int /\ n \in Int /\ ~(room + 1 <= n)
        BY <1>1, <1>7
      <3>3. rest \in Seq(Nat) /\ Len(rest) = 0
        BY <1>5, <3>1, <3>2, SubSeqProperties
      <3>4. QED
        BY <3>3
    <2>2. HeadLength' = k /\ room # 0
      BY <1>1, <1>6, <1>7
    <2>3. Positions(HeadLength' + 1, taken') = <<>>
      <3>1. k + 1 \in Nat \ {0} /\ k + 1 <= k + 1 /\ (k + 1) - (k + 1) = 0
        BY <1>1
      <3>2. Positions(k + 1, k) \in Seq(Nat) /\ Len(Positions(k + 1, k)) = 0
        BY <1>1, <3>1, PositionsIs
      <3>3. Positions(k + 1, k) = <<>>
        BY <3>2
      <3>4. taken' = k
        OBVIOUS
      <3>5. QED
        BY <2>2, <3>3, <3>4
    <2>4. <<>> \in Text /\ <<>> \in Seq(Nat) /\ <<>> = <<>> \o <<>>
      BY EmptySeq, ConcatEmptySeq DEF Text
    <2>5. QED
      BY <1>3, <1>4, <2>1, <2>2, <2>3, <2>4 DEF x
  <1>8. CASE ~(n <= room)
    <2> DEFINE first == (taken + room) + 1
    <2>1. /\ first \in Nat \ {0} /\ first <= k /\ first <= k + 1 /\ (k + 1) - first = n - room
          /\ n - (room + 1) + 1 = n - room /\ room + 1 <= n /\ room + 1 \in Int /\ n \in Int
      BY <1>1, <1>8
    <2> DEFINE y == Positions(first, k)
    <2>2. y \in Seq(first .. k) /\ y \in Seq(Nat) /\ Len(y) = n - room
          /\ \A i \in 1 .. n - room : y[i] = (first + i) - 1
      <3> HIDE DEF first, k
      <3>1. /\ y \in Seq(first .. k) /\ y \in Seq(Nat) /\ Len(y) = (k + 1) - first
            /\ \A i \in 1 .. (k + 1) - first : y[i] = (first + i) - 1
        BY <1>1, <2>1, PositionsIs
      <3> HIDE DEF y
      <3>2. QED
        BY <2>1, <3>1
    <2>3. rest = y
      <3>1. \A i \in room + 1 .. n : chunk[i] \in Nat
        BY <1>1, <1>2
      <3>2. /\ rest \in Seq(Nat) /\ Len(rest) = n - room
            /\ \A i \in 1 .. n - room : rest[i] = chunk[(room + 1) + i - 1]
        <4> DEFINE low == room + 1
        <4> HIDE DEF low
        <4>1. /\ low \in Int /\ n \in Int /\ low <= n /\ n - low + 1 = n - room
              /\ \A i \in low .. n : chunk[i] \in Nat
          BY <2>1, <3>1 DEF low
        <4>2. /\ SubSeq(chunk, low, n) \in Seq(Nat)
              /\ Len(SubSeq(chunk, low, n)) = IF low <= n THEN n - low + 1 ELSE 0
              /\ \A i \in 1 .. n - low + 1 : SubSeq(chunk, low, n)[i] = chunk[low + i - 1]
          BY <4>1, SubSeqProperties
        <4>3. rest = SubSeq(chunk, low, n)
          BY <1>5 DEF low
        <4>4. QED
          BY <4>1, <4>2, <4>3 DEF low
      <3>3. ASSUME NEW i \in 1 .. n - room PROVE rest[i] = y[i]
        <4>1. (room + 1) + i - 1 \in 1 .. n /\ taken + ((room + 1) + i - 1) = (first + i) - 1
          BY <1>1, <2>1
        <4>2. QED
          BY <1>2, <2>2, <3>2, <4>1
      <3> HIDE DEF y
      <3>4. QED
        BY <2>2, <3>2, <3>3, SeqEqual
    <2>4. rest \in Text
      <3>1. \A i \in 1 .. n - room : (first + i) - 1 \in 1 .. MaxChars
        BY <1>1, <2>1, ProcessAssumption
      <3> HIDE DEF y, first
      <3>2. \A i \in 1 .. Len(y) : y[i] \in 1 .. MaxChars
        BY <2>2, <3>1
      <3>3. y \in Seq(1 .. MaxChars)
        BY <2>2, <3>2, ElementsType
      <3>4. QED
        BY <2>3, <3>3 DEF Text
    <2>5. HeadLength' = HeadLimit /\ taken' = k
      BY <1>1, <1>6, <1>8
    <2>6. Positions(HeadLimit + 1, k) = x \o y
      <3>1. CASE room = 0
        <4>1. HeadLength = HeadLimit /\ first = taken + 1
          BY <1>1, <3>1
        <4>2. /\ HeadLimit + 1 \in Nat \ {0} /\ HeadLimit + 1 <= taken + 1 /\ taken <= k
          BY <1>1, <4>1
        <4>3. Positions(HeadLimit + 1, taken) \o Positions(taken + 1, k) = Positions(HeadLimit + 1, k)
          <5> HIDE DEF k
          <5>1. QED
            BY <1>1, <4>2, PositionsJoin
        <4>4. QED
          BY <4>1, <4>3 DEF x
      <3>2. CASE room # 0
        <4>1. HeadLimit + 1 = first
          BY <1>1, <3>2
        <4>2. <<>> \o y = y
          <5> HIDE DEF y
          <5>1. QED
            BY <2>2, ConcatEmptySeq
        <4>3. QED
          BY <1>4, <3>2, <4>1, <4>2
      <3>3. QED
        BY <3>1, <3>2
    <2> HIDE DEF y, first
    <2>7. QED
      BY <1>3, <2>2, <2>3, <2>4, <2>5, <2>6 DEF x
  <1>9. QED
    BY <1>7, <1>8

LEMMA TailGrows ==
  ASSUME ControlTypeOK, HeadExact, TailExact, NEW n \in Nat \ {0}, taken + n <= written,
         Add([i \in 1 .. n |-> taken + i]), taken' = taken + n
  PROVE  TailExact'
  <1> DEFINE chunk == [i \in 1 .. n |-> taken + i]
             rest == SubSeq(chunk, (HeadLimit - HeadLength) + 1, n)
             x == Positions(HeadLength + 1, taken)
  <1>1. Len(chunk) = n
    BY HeadLengthType
  <1>2. tail' = IF rest = <<>> \/ TailLimit = 0 THEN tail ELSE Trim[Append(tail, rest)]
    BY <1>1 DEF Add, HeadExact
  <1>3. /\ rest \in Text /\ rest \in Seq(Nat) /\ x \in Seq(Nat)
        /\ Positions(HeadLength' + 1, taken') = x \o rest
    BY RestFollows
  <1>4. tail \in Seq(Text) /\ FlattenSeq(tail) = LastOf(x)
    BY DEF TailExact
  <1> HIDE DEF rest, x
  <1>5. CASE rest = <<>>
    <2>1. x \o rest = x
      BY <1>3, <1>5, ConcatEmptySeq
    <2>2. QED
      BY <1>2, <1>3, <1>4, <1>5, <2>1 DEF TailExact
  <1>6. CASE TailLimit = 0
    <2>1. x \o rest \in Seq(Nat)
      BY <1>3, ConcatProperties
    <2>2. LastOf(x) = <<>>
      BY <1>3, <1>6, LastIs
    <2>3. LastOf(x \o rest) = <<>>
      <3> DEFINE w == x \o rest
      <3>1. w \in Seq(Nat)
        BY <2>1
      <3> HIDE DEF w
      <3>2. LastOf(w) = <<>>
        BY <1>6, <3>1, LastIs
      <3>3. QED
        BY <3>2 DEF w
    <2>4. QED
      BY <1>2, <1>3, <1>4, <1>6, <2>2, <2>3 DEF TailExact
  <1>7. CASE rest # <<>> /\ TailLimit # 0
    <2> DEFINE t == Append(tail, rest)
    <2>1. t \in Seq(Text)
      BY <1>3, <1>4
    <2>2. FlattenSeq(t) = FlattenSeq(tail) \o rest
      <3>1. tail \in Seq(Seq(1 .. MaxChars)) /\ rest \in Seq(1 .. MaxChars)
        BY <1>3, <1>4 DEF Text
      <3>2. QED
        BY <3>1, FlattenAppend
    <2> HIDE DEF t
    <2>3. Trim[t] \in Seq(Text) /\ FlattenSeq(Trim[t]) = LastOf(FlattenSeq(t))
      BY <2>1, TrimSpec DEF TrimKeepsLast
    <2>4. tail' = Trim[t]
      BY <1>2, <1>7 DEF t
    <2>5. LastOf(LastOf(x) \o rest) = LastOf(x \o rest)
      BY <1>3, LastOfLast
    <2>6. QED
      BY <1>3, <1>4, <2>2, <2>3, <2>4, <2>5 DEF TailExact
  <1>8. QED
    BY <1>5, <1>6, <1>7

LEMMA TailExactKept ==
  ASSUME ControlTypeOK, HeadExact, TailExact, [Next]_vars
  PROVE  TailExact'
  <1>1. CASE Read
    <2>1. CASE written - taken = 0
      BY <1>1, <2>1 DEF Read, TailExact, HeadLength
    <2>2. CASE written - taken # 0
      <3> DEFINE n == IF written - taken < Chunk THEN written - taken ELSE Chunk
      <3>1. n \in Nat \ {0} /\ taken + n <= written
        BY <2>2, ProcessAssumption DEF ControlTypeOK
      <3>2. Add([i \in 1 .. n |-> taken + i]) /\ taken' = taken + n
        BY <1>1, <2>2 DEF Read
      <3> HIDE DEF n
      <3>3. QED
        BY <3>1, <3>2, TailGrows
    <2>3. QED
      BY <2>1, <2>2
  <1>2. CASE \E p \in Process : Fork(p) \/ LeaveGroup(p) \/ Write(p) \/ ExitProcess(p)
    <2>1. UNCHANGED <<taken, tail>>
      BY <1>2 DEF Fork, LeaveGroup, Write, ExitProcess, readerVars
    <2>2. QED
      BY <2>1 DEF TailExact, HeadLength
  <1>3. CASE Run \/ Exit \/ UNCHANGED vars
    <2>1. UNCHANGED <<taken, tail>>
      BY <1>3 DEF Run, Launch, Register, StartReader, LeaderEnded, Timeout, Kill, Join, Collect, Finish,
                  Exit, Stop, CopyActive, KillActive, Cancel, Close, vars, readerVars
    <2>2. QED
      BY <2>1 DEF TailExact, HeadLength
  <1>4. QED
    BY <1>1, <1>2, <1>3 DEF Next

-----------------------------------------------------------------------------
(* The capture as a whole, and the result that is made of it. *)

Captured == head \o FlattenSeq(tail)

ResultExact ==
  result # NoResult =>
    result = [text |-> Captured, total |-> taken, truncated |-> taken > Len(Captured)]

LEMMA ResultExactKept ==
  ASSUME Drained, ResultExact, [Next]_vars
  PROVE  ResultExact'
  <1> USE DEF ResultExact, Captured
  <1>1. CASE Read
    <2>1. reader = "running" /\ UNCHANGED result
      BY <1>1 DEF Read
    <2>2. result = NoResult
      BY <2>1 DEF Drained
    <2>3. QED
      BY <2>1, <2>2
  <1>2. CASE Collect
    BY <1>2 DEF Collect, readerVars
  <1>3. CASE \E p \in Process : Fork(p) \/ LeaveGroup(p) \/ Write(p) \/ ExitProcess(p)
    <2>1. UNCHANGED <<taken, head, tail, result>>
      BY <1>3 DEF Fork, LeaveGroup, Write, ExitProcess, readerVars
    <2>2. QED
      BY <2>1
  <1>4. CASE Launch \/ Register \/ StartReader \/ LeaderEnded \/ Timeout \/ Kill \/ Join \/ Finish
             \/ Exit \/ UNCHANGED vars
    <2>1. UNCHANGED <<taken, head, tail, result>>
      BY <1>4 DEF Launch, Register, StartReader, LeaderEnded, Timeout, Kill, Join, Finish,
                  Exit, Stop, CopyActive, KillActive, Cancel, Close, vars, readerVars
    <2>2. QED
      BY <2>1
  <1>5. QED
    BY <1>1, <1>2, <1>3, <1>4 DEF Next, Run

CaptureInv ==
  /\ ControlTypeOK /\ GroupKilled /\ Drained
  /\ HeadExact /\ TailExact /\ ResultExact

LEMMA CaptureInvHolds == Spec => []CaptureInv
  <1>1. Init => HeadExact /\ TailExact /\ ResultExact
    <2> SUFFICES ASSUME Init PROVE HeadExact /\ TailExact /\ ResultExact
      OBVIOUS
    <2>1. HeadLength = 0 /\ taken = 0
      BY LimitTypes DEF Init, HeadLength
    <2>2. HeadExact
      BY <2>1 DEF Init, HeadExact
    <2>3. Positions(0 + 1, 0) = <<>>
      <3>1. 1 \in Nat \ {0} /\ 0 \in Nat /\ 1 <= 0 + 1 /\ (0 + 1) - 1 = 0 /\ 0 + 1 = 1
        OBVIOUS
      <3>2. Positions(1, 0) \in Seq(Nat) /\ Len(Positions(1, 0)) = 0
        BY <3>1, PositionsIs
      <3>3. QED
        BY <3>1, <3>2
    <2>4. LastOf(<<>>) = <<>>
      BY LimitTypes DEF LastOf
    <2>5. TailExact
      <3>1. tail = <<>> /\ <<>> \in Seq(Text)
        BY DEF Init
      <3>2. LastOf(Positions(HeadLength + 1, taken)) = <<>>
        BY <2>1, <2>3, <2>4
      <3>3. QED
        BY <3>1, <3>2, FlattenEmpty DEF TailExact
    <2>6. ResultExact
      BY DEF Init, ResultExact
    <2>7. QED
      BY <2>2, <2>5, <2>6
  <1>2. Init => CaptureInv
    BY <1>1, InitControl DEF CaptureInv
  <1>3. CaptureInv /\ [Next]_vars => CaptureInv'
    BY TypesKept, GroupKilledKept, DrainedKept, HeadExactKept, TailExactKept, ResultExactKept
       DEF CaptureInv
  <1>4. QED
    BY <1>2, <1>3, PTL DEF Spec

(* What the capture holds, in characters. *)
LEMMA CapturedIs ==
  ASSUME ControlTypeOK, HeadExact, TailExact
  PROVE  /\ head = Positions(1, HeadLength) /\ head \in Text
         /\ FlattenSeq(tail) \in Text /\ Len(FlattenSeq(tail)) <= TailLimit
         /\ Captured \in Text
         /\ taken <= Retained => Captured = Positions(1, taken) /\ Len(Captured) = taken
         /\ ~(taken <= Retained) =>
              /\ Captured = Positions(1, HeadLimit) \o Positions((taken - TailLimit) + 1, taken)
              /\ Len(Captured) = Retained
  <1> DEFINE rest == Positions(HeadLength + 1, taken)
             kept == FlattenSeq(tail)
             C == 1 .. MaxChars
  <1>1. /\ taken \in Nat /\ taken <= MaxChars /\ MaxChars \in Nat /\ HeadLength \in Nat
        /\ HeadLength <= taken /\ HeadLength <= HeadLimit
        /\ HeadLength < HeadLimit => HeadLength = taken
        /\ HeadLimit \in Nat /\ TailLimit \in Nat /\ HeadLimit + TailLimit = Retained
    BY HeadLengthType, LimitTypes, ProcessAssumption
  <1>2. head = Positions(1, HeadLength)
    BY <1>1 DEF HeadExact, Positions
  <1>3. head \in Seq(C) /\ Len(head) = HeadLength
    <2>1. head \in Seq(Nat) /\ Len(head) = HeadLength /\ \A i \in 1 .. HeadLength : head[i] = i
      BY DEF HeadExact
    <2>2. \A i \in 1 .. Len(head) : head[i] \in C
      BY <1>1, <2>1
    <2> HIDE DEF C
    <2>3. QED
      BY <2>1, <2>2, ElementsType
  <1>4. kept \in Seq(C)
    <2>1. tail \in Seq(Seq(C))
      BY DEF TailExact, Text
    <2>2. QED
      BY <2>1, FlattenType
  <1>5. kept = LastOf(rest)
    BY DEF TailExact
  <1>6. HeadLength + 1 \in Nat \ {0} /\ HeadLength + 1 <= taken + 1
        /\ (taken + 1) - (HeadLength + 1) = taken - HeadLength
    BY <1>1
  <1>7. rest \in Seq(Nat) /\ Len(rest) = taken - HeadLength
    <2> DEFINE a == HeadLength + 1
    <2>1. a \in Nat \ {0} /\ a <= taken + 1 /\ (taken + 1) - a = taken - HeadLength
      BY <1>6
    <2> HIDE DEF a
    <2>2. Positions(a, taken) \in Seq(Nat) /\ Len(Positions(a, taken)) = (taken + 1) - a
      BY <1>1, <2>1, PositionsIs
    <2>3. QED
      BY <2>1, <2>2 DEF a
  <1>8. kept = IF taken - HeadLength <= TailLimit THEN rest ELSE Positions((taken - TailLimit) + 1, taken)
    <2> DEFINE a == HeadLength + 1
    <2>1. a \in Nat \ {0} /\ a <= taken + 1 /\ (taken + 1) - a = taken - HeadLength
      BY <1>6
    <2> HIDE DEF a
    <2>2. LastOf(Positions(a, taken)) =
            IF (taken + 1) - a <= TailLimit THEN Positions(a, taken) ELSE Positions((taken - TailLimit) + 1, taken)
      BY <1>1, <2>1, PositionsLast
    <2>3. QED
      BY <1>5, <2>1, <2>2 DEF a
  <1>9. Len(kept) = IF taken - HeadLength <= TailLimit THEN taken - HeadLength ELSE TailLimit
    <2> HIDE DEF rest, kept
    <2>1. Len(LastOf(rest)) = IF Len(rest) <= TailLimit THEN Len(rest) ELSE TailLimit
      BY <1>7, LastIs
    <2>2. QED
      BY <1>5, <1>7, <2>1
  <1> HIDE DEF kept
  <1>10. Captured = head \o kept /\ Captured \in Seq(C) /\ Len(Captured) = HeadLength + Len(kept)
    <2>1. Captured = head \o kept
      BY DEF Captured, kept
    <2>2. head \o kept \in Seq(C) /\ Len(head \o kept) = Len(head) + Len(kept)
      BY <1>3, <1>4, ConcatProperties
    <2> HIDE DEF C
    <2>3. QED
      BY <1>3, <2>1, <2>2
  <1>11. Len(kept) <= TailLimit
    BY <1>1, <1>9
  <1>12. CASE taken <= Retained
    <2>1. taken - HeadLength <= TailLimit
      BY <1>1, <1>12
    <2>2. kept = rest /\ Len(Captured) = taken
      BY <1>1, <1>8, <1>9, <1>10, <2>1
    <2>3. Positions(1, HeadLength) \o rest = Positions(1, taken)
      <3>1. 1 \in Nat \ {0} /\ 1 <= HeadLength + 1
        BY <1>1
      <3>2. QED
        BY <1>1, <3>1, PositionsJoin
    <2>4. Captured = Positions(1, taken)
      BY <1>2, <1>10, <2>2, <2>3
    <2>5. QED
      BY <1>2, <1>3, <1>4, <1>10, <1>11, <1>12, <2>2, <2>4 DEF Text, kept
  <1>13. CASE ~(taken <= Retained)
    <2>1. HeadLength = HeadLimit /\ ~(taken - HeadLength <= TailLimit)
      BY <1>1, <1>13
    <2>2. kept = Positions((taken - TailLimit) + 1, taken) /\ Len(Captured) = Retained
      BY <1>1, <1>8, <1>9, <1>10, <2>1
    <2>3. QED
      BY <1>2, <1>3, <1>4, <1>10, <1>11, <1>13, <2>1, <2>2 DEF Text, kept
  <1>14. QED
    BY <1>12, <1>13

(* Every variable has its type; the capture keeps its limits. *)
THEOREM TypeCorrect == Spec => []TypeOK
  <1>1. CaptureInv => TypeOK
    <2> SUFFICES ASSUME CaptureInv PROVE TypeOK
      OBVIOUS
    <2>1. ControlTypeOK /\ HeadExact /\ TailExact /\ ResultExact
      BY DEF CaptureInv
    <2>2. /\ head \in Text /\ Captured \in Text
          /\ Len(FlattenSeq(tail)) <= TailLimit
      BY <2>1, CapturedIs
    <2>3. Len(head) <= HeadLimit
      BY <2>1, HeadLengthType DEF HeadExact
    <2>4. tail \in Seq(Text) /\ Chars(tail) <= TailLimit
      BY <2>1, <2>2 DEF TailExact, Chars
    <2>5. result \in [text : Text, total : Nat, truncated : BOOLEAN] \cup {NoResult}
      <3>1. taken \in Nat /\ (taken > Len(Captured)) \in BOOLEAN
        BY <2>1, HeadLengthType
      <3>2. [text |-> Captured, total |-> taken, truncated |-> taken > Len(Captured)]
              \in [text : Text, total : Nat, truncated : BOOLEAN]
        BY <2>2, <3>1
      <3>3. QED
        BY <2>1, <3>2 DEF ResultExact
    <2>6. QED
      BY <2>1, <2>2, <2>3, <2>4, <2>5 DEF TypeOK, ControlTypeOK
  <1>2. QED
    BY <1>1, CaptureInvHolds, PTL

(* A result holds everything that was written, or its beginning and its end,
   whatever the sizes of the head, the tail and the chunks, wherever their
   boundaries fall, and however reads, writes, background children and kills
   interleave. *)
THEOREM CaptureExact == Spec => []CaptureIsExact
  <1>1. CaptureInv => CaptureIsExact
    <2> SUFFICES ASSUME CaptureInv, result # NoResult
                 PROVE  /\ result.total = written
                        /\ result.truncated = (written > Retained)
                        /\ result.text =
                             IF result.truncated
                             THEN Positions(1, HeadLimit) \o Positions(written - TailLimit + 1, written)
                             ELSE Positions(1, written)
      BY DEF CaptureIsExact
    <2>1. ControlTypeOK /\ HeadExact /\ TailExact
      BY DEF CaptureInv
    <2>2. taken = written /\ written \in Nat
      BY <2>1, HeadLengthType DEF CaptureInv, Drained
    <2>3. /\ result.text = Captured /\ result.total = taken
          /\ result.truncated = (taken > Len(Captured))
      BY DEF CaptureInv, ResultExact
    <2>4. Retained \in Nat
      BY ProcessAssumption
    <2>5. CASE taken <= Retained
      <3>1. Captured = Positions(1, taken) /\ Len(Captured) = taken
        BY <2>1, <2>5, CapturedIs
      <3>2. (taken > Len(Captured)) = FALSE /\ (written > Retained) = FALSE
        BY <2>2, <2>4, <2>5, <3>1
      <3>3. QED
        BY <2>2, <2>3, <3>1, <3>2
    <2>6. CASE ~(taken <= Retained)
      <3>1. /\ Captured = Positions(1, HeadLimit) \o Positions((taken - TailLimit) + 1, taken)
            /\ Len(Captured) = Retained
        BY <2>1, <2>6, CapturedIs
      <3>2. (taken > Len(Captured)) = TRUE /\ (written > Retained) = TRUE
        BY <2>2, <2>4, <2>6, <3>1
      <3>3. QED
        BY <2>2, <2>3, <3>1, <3>2
    <2>7. QED
      BY <2>5, <2>6
  <1>2. QED
    BY <1>1, CaptureInvHolds, PTL

===============================================================================
