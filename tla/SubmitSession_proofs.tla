------------------------ MODULE SubmitSession_proofs ------------------------
(***************************************************************************)
(* Proofs about SubmitSession, for every set of clients and ids, every     *)
(* number of retries and every attempt limit.                              *)
(*                                                                         *)
(* The safety invariants are proved together with two facts about the      *)
(* service thread and the clients that make them inductive: a request      *)
(* being judged has an id, and a client that has not read an answer holds  *)
(* none.                                                                   *)
(***************************************************************************)
EXTENDS SubmitSession, TLAPS

(* A request being judged or answered has an id, and there is an answer to
   write only then. *)
ServiceOK ==
  /\ serving \in {"judge", "reply"} => claimed.id \in Id
  /\ serving # "reply" => reply = "none"

(* A client that has started has an id; one yet to read holds no answer. *)
ClientOK ==
  \A c \in Client :
    /\ pc[c] # "idle" => id[c] \in Id
    /\ pc[c] \notin {"read", "done"} => answer[c] = "none"

(* Whatever is on its way to a client is true of the ledger. *)
AnswersTrue ==
  /\ \A i \in Id : Truthful(i, responses[i].answer)
  /\ \A i \in Id : Truthful(i, outbox[i])
  /\ Truthful(claimed.id, reply)

LedgerInv ==
  /\ EpisodeWithinBudget
  /\ OneAttemptPerRequest
  /\ LedgerMatchesResponses

IInv ==
  /\ TypeOK
  /\ ServiceOK
  /\ ClientOK
  /\ LedgerInv
  /\ AnswersTrue
  /\ ToldTheTruth

-----------------------------------------------------------------------------
(* Type correctness. *)

LEMMA InitType == Init => TypeOK
  <1> SUFFICES ASSUME Init PROVE TypeOK
    OBVIOUS
  <1> USE SpoolAssumption DEF Init, SpoolInit, Answers, Verdicts
  <1>1. SpoolTypeOK(Answers)
    BY DEF SpoolTypeOK
  <1>2. claimed \in Request
    BY DEF Request
  <1>3. responses \in [Id -> [payload : Payload \cup {"none"}, answer : Answers \cup {"none"}]]
    OBVIOUS
  <1>4. attempts \in Seq(Attempt)
    OBVIOUS
  <1>5. QED
    BY <1>1, <1>2, <1>3, <1>4 DEF TypeOK

(* Client steps touch nothing but the spool, and keep it well formed. *)
LEMMA SubmitType ==
  ASSUME TypeOK, ClientOK, NEW c \in Client, Submit(c)
  PROVE  TypeOK' /\ ClientOK'
  <1> USE DEF Open, Publish
  <1>1. UNCHANGED serviceVars /\ pinned' \in [Client -> BOOLEAN]
    BY DEF Submit, Start, TypeOK
  <1>2. SpoolTypeOK(Answers) /\ id[c] \in Id \cup {"none"}
    BY DEF TypeOK, SpoolTypeOK
  <1>3. SpoolTypeOK(Answers)' /\ ClientOK'
    <2> USE <1>2, SpoolAssumption, PayloadAssumption DEF SpoolTypeOK, ClientOK
    <2>1. ASSUME NEW i \in Id, NEW p \in Payload, NEW pin \in BOOLEAN, Call(c, i, p, pin)
          PROVE  SpoolTypeOK(Answers)' /\ ClientOK'
      BY <2>1 DEF Call
    <2>2. CASE Retry(c)
      <3>1. tries' \in [Client -> 0 .. MaxTries]
        <4>1. tries[c] + 1 \in 0 .. MaxTries
          BY <2>2 DEF Retry
        <4>2. QED
          BY <2>2, <4>1 DEF Retry
      <3>2. inbox' \in [Id -> Payload \cup {"none"}]
        BY <2>2 DEF Retry
      <3>3. QED
        BY <2>2, <3>1, <3>2 DEF Retry
    <2>3. CASE Expire(c)
      BY <2>3 DEF Expire
    <2>4. CASE ReadAnswer(c)
      <3>1. outbox[id[c]] \in Answers \cup {"none"}
        BY <2>4 DEF ReadAnswer
      <3>2. QED
        BY <2>4, <3>1 DEF ReadAnswer
    <2>5. CASE UnlinkAnswer(c)
      BY <2>5 DEF UnlinkAnswer
    <2>6. CASE ReportClientError(c)
      BY <2>6 DEF ReportClientError
    <2>7. CASE Fail(c)
      BY <2>7 DEF Fail
    <2>8. QED
      BY <2>1, <2>2, <2>3, <2>4, <2>5, <2>6, <2>7 DEF Submit, Start, ClientStep
  <1>4. QED
    BY <1>1, <1>3 DEF serviceVars, TypeOK

-----------------------------------------------------------------------------
(* Judging a request. *)

(* The id of a claimed request is a real one, so its past answer is typed. *)
LEMMA PastType ==
  ASSUME TypeOK, ServiceOK, serving = "judge"
  PROVE  /\ claimed.id \in Id
         /\ claimed.payload \in Payload \cup {"none"}
         /\ Past \in [payload : Payload \cup {"none"}, answer : Answers \cup {"none"}]
  BY DEF TypeOK, ServiceOK, Request, Past

(* Every answer judging produces is one of Answers. *)
LEMMA JudgeType ==
  ASSUME TypeOK, ServiceOK, Judge
  PROVE  TypeOK' /\ ServiceOK'
  <1> DEFINE Kept == [payload : Payload \cup {"none"}, answer : Answers \cup {"none"}]
  <1>1. /\ claimed.id \in Id
        /\ claimed.payload \in Payload \cup {"none"}
        /\ Past \in Kept
    BY PastType DEF Judge
  <1>2. ASSUME NEW a \in Answers, Conclude(a)
        PROVE  reply' \in Answers /\ responses' \in [Id -> Kept]
    BY <1>1, <1>2 DEF Conclude, TypeOK
  <1>3. ASSUME NEW b \in BOOLEAN, Debit(b)
        PROVE  /\ reply' \in Answers
               /\ responses' \in [Id -> Kept]
               /\ attempts' \in Seq(Attempt)
               /\ closed' \in BOOLEAN
    <2>1. (IF b THEN "accepted" ELSE "rejected") \in Answers
      BY DEF Answers, Verdicts
    <2>2. reply' \in Answers /\ responses' \in [Id -> Kept]
      BY <2>1, <1>2, <1>3 DEF Debit
    <2>3. [id |-> claimed.id, accepted |-> b] \in Attempt
      BY <1>1 DEF Attempt
    <2>4. attempts' \in Seq(Attempt)
      BY <2>3, <1>3 DEF Debit, TypeOK
    <2>5. QED
      BY <2>2, <2>4, <1>3 DEF Debit
  <1>4. /\ reply' \in Answers
        /\ responses' \in [Id -> Kept]
        /\ attempts' \in Seq(Attempt)
        /\ closed' \in BOOLEAN
    <2> USE <1>1 DEF TypeOK
    <2>1. CASE Replay
      BY <2>1 DEF Replay
    <2>2. CASE Collide
      BY <2>2 DEF Collide, Answers
    <2>3. CASE Inform
      <3>1. claimed.payload \in Answers
        BY <2>3 DEF Inform, Answers
      <3>2. QED
        BY <2>3, <3>1, <1>2 DEF Inform
    <2>4. CASE Exhaust
      <3>1. "exhausted" \in Answers
        BY DEF Answers
      <3>2. QED
        BY <2>4, <3>1, <1>2 DEF Exhaust
    <2>5. CASE Reject
      BY <2>5, <1>3 DEF Reject
    <2>6. CASE Accept
      BY <2>6, <1>3 DEF Accept
    <2>7. CASE VerifierError
      <3>1. "infrastructure_error" \in Answers
        BY DEF Answers
      <3>2. QED
        BY <2>7, <3>1, <1>2 DEF VerifierError
    <2>8. QED
      BY <2>1, <2>2, <2>3, <2>4, <2>5, <2>6, <2>7 DEF Judge
  <1>5. SpoolTypeOK(Answers)'
    BY DEF Judge, TypeOK, SpoolTypeOK, spoolVars, clientVars
  <1>6. QED
    BY <1>1, <1>4, <1>5 DEF Judge, TypeOK, ServiceOK

(* The other steps of the service thread and its owner. *)
LEMMA ServeType ==
  ASSUME TypeOK, ServiceOK, Serve \/ Stop \/ Remove
  PROVE  TypeOK' /\ ServiceOK'
  <1>1. CASE Scan
    BY <1>1 DEF Scan, TypeOK, ServiceOK, SpoolTypeOK, spoolVars, clientVars
  <1>2. ASSUME NEW i \in Id, Claim(i)
        PROVE  TypeOK' /\ ServiceOK'
    <2>1. inbox' \in [Id -> Payload \cup {"none"}]
      BY <1>2 DEF Claim, TypeOK, SpoolTypeOK
    <2>2. claimed' \in Request /\ claimed'.id = i
      BY <1>2 DEF Claim, TypeOK, SpoolTypeOK, Request
    <2>3. QED
      BY <2>1, <2>2, <1>2 DEF Claim, TypeOK, SpoolTypeOK, ServiceOK, clientVars
  <1>3. CASE EndSweep
    BY <1>3 DEF EndSweep, TypeOK, ServiceOK, SpoolTypeOK, spoolVars, clientVars
  <1>4. CASE Judge
    BY <1>4, JudgeType
  <1>5. CASE Reply
    <2>1. outbox' \in [Id -> Answers \cup {"none"}]
      BY <1>5 DEF Reply, TypeOK, SpoolTypeOK
    <2>2. claimed' \in Request
      BY <1>5 DEF Reply, Request
    <2>3. QED
      BY <2>1, <2>2, <1>5 DEF Reply, TypeOK, SpoolTypeOK, ServiceOK, clientVars
  <1>6. CASE Leave
    BY <1>6 DEF Leave, TypeOK, ServiceOK, SpoolTypeOK, spoolVars, clientVars
  <1>7. CASE Stop
    BY <1>7 DEF Stop, TypeOK, ServiceOK, SpoolTypeOK, spoolVars, clientVars
  <1>8. CASE Remove
    BY <1>8 DEF Remove, Unmount, TypeOK, ServiceOK, SpoolTypeOK, serviceVars, clientVars
  <1>9. QED
    BY <1>1, <1>2, <1>3, <1>4, <1>5, <1>6, <1>7, <1>8 DEF Serve

(* No other step changes what ClientOK and ServiceOK speak of. *)
LEMMA ServeClient ==
  ASSUME ClientOK, Serve \/ Stop \/ Remove
  PROVE  ClientOK' /\ UNCHANGED clientVars
  BY DEF ClientOK, Serve, Scan, Claim, EndSweep, Judge, Reply, Leave, Stop, Remove,
         Unmount, spoolVars, clientVars

LEMMA SubmitService ==
  ASSUME ServiceOK, NEW c \in Client, Submit(c)
  PROVE  ServiceOK' /\ UNCHANGED serviceVars
  BY DEF ServiceOK, Submit, serviceVars

(* TypeOK is an invariant of the submit session: no step of a client, the
   service thread or the owner leaves the variables' ranges. *)
THEOREM TypeCorrect == Spec => []TypeOK
  <1> DEFINE TInv == TypeOK /\ ServiceOK /\ ClientOK
  <1>1. Init => TInv
    BY InitType DEF Init, SpoolInit, ServiceOK, ClientOK
  <1>2. TInv /\ [Next]_vars => TInv'
    <2> SUFFICES ASSUME TInv, [Next]_vars PROVE TInv'
      OBVIOUS
    <2>1. ASSUME NEW c \in Client, Submit(c)
          PROVE  TInv'
      BY <2>1, SubmitType, SubmitService
    <2>2. CASE Serve \/ Stop \/ Remove
      BY <2>2, ServeType, ServeClient
    <2>3. CASE UNCHANGED vars
      BY <2>3 DEF vars, spoolVars, clientVars, serviceVars, TypeOK, SpoolTypeOK, ServiceOK, ClientOK
    <2>4. QED
      BY <2>1, <2>2, <2>3 DEF Next
  <1>3. QED
    BY <1>1, <1>2, PTL DEF Spec

-----------------------------------------------------------------------------
(* The attempt ledger. *)

(* What appending one attempt does to the ledger as a function. *)
LEMMA AppendAttempt ==
  ASSUME TypeOK, NEW r \in Attempt, attempts' = Append(attempts, r)
  PROVE  /\ Len(attempts') = Len(attempts) + 1
         /\ DOMAIN attempts' = DOMAIN attempts \cup {Len(attempts) + 1}
         /\ \A n \in DOMAIN attempts : attempts'[n] = attempts[n]
         /\ attempts'[Len(attempts) + 1] = r
         /\ Len(attempts) + 1 \notin DOMAIN attempts
         /\ Len(attempts) + 1 \in DOMAIN attempts'
  BY DEF TypeOK

(* Past.answer is a verdict exactly when the claimed id is in the ledger. *)
LEMMA UnjudgedNotInLedger ==
  ASSUME TypeOK, LedgerInv, claimed.id \in Id, Past.answer = "none"
  PROVE  \A n \in DOMAIN attempts : attempts[n].id # claimed.id
  <1> SUFFICES ASSUME NEW n \in DOMAIN attempts, attempts[n].id = claimed.id
               PROVE  FALSE
    OBVIOUS
  <1>1. attempts[n] \in Attempt
    BY DEF TypeOK
  <1>2. attempts[n] = [id |-> claimed.id, accepted |-> attempts[n].accepted]
    BY <1>1 DEF Attempt
  <1>3. attempts[n].accepted \in BOOLEAN
    BY <1>1 DEF Attempt
  <1>4. Past.answer = (IF attempts[n].accepted THEN "accepted" ELSE "rejected")
    BY <1>2, <1>3 DEF LedgerInv, LedgerMatchesResponses, Past
  <1>5. QED
    BY <1>3, <1>4

(* Debiting keeps the ledger invariant, and what was true of the ledger. *)
LEMMA DebitLedger ==
  ASSUME TypeOK, LedgerInv, claimed.id \in Id, NEW b \in BOOLEAN, Debit(b)
  PROVE  /\ LedgerInv'
         /\ \A i, a : Truthful(i, a) => Truthful(i, a)'
         /\ \A i : i = claimed.id => Truthful(i, IF b THEN "accepted" ELSE "rejected")'
  <1> DEFINE r == [id |-> claimed.id, accepted |-> b]
             top == Len(attempts) + 1
  <1>1. r \in Attempt
    BY DEF Attempt
  <1>2. attempts' = Append(attempts, r) /\ closed' = b /\ ~Over /\ Past.answer = "none"
    BY DEF Debit, Conclude
  <1>3. /\ Len(attempts') = top
        /\ DOMAIN attempts' = DOMAIN attempts \cup {top}
        /\ \A n \in DOMAIN attempts : attempts'[n] = attempts[n]
        /\ attempts'[top] = r
        /\ top \notin DOMAIN attempts
        /\ top \in DOMAIN attempts'
    BY <1>1, <1>2, AppendAttempt
  <1>4. Len(attempts) \in Nat /\ Limit \in Nat
    BY LimitAssumption DEF TypeOK
  <1>5. \A n \in DOMAIN attempts : ~attempts[n].accepted
    BY <1>2 DEF Over, LedgerInv, EpisodeWithinBudget
  <1>6. r.accepted = b /\ r.id = claimed.id
    OBVIOUS
  <1> HIDE DEF r, top
  <1>7. EpisodeWithinBudget'
    <2>1. Len(attempts') <= Limit
      BY <1>2, <1>3, <1>4 DEF Over, top
    <2>2. \A n \in DOMAIN attempts' : attempts'[n].accepted => n = Len(attempts')
      BY <1>3, <1>5
    <2>3. closed' <=> \E n \in DOMAIN attempts' : attempts'[n].accepted
      BY <1>2, <1>3, <1>5, <1>6
    <2>4. QED
      BY <2>1, <2>2, <2>3 DEF EpisodeWithinBudget
  <1>8. \A n \in DOMAIN attempts : attempts[n].id # claimed.id
    BY <1>2, UnjudgedNotInLedger
  <1>9. OneAttemptPerRequest'
    BY <1>3, <1>6, <1>8 DEF OneAttemptPerRequest, LedgerInv
  <1>10. \A i, d : (\E n \in DOMAIN attempts' : attempts'[n] = [id |-> i, accepted |-> d])
           <=> \/ \E n \in DOMAIN attempts : attempts[n] = [id |-> i, accepted |-> d]
               \/ r = [id |-> i, accepted |-> d]
    BY <1>3
  <1>11. LedgerMatchesResponses'
    <2> SUFFICES ASSUME NEW i \in Id, NEW d \in BOOLEAN
                 PROVE  responses'[i].answer = (IF d THEN "accepted" ELSE "rejected")
                          <=> \E n \in DOMAIN attempts' :
                                attempts'[n] = [id |-> i, accepted |-> d]
      BY DEF LedgerMatchesResponses
    <2>1. CASE i = claimed.id
      <3>1. responses'[i].answer = (IF b THEN "accepted" ELSE "rejected")
        BY <2>1 DEF Debit, Conclude, TypeOK
      <3>2. ~ \E n \in DOMAIN attempts : attempts[n] = [id |-> i, accepted |-> d]
        BY <1>8, <2>1
      <3>3. r = [id |-> i, accepted |-> d] <=> b = d
        BY <2>1 DEF r
      <3>4. QED
        BY <1>10, <3>1, <3>2, <3>3
    <2>2. CASE i # claimed.id
      <3>1. responses'[i].answer = responses[i].answer
        BY <2>2 DEF Debit, Conclude, TypeOK
      <3>2. r # [id |-> i, accepted |-> d]
        BY <2>2 DEF r
      <3>3. QED
        BY <1>10, <3>1, <3>2 DEF LedgerInv, LedgerMatchesResponses
    <2>3. QED
      BY <2>1, <2>2
  <1>12. ASSUME NEW i, NEW a, Truthful(i, a)
         PROVE  Truthful(i, a)'
    BY <1>2, <1>10, <1>12 DEF Truthful, Over
  <1>13. ASSUME NEW i, i = claimed.id
         PROVE  Truthful(i, IF b THEN "accepted" ELSE "rejected")'
    BY <1>10, <1>13 DEF Truthful, r
  <1>14. QED
    BY <1>7, <1>9, <1>11, <1>12, <1>13 DEF LedgerInv

-----------------------------------------------------------------------------
(* The safety invariants. *)

(* A kept answer that is no verdict leaves the ledger invariant alone. *)
LEMMA ConcludeLedger ==
  ASSUME TypeOK, LedgerInv, claimed.id \in Id, NEW a, a \notin Verdicts,
         Conclude(a), UNCHANGED <<attempts, closed>>
  PROVE  LedgerInv'
  <1>1. EpisodeWithinBudget' /\ OneAttemptPerRequest'
    BY DEF LedgerInv, EpisodeWithinBudget, OneAttemptPerRequest
  <1>2. LedgerMatchesResponses'
    <2> SUFFICES ASSUME NEW i \in Id, NEW d \in BOOLEAN
                 PROVE  responses'[i].answer = (IF d THEN "accepted" ELSE "rejected")
                          <=> \E n \in DOMAIN attempts :
                                attempts[n] = [id |-> i, accepted |-> d]
      BY DEF LedgerMatchesResponses
    <2>1. CASE i = claimed.id
      <3>1. responses'[i].answer = a
        BY <2>1 DEF Conclude, TypeOK
      <3>2. \A n \in DOMAIN attempts : attempts[n].id # claimed.id
        BY UnjudgedNotInLedger DEF Conclude
      <3>3. QED
        BY <2>1, <3>1, <3>2 DEF Verdicts
    <2>2. CASE i # claimed.id
      <3>1. responses'[i].answer = responses[i].answer
        BY <2>2 DEF Conclude, TypeOK
      <3>2. QED
        BY <3>1 DEF LedgerInv, LedgerMatchesResponses
    <2>3. QED
      BY <2>1, <2>2
  <1>3. QED
    BY <1>1, <1>2 DEF LedgerInv

(* Answers that are neither a verdict nor "exhausted" claim nothing. *)
LEMMA HarmlessAnswer ==
  ASSUME NEW i, NEW a, a \notin Verdicts \cup {"exhausted"}
  PROVE  Truthful(i, a) /\ Truthful(i, a)'
  BY DEF Truthful, Verdicts

(* Judging: one step of the ledger, and a true answer to write. *)
LEMMA JudgeLedger ==
  ASSUME TypeOK, ServiceOK, LedgerInv, AnswersTrue, Judge
  PROVE  /\ LedgerInv'
         /\ \A i, a : Truthful(i, a) => Truthful(i, a)'
         /\ \A i \in Id : Truthful(i, responses[i].answer)'
         /\ \A i : i = claimed.id => Truthful(i, reply)'
  <1> DEFINE Mono == \A i, a : Truthful(i, a) => Truthful(i, a)'
             KeptTrue == \A i \in Id : Truthful(i, responses[i].answer)'
             ReplyTrue == \A i : i = claimed.id => Truthful(i, reply)'
  <1>1. claimed.id \in Id
    BY DEF ServiceOK, Judge
  <1>2. ASSUME UNCHANGED <<attempts, closed>>
        PROVE  Mono
    BY <1>2 DEF Truthful, Over
  <1>3. ASSUME NEW a, Conclude(a), Mono, \A i : i = claimed.id => Truthful(i, a)'
        PROVE  KeptTrue /\ ReplyTrue
    <2>1. reply' = a
      BY <1>3 DEF Conclude
    <2>2. ReplyTrue
      BY <1>3, <2>1
    <2>3. ASSUME NEW i \in Id PROVE Truthful(i, responses[i].answer)'
      <3>1. CASE i = claimed.id
        <4>1. responses'[i].answer = a
          BY <3>1, <1>3 DEF Conclude, TypeOK
        <4>2. Truthful(i, a)'
          BY <3>1, <1>3
        <4>3. QED
          BY <4>1, <4>2 DEF Truthful
      <3>2. CASE i # claimed.id
        <4>1. responses'[i].answer = responses[i].answer
          BY <3>2, <1>3 DEF Conclude, TypeOK
        <4>2. Truthful(i, responses[i].answer)
          BY DEF AnswersTrue
        <4>3. QED
          BY <4>1, <4>2, <1>3 DEF Truthful
      <3>3. QED
        BY <3>1, <3>2
    <2>4. QED
      BY <2>2, <2>3
  <1>4. ASSUME NEW a, a \notin Verdicts, Conclude(a), UNCHANGED <<attempts, closed>>,
               a = "exhausted" => Over
        PROVE  LedgerInv' /\ Mono /\ KeptTrue /\ ReplyTrue
    <2>1. LedgerInv'
      BY <1>1, <1>4, ConcludeLedger
    <2>2. \A i : Truthful(i, a)'
      BY <1>4 DEF Truthful, Over, Verdicts
    <2>3. QED
      BY <1>2, <1>3, <1>4, <2>1, <2>2
  <1>5. ASSUME NEW b \in BOOLEAN, Debit(b)
        PROVE  LedgerInv' /\ Mono /\ KeptTrue /\ ReplyTrue
    <2> DEFINE a == IF b THEN "accepted" ELSE "rejected"
    <2>1. LedgerInv' /\ Mono /\ \A i : i = claimed.id => Truthful(i, a)'
      BY <1>1, <1>5, DebitLedger
    <2>2. Conclude(a)
      BY <1>5 DEF Debit
    <2>3. QED
      BY <1>3, <2>1, <2>2
  <1>6. ASSUME UNCHANGED <<responses, attempts, closed>>,
               \A i : i = claimed.id => Truthful(i, reply)'
        PROVE  LedgerInv' /\ Mono /\ KeptTrue /\ ReplyTrue
    BY <1>6, <1>2 DEF LedgerInv, EpisodeWithinBudget, OneAttemptPerRequest,
                      LedgerMatchesResponses, AnswersTrue, Truthful, Over
  <1>7. CASE Replay
    <2>1. Truthful(claimed.id, Past.answer)
      BY <1>1 DEF AnswersTrue, Past
    <2>2. QED
      BY <1>6, <1>7, <2>1 DEF Replay, Truthful, Over
  <1>8. CASE Collide
    BY <1>6, <1>8 DEF Collide, Truthful
  <1>9. CASE Inform
    BY <1>4, <1>9 DEF Inform, Verdicts
  <1>10. CASE Exhaust
    BY <1>4, <1>10 DEF Exhaust, Verdicts
  <1>11. CASE Reject
    BY <1>5, <1>11 DEF Reject
  <1>12. CASE Accept
    BY <1>5, <1>12 DEF Accept
  <1>13. CASE VerifierError
    BY <1>4, <1>13 DEF VerifierError, Verdicts
  <1>14. QED
    BY <1>7, <1>8, <1>9, <1>10, <1>11, <1>12, <1>13 DEF Judge

(* Steps that leave the ledger and the kept answers alone: what they move
   around stays true. *)
LEMMA MovesTruth ==
  ASSUME TypeOK, ServiceOK, ClientOK, LedgerInv, AnswersTrue, ToldTheTruth,
         UNCHANGED <<responses, attempts, closed>>,
         \/ \E c \in Client : Submit(c)
         \/ Scan \/ (\E i \in Id : Claim(i)) \/ EndSweep \/ Reply \/ Leave \/ Stop \/ Remove
         \/ UNCHANGED vars
  PROVE  LedgerInv' /\ AnswersTrue' /\ ToldTheTruth'
  <1>1. LedgerInv'
    BY DEF LedgerInv, EpisodeWithinBudget, OneAttemptPerRequest, LedgerMatchesResponses
  <1>2. \A i, a : Truthful(i, a) => Truthful(i, a)'
    BY DEF Truthful, Over
  <1>3. \A i : Truthful(i, "none") /\ Truthful(i, "none")'
    BY HarmlessAnswer DEF Verdicts
  <1>4. \A i \in Id : Truthful(i, responses[i].answer)'
    BY DEF AnswersTrue, Truthful, Over
  <1>5. ASSUME NEW c \in Client, Submit(c)
        PROVE  AnswersTrue' /\ ToldTheTruth'
    <2>1. UNCHANGED serviceVars
      BY <1>5 DEF Submit
    <2>2. \A i \in Id : outbox'[i] \in {outbox[i], "none"}
      BY <1>5 DEF Submit, Start, ClientStep, Call, Open, Retry, Expire, ReadAnswer, UnlinkAnswer,
                  ReportClientError, Fail, TypeOK, SpoolTypeOK
    <2>3. \A i \in Id : Truthful(i, outbox[i])'
      BY <1>2, <1>3, <2>2 DEF AnswersTrue, Truthful
    <2>4. Truthful(claimed.id, reply)'
      BY <2>1 DEF AnswersTrue, Truthful, Over, serviceVars
    <2>5. ASSUME NEW d \in Client
          PROVE  Truthful(id[d], answer[d])'
      <3>1. CASE answer'[d] = "none"
        BY <3>1 DEF Truthful
      <3>2. CASE answer'[d] = answer[d] /\ id'[d] = id[d]
        BY <3>2 DEF ToldTheTruth, Truthful, Over
      <3>3. CASE d = c /\ ReadAnswer(c)
        <4>1. id[d] \in Id /\ id'[d] = id[d] /\ answer'[d] = outbox[id[d]]
          BY <3>3 DEF ReadAnswer, ClientOK, TypeOK, SpoolTypeOK
        <4>2. Truthful(id[d], outbox[id[d]])
          BY <4>1 DEF AnswersTrue
        <4>3. QED
          BY <4>1, <4>2 DEF Truthful, Over
      <3>4. \/ answer'[d] = "none"
            \/ answer'[d] = answer[d] /\ id'[d] = id[d]
            \/ d = c /\ ReadAnswer(c)
        BY <1>5 DEF Submit, Start, ClientStep, Call, Open, Retry, Expire, ReadAnswer, UnlinkAnswer,
                    ReportClientError, Fail, TypeOK, SpoolTypeOK, ClientOK
      <3>5. QED
        BY <3>1, <3>2, <3>3, <3>4
    <2>6. QED
      BY <1>4, <2>3, <2>4, <2>5 DEF AnswersTrue, ToldTheTruth
  <1>6. CASE UNCHANGED clientVars
    <2>1. ToldTheTruth'
      BY <1>6 DEF ToldTheTruth, Truthful, Over, clientVars
    <2>2. CASE UNCHANGED <<outbox, claimed, reply>>
      <3>1. AnswersTrue'
        BY <1>4, <2>2 DEF AnswersTrue, Truthful, Over
      <3>2. QED
        BY <1>1, <2>1, <3>1
    <2>3. ASSUME NEW i \in Id, Claim(i)
          PROVE  AnswersTrue'
      <3>1. reply' = "none" /\ outbox' = outbox
        BY <2>3 DEF Claim, ServiceOK
      <3>2. QED
        BY <1>4, <3>1 DEF AnswersTrue, Truthful, Over
    <2>4. CASE Reply
      <3>1. reply' = "none" /\ claimed.id \in Id
            /\ outbox' = [outbox EXCEPT ![claimed.id] = reply]
        BY <2>4 DEF Reply, ServiceOK
      <3>2. \A i \in Id : outbox'[i] = IF i = claimed.id THEN reply ELSE outbox[i]
        BY <3>1 DEF TypeOK, SpoolTypeOK
      <3>3. \A i \in Id : Truthful(i, outbox'[i])
        BY <3>2 DEF AnswersTrue
      <3>4. AnswersTrue'
        BY <1>4, <3>1, <3>3 DEF AnswersTrue, Truthful, Over
      <3>5. QED
        BY <1>1, <2>1, <3>4
    <2>5. CASE Remove
      <3>1. UNCHANGED <<claimed, reply>> /\ \A i \in Id : outbox'[i] = "none"
        BY <2>5 DEF Remove, Unmount, serviceVars
      <3>2. AnswersTrue'
        BY <1>4, <3>1 DEF AnswersTrue, Truthful, Over
      <3>3. QED
        BY <1>1, <2>1, <3>2
    <2>6. CASE Scan \/ EndSweep \/ Leave \/ Stop
      BY <2>2, <2>6 DEF Scan, EndSweep, Leave, Stop, spoolVars
    <2>7. CASE UNCHANGED vars
      BY <2>2, <2>7 DEF vars, spoolVars, serviceVars
    <2>8. CASE \E c \in Client : Submit(c)
      BY <1>1, <1>5, <2>8
    <2>9. QED
      BY <1>1, <2>1, <2>3, <2>4, <2>5, <2>6, <2>7, <2>8
  <1>7. UNCHANGED clientVars \/ \E c \in Client : Submit(c)
    BY DEF Scan, Claim, EndSweep, Reply, Leave, Stop, Remove, Unmount, vars, spoolVars, clientVars
  <1>8. QED
    BY <1>1, <1>5, <1>6, <1>7

(* Judging keeps everything true. *)
LEMMA JudgeTruth ==
  ASSUME TypeOK, ServiceOK, LedgerInv, AnswersTrue, ToldTheTruth, Judge
  PROVE  LedgerInv' /\ AnswersTrue' /\ ToldTheTruth'
  <1>1. /\ LedgerInv'
        /\ \A i, a : Truthful(i, a) => Truthful(i, a)'
        /\ \A i \in Id : Truthful(i, responses[i].answer)'
        /\ \A i : i = claimed.id => Truthful(i, reply)'
    BY JudgeLedger
  <1>2. UNCHANGED <<outbox, id, answer, claimed>>
    BY DEF Judge, spoolVars, clientVars
  <1>3. \A i \in Id : Truthful(i, outbox[i])'
    BY <1>1, <1>2 DEF AnswersTrue, Truthful
  <1>4. \A c \in Client : Truthful(id[c], answer[c])'
    BY <1>1, <1>2 DEF ToldTheTruth, Truthful
  <1>5. Truthful(claimed.id, reply)'
    BY <1>1, <1>2 DEF Truthful
  <1>6. QED
    BY <1>1, <1>3, <1>4, <1>5 DEF AnswersTrue, ToldTheTruth

LEMMA InitIInv == Init => IInv
  <1> SUFFICES ASSUME Init PROVE IInv
    OBVIOUS
  <1>1. TypeOK
    BY InitType
  <1>2. ServiceOK /\ ClientOK /\ AnswersTrue /\ ToldTheTruth
    BY DEF Init, SpoolInit, ServiceOK, ClientOK, AnswersTrue, ToldTheTruth, Truthful
  <1>3. LedgerInv
    BY LimitAssumption
       DEF Init, LedgerInv, EpisodeWithinBudget, OneAttemptPerRequest, LedgerMatchesResponses
  <1>4. QED
    BY <1>1, <1>2, <1>3 DEF IInv

LEMMA StepIInv == IInv /\ [Next]_vars => IInv'
  <1> SUFFICES ASSUME IInv, [Next]_vars PROVE IInv'
    OBVIOUS
  <1> USE DEF IInv
  <1>1. ASSUME NEW c \in Client, Submit(c)
        PROVE  IInv'
    <2>1. UNCHANGED <<responses, attempts, closed>>
      BY <1>1, SubmitService DEF serviceVars
    <2>2. QED
      BY <1>1, <2>1, SubmitType, SubmitService, MovesTruth
  <1>2. CASE Judge
    BY <1>2, JudgeType, ServeClient, JudgeTruth DEF Serve
  <1>3. CASE (Serve \/ Stop \/ Remove) /\ ~Judge
    <2>1. UNCHANGED <<responses, attempts, closed>>
      BY <1>3 DEF Serve, Scan, Claim, EndSweep, Reply, Leave, Stop, Remove, serviceVars
    <2>2. LedgerInv' /\ AnswersTrue' /\ ToldTheTruth'
      BY <1>3, <2>1, MovesTruth DEF Serve
    <2>3. QED
      BY <1>3, <2>2, ServeType, ServeClient
  <1>4. CASE UNCHANGED vars
    <2>1. UNCHANGED <<responses, attempts, closed>>
      BY <1>4 DEF vars, serviceVars
    <2>2. TypeOK' /\ ServiceOK' /\ ClientOK'
      BY <1>4 DEF vars, spoolVars, clientVars, serviceVars, TypeOK, SpoolTypeOK, ServiceOK, ClientOK
    <2>3. QED
      BY <1>4, <2>1, <2>2, MovesTruth
  <1>5. QED
    BY <1>1, <1>2, <1>3, <1>4 DEF Next

LEMMA Invariance == Spec => []IInv
  BY InitIInv, StepIInv, PTL DEF Spec

(* The attempt ledger: within budget, one attempt per request id, and in
   agreement with the kept answers, whatever clients publish again. *)
THEOREM LedgerSafe ==
  Spec => [](EpisodeWithinBudget /\ OneAttemptPerRequest /\ LedgerMatchesResponses)
  <1>1. IInv => EpisodeWithinBudget /\ OneAttemptPerRequest /\ LedgerMatchesResponses
    BY DEF IInv, LedgerInv
  <1>2. QED
    BY <1>1, Invariance, PTL

(* No client is ever told something the ledger does not say. *)
THEOREM ClientsToldTheTruth == Spec => []ToldTheTruth
  <1>1. IInv => ToldTheTruth
    BY DEF IInv
  <1>2. QED
    BY <1>1, Invariance, PTL

-----------------------------------------------------------------------------
(* Refinement of the abstract judge. *)

Verdict == [i \in Id |-> Told(responses[i].answer)]

(* Keeping answer a for the claimed request changes its verdict alone. *)
LEMMA ConcludeVerdict ==
  ASSUME TypeOK, claimed.id \in Id, NEW a, Conclude(a)
  PROVE  /\ Verdict[claimed.id] = "none"
         /\ Verdict' = [Verdict EXCEPT ![claimed.id] = Told(a)]
  <1>1. responses' = [responses EXCEPT ![claimed.id] = [payload |-> claimed.payload, answer |-> a]]
        /\ responses[claimed.id].answer = "none"
    BY DEF Conclude, Past
  <1>2. \A i \in Id : responses'[i].answer = IF i = claimed.id THEN a ELSE responses[i].answer
    BY <1>1 DEF TypeOK
  <1>3. \A i \in Id : Verdict'[i] = IF i = claimed.id THEN Told(a) ELSE Verdict[i]
    BY <1>2 DEF Verdict, Told
  <1>4. Verdict[claimed.id] = "none"
    BY <1>1 DEF Verdict, Told
  <1>5. QED
    BY <1>3, <1>4 DEF Verdict

(* The session is over exactly when the abstract judge is. *)
LEMMA OverIsOver ==
  ASSUME TypeOK, EpisodeWithinBudget
  PROVE  Over <=> Judged!Over
  BY DEF Over, Judged!Over, EpisodeWithinBudget

LEMMA JudgeSimulates ==
  ASSUME TypeOK, ServiceOK, EpisodeWithinBudget, Judge
  PROVE  Judged!Next \/ UNCHANGED Judged!judgeVars
  <1>1. claimed.id \in Id
    BY DEF ServiceOK, Judge
  <1>2. Over <=> Judged!Over
    BY OverIsOver
  <1>3. ASSUME UNCHANGED <<responses, attempts>>
        PROVE  UNCHANGED Judged!judgeVars
    BY <1>3 DEF Judged!judgeVars
  <1>4. ASSUME NEW a, Told(a) = "declined", Conclude(a), UNCHANGED attempts
        PROVE  Judged!Next
    <2>1. Judged!Decline(claimed.id)
      BY <1>1, <1>4, ConcludeVerdict DEF Judged!Decline, Verdict
    <2>2. QED
      BY <1>1, <2>1 DEF Judged!Next
  <1>5. ASSUME NEW b \in BOOLEAN, Debit(b)
        PROVE  Judged!Next
    <2>1. Told(IF b THEN "accepted" ELSE "rejected") = IF b THEN "accepted" ELSE "rejected"
      BY DEF Told, Verdicts
    <2>2. /\ Verdict[claimed.id] = "none"
          /\ Verdict' = [Verdict EXCEPT ![claimed.id] = IF b THEN "accepted" ELSE "rejected"]
      BY <1>1, <1>5, <2>1, ConcludeVerdict DEF Debit
    <2>3. Judged!Debit(claimed.id, b)
      BY <1>2, <1>5, <2>2 DEF Judged!Debit, Debit, Verdict
    <2>4. QED
      BY <1>1, <2>3 DEF Judged!Next
  <1>6. CASE Replay \/ Collide
    BY <1>3, <1>6 DEF Replay, Collide
  <1>7. CASE Inform
    BY <1>4, <1>7 DEF Inform, Told, Verdicts
  <1>8. CASE Exhaust
    <2>1. Told("exhausted") = "exhausted"
      BY DEF Told
    <2>2. Judged!Exhaust(claimed.id)
      BY <1>1, <1>2, <1>8, <2>1, ConcludeVerdict DEF Exhaust, Judged!Exhaust, Verdict
    <2>3. QED
      BY <1>1, <2>2 DEF Judged!Next
  <1>9. CASE Reject \/ Accept
    BY <1>5, <1>9 DEF Reject, Accept
  <1>10. CASE VerifierError
    BY <1>4, <1>10 DEF VerifierError, Told, Verdicts
  <1>11. QED
    BY <1>6, <1>7, <1>8, <1>9, <1>10 DEF Judge

(* The session implements the abstract judge: judging is one abstract step,
   every other step of clients, service thread and owner is a stutter. *)
THEOREM Refinement == Spec => ImplementsJudge
  <1>1. Init => Judged!Init
    BY DEF Init, Judged!Init, Told
  <1>2. IInv /\ [Next]_vars => [Judged!Next]_(Judged!judgeVars)
    <2> SUFFICES ASSUME IInv, [Next]_vars
                 PROVE  Judged!Next \/ UNCHANGED Judged!judgeVars
      OBVIOUS
    <2>1. CASE Judge
      BY <2>1, JudgeSimulates DEF IInv, LedgerInv
    <2>2. CASE ~Judge
      <3>1. UNCHANGED <<responses, attempts>>
        BY <2>2 DEF Next, Submit, Serve, Scan, Claim, EndSweep, Reply, Leave, Stop, Remove,
                    serviceVars, vars
      <3>2. QED
        BY <3>1 DEF Judged!judgeVars
    <2>3. QED
      BY <2>1, <2>2
  <1>3. QED
    BY <1>1, <1>2, Invariance, PTL DEF Spec, ImplementsJudge, Judged!Spec

=============================================================================
