----------------------------- MODULE SpoolClient -----------------------------
(***************************************************************************)
(* The client half of the file spool that carries every request from the   *)
(* sandboxed agent to an evaluation-owned service (benchmark/agent_spool).  *)
(*                                                                         *)
(* A client publishes <id>.json in the inbox by an atomic rename, polls    *)
(* <id>.json in the outbox until a deadline, and publishes the SAME id     *)
(* again after a deadline until it has made MaxTries publications.  Reading *)
(* the answer and unlinking it are two steps.                              *)
(*                                                                         *)
(* A directory is a function from request ids to what the file of that     *)
(* name holds, "none" when there is no such file.  The service half is     *)
(* SubmitSession or PredGateway, which extend this module.                 *)
(***************************************************************************)
EXTENDS Naturals, FiniteSets

CONSTANTS
  Client,    \* invocations of a thin client command (submit, pred)
  Id,        \* request ids: 32 hexadecimal characters in the code
  Payload,   \* what an envelope asks for; also its fingerprint
  MaxTries   \* PRB_CLIENT_RETRIES + 1

ASSUME SpoolAssumption ==
  /\ Client # {} /\ Id # {}
  /\ "none" \notin Id /\ "none" \notin Payload
  /\ MaxTries \in Nat \ {0}

VARIABLES
  pc,        \* control point of each client
  id,        \* the id of a client's current exchange
  payload,   \* the payload of a client's current exchange
  tries,     \* publications made in the current exchange
  answer,    \* the last answer a client read
  issued,    \* every id a client has used
  inbox,     \* request directory, written by clients, emptied by the service
  outbox,    \* answer directory, written by the service, emptied by clients
  mounted    \* whether the spool directories still exist

clientVars == <<pc, id, payload, tries, answer, issued>>
spoolVars == <<clientVars, inbox, outbox, mounted>>

SpoolTypeOK(Answer) ==
  /\ pc \in [Client -> {"idle", "polling", "read", "done", "expired", "failed"}]
  /\ id \in [Client -> Id \cup {"none"}]
  /\ payload \in [Client -> Payload \cup {"none"}]
  /\ tries \in [Client -> 0 .. MaxTries]
  /\ answer \in [Client -> Answer \cup {"none"}]
  /\ issued \in [Client -> SUBSET Id]
  /\ inbox \in [Id -> Payload \cup {"none"}]
  /\ outbox \in [Id -> Answer \cup {"none"}]
  /\ mounted \in BOOLEAN

SpoolInit ==
  /\ pc = [c \in Client |-> "idle"]
  /\ id = [c \in Client |-> "none"]
  /\ payload = [c \in Client |-> "none"]
  /\ tries = [c \in Client |-> 0]
  /\ answer = [c \in Client |-> "none"]
  /\ issued = [c \in Client |-> {}]
  /\ inbox = [i \in Id |-> "none"]
  /\ outbox = [i \in Id |-> "none"]
  /\ mounted = TRUE

(***************************************************************************)
(* A fresh id is one uuid4 has not produced before; a pinned id is chosen   *)
(* by the caller and may repeat.                                           *)
(***************************************************************************)
Unissued(i) == \A c \in Client : i \notin issued[c]

Publish(c, i, p) == inbox' = [inbox EXCEPT ![i] = p]

(* Start an exchange: the first turn of the retry loop of spool_request. *)
Open(c, i, p) ==
  /\ mounted
  /\ Publish(c, i, p)
  /\ pc' = [pc EXCEPT ![c] = "polling"]
  /\ id' = [id EXCEPT ![c] = i]
  /\ payload' = [payload EXCEPT ![c] = p]
  /\ tries' = [tries EXCEPT ![c] = 1]
  /\ issued' = [issued EXCEPT ![c] = @ \cup {i}]
  /\ UNCHANGED <<answer, outbox, mounted>>

(* The agent runs the command, with an id it pins by --request-id or
   PRB_REQUEST_ID, or with a generated one. *)
Call(c, i, p, pin) ==
  /\ pc[c] = "idle"
  /\ pin \/ Unissued(i)
  /\ Open(c, i, p)

(* Mutant of Retry: one publication too many. *)
RetryOnceMore(c) ==
  /\ pc[c] = "polling"
  /\ mounted
  /\ tries[c] <= MaxTries
  /\ Publish(c, id[c], payload[c])
  /\ tries' = [tries EXCEPT ![c] = @ + 1]
  /\ UNCHANGED <<pc, id, payload, answer, issued, outbox, mounted>>

(* A deadline passed: publish the same envelope again. *)
Retry(c) ==
  /\ pc[c] = "polling"
  /\ mounted
  /\ tries[c] < MaxTries
  /\ Publish(c, id[c], payload[c])
  /\ tries' = [tries EXCEPT ![c] = @ + 1]
  /\ UNCHANGED <<pc, id, payload, answer, issued, outbox, mounted>>

(* The last deadline passed (TimeoutError), or the directories are gone when
   the client publishes again (FileNotFoundError). *)
Expire(c) ==
  /\ pc[c] = "polling"
  /\ tries[c] = MaxTries \/ ~mounted
  /\ pc' = [pc EXCEPT ![c] = "expired"]
  /\ UNCHANGED <<id, payload, tries, answer, issued, inbox, outbox, mounted>>

ReadAnswer(c) ==
  /\ pc[c] = "polling"
  /\ outbox[id[c]] # "none"
  /\ answer' = [answer EXCEPT ![c] = outbox[id[c]]]
  /\ pc' = [pc EXCEPT ![c] = "read"]
  /\ UNCHANGED <<id, payload, tries, issued, inbox, outbox, mounted>>

(* The unlink that follows: by then the file may hold a later answer. *)
UnlinkAnswer(c) ==
  /\ pc[c] = "read"
  /\ outbox' = [outbox EXCEPT ![id[c]] = "none"]
  /\ pc' = [pc EXCEPT ![c] = "done"]
  /\ UNCHANGED <<id, payload, tries, answer, issued, inbox, mounted>>

ClientStep(c) ==
  \/ Retry(c)
  \/ Expire(c)
  \/ ReadAnswer(c)
  \/ UnlinkAnswer(c)

(* The session removes the whole directory tree (shutil.rmtree). *)
Unmount ==
  /\ mounted' = FALSE
  /\ inbox' = [i \in Id |-> "none"]
  /\ outbox' = [i \in Id |-> "none"]
  /\ UNCHANGED clientVars

=============================================================================
