------------------------- MODULE SubmissionLifecycle -------------------------
(***************************************************************************)
(* What the intake and scoring queue promises about uploaded submissions,   *)
(* whatever jobs, crashes and retries lie underneath:                       *)
(*   - an accepted upload is queued until it is scored or refused, once     *)
(*     and for good;                                                        *)
(*   - a submission is scored only if the contract admits it, and refused   *)
(*     only if it does not;                                                 *)
(*   - the public is told only of an uploaded run that may be published,    *)
(*     which no test is.                                                    *)
(***************************************************************************)
CONSTANTS Submission, Admissible, Refusable, Publishable

VARIABLES
  kind,    \* what was uploaded under each name, "none" before
  stage,   \* "absent", "queued", "scored" or "refused"
  public   \* the submissions the public was told of

lifecycleVars == <<kind, stage, public>>

Init ==
  /\ kind = [s \in Submission |-> "none"]
  /\ stage = [s \in Submission |-> "absent"]
  /\ public = {}

(* A submission of kind k is uploaded. *)
Accept(s, k) ==
  /\ stage[s] = "absent"
  /\ kind' = [kind EXCEPT ![s] = k]
  /\ stage' = [stage EXCEPT ![s] = "queued"]
  /\ UNCHANGED public

Score(s) ==
  /\ stage[s] = "queued"
  /\ kind[s] \in Admissible
  /\ stage' = [stage EXCEPT ![s] = "scored"]
  /\ UNCHANGED <<kind, public>>

Refuse(s) ==
  /\ stage[s] = "queued"
  /\ kind[s] \in Refusable
  /\ stage' = [stage EXCEPT ![s] = "refused"]
  /\ UNCHANGED <<kind, public>>

(* Its entry is proposed for the public board; the queue may learn later
   that it was scored. *)
Announce(s) ==
  /\ stage[s] \in {"queued", "scored"}
  /\ kind[s] \in Publishable
  /\ public' = public \cup {s}
  /\ UNCHANGED <<kind, stage>>

Next ==
  \E s \in Submission :
    \/ \E k \in Admissible \cup Refusable \cup {"raises"} : Accept(s, k)
    \/ Score(s)
    \/ Refuse(s)
    \/ Announce(s)

Spec == Init /\ [][Next]_lifecycleVars

=============================================================================
