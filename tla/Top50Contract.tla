----------------------------- MODULE Top50Contract -----------------------------
(***************************************************************************)
(* What benchmark/top50_contract.py demands of a submission before it is    *)
(* scored, as predicates over the ledgers the runner writes.  Only the      *)
(* demands that relate one part of a ledger to another, or to the released  *)
(* limits, are kept: the types, names, sizes and settings it also checks    *)
(* are what the runner writes by construction.                              *)
(***************************************************************************)
EXTENDS Naturals, Sequences, FiniteSets

SubmitLimit == 2

Count(records, Test(_)) == Cardinality({i \in DOMAIN records : Test(records[i])})
Charged(records) == Count(records, LAMBDA r : r.charged)

(* The charged events are the used units; one refused event may come on top. *)
MatchesCounter(events, ledger, counter, limits) ==
  /\ Len(events) <= limits[counter] + 1
  /\ Charged(events) = ledger.status[counter]

StatusValid(ledger, limits) == \A c \in DOMAIN limits : ledger.status[c] <= limits[c]

EpisodeEventsValid(ledger, limits) ==
  /\ MatchesCounter(ledger.gens, ledger, "model_generations", limits)
  /\ MatchesCounter(ledger.shell, ledger, "shell_actions", limits)

(* Every shell action has an observation that fits its outcome. *)
ObservationsValid(ledger) ==
  \A i \in DOMAIN ledger.shell :
    /\ ledger.shell[i].seen
    /\ ledger.shell[i].outcome # "admitted"

PredBound(limits) == limits["shell_actions"] + 1

PredLedgerValid(ledger, limits) ==
  /\ Len(ledger.pred) <= PredBound(limits)
  /\ \A i, j \in DOMAIN ledger.pred : i # j => ledger.pred[i].call # ledger.pred[j].call
  /\ Charged(ledger.pred) = ledger.status["pred_calls"]
  /\ Count(ledger.pred, LAMBDA r : r.charged /\ r.kind = "solve") = ledger.status["solve_calls"]

Accepted(attempts) == {i \in DOMAIN attempts : attempts[i]}

SubmitLedgerValid(ledger) ==
  /\ Len(ledger.submit) <= SubmitLimit
  /\ ledger.submitUsed = Len(ledger.submit)
  /\ Cardinality(Accepted(ledger.submit)) <= 1
  /\ ledger.submitRemaining =
       IF Accepted(ledger.submit) # {} THEN 0 ELSE SubmitLimit - Len(ledger.submit)

(* One episode's ledger.  The episode's own verdict is derived from the same
   ledger by the runner. *)
EpisodeLedgerValid(ledger, limits) ==
  /\ StatusValid(ledger, limits)
  /\ EpisodeEventsValid(ledger, limits)
  /\ ObservationsValid(ledger)
  /\ PredLedgerValid(ledger, limits)
  /\ SubmitLedgerValid(ledger)

-----------------------------------------------------------------------------
(* Triage events are numbered when they are appended, the commit is not: its
   number is 0.  These are the positions of the numbered ones. *)
Numbered(events) == {i \in DOMAIN events : events[i].sequence # 0}

TriageEventsValid(ledger, limits) ==
  /\ Len(ledger.events) <= limits["model_generations"] + limits["shell_actions"] + 3
  /\ Count(ledger.events, LAMBDA e : e.type = "shortlist_commit") = 1
  /\ \A i \in Numbered(ledger.events) :
       ledger.events[i].sequence = Cardinality({j \in Numbered(ledger.events) : j <= i})
  /\ Count(ledger.events, LAMBDA e : e.type = "model_generation" /\ e.charged)
       = ledger.status["model_generations"]
  /\ Count(ledger.events, LAMBDA e : e.type = "shell_action" /\ e.charged)
       = ledger.status["shell_actions"]

(* The frozen shortlist, as _validate demands it of a commit and the contract
   of a submission. *)
ShortlistValid(rules, size, inventory) ==
  /\ Len(rules) = size
  /\ \A i \in DOMAIN rules : rules[i] \in inventory
  /\ \A i, j \in DOMAIN rules : i # j => rules[i] # rules[j]

(* A whole submission; the ledgers of its episodes are judged above. *)
SubmissionValid(sub, size, inventory, limits) ==
  /\ sub.error = "none"
  /\ sub.rankable
  /\ ShortlistValid(sub.shortlist, size, inventory)
  /\ sub.triage.shortlist = sub.shortlist
  /\ StatusValid(sub.triage, limits)
  /\ TriageEventsValid(sub.triage, limits)
  /\ Len(sub.episodes) = size
  /\ \A i \in DOMAIN sub.episodes :
       /\ sub.episodes[i].rule = sub.shortlist[i]
       /\ sub.episodes[i].status =
            IF Accepted(sub.episodes[i].submit) # {} THEN "bug_found" ELSE "completed"

=============================================================================
