# A TLA+ model of the problem-reductions benchmark

This directory holds TLA+ modules that model the benchmark's evaluation side:
the services that meter an agent's evidence and judge its submissions, the
verifier they trust, and the bookkeeping that a published score rests on, up to
the public site. TLC checks the modules on small
instances; TLAPS proves the main results for every value of the constants.

## 1. The system

The benchmark asks an AI agent to find counterexamples to buggy reduction rules.
For each selected rule the runner opens an *episode*: a sandboxed agent talks to
two evaluation-owned services through directories of files, and everything that
counts (budgets, ledgers, verdicts) lives in the runner's memory. The final
`submission.json` is uploaded, queued in R2 and scored again from its ledgers.

| Component | State | Operations | What makes it correct |
|---|---|---|---|
| Spool client (`agent_spool.py`, `agent_submit.py`, `agent_pred.py`) | request and answer files | publish, poll, publish again after a deadline, read, unlink | a retry is the same request; what it reads belongs to its id |
| Submission session (`submit_session.py`) | attempt ledger, kept answers, closed flag, a service thread | claim, judge, answer, stop | at most the allowed attempts, none after an acceptance, one per request, errors debit nothing |
| Evidence counters (`EvidenceBudgetState`) | used per counter | reserve all or none, release, status | never above the limit, never below zero |
| Pred gateway (`PredGatewaySession`) | pred ledger, kept answers, cache of free commands, a service thread and a pool | dispatch, reserve, run, record, release, answer, exit | the counters and the ledger agree, everything started is completed |
| Evidence session (`EvidenceBudgetSession`) | shell and generation records | admit an action, record, snapshot the ledger | one record per admitted action, snapshots that agree |
| Process control (`process_control.py`) | a process group, two reader threads, bounded captures | run, drain, time out, kill the group, collect | a run ends, nothing of its group survives it, what it returns is what was written, up to a bound it states |
| Observation store (`observation_policy.py`) | log files | package output | one log per observation |
| Top50 runner (`top50_runner.py`) | frozen selection, episodes, checkpoints | triage, commit, run an episode, checkpoint, finish | the selection is frozen before an episode opens, a result is rankable only when complete |
| Contract (`top50_contract.py`) | none: a validator and a scorer | validate, verify again, score | accepts what an honest run can produce, counts only what verifies |
| Backend (`backend_score.py`, `r2_queue.py`, `score-from-r2.yml`, the intake worker) | objects in R2, statuses, pull requests | intake, plan, score, move, propose | each submission is scored or refused once and for good, and never lost; what is public is backed |
| Public board (`check_aggregate.py`, `build_board`, `publish-on-merge.yml`) | entries on the branch, a run at work and one waiting, the deployed site | guard, build, deploy | the best entry per model, none the guard refuses, and never behind for ever |
| Verifier (`verify.py`) | none beyond one call | reduce, solve twice, compare, check the witness | accepts only real bugs, turns none down that was exposed |
| Entry points, preflight, calibration, audit, page, container | configuration, reports | | sequential glue, not modelled |

Components interact by files (clients and services), by calls under locks
(gateway and counters), by nesting of sessions (the gateway's directories live
inside the submission session's) and by a JSON document (runner, contract,
backend). The hard behaviours are the interleavings of service thread, pool
workers, clients and the exiting owner; retries that overtake the request they
repeat; answers left behind; failures between a reservation and its record; a
ledger copied piece by piece while late calls still write it; crashes around a
checkpoint; a daily job that may stop between any two of its writes; children
that outlive a process; publishing runs that overtake the branch; and a verifier
whose solver may use the very rule under test.
`PROJECT.json` lists each hazard at its line.

## 2. Modules

| Module | Models | Used by |
|---|---|---|
| `SpoolClient` | the client half of the spool; a directory is a function from ids to contents | extended by both services |
| `SubmitJudge` | abstract: one lasting verdict per request, one attempt per verdict, at most `Limit`, none after an acceptance | refined by `SubmitSession` |
| `SubmitSession` | the submission service with its clients | `MCSubmitSession`, `SubmitSession_proofs` |
| `EvidenceBudget` | the counters: reserve all or none, release | extended by `PredGateway`, `EpisodeLedger` |
| `CallMeter` | abstract: calls that begin within the allowance, end once and are final then | refined by `PredGateway` |
| `PredGateway` | the pred gateway with its clients and workers | `MCPredGateway`, `PredGateway_proofs` |
| `Top50Contract` | the contract's demands, as predicates over ledgers | extended by `EpisodeLedger`, `Top50Runner` |
| `EpisodeLedger` | the agent loop of one episode, the calls its commands leave behind, the assembly of the ledger | `MCEpisodeLedger`, `EpisodeLedger_proofs` |
| `RunRecord` | abstract: what the output file of a run promises | refined by `Top50Runner` |
| `Top50Runner` | triage, episodes, checkpoints, crashes, restarts | `MCTop50Runner`, `Top50Runner_proofs` |
| `SubmissionLifecycle` | abstract: queued, then scored or refused once and for good; public only if publishable | refined by `ScoringQueue` |
| `ScoringQueue` | intake, R2, the daily job, pull requests, the maintainer | `MCScoringQueue`, `ScoringQueue_proofs` |
| `EgressGuard` | the files the guard sees and its verdict: pure operators | extended by `ScoringQueue`, `Leaderboard` |
| `Leaderboard` | the board built of entry files: pure operators | extended by `PublicSite` |
| `PublicSite` | the branch, the publishing runs, the site | `MCPublicSite`, `PublicSite_proofs` |
| `ProcessControl` | one capped run of a process beside a gateway that is being left | `MCProcessControl`, `ProcessControl_proofs` |
| `Verifier` | one run of `verify()` | `MCVerifier`, `Verifier_proofs` |
| `MC*` | model values, symmetry, bounds | the `.cfg` files |
| `SubmitSession_proofs`, `PredGateway_proofs`, `ProcessControl_proofs`, `EpisodeLedger_proofs`, `Top50Runner_proofs`, `ScoringQueue_proofs`, `Verifier_proofs`, `PublicSite_proofs` | theorems about the module each is named after | |

The composition follows the code's own seams. The two services are modelled
thread by thread in `SubmitSession` and `PredGateway`; `EpisodeLedger` puts both
beside the runner's thread again, with each call reduced to the steps that
change what the ledger copies; `Top50Runner` reduces an episode to its record;
`ScoringQueue` reduces a submission to what scoring makes of it; `PublicSite`
takes over where a pull request is merged. `ProcessControl` opens up what
`PredGateway` takes for one step, and `Verifier` what `SubmitSession` takes for
an oracle. An operator
preceded by a comment that begins with "Mutant" is a plausible bug; no
specification uses it. It shows that a property would notice.

### SpoolClient

`inbox[i]` and `outbox[i]` stand for the files `<i>.json`; the temporaries that
`os.replace` renames are private to their writer, so a publication is one step.
`Call`, `Retry`, `Expire`, `ReadAnswer` and `UnlinkAnswer` are the points of
`spool_request` where other processes can intervene. Reading an answer and
unlinking it are two steps, because a service may write the file in between.
An id is generated (never issued before) or pinned by the caller
(`--request-id`, `PRB_REQUEST_ID`), in which case clients may share it.

### SubmitSession

`Scan`, `Claim`, `Judge`, `Reply`, `EndSweep` and `Leave` are the service
thread. The verifier runs under the session lock and nothing else writes the
ledger, so judging is one step; the disjuncts of `Judge` are the paths through
`_handle_idempotent`, `_handle_malformed_idempotent` and `_handle`. `Stop` and
`Remove` are `__exit__`, which may begin at any moment. `ReportClientError` is
the client's fallback, reached by a timeout too because `TimeoutError` is an
`OSError`.

### EvidenceBudget and PredGateway

Each worker step is one critical section, one file operation or one run of the
process: `Start` (read the file), `Lookup` (kept answers), `AnswerAtOnce`,
`Admit`/`Refuse` (reserve), `RecordCall`/`RecordRefusal`/`RecordUnusable`
(append to the ledger), `Launch`, `Raise`, `EndProcess`, `ReleaseCost`,
`FinishRecord`, `Keep` (fill the table), `Reply`, `UnlinkRequest`. The lock is
free between `Lookup` and `Keep`, as in the code, so two workers may handle one
id. `"gone"` is what a worker makes of a file another worker has unlinked,
`"raised"` of a request whose handling raised; both are charged like a
malformed one. `Raise` covers every exception that is no `OSError`: of the launch
(an argument with a NUL character) and, for any command, of packaging its output.
It leaves the record open and handles the request again; `abandoned` remembers
such records, is read by no action and only lets the properties name them.

`CallMeter` says what all this promises of an episode's calls. `Begin` and
`Misuse` need room under every limit the call counts against, `Refuse` records a
call that is not made, `End` writes the outcome, once, and only the outcome
"infrastructure_error" takes a call out of the count. The gateway has no such
atomic step: it reserves, records, gives back and completes in four, of which
other workers see each. Its calls are therefore its ledger with one correction
(`Calls`): a record whose charge was given back counts as ended from that moment
(`GivenBack`), although its outcome is written later. A call begins when it is
recorded, not when it is reserved.

### Top50Contract and EpisodeLedger

`Top50Contract` keeps the demands of `top50_contract.py` that relate one part of
a submission to another or to the released limits. `EpisodeLedger` has one
thread, `at`: `query` (ask the model), `act` and `command` (a shell action, from
its admission to its observation), `check` (look at the budgets), then one step
per copy that `EvidenceBudgetSession.ledger` takes: the records of both kinds,
the pred ledger, the counters, the number of submissions, `closed`, `remaining`,
the attempts. Each copy is taken under its owner's lock, and the locks are not
held together. `gens` and `shell` are the session's records. A running command
may `Send` calls; `stage[c]` is how far the service has come with one, and it
may go on after the command is gone and while the ledger is assembled.
Here a call is handled once: duplicates are `PredGateway`'s subject.

### RunRecord and Top50Runner

`at` is where the process is. Triage runs the same loop with its own two
counters (`used`) and its own list of `events`; `Commit` admits the action,
validates the file and freezes it, in the code's order. `LeaveTriage` is the exit
of the triage session and the branch after it, `RunEpisode` an episode with its
record or its exception, `Persist` the construction of the result. `_persist` is
three steps: the temporary is torn (`BeginWrite`), whole (`EndWrite`) and
renamed (`ReplaceOutput`). `Crash` may happen at any step and leaves the two
files; `Start` begins a new run on them and does not read the output. `run`
numbers the runs; the code's file has no such number, and only the properties
and the abstraction look at it.

### SubmissionLifecycle and ScoringQueue

The variables fall in three groups. R2: `prefix` (the prefixes that hold an
object; two while it is half moved), `diagnosed`, `detail`, `entry`. GitHub:
`main`, `open`, `prs`. The job's own copies, gone when it ends: `step`, `base`
(its checkout), `manifest` (what it listed), `status`, `scored`, `board`, `todo`.
`Pull`, `TakeUp`, `WriteDetail`, `Finish`, `Refuse`, `Raise`, `Aggregate` are
scoring (the order in which pending files are taken up is left open); `Fault` is
a retryable failure, `KillScorer` the death of its container, after which the
job continues. `Upload`, `UploadEntry`, `EndSync` are the sync of the results;
`Diagnose`, `Copy`, `Remove`, `EndMove` the moves planned by `r2_queue.py`, with
`aws s3 mv` as the two steps it is. `Skip`, `Propose`, `StopAtEntry`,
`EndPublish` are the publishing loop, in name order. `Abort` ends a job
anywhere. `Deposit` is the intake; `Merge`, `Close`, `Revert` are the maintainer.
Files written without a rename may be `"torn"`. The guard is `EgressGuard`'s
`Passes`, applied to the entry of a submission.

### Leaderboard and PublicSite

`Problems` and `Passes` (in `EgressGuard`) are `check` and `main` of
`check_aggregate.py`; `Readable`, `KeepBetter` and `DedupBest` are `build_board`
and `_dedup_best`, over files reduced to what these look at. `Sorted` is Python's
`sorted` where no two elements are equal in the order, as names of files and rows
of different models are; so it need not say that the sort is stable. `PublicSite` is `publish-on-merge.yml`:
`main` is the branch, and `Push` any change of it, since a maintainer may merge,
edit or revert; `due` a run that waits (the concurrency group keeps one, and a
newer one replaces it), `checkout` what the run at work builds from, `live` and
`site` what was deployed last. `Deploy` and `FailRun` are the ends of a run,
`Dispatch` the manual start.

### ProcessControl

`caller` is the worker in `run_capped_process`, `reader` one of its reader
threads, `owner` the thread in `PredGatewaySession.__exit__`. The process group is
the leader and its children: each may `Fork`, `Write`, `ExitProcess` or
`LeaveGroup` (setsid) at any moment; `holding` says who has the pipe open. A
written character is its position in the output, so the capture can be compared
with what was written. `Read` waits for a whole chunk or the end of the stream,
as a text stream's `read(n)` does. The two streams are alike, so one is
modelled, with its share of the bound. `Register` and `Finish` are the callbacks
that keep the gateway's set of active processes.

### Verifier

An instance is a function from configurations to values or `Infeasible`; a rule is
a target instance and a way back for its configurations. `chain` and `tchain` say
what the default solver's way from source and target to ILP is worth: right,
wrong, or beginning with the rule under test. `BruteSource`, `DefaultSource`,
`DefaultBundle` and `DefaultTarget` are what each call of `pred solve` may
answer; the steps `CheckShape` to `CheckOptimality` are those of `verify()` and
`_witness_check()`, with their early returns. `disturbed` remembers that a call
failed or timed out.

## 3. Runs

| Run | Bounds | Shows |
|---|---|---|
| `submit_session` | 2 clients, 3 ids, `Limit` 2, 2 publications, payloads good / client error / status | the ledger, the kept answers and the clients' view agree; `SubmitSession` implements `SubmitJudge` |
| `submit_live` | 2 clients, 2 ids, `Limit` 1, 1 publication | requests are answered unless the session is stopped, listed ones even then; the exit completes |
| `pred_gateway` | 2 clients, 2 ids, 2 workers, 2 pred calls, 1 solve call, 1 publication each; solve calls, malformed requests, and what raises | counters and ledger agree under every interleaving, also of calls that raise; a kept answer becomes final; a release never raises; `PredGateway` implements `CallMeter` |
| `pred_free` | 1 client, 1 id, 2 workers, 2 pred calls, 2 publications; help, create, status, unlaunchable commands | every result told is recorded; no publication is recorded twice; requests are answered, the exit completes |
| `pred_charged_records` | 1 client, 2 ids, 2 publications; solve and create | violated: a released call stays charged |
| `episode_ledger` | 3 calls (solve, submit), 2 generations, 1 action, 1 pred call | a ledger assembled while nothing is under way is accepted; the runner's own parts always are; the episode ends |
| `episode_pred_bound` | 4 pred calls, 2 actions | violated: an episode within its pred budget is refused |
| `top50_run` | 3 rules, shortlist of 2, 5 candidate files (two valid; repeated, foreign, short), 2 generations, 2 actions, 2 runs | a rankable file is valid; a crash loses one episode at most; `Top50Runner` implements `RunRecord`; a run ends |
| `scoring_queue` | 2 uploads of any kind, 2 mishaps, 2 pull requests per entry | nothing is lost or misfiled, what is public is backed; `ScoringQueue` implements `SubmissionLifecycle`; submissions leave the queue and are proposed |
| `public_site` | 3 names, 6 contents (two runs of a model, a tie, no model, a list, a forbidden word), 4 pushes, 1 failed run | the site shows the best entries of one moment of the branch, guarded; it catches up |
| `process_control` | 2 children, 9 characters, chunks of 3, a bound of 5 | the capture is exact, nothing survives, every run and the exit end |
| `verifier` | 2 source and 3 target configurations, 2 values; every instance, rule, sense, witness and failure | what is accepted is a bug of the rule; what exposes one is not turned down |

**Bounds.** Two clients and two workers are enough for every pairwise race, and
the services have no step that looks at three of them; three ids let a fallback
use a fresh id while two others are in play. At the gateway
one id published twice is enough for a retry that overtakes its request, and two
ids compete for the counters, the cache and the workers. `Limit` 2 is the benchmark's own
limit. One solve call at the gateway makes a worker that gives its charge back
race with one that needs it. In an episode, three calls let one be reserved, one recorded and one
judged around the same copy, and one shell action is enough to have calls
outlive it; the allowances keep the order of the benchmark's budget. In a run,
two triage generations and actions allow a refused commit before a valid one
and a budget that ends first; a shortlist of two has a first, a last and a
missing episode; two runs meet on one file. Two uploads let one be scored while
the other arrives, and one block the other; two mishaps stop a job and disturb
its repetition. Three names and four pushes allow two entries of a model, an
edit and a revert while a run is at work and another waits. Nine characters are
three chunks, of which the head's limit cuts the first and the tail's the last
two; two children allow one to leave the group and one to stay. Two source
configurations and two values give an optimal and a worse solution, or a solution
and none; the third target configuration lets the witness differ from two optima
that come back differently. Symmetry is used in safety runs only. All these systems stop for
good (a session is left, an episode has its ledger, a certificate its verdict,
the bounds on runs, mishaps, pushes and pull requests are reached), so deadlock is not checked; the liveness
properties say what may not be left undone.

**Fairness.** Service threads, workers and an owner that has begun to exit are
scheduled; a pred process ends within its timeout, the verifier within its
solver's. Clients owe nothing: the agent's shell may kill them. Nobody owes the
start of an exit. The runner's thread is scheduled, and a command ends by itself
or at its timeout (`WF(Loop \/ Assemble)`); the services owe it nothing there. A
started process runs or dies (`WF(Process)`); nobody owes a restart. The daily
schedule starts a job and a job goes on (`WF(Job)`); the maintainer and the
uploaders owe nothing. A publishing run that is due starts and a run at work ends,
in success or failure (`WF(ProgressOfRuns)`); nobody owes a push or a manual
start. The threads of a process run are scheduled and the watchdog fires
(`WF(Run)`, which holds the timeout, and `WF(Read)`), while the processes may do
anything, or nothing for ever. Mishaps are bounded: what is scored for ever under endless
faults is nobody's promise.

**Premises.** `QuietLedgerAccepted` speaks of an episode whose calls were over
when the ledger was begun, without a released reservation and within the
contract's bound on pred records. Each premise is there because the ledger can
be refused without it: a call in flight is counted by one copy and not by
another; a released call is the first divergence below, too many calls the
second. `KeptIsFinal` does not say that an answer is final from the moment it is
kept: a retry that overtook it went past the table before, and writes its own
answer and record later. What it says is that nobody joins those (`Busy`), and
that the id is final when they are done. `CompleteAtClose` and
`RecordedOncePerPublication` except `abandoned` records, which stay open, with
their charge, beside the record of the second handling. `MovedIsDecided` and `PublicIsBacked` say "or still incoming" because
an object that is half moved, or a detail torn by a job that died, is scored
again. `RankedUnlessBlocked` excludes entries behind one the guard refuses: the
guard runs in the loop under `bash -e` (`score-from-r2.yml:150`), so a refused
entry ends the step, and since entries are kept it does so every day.
`SiteCatchesUp` excepts a failed run, which nobody repeats before the next push.
`RunsEnd` excepts a child that left the group with the pipe open, and
`NothingSurvives` one that left the group: the comment at
`process_control.py:171-173` ("no process can survive") holds for the group only.
`AcceptedIsReal` needs `SolversAreRight`: when a wrong rule elsewhere in the
library misleads the default solver, a mismatch is a bug of that rule and not of
the one named. `ExposedIsAccepted` excepts calls that failed, and sources solved
by way of the rule under test, which `verify.py:402` rules out for targets that
are ILP and for no others.

**Divergences found** (quoted under `findings`):

- `ChargedRecordsMatchStatus`: a released call stays marked as charged, and the
  contract refuses the ledger.
- `PredLedgerFits`: the contract allows one pred record more than there are
  shell actions (13), the README promises 24 pred calls.

Seen while modelling, without a run of their own: a submit command that times
out sends its submission again as a client error, because `TimeoutError` is an
`OSError` (`agent_submit.py:68`), and both requests may be counted; data that
makes the contract's code raise (a triage that is a string) counts as retryable
(`backend_score.py:212`) and is scored again every day; a `TimeoutExpired` of
`reduce`, `evaluate` or `extract` leaves `verify()` (`verify.py:199`) although the
docstring of `Inconclusive` (77-81) says a timeout is a rejection; an exception
between `Popen` and the wait, such as a reader that cannot be started, leaves the
process running (`process_control.py:150-161`); a target that is a decision
problem has no value, so a suboptimal extraction from it passes the witness check
(`verify.py:318`); a retry that overtakes its
request at the gateway is run and recorded twice under one id
(`evidence_budget.py:287`), which the contract refuses as a reused id; an entry
merged while a job runs is proposed again, because the job compares with the
commit it checked out (`score-from-r2.yml:134-141`); a closed or reverted entry
gets a new pull request every day (154), though 129-130 call the step
idempotent; `--official` says it requires a non-test run
(`backend_score.py:298-299`), but tests are scored; the contract bounds the
messages by the generations (`top50_contract.py:148`), while the loop adds one
per command of an answer (`top50_runner.py:596-606`); a run started on the
output of an earlier one replaces it at the first checkpoint, complete or not;
the commit event carries no number but is counted by the next one, so triage
must end right after the commit, as it does; a session without any shell action
would record refused actions for as long as the model asks for them, because its
counter is never used (`top50_runner.py:607-610`).

## 4. Proofs

`SubmitSession_proofs` proves, for any sets of clients and ids, any payloads and
any limits:

- `TypeCorrect`: `Spec => []TypeOK`;
- `LedgerSafe`: the budget, at most one attempt per request, ledger and kept
  answers agree;
- `ClientsToldTheTruth`: `Spec => []ToldTheTruth`;
- `Refinement`: `Spec => ImplementsJudge`.

The argument is one inductive invariant, `IInv`. What clients were told is not
inductive alone: an answer travels from the kept table to `reply`, to `outbox`
and to `answer`, and may rest in any of them, so `AnswersTrue` says that an
answer in any of these places is true of the ledger, and each step only copies
one or appends to the ledger in a way that keeps earlier answers true
(`"exhausted"` stays true because an episode that is over stays over).
`ServiceOK` ties the service's control point to the claimed request, `ClientOK`
ties a client's answer to its id. The refinement needs `IInv` for one case: a
fresh verdict is only given to a request that has no attempt.

`PredGateway_proofs` proves, for any clients, ids and limits and any finite pool
of workers (`GatewayAssumption`; the code's pool has a fixed number of threads):

- `TypeCorrect`; `CountersMatchLedger` (`NoReservationLeaks`);
  `NothingRunsAtClose` (`CompleteAtClose`); `OnceRecorded`
  (`RecordedOncePerPublication`); `ResultsRecorded` (`EveryResultIsRecorded`);
- `KeptStays`: `Spec => KeptIsFinal`; `ReleasesAreBacked`
  (`ReleaseNeverRaises`);
- `Refinement`: `Spec => ImplementsMeter`.

`Shape` says what each thread may rely on at each step: a worker between its
record and the record's completion owns an open record of its own request
(`OwnRecord`), and no two own the same one (`Ownership`). The counters then
balance step by step: a cost passes from the counter to the worker, from the
worker to its record, and back by way of a release, and in each case one of the
counted sets loses what another gains. An open record has an owner unless an
exception abandoned it (`RunningIsOwned`, `AbandonedOK`), and the exit waits for
the owners. `OnceRecorded` is a count: of what was published under an id, part
waits in the inbox, part is queued, part is with workers that have not recorded
it yet, and part has its record, and these together are never more than the
publications (`InOnePlace`). Each step moves one from one part to the next, or,
where a file is overwritten or cancelled, drops one; only a publication adds one.
A worker whose handling raised goes back before its record, which is why the
record it leaves is not counted. What a client reads is true because every place
an answer rests in is backed by a record or the cache (`AnswersBacked`), and what
is handled came from a client that used its id (`Provenance`).

The refinement's hard step is the one that appends a charged record: the meter
lets a call begin only when the limit has room, and the code looked at the limit
two steps earlier. The counter is within the limit (`WithinAllowance`, an
invariant) and counts the records that are charged, less those given back, plus
the reservations under way (`CountersMatchLedger`); the worker that appends holds
one of these, so the records alone are fewer than the limit (`Room`). That the
records given back are as many as the workers that gave them back is `Ownership`
again: no two complete the same record (`MeterCharges`). `ReleaseCost` and
`FinishRecord` are `End`, except that completing a record that was given back
changes nothing the meter sees; all other steps are stutters. From the same two
facts, `ReleasesAreBacked`: the call a worker is about to give back is one the
meter charges, so the counter is not at zero and `release` does not raise.

`ProcessControl_proofs` proves, for any set of children, any number of characters
and any sizes of a chunk and of the bound (`ProcessAssumption`):

- `TypeCorrect`; `NothingLeftBehind` (`NothingSurvives`); `NothingIsLost` (a
  result counts all that was ever written); `CaptureExact` (`CaptureIsExact`).

A kill happens once and at one moment. That it is enough is the invariant
`GroupKilled`: a group in which nothing runs stays so, because only what runs can
fork, and a fork inherits the group. `Drained` says the same of the pipe: once
nobody holds it and all was read, nothing more is written. The capture is exact
because at every moment the head is the first characters taken (`HeadExact`) and
the tail, its chunks joined, the last of those the head had no room for
(`TailExact`). That `Trim` keeps just these, wherever the boundaries of the
chunks fall, is `TrimSpec`, proved by induction on the number of chunks; that
cutting, appending and cutting again is cutting once is `LastOfLast`.

`EpisodeLedger_proofs` proves, for any calls and any allowances with at least one
shell action (`AllowanceAssumption`, `CallAssumption`, `ActionsAssumption`):

- `TypeCorrect`; `OwnPartsAccepted` (`OwnPartsAlwaysAccepted`); `QuietAccepted`
  (`QuietLedgerAccepted`).

The invariant relates each copy to what it was taken from, and that to the
counters. The runner's records agree with their counters in the loop and may be
one more at its end (`GenerationsOK`, `ShellOK`); only the newest action may lack
its observation (`ActionsSeen`); only the last attempt may be accepted
(`AttemptsOK`); each charged call has a record or is still reserved (`Balanced`).
What the runner owns stands still while the ledger is assembled (`Copies`); the
services' part does when no call is under way (`QuietCopies`). The allowance of
shell actions must be positive: `hard_exhausted` (`top50_runner.py:607-610`)
takes a counter for spent only when it has been used.

`Top50Runner_proofs` proves, for any inventory, candidates, shortlist size,
positive triage budget (`TriageBudget` demands it, `top50_runner.py:46-55`) and
number of runs (assumption `RunnerAssumption`):

- `TypeCorrect`: `Spec => []TypeOK`;
- `CrashSafe`: `Spec => []LosesAtMostOneEpisode`;
- `RankableAccepted`: `Spec => []RankableIsValid`;
- `FileRefinement`: `Spec => ImplementsRecord`.

For the second, the invariant says how far the file may be behind the process. Between
checkpoints it is `UpToDate`: it knows nothing of this run, or exactly the
episodes so far. While a record is on its way it is `AlmostUpToDate`: at most the
newest episode is missing, and the record on its way (`result`, then
`temporary`) is this run's and holds all of them. A crash keeps the file, so
what it loses is that one episode. The refinement follows because only
`ReplaceOutput` writes the file: over an earlier run's record it is the
abstraction's `Replace`, over this run's checkpoint its `Continue`, and
`AlmostUpToDate` leaves no third case; a completed record has as many episodes
as the shortlist (`Complete`).

That a rankable file is valid rests on triage: its events are numbered by their
positions but for the commit, which comes last (`EventsInOrder`); every unit of
the counters has its event, and at most one event has none (`CountersAgree`); so
the contract's bound on events holds although the commit is one more. What is
frozen was validated (`ShortlistOK`), the episodes follow it in order
(`EpisodesFollow`), and a record that says "rankable" was built where all of this
held (`RecordsValid`).

`ScoringQueue_proofs` proves, for any set of uploads, any kinds and any bounds
(`QueueAssumption`):

- `TypeCorrect`, `UploadsKept` (`NothingLost`), `MovesAreDecided`
  (`MovedIsDecided`), `PublicAlwaysBacked` (`PublicIsBacked`);
- `Refinement`: `Spec => ImplementsLifecycle`.

The properties speak of R2 and GitHub, the invariant has to speak of the job's
copies. Until the moves, what the job works on is still incoming and everything
else it holds is as in R2 (`CopiesOK`); so an upload can only replace the detail
of a submission that will be scored again, whatever torn file it carries. A
terminal status is earned (`StatusesOK`), from the moves on a `FINISHED` one has
its detail in R2 (`SyncedOK`), and the object that is being moved has a copy at
the destination of its status (`LoopOK`). An entry, in R2 or with the job, exists
only for a submission that may have one and is backed (`EntriesOK`). The
refinement has three steps that are no stutter: `Deposit`, `Copy` (the second
copy, after a job that died before removing the original, finds its stage
already reached) and `Propose`.

`Verifier_proofs` proves, for instances of any size (`VerifierAssumption`):

- `TypeCorrect`; `AcceptedOnlyIfReal` (`AcceptedIsReal`); `ExposedNotRejected`
  (`ExposedIsAccepted`).

The invariant `Gathered` says what `verify()` knows at each point and which
solver it came from. Three facts carry the argument: all optima of an instance
have one value (`OptimaAgree`), brute force therefore knows one answer
(`BruteForce`), and by a right rule every optimum of the target comes back as
that answer (`RightRuleRoundTrip`, `OptimumExists`). `OptimumExists` holds
because an instance has finitely many configurations, of which one is best
(`Extremes`).

`PublicSite_proofs` proves, for any names of entry files and any files under them
(`SiteAssumption`):

- `SiteShowsTheBest`: `Spec => []BoardIsBest`.

A run works on the branch as it was at one moment (`IsBranch` of `checkout`) and
the guard looked at those files, so what remains is what `build_board` makes of
them. Every finite set has a sorted sequence (`SortedExists`, by induction on its
size, taking out the greatest element), so `Sorted` returns one. The loop of
`_dedup_best` knows after each entry the best entry of every model so far
(`BestSoFar`, by induction on the number of entries, from the equations of the
fold in `FoldSteps`); hence `DedupSpec`, and with `ReadableSpec` the
specification of the board, `BoardSpec`.

What these proofs need of the data is stated in the modules that need it. The
library states induction and recursion with operators as parameters, which the
provers cannot instantiate, so both are stated for sets and functions:
`Induction` (a set that holds 0 and with each number the next holds them all), by
way of `LeastNatural`, and `Recursion` (there is a function with a given value at
0 and a given step). `Extremes` finds the greatest and the least value of a
function on a finite set, `CountAppend` counts the records of a ledger that grows.

Model-checked only: the two divergences, which do not hold; and all liveness
(`RunsEnd`, `PhaseEnds`, `RunEnds`, `SiteCatchesUp`, `LeavesQueue`, `RankedUnlessBlocked`,
`ServedUnlessStopped`, `ListedIsAnswered`, `ExitCompletes`), which is out of the
prover's reach, as is `ENABLED`.

## 5. What is not modelled

Wording, formatting and the arithmetic of `used`/`remaining` inside answers; the
environment variables, ownership and modes of the directories; requests that are
no regular file or too large (they are `"malformed"`); a service thread killed by
a failing write of an answer; a power failure that loses a checkpoint
already renamed (`_persist` does not sync the file, `top50_runner.py:428-429`;
`Crash` is the death of the process); the size of the pool's backlog. Prompts, messages
and token usage; the types, names, sizes and settings the contract checks; the
arithmetic of a score. Releases and rounds (a submission of another round is a
`"refused"` one), the authentication of uploads, the names of entries; other keys
and the link between a file's name and its entry. Parsing of pred's answers
(exponents of numbers included), floating-point tolerance, and the label a
verdict carries. The relation between a rule's name and the pair of problems it
joins. Process identities, a pid that is used again, resource limits. Preview
windows of observations. Entry points, preflight, calibration, audit, the
site and the container: sequential glue or presentation.

## 6. Plan

Done: the submission service with its abstraction and proofs; the counters and
the pred gateway with its abstraction and proofs; the episode ledger with the
contract's predicates and its proofs; the whole run with its abstraction and
proofs; the scoring queue with its abstraction and proofs; the board and the
public site with their proofs; process control with its proofs; the verifier with
its proofs. Every safety property a passing run checks is also a theorem. The types of the
gateway and of the verifier are theorems only (`TypeCorrect`).

Left: the bound on messages, preview windows, calibration, and a service thread
that dies on a failing write.
