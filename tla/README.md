# Formal models of ThreatGenix

TLA+ models of the parts of the ThreatGenix backend in which several processes work
on the same rows: the two work queues, the application security review with its
bundles, its decision and its dispatch to GitHub, the acceptance of risks, the
validation run of a threat and the hand-off of a remediation. TLC checks the models on
small instances; TLAPS proves their safety properties
for every instance, or for every instance of the kind a theorem names. Paths
below are relative to `src/threatgenix/backend/app/`.

## 1. The system

ThreatGenix is a FastAPI application over PostgreSQL with one or more worker
containers. API requests, background tasks of the API process, polling workers,
schedulers started as commands and webhooks of GitHub and of ticket systems share
nothing but the database. Sessions run at READ COMMITTED, no row has a version
column and `expire_on_commit` is off, so a session decides on the copies it loaded and
writes, at its commit, the attributes that differ from what it loaded. Only the
queries that claim a scan job, claim an orchestration task or recover a stale task lock
the rows they read, the dispatch to GitHub is claimed by a conditional UPDATE, and some
requests of the threat editor serialise themselves by an advisory lock. That is where
the hard behaviour is: between a SELECT and the commit that depends on it, anybody may
commit.

| Component | State | Operations | Interacts with | Hard behaviour | Correct when |
|---|---|---|---|---|---|
| Validation-run queue: `services/scan_worker.py`, `api/scans.py`, `services/review_harness_ingest.py` | `scan_jobs` (status, attempt_count, lease), execution artifacts, findings | submit, claim, heartbeat, reap, execute over the targets, cancel, late report | scheduler, reviews, threat agents and orchestration insert rows; the validation run reads them | leases expiring under live workers, reapers and cancellations acting on old copies, crashes between commits | attempts issued once and bounded; completed means every target was visited; an ended job stays ended; every job ends |
| Orchestration queue: `services/orchestration_worker.py`, `api/orchestration.py` | job and task status, attempt_count, started_at; copies per session | create, claim, execute, finish, retry, recover stale, repair, roll up, run by request | the polling loop of the scan worker; a tool task inserts and executes a scan job | roll-up on stale copies, late workers, failure of the finishing transaction | the job's status agrees with its tasks; outcomes stand; retries bounded; the job ends |
| Application review: `services/application_review*.py`, `services/review_scanner_enqueue.py` | review status, idempotency key, decision and stored replay | create, bundle, scan, rebuild, evaluate, singly or by the orchestration endpoint | bundles, scan jobs, context index, GitHub | every stage consults the transition table on the copy loaded first | the status moves by the table; what it says is there; a completed review has its decision |
| Review bundles and context: `services/application_review_bundles.py`, `services/application_review_context.py` | ready and superseded bundles; active and stale context entries | submit, return to, supersede; rebuild, search | review, scanner jobs, decision | two submissions or two rebuilds at once | exactly one ready bundle |
| Risk acceptance: `services/application_risk_acceptance.py` | acceptance status, revocation, audit trail | grant, revoke, sweep | context index; the expiry command | sweep against revocation, the trail rewritten from a copy | it counts until it lapses or is revoked, never again; no event is lost |
| GitHub dispatch: `services/github_pr_integration.py`, `api/github_integration.py` | dispatch row of a completed review, repository link | queue, requeue, claim, comment, commit status, outcome | review, GitHub | requeue while an older decision is on its way, failures between the two posts | dispatched means shown |
| Threat agents: `services/threat_agent_orchestration.py` | validation run, its trace job, remediation run | propose, approve, reject, start, refresh; draft, confirm, record, attach | scan queue, orchestration queue, ticket systems | decisions and refreshes on old copies, deliveries whose answer is lost | results follow the owner's scan jobs, a run concludes on ended jobs, a plan is decided once, a run concludes, one issue per hand-off |
| Validation scheduler: `services/validation_scheduler.py` | next_run_at of schedules | read due schedules, enqueue, advance | inserts scan jobs | two schedulers read the same due rows | one run for each due time |
| Remediation webhooks: `services/remediation_*webhooks.py` | consumed deliveries | receive | ticket systems | redelivery | a delivery takes effect once |
| Password reset, e-mail verification | one-time tokens | issue, consume | users | two requests consume one token | a token works once |
| Threat catalogue and editing, tools and sandbox, evidence projection, modelling and documents, LLM clients, reports, frontend | derived or request-local data | transformations | — | sequential, or serialised by advisory locks | — |

The hazards of all of these, each at the line where it bites, are listed in
`PROJECT.json` with the properties that cover them.

How the modelled components meet: a review's scanner jobs and a validation run's
controlled jobs are rows of the scan queue, which `ReviewIntake` and `ValidationRun`
see as inserted and, in the latter, as ended; acceptances reach the decision through the
context index, so `ReviewDecision` extends the abstract `AcceptanceLife` that
`RiskAcceptance` is shown to implement; the statuses `ReviewIntake` moves between are
those of `ReviewTransitions`, of which `ReviewDecision` needs three; the trace job of a
validation run is a row the orchestration runner may roll up.

## 2. The modules

| Module | What it is |
|---|---|
| `ScanQueue` | the scan_jobs table and everything that writes a row of it while it is executed |
| `AttemptLedger` | what claiming promises, without rows, leases or sessions; `ScanQueue` implements it |
| `OrchestrationQueue` | one orchestration job, its tasks and the processes that execute them |
| `ReviewTransitions` | the review statuses and their transition table |
| `ReviewIntake` | one review from creation over bundles and scans to its decision, as far as status, bundles and jobs go |
| `AcceptanceLife` | what the rest of the system may rely on about an acceptance; `RiskAcceptance` implements it |
| `RiskAcceptance` | the acceptance rows with their audit trails, revocations and sweeps |
| `ReviewDecision` | context index, evaluation with replay, dispatch row and delivery of one pull-request review |
| `ValidationRun` | one validation run, its scan jobs and its trace job |
| `RemediationHandoff` | one remediation, its requests and the issues at the provider |
| `MC…` | the instances of each module for TLC |
| `…Proofs` | the theorems about `ScanQueue`, `OrchestrationQueue`, `ReviewIntake`, `RiskAcceptance`, `ReviewDecision`, `ValidationRun` and `RemediationHandoff` |

Definitions whose comment begins with "Mutation:" are plausible bugs. They are used
by no specification: each is put in place of the definition that follows it to see
that a property notices.

Throughout, a request is cut at every commit and wherever it awaits something between
reading and writing; `Written`, `Write`, `Merge` and `Changed` are the unit of work of
SQLAlchemy: an attribute assigned the value it was loaded with is not in the UPDATE.
It matters: an execution that loaded its row as running and sets it running does not
undo a cancellation, one that loaded it as pending does.

### ScanQueue

| Variable | Code |
|---|---|
| `status`, `attempt_count`, `lease` | the columns of `scan_jobs`; the lease is none, live or expired |
| `scanned` | targets that were visited: a tool run returned and left its execution artifact. A run that timed out or exited with an error returns too, with an artifact that says so (`scan_worker.py:651`), and counts as a visit |
| `pc`, `on`, `todo` | where each execution of `_execute_scan` or reaper stands, on which job, with which targets to go |
| `view` | the status in the execution's session, which decides whether an assignment becomes an UPDATE |
| `stale` | the rows a reaper loaded, divided into those it will retry and those it will fail |
| `cancelling` | the job a DELETE request found active |
| `gen` | history: the attempt number a worker's claim was given |

Executors are of two kinds. `Workers` run `run_polling_loop`: claim, heartbeat,
execute, reap. `Direct` executors run a job they never claimed: a background task of
the API process under the self-hosted runtime (`SubmitInline`), or the orchestration
worker that inserted the row itself (`SubmitOrchestrated`). Both of the latter may run
beside a worker that claimed the same pending row.

| Action | Code |
|---|---|
| `Submit`, `SubmitInline`, `SubmitOrchestrated` | `create_scan`, `create_validation_run`, `_execute_validation_tool_task` |
| `Claim` | `_claim_next_pending_job`, one transaction with a row lock |
| `Heartbeat`, `LeaseExpires` | `_record_runner_heartbeat`, the clock |
| `ReapSelect`, `ReapCommit` | `_reap_stuck_jobs`, its query and its commit |
| `Load`, `PreflightFail`, `Start`, `CheckTarget`, `ScanTarget`, `FinalCheck`, `Complete`, `Project`, `Fail` | `_execute_scan` and `_scan_target`, cut at every commit and every refresh. `Project` is the evidence rebuild after the commit of `completed`: it is still inside the `try`, so an error there makes a failed job of the completed one |
| `CancelRead`, `CancelWrite` | `cancel_scan` |
| `IngestHarnessOutput` | `ingest_review_harness_output` |
| `Crash` | a killed process, or an exception that leaves `run_scan_job` |

A row that `ingest_scan_evidence` inserts is completed from the start, is in nobody's
queue and is left out.

### OrchestrationQueue

Jobs share no row, so the module has one. A polling worker opens a fresh session to
recover and claim, and another one to execute; a request (`Callers`) loads the job with
all its tasks first and keeps these copies in its session until it returns. Nothing refers
to what a worker's recovery has loaded, but job and tasks refer to each other, so its claim
may still find these copies in the session or load the rows anew: `Recover` keeps or drops
them.

| Variable | Code |
|---|---|
| `row`, `job` | status, attempt_count and started_at of the tasks; status of the job |
| `pc`, `own` | control state of each executor and the task it claimed |
| `sess`, `jsess` | the copies of tasks and job in its session's identity map |
| `pend` | what an open finishing transaction has flushed and will commit |
| `ran` | history: tasks whose present claim is older than the staleness window |

| Action | Code |
|---|---|
| `Call`, `Return` | the `run_job` endpoint and the end of `run_orchestration_job` |
| `Recover` | `recover_stale_orchestration_tasks` and its commit |
| `Claim`, `NothingToClaim` | `claim_next_orchestration_task` and its commit, or the rollback of a worker that finds nothing |
| `Load`, `Finish`, `Commit` | `execute_claimed_task` to its first commit, with the handler's outcome |
| `FinishError`, `Repair` | its except branch, `_mark_running_task_after_finalize_error` |
| `WindowPasses`, `Crash` | the clock, a killed process |

Finishing is two actions because its transaction is open while the roll-up reads the
sibling tasks. Its event row keeps a key-share lock on the job, which hides the job
from the `FOR UPDATE SKIP LOCKED` queries (`FinishingOpen`) but not from another
finishing transaction: two tasks may finish side by side, each reading the other as
running. Handlers are their outcome: returned, blocked or raised.

### ReviewIntake

| Variable | Code |
|---|---|
| `status`, `bundle`, `jobs` | the review's status, the status of each bundle content, the scan jobs whose target it is |
| `pc`, `flow` | the stage of each request; whether it came by the orchestration endpoint and may go on |
| `copy`, `on`, `found`, `seen` | the review's status in its session, the bundle it names, what its lookup returned, the ready bundles it will supersede |

| Action | Code |
|---|---|
| `Lookup`, `Insert` | `create_application_review` and the fallback of `_create_review` on a unique violation |
| `Begin` | the endpoints of the single stages |
| `FindBundle`, `SelectReady`, `StoreBundle` | `create_review_bundle` with `supersede_ready_review_bundles`, cut at its queries |
| `PlanScan`, `EnqueueScan` | `enqueue_review_scanner_jobs` |
| `Rebuild`, `Evaluate` | what the rebuild and the evaluation do to the status |
| `Crash` | a process killed between two commits |

`BundleConflict` is the two unique indexes of the table. It includes an order that is
easy to miss: the unit of work sends UPDATEs in the order of the primary keys, so when an
old bundle whose id is the smaller returns, it turns ready while the one it supersedes
still is, and the request fails.

### ReviewDecision

| Variable | Code |
|---|---|
| `review` | status, decision and `deterministic_decision_replay` of the row |
| `index` | the active context entries each handler's last rebuild left |
| `finding`, `acceptance`, `lapsed`, `link` | the finding a scan recorded, the acceptance of it, whether the repository link is active |
| `dispatch`, `github` | the dispatch row; the decisions that the comment and the commit status show |
| `pc`, `webhook`, `copy`, `read`, `draft`, `row` | the requests: stage, kind, the review they loaded, what they selected, decided and loaded of the dispatch |
| `events` | bound of the model |

| Action | Code |
|---|---|
| `Begin` | the webhook, `/context-index/rebuild`, `/decision/evaluate` |
| `RebuildRead`, `RebuildCommit` | `rebuild_review_context_index` |
| `EvaluateRead`, `EvaluateFlush`, `EvaluateCommit` | `evaluate_application_review_decision` and `enqueue_github_pr_review_dispatch` |
| `Claim`, `Prepare`, `Comment`, `Post`, `Outcome` | `process_github_review_dispatch`; an HTTP request that fails may have taken effect |
| `World` | findings, the acceptance, suspension and return of the installation |

Row locks are modelled here (`HoldsReview`, `Sending`), because claim, posts and outcome
are one transaction and nobody else can touch the dispatch row meanwhile. The evidence
is one high-severity finding and one acceptance; the other signals of `_decide` do not
interact with time or with other requests.

### RiskAcceptance and AcceptanceLife

| Variable | Code |
|---|---|
| `row` | status, whether the revocation's fields are set, the actions of the audit trail |
| `lapsed` | whether `expires_at` has passed |
| `loaded`, `doing` | the rows each session holds and what it does with them |

`Grant`, `RevokeLoad`/`RevokeWrite` and `SweepLoad`/`SweepWrite` are
`create_…`, `revoke_…` and `expire_application_risk_acceptances`, the last for all its
rows in one commit. In `AcceptanceLife` an acceptance is granted, lapses and ends; between
the two endings it may still change. `ReviewDecision` needs no more.

### ValidationRun

| Variable | Code |
|---|---|
| `run` | status, `domain_agent_results`, `evidence_refs` and conclusion of the run |
| `trace` | the run's orchestration job: status and the statuses of its tasks |
| `scan` | the scan jobs created for it, named after the tool and the approval that created them |
| `pc`, `copy`, `read` | the requests, the rows they loaded, the scan jobs a refresh selected |

| Action | Code |
|---|---|
| `Propose`, `Start`, `Approve`, `Reject` | `create_threat_scan_plan`, `create_threat_validation_run`, `approve_…`, `reject_threat_scan_plan` |
| `Request`, `ReadScans`, `WriteRefreshed` | `get_threat_validation_run` and `refresh_validation_run_from_controlled_scans` |
| `Settle`, `Cancel` | what `ScanQueue` does to the jobs in the end |
| `RunOrchestration` | `run_orchestration_job` on the trace job |

A job belongs to whoever approved the plan (line 1910), the run to whoever proposed it,
and the refresh selects the jobs of the run's owner (line 1315). `Colleagues` are the
requests by members of the organisation other than the owner: their jobs are not
`InScope`, the refresh does not find them (`Outcome`) and fails their tools.

### RemediationHandoff

| Variable | Code |
|---|---|
| `remediation` | status, `handoff_delivery_status`, ticket, idempotency key and number of evidence references |
| `issues` | the issues at the provider, each with the key it was opened for |
| `step`, `mine`, `sent` | the requests, the row they loaded, what they sent and got |

`Confirm`, `Deliver`, `Commit` are `confirm_remediation_handoff` with its call of the
provider, `Record` its branch for a ticket opened elsewhere, `Attach`
`attach_remediation_evidence`, `DraftFix` `create_threat_remediation_run`. The provider is
external: it may open the issue and its answer may be lost.

## 3. What is checked

| Run | Instance | Shows |
|---|---|---|
| `scan_safety` | 2 workers, 1 direct executor, 1 cancellation, 1 job, 2 targets, 2 attempts | `TypeOK`; `AttemptUnique`: an attempt number is held by one worker; `CompletedCoversTargets`: a completed job has visited every target; `TerminalIsFinal`: an ended job nobody holds never changes; `RevivedByStaleSession`: the only two ways an ended job comes back; `ImplementsLedger`; `SettlesOrStrands`: a job ends or is stranded, it waits nowhere else |
| `scan_single` | 1 worker, 2 jobs of which one belongs to a review bundle, a reaper that takes one row at a time, 1 cancellation, crashes | `NoJobStranded`, `EveryJobSettles` |
| `orch_callers` | 2 workers and a request on a job of 2 tasks, 1 attempt | `EndedJobHasNoOpenTask`, `CompletedJobMeansCompletedTasks`; `OutcomeStands`: a completed or blocked task is never written again, a failed one only by the process that outlived its window |
| `orch_retry` | 2 workers, 2 attempts, fairness | `TypeOK`, `JobStaysEnded`, `AttemptsOnlyGrow`, `EndsOrIsLeftBehind`: a job ends, or is left in one of the three ways the property names |
| `review_intake` | 2 requests, 2 bundle contents | `TypeOK`; `OneReadyBundle`; `StatusHasBacking`: what a status says is there; `OnlyStaleCopiesLeaveTable` |
| `review_decision` | 2 requests, 5 requests and outside events in all | `TypeOK`; `DispatchedShowsOneDecision`: comment and commit status agree once the row says dispatched; `CompletedIsDecided`; `SplitByStaleEvaluation`: decision and replay part only in an evaluation whose copy has another decision than the row |
| `validation_run` | a request of the owner and one of a colleague, 2 tools | `TypeOK`; `ResultsAreTrue`: completed only with a completed job of the owner, failed only with a failed job or a colleague's; `ConcludesOnEndedJobs`; `LostByStaleCopyOnly`; `DecidedAgainByStaleCopyOnly`; `PartedByRunnerOrStaleCopy` |
| `validation_live` | a request of the owner and one of a colleague, 1 tool, fairness | `RunConcludesOrCancelled` |
| `risk_acceptance` | 3 handlers, 2 acceptances | `TypeOK`; `ImplementsLife`; `RevocationKept`: who revoked it is never lost and it never counts again; `UnrevokedByStaleSweep`; `TrailLostByStaleWriter` |
| `remediation_handoff` | 2 requests, 2 keys, 2 issues, 2 references | `HandoffTypeOK`; `PartedByStaleCopyOnly`; `SecondIssueByStaleCopyOnly`; `RefLostByStaleCopyOnly` |
| `review_dispatch` | as `review_decision` | a violation, section 5 |
| `orch_window` | 1 worker, 1 task, 2 attempts | a violation, section 5 |

Many of these rows have no version column and no lock, so the strongest statement that
holds is not that nothing goes wrong but who alone can make it go wrong: a request
whose copy is older than the row. That is what the properties named `…StaleCopy…`,
`…StaleWriter…` and `…StaleSession…` say, and what an optimistic version check would
turn into the absolute form. They are not vacuous in either direction: their mutants
let an up-to-date request do the damage, and the runs contain the stale ones.

**Bounds.** `ScanQueue`, `OrchestrationQueue`, `ReviewIntake`, `RiskAcceptance` and
`ValidationRun` are finite as they are: a worker starts an execution only by spending an
attempt, a bundle content has one row, a lookup bounds the jobs, a session holds one copy
of a row. In `ReviewDecision` `MaxEvents` counts requests and outside events: five let two
deliveries overlap while the finding arrives, the acceptance is granted and it lapses.
In `RemediationHandoff` `MaxIssues` and `MaxRefs` are two: the delivered issue and the
second one, an entry and the one that overwrites it. Two attempts are the least with a
retry and a last attempt; two workers or requests the least that race; two targets
or tools the least at which something is partly done; two bundles the least with a
supersession, and they come in both orders of their ids because either may be first.
`ReapLimit` (25 in the code) is one in both runs: `scan_single` has more lapsed jobs than a
reaper's query returns, so a job beyond the limit has to be found by a later round.
That a reaper may hold several rows at once is left to the theorems, which hold for any limit.
Three handlers in `risk_acceptance` let a revocation, a sweep and a second revocation be
open at once. Symmetry is used in the runs without liveness only. One
request of a colleague and one of the owner let an approval, a rejection or a refresh of
either race with the other's.

**Deadlock** is an error in `review_intake`. Elsewhere the system really comes to rest:
an empty poll writes no row, a run that has concluded is only read, every acceptance
may be revoked, or a bound of the model is reached.

**Fairness.** Claims and reaper queries are weakly fair because the polling loop
returns to them after every job and its reaper is due again after
`reap_interval_seconds`; a killed worker is restarted by its platform. Steps of an
execution are weakly fair because every target and every handler runs under a timeout.
Leases and the staleness window are wall-clock deadlines, so their passing is weakly
fair. The reaper's commit is strongly fair: a worker may be killed between query and
commit, but not at that very point every time. Commits of a cancellation in progress
are weakly fair. In `ValidationRun` the jobs settle, which is what `EveryJobSettles` and
`SettlesOrStrands` say of the queue; somebody goes on polling the run, as its rationale says
("Poll this validation run until tool evidence is collected or execution fails"); and
such a request gets through in the end although any one may die. Submissions, other
requests, heartbeats and crashes are not fair.

## 4. What is proved

The theorems hold for any values of the constants under the assumptions the modules
name (bundled jobs are jobs, no process is a worker and a direct executor at once, there
is a tool, `None` is no value, bounds are natural numbers; in `ReviewDecision` the
requests are finitely many, because a snapshot counts entries). Where a theorem needs
more it says so in its statement. `Alone`, in the statement of the theorems named
`Lone…`, says that there is at most one request (or executor) at a time; it may crash and
others may follow it.

| Module | Theorems |
|---|---|
| `ScanQueueProofs` | `TypeCorrect`, `LeasedCorrect` (a running row carries a lease), `LedgerImplemented`, `AttemptUniqueCorrect`, `CoverageCorrect`, `RevivedCorrect`, `TerminalCorrect`, `StrandingCorrect` (only a reaper whose selection is older than another worker's claim strands a job); for one polling worker `NoJobStrandedCorrect` |
| `OrchestrationQueueProofs` | `TypeCorrect`; for `MaxAttempts <= 2` `AttemptsAreKept`; for `Callers = {}` `EndedJobsStayEnded`; for `MaxAttempts = 1` `NoOpenTaskAtTheEnd`, `CompletedIsComplete`, `OutcomesStand`; for one process and any `MaxAttempts` `LoneProcessEndsWell`, `LoneOutcomesStand`, `LoneJobStaysEnded`, `LoneAttemptsGrow` |
| `ReviewIntakeProofs` | `TypeCorrect`, `InvHolds`, `OneBundleIsReady`, `StatusIsBacked`, `TableIsKept`, `LoneRequestsKeepTable` |
| `RiskAcceptanceProofs` | `TypeCorrect`, `InvHolds`, `RevocationIsKept`, `OnlyStaleSweepsUnrevoke`, `OnlyStaleWritersLoseTrail`, `Refinement`, `LoneRequestsKeepRecords` |
| `ReviewDecisionProofs` | `TypeCorrect`, `CompletedAreDecided`, `DeliveriesExclude`, `OneDecisionIsShown`, `OnlyStaleCopiesMislead`, `OnlyStaleEvaluationsSplit`, `DecisionsAreGrounded`, `LoneRequestsAgree` |
| `ValidationRunProofs` | `InvHolds`, `TypeCorrect`, `ResultsKeepTrue`, `ConclusionsWait`, `OnlyStaleCopiesLose`, `OnlyStaleCopiesDecideAgain`, `OnlyRunnerOrStaleCopiesPart`, `LoneRequestsKeepRun` |
| `RemediationHandoffProofs` | `InvHolds`, `TypeCorrect`, `OnlyStaleCopiesPart`, `OnlyStaleCopiesLoseRefs`, `OnlyStaleCopiesOpenIssues`, `LoneRequestsBackStatus`, `LoneRequestsKeepRefs` |

The arguments:

* `ScanQueue`. `TypeOK` alone is not inductive, since an execution reads the row of
  `on[e]`; `Sessions` adds what the control state says. `LedgerStep` maps every step to a
  step of the ledger: `Claim` issues an attempt, whatever leaves an execution gives one
  up, everything else stutters. No lease, status or stale copy appears in the ledger,
  which is why nothing written to the rows meanwhile can break it, and `AttemptUnique`
  follows from it. `Coverage` is the invariant of the loop over the targets.
  `LoadedActive` limits the ways in which an ended job is revived. `TerminalCorrect` needs
  `Sessions` only: who is not in `Held` has to load the row first, and every load checks
  the status. `Unused` says that a worker between two polls holds no selection; a row
  becomes pending with its attempts used up only in `ReapCommit`, and a sole worker's
  selection still has attempts left because it does not claim while it reaps.
* `OrchestrationQueue`. `Inv` says what a session holds at each stage and that a finishing
  transaction owns its task's row; it carries the type invariant for all constants.
  `AttemptsAreKept` rests on a bound, not on locks: with two attempts a claim on a copy,
  however old, counts at least as far as the row of a task that may still be claimed. With
  three a copy may be two claims behind and take one back. `EndedJobsStayEnded` is false
  with requests: the final roll-up of a request may set an ended job running. With
  one attempt, `OnceInv` says that a task is claimed once in its life, so an end which a
  copy shows is the row's own (`Settled`), a task has one owner (`Owners`), and a roll-up
  on any copies is right. The owner of a task that was recovered has outlived the window,
  and is the only one who may still write to it: `OutcomesStand`. This is the reason why the default of one attempt is safe and
  a higher one is not, unless one process works at a time: then `SoleInv` says that
  every copy shows status and attempts of its row as the open transaction, if any, will
  leave it (`Final`), so the owned task is running, the job open, and the roll-up one of
  the rows themselves. Even so a retry may be recovered before its window has passed
  (section 5).
* `ReviewIntake`. `OneReadyBundle` is kept by `StoreBundle` because every ready bundle
  but the request's own is one it selected, or the flush is refused. `StatusHasBacking`
  needs `Backed(copy[h])`: what a copy or a lookup says is there never goes away.
  `TableIsKept` adds that a request writes only what the table allows from its copy.
* `RiskAcceptance`. What a session holds was, when it was loaded, a row its job could
  end (`Rooted`, active and lapsed for a sweep). `Refinement` maps both writers to
  `EndAcceptance` and everything else to a stutter.
* `ReviewDecision`. `Session` says what a copy, however old, still tells of the row: a
  review that had its decision has one for good, and a dispatch row that was found is
  still there. `Delivery` says what the claim, held from `Claim` to `Outcome`, is worth:
  one delivery at a time, the row queued, GitHub showing what this request has posted.
  An evaluation that changes nothing but the decision merges it with whatever the row has
  become (`UpdateReview`), which keeps a completed review decided. `Grounded` says of row,
  copies and drafts alike that a decision follows from the snapshot it is stored with:
  it passes no finding, verifies only under an acceptance active in the snapshot, and
  blocks an accepted finding only after the date has passed, which is what makes a replay
  of an old decision no worse than the evidence it names. The attempt to prove
  `SplitByStaleEvaluation` in an earlier form, that the copy has another *replay* than the
  row, failed: with three requests the replay can come back to the value the copy has
  while the decision has moved on. TLC confirmed it on a larger instance than that of the
  run, and the property now speaks of the decision.
* `ValidationRun`. A request writes what it computed from its copies, so what holds of
  the run has to hold of every copy, at any later time; it does because a scan job never
  leaves the end it has come to and an approval finds its own jobs not yet created. That a
  tool fails for the owner's failed job or for a colleague's job only follows from `Outcome`:
  a refresh selects exactly the owner's jobs among those its copy names. `ConclusionsWait`
  needs `RefreshWhole`: a refresh that concludes writes the results it concluded from.
* `RemediationHandoff`. A request that reads its delivery as delivered has opened the
  issue it will name for the key it will write; a ticket id is never cleared
  (`TicketInv`), so a row that reads as delivered always has one.
* The `Lone…` theorems of these five modules. `Fresh` says that the copy of a sole request
  still is the row, or agrees with it in what matters. The property about stale copies
  then becomes the absolute one: nothing is lost, taken back or decided twice. What the
  code loses, it loses to concurrency alone, not to crashes, failures or retries.

Every safety property of a passing run is stated by a theorem, some under the condition
the table names. Model-checked only is
liveness, which is out of the prover's reach (`EveryJobSettles`, `SettlesOrStrands`,
`EndsOrIsLeftBehind`, `RunConcludesOrCancelled`). `StaleHasOutlivedWindow` and
`DispatchedMeansShown` are violated; `OnlyStaleCopiesMislead` proves in which two ways
only the latter is.

## 5. What the code does otherwise

* `review_dispatch`. `process_github_review_dispatch`
  (`services/github_pr_integration.py:536`) says "Send one queued GitHub dispatch and
  record success or failure on the row." What it sends is the decision of the session's own
  copy of the review: `db.get` at line 541 returns what the session already holds. When
  another evaluation requeues the row for a new decision after this session has
  evaluated and before it claims, the old decision is posted and the row, which names the
  new one, is marked dispatched. No later claim selects it; the commit keeps the old
  status until the next event of the pull request whose evaluation changes the decision.
  One request is enough for the same end: if the installation is suspended while a
  delivery's evaluation looks for the link, and back before the claim, the review has a
  new decision, the dispatch row is still queued for the old one, and the new one is
  sent. The other way is an evaluation that loaded the row while it was queued and
  commits after it was dispatched: its assignment of `queued` is then no change, so the
  row takes the new decision and stays dispatched.

* `orch_window`. `recover_stale_orchestration_tasks`
  (`services/orchestration_worker.py:272`) says "Fail or requeue running tasks that outlived
  the worker heartbeat window." It compares `started_at` with the cutoff, and a failed
  attempt keeps its `started_at` when the task returns to pending
  (`_mark_task_failed_or_retry`), as does the claim of the next attempt (line 138). The retry
  of an attempt that ran for longer than the window is stale when it is claimed: the next
  poll of any worker fails or requeues it while its own worker executes it.

The other runs pass, and say precisely how far the code goes. Behaviours they contain
that a reader of the code may not expect:

* Scan queue. When a lease expires under a live worker the job is requeued and executed
  beside it; the first execution stops for nothing but `cancelled`. A cancellation, or an
  outcome, overwrites the one that was committed after the status was read. Two reapers
  that select the same lapsed job can put it back to pending after its last attempt was
  claimed; no query selects it then, and `SettlesOrStrands` shows that it is the only place
  where a job can get stuck. An error of the evidence rebuild after a completed scan is
  meant to be swallowed ("Best-effort", line 906), but its query of the threat model is
  outside the function's own `try`: an error there marks the completed job failed. A target
  whose tool timed out or exited with an error counts as visited.
* Orchestration queue. With several workers a job may stay running for ever: the last two
  tasks finish at the same time, each rolled up with the other one still running, or a
  late worker's error returns a task to pending after its last attempt was claimed
  (`EndsOrIsLeftBehind`). A third way is rare: the worker's claim uses the copy its own
  recovery loaded, which has a `started_at`, after another worker's recovery has removed it
  from the row; the UPDATE does not set it, and if that worker dies no recovery ever selects
  the task. With one attempt a worker that outlived its window may still turn its failed
  task into a completed one after the job has failed; with retries a late worker may also
  overwrite the outcome of a task of a completed job.
* Reviews. A request that lags behind takes the review back to the stage it knows
  (`OnlyStaleCopiesLeaveTable`). Concurrent enqueues insert a scan job twice. Two rebuilds
  side by side leave two active generations of entries, so a revoked acceptance may be
  honoured until the next rebuild. A decision is replayed after the acceptance it
  rested on has lapsed, until a rebuild records the lapse (the test at
  `tests/test_application_review_decision.py:289` starts from an index that records it
  and from no replay). A queued dispatch is sent by the
  webhook that queued it or not before the next event of the same head.
* Acceptances. A sweep that selected the row before it was revoked writes "expired" over
  "revoked" and drops the revocation from the audit trail; the revoker's columns stay.
* Validation runs. The refresh fails a tool whose job "was not found in this tenant and
  threat model scope" (`services/threat_agent_orchestration.py:1355`); what it asks for is the
  owner, not the tenant (lines 1315 and 1322). The routes let any member of the organisation
  approve a plan, and the jobs then belong to the approver: at the first refresh all their
  tools fail, the run concludes as failed or on the review's evidence, and what the jobs find
  never reaches it (`ResultsAreTrue` and `ConcludesOnEndedJobs` say for whose jobs they hold;
  `tests/test_threat_agent_orchestration.py:378` expects the failed tool beside a completed
  job). A cancelled scan job of the owner keeps its run running for ever. A second approval
  creates the jobs again and orphans the first ones; a slower refresh overwrites results
  and evidence of a concluded run. Running the trace job through the orchestration
  endpoint gives it an end while the run is running.
* Hand-offs. A second confirmation while the first delivery is in flight, or after its
  answer was lost, opens a second issue. Concurrent additions lose evidence references.

## 6. Not modelled

* Of the scan queue: findings rows and their mapping to threats (a retry inserts
  findings again), tool runs themselves and what they come to, the deletion of an account
  or a threat model, which deletes its jobs. Of the orchestration queue: the idempotent
  creation of a job, runner registrations.
* Of the reviews: `block_inflight_github_reviews` cannot be reached, because its caller
  looks for an active link (`api/github_integration.py:116`, `github_pr_integration.py:165`)
  and then asks whether it is not; the limit of 50 entries of the evaluation's search; the
  signals of `_decide` other than the finding and its acceptance; the once-only
  consumption of delivery ids, several heads of one pull request.
* Of the threat agents: the downgrade that a rerun makes to an earlier run, the choice of
  tools and targets, the branch of a refresh whose threat has been deleted, and that an approval in the self-hosted runtime starts no inline
  scan as a direct start does (`api/threat_agent_orchestration.py:203`), so that its jobs wait
  for a polling worker.
* Scheduler, remediation webhooks and one-time tokens are in the plan. Catalogue editing is
  serialised by advisory locks; tools, LLM clients, documents, reports and the frontend
  have no shared state of their own: they are most of the source and none of its
  concurrency, and the models cover about a twentieth of all lines.

## 7. Plan

1. `Scheduler` composed with `ScanQueue`: two schedulers, one due schedule; and the
   composition of `ValidationRun` with `ScanQueue` in place of `Settle`.
2. `OneTimeToken` and `WebhookInbox`, small: consume once.
3. Rerun of validations, idempotent creation in `OrchestrationQueue`, findings in
   `ScanQueue`.
4. The signals of `_decide` as an operator, checked against a reference table.
