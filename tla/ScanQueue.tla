------------------------------ MODULE ScanQueue ------------------------------
(***************************************************************************)
(* The validation-run queue: the scan_jobs table and everything that       *)
(* writes a row of it while the row is being executed                      *)
(* (backend/app/services/scan_worker.py, the DELETE handler of             *)
(* backend/app/api/scans.py and the two places that execute a job without  *)
(* claiming it).                                                           *)
(*                                                                         *)
(* Database sessions run at READ COMMITTED and no row carries a version,   *)
(* so a session that has loaded a row keeps deciding on the copy it        *)
(* loaded.  A handler with an await between its SELECT and its commit is   *)
(* therefore two actions here, and `view', `stale' and `cancelling' hold   *)
(* what each open session loaded.  The one SELECT ... FOR UPDATE, in       *)
(* _claim_next_pending_job, is a single action.                            *)
(*                                                                         *)
(* Left out, because no statement of the code decides on them: runner_id,  *)
(* claimed_at, heartbeat_at, completed_at, error texts, failure_code and   *)
(* the findings themselves.  A lease is "none", "live" or "expired".       *)
(***************************************************************************)
EXTENDS Integers, FiniteSets

CONSTANTS
    Jobs,         \* the rows of scan_jobs
    Bundled,      \* those whose target is a review bundle
    Workers,      \* processes that run run_polling_loop
    Direct,       \* executions that never claim: background and orchestration
    Users,        \* DELETE requests that may be in flight at once
    Targets,      \* the targets of a job
    MaxAttempts,  \* scan_jobs.max_attempts
    ReapLimit,    \* the LIMIT of the reaper's query
    None          \* no job, no status

ASSUME BundledAssumption == Bundled \subseteq Jobs
ASSUME BudgetAssumption == MaxAttempts \in Nat \ {0}
ASSUME ReapLimitAssumption == ReapLimit \in Nat \ {0}
ASSUME DistinctAssumption == Workers \intersect Direct = {}
ASSUME NoneAssumption == None \notin Jobs

Executors == Workers \union Direct

Active   == {"pending", "running"}
Terminal == {"completed", "failed", "cancelled"}
Status   == {"absent"} \union Active \union Terminal

Lease == {"none", "live", "expired"}

\* Where an execution stands.  "claimed": it knows the job's id only;
\* "loaded": it holds the row and has passed the status check; "loop": at the
\* head of the loop over the targets; "mapping": past the last cancellation
\* check; "projecting": its result is committed and the evidence graph is being
\* rebuilt; "reaping": a reaper between its SELECT and its commit.
Pc == {"idle", "claimed", "loaded", "loop", "scanning", "mapping", "projecting",
       "reaping"}

VARIABLES
    status,         \* scan_jobs.status, "absent" before the row is inserted
    attempt_count,  \* scan_jobs.attempt_count
    lease,          \* scan_jobs.lease_expires_at
    scanned,        \* targets a tool run has visited: it returned, whatever its
                    \* outcome, and has its artifact row
    pc,             \* control state of each executor
    on,             \* the job each executor works on
    view,           \* the status in each executor's session
    todo,           \* targets the execution has still to visit
    stale,          \* the rows a reaper loaded, by what it will do to them
    cancelling,     \* the job each DELETE request loaded as active
    gen             \* the attempt_count each worker's claim was given (history)

rowVars == <<status, attempt_count, lease, scanned>>
execVars == <<pc, on, view, todo, gen>>
vars == <<status, attempt_count, lease, scanned,
          pc, on, view, todo, stale, cancelling, gen>>

Selection == [retry : SUBSET Jobs, fail : SUBSET Jobs]
NoSelection == [retry |-> {}, fail |-> {}]

TypeOK ==
    /\ status \in [Jobs -> Status]
    /\ attempt_count \in [Jobs -> 0..MaxAttempts]
    /\ lease \in [Jobs -> Lease]
    /\ scanned \in [Jobs -> SUBSET Targets]
    /\ pc \in [Executors -> Pc]
    /\ on \in [Executors -> Jobs \union {None}]
    /\ view \in [Executors -> Status \union {None}]
    /\ todo \in [Executors -> SUBSET Targets]
    /\ stale \in [Workers -> Selection]
    /\ cancelling \in [Users -> Jobs \union {None}]
    /\ gen \in [Executors -> 0..MaxAttempts]

Init ==
    /\ status = [j \in Jobs |-> "absent"]
    /\ attempt_count = [j \in Jobs |-> 0]
    /\ lease = [j \in Jobs |-> "none"]
    /\ scanned = [j \in Jobs |-> {}]
    /\ pc = [e \in Executors |-> "idle"]
    /\ on = [e \in Executors |-> None]
    /\ view = [e \in Executors |-> None]
    /\ todo = [e \in Executors |-> {}]
    /\ stale = [w \in Workers |-> NoSelection]
    /\ cancelling = [u \in Users |-> None]
    /\ gen = [e \in Executors |-> 0]

-----------------------------------------------------------------------------
(* Sessions.                                                               *)

\* The unit of work emits no UPDATE for an attribute set to its loaded value.
Write(j, loaded, new) ==
    status' = [status EXCEPT ![j] = IF loaded = new THEN @ ELSE new]

\* _extend_job_lease, as part of the commit that follows it.
ExtendLease(j) == lease' = [lease EXCEPT ![j] = "live"]

\* The execution returns or its process dies: the session is gone.
Leave(e) ==
    /\ pc' = [pc EXCEPT ![e] = "idle"]
    /\ on' = [on EXCEPT ![e] = None]
    /\ view' = [view EXCEPT ![e] = None]
    /\ todo' = [todo EXCEPT ![e] = {}]
    /\ gen' = [gen EXCEPT ![e] = 0]

Executing(e, j) ==
    /\ on[e] = j
    /\ pc[e] \in {"claimed", "loaded", "loop", "scanning", "mapping", "projecting"}

-----------------------------------------------------------------------------
(* Requests.                                                               *)

\* create_scan and create_validation_run under the managed runtime: the row
\* is left for a polling worker.
Submit(j) ==
    /\ status[j] = "absent"
    /\ status' = [status EXCEPT ![j] = "pending"]
    /\ UNCHANGED <<attempt_count, lease, scanned, stale, cancelling, execVars>>

\* The same under the self-hosted runtime: run_scan_job is queued as a
\* background task of the request and has only the job's id.
SubmitInline(d, j) ==
    /\ status[j] = "absent"
    /\ pc[d] = "idle"
    /\ status' = [status EXCEPT ![j] = "pending"]
    /\ pc' = [pc EXCEPT ![d] = "claimed"]
    /\ on' = [on EXCEPT ![d] = j]
    /\ UNCHANGED <<attempt_count, lease, scanned, view, todo, stale,
                   cancelling, gen>>

\* _execute_validation_tool_task: commits a pending row and calls
\* _execute_scan in the same session.  The SELECT there returns the object
\* the session already holds, so the status it checks is always "pending".
SubmitOrchestrated(d, j) ==
    /\ status[j] = "absent"
    /\ pc[d] = "idle"
    /\ status' = [status EXCEPT ![j] = "pending"]
    /\ pc' = [pc EXCEPT ![d] = "loaded"]
    /\ on' = [on EXCEPT ![d] = j]
    /\ view' = [view EXCEPT ![d] = "pending"]
    /\ UNCHANGED <<attempt_count, lease, scanned, todo, stale, cancelling, gen>>

\* cancel_scan: the row is loaded and its status checked ...
CancelRead(u, j) ==
    /\ cancelling[u] = None
    /\ status[j] \in Active
    /\ cancelling' = [cancelling EXCEPT ![u] = j]
    /\ UNCHANGED <<rowVars, execVars, stale>>

\* ... and the status is overwritten, whatever it has become.
CancelWrite(u) ==
    /\ cancelling[u] # None
    /\ status' = [status EXCEPT ![cancelling[u]] = "cancelled"]
    /\ cancelling' = [cancelling EXCEPT ![u] = None]
    /\ UNCHANGED <<attempt_count, lease, scanned, stale, execVars>>

\* ingest_review_harness_output: the outcome of a scan run elsewhere is
\* recorded on a bundle's job, with an artifact for its target.  The handler
\* never looks at the status, so what was loaded decides nothing.
IngestHarnessOutput(j) ==
    /\ j \in Bundled
    /\ status[j] # "absent"
    /\ \/ /\ status' = [status EXCEPT ![j] = "completed"]
          /\ scanned' = [scanned EXCEPT ![j] = Targets]
       \/ /\ status' = [status EXCEPT ![j] = "failed"]
          /\ UNCHANGED scanned
    /\ UNCHANGED <<attempt_count, lease, stale, cancelling, execVars>>

-----------------------------------------------------------------------------
(* The polling loop.                                                       *)

\* Mutation: the claim does not look at the attempts.
ClaimableOverBudget(j) == status[j] = "pending"

\* The WHERE clause of the claim.
Claimable(j) == status[j] = "pending" /\ attempt_count[j] < MaxAttempts

\* Mutation: only the first attempt is counted.
FirstAttemptOnly(j) == IF attempt_count[j] = 0 THEN 1 ELSE attempt_count[j]

NextAttempt(j) == attempt_count[j] + 1

\* _claim_next_pending_job.  The query takes the oldest row that no other
\* transaction has locked; two claims in flight at once skip each other's
\* row, so any claimable row may be the next one to be claimed.
Claim(w, j) ==
    /\ pc[w] = "idle"
    /\ Claimable(j)
    /\ status' = [status EXCEPT ![j] = "running"]
    /\ attempt_count' = [attempt_count EXCEPT ![j] = NextAttempt(j)]
    /\ ExtendLease(j)
    /\ pc' = [pc EXCEPT ![w] = "claimed"]
    /\ on' = [on EXCEPT ![w] = j]
    /\ gen' = [gen EXCEPT ![w] = NextAttempt(j)]
    /\ UNCHANGED <<scanned, view, todo, stale, cancelling>>

\* _record_runner_heartbeat while run_scan_job runs: it extends the lease of
\* the job it was started for as long as that job is running, whoever runs it.
\* (A commit that comes after the job was requeued leaves a lease on a pending
\* row, which nothing reads.)
Heartbeat(w) ==
    \E j \in Jobs :
        /\ Executing(w, j)
        /\ status[j] = "running"
        /\ ExtendLease(j)
        /\ UNCHANGED <<status, attempt_count, scanned, execVars, stale, cancelling>>

\* Time passes lease_expires_at: the executor died, or its heartbeats fail or
\* are late.  Only a running row's lease is ever looked at.
LeaseExpires(j) ==
    /\ status[j] = "running"
    /\ lease[j] = "live"
    /\ lease' = [lease EXCEPT ![j] = "expired"]
    /\ UNCHANGED <<status, attempt_count, scanned, execVars, stale, cancelling>>

\* Mutation: the query forgets the status.
LapsedInAnyStatus(j) == lease[j] \in {"expired", "none"}

\* Mutation: the query finds only the rows without a lease.
LapsedUnleased(j) == status[j] = "running" /\ lease[j] = "none"

\* The WHERE clause of the reaper.
Lapsed(j) == status[j] = "running" /\ lease[j] \in {"expired", "none"}

\* Mutation: one retry too many.
ExhaustedLate(j) == attempt_count[j] > MaxAttempts

Exhausted(j) == attempt_count[j] >= MaxAttempts

\* _reap_stuck_jobs, the query.  It takes no lock, and what will be done to a
\* row is decided on the attempt_count loaded here.
ReapSelect(w) ==
    /\ pc[w] = "idle"
    /\ \E S \in SUBSET {j \in Jobs : Lapsed(j)} :
          /\ S # {}
          /\ Cardinality(S) <= ReapLimit
          /\ \/ S = {j \in Jobs : Lapsed(j)}
             \/ Cardinality(S) = ReapLimit
          /\ stale' = [stale EXCEPT ![w] =
                [retry |-> {j \in S : ~Exhausted(j)},
                 fail  |-> {j \in S : Exhausted(j)}]]
    /\ pc' = [pc EXCEPT ![w] = "reaping"]
    /\ UNCHANGED <<rowVars, on, view, todo, cancelling, gen>>

\* _reap_stuck_jobs, the commit: every loaded row is written in one
\* transaction, with no second look at its status or lease.
ReapCommit(w) ==
    /\ pc[w] = "reaping"
    /\ status' = [j \in Jobs |-> CASE j \in stale[w].fail  -> "failed"
                                   [] j \in stale[w].retry -> "pending"
                                   [] OTHER                -> status[j]]
    /\ lease' = [j \in Jobs |-> IF j \in stale[w].retry THEN "none" ELSE lease[j]]
    /\ stale' = [stale EXCEPT ![w] = NoSelection]
    /\ Leave(w)
    /\ UNCHANGED <<attempt_count, scanned, cancelling>>

-----------------------------------------------------------------------------
(* _execute_scan.                                                          *)

\* Mutation: the loaded status is not checked.
LoadUnchecked(e) ==
    /\ pc[e] = "claimed"
    /\ pc' = [pc EXCEPT ![e] = "loaded"]
    /\ view' = [view EXCEPT ![e] = status[on[e]]]
    /\ UNCHANGED <<rowVars, on, todo, gen, stale, cancelling>>

\* The row is loaded; a job that is neither pending nor running is skipped.
Load(e) ==
    /\ pc[e] = "claimed"
    /\ IF status[on[e]] \in Active
       THEN /\ pc' = [pc EXCEPT ![e] = "loaded"]
            /\ view' = [view EXCEPT ![e] = status[on[e]]]
            /\ UNCHANGED <<on, todo, gen>>
       ELSE Leave(e)
    /\ UNCHANGED <<rowVars, stale, cancelling>>

\* The runtime, policy, tool or credential checks refuse the job.
PreflightFail(e) ==
    /\ pc[e] = "loaded"
    /\ Write(on[e], view[e], "failed")
    /\ Leave(e)
    /\ UNCHANGED <<attempt_count, lease, scanned, stale, cancelling>>

\* The lease is extended and the job set running: an UPDATE of the status
\* only where the session had loaded it as pending.
Start(e) ==
    /\ pc[e] = "loaded"
    /\ Write(on[e], view[e], "running")
    /\ ExtendLease(on[e])
    /\ pc' = [pc EXCEPT ![e] = "loop"]
    /\ view' = [view EXCEPT ![e] = "running"]
    /\ todo' = [todo EXCEPT ![e] = Targets]
    /\ UNCHANGED <<attempt_count, scanned, on, stale, cancelling, gen>>

\* Head of the loop: the row is refreshed and a cancelled job abandoned.  No
\* other status stops the execution; the lease is extended in every case.
CheckTarget(e) ==
    /\ pc[e] = "loop"
    /\ todo[e] # {}
    /\ IF status[on[e]] = "cancelled"
       THEN Leave(e) /\ UNCHANGED lease
       ELSE /\ ExtendLease(on[e])
            /\ pc' = [pc EXCEPT ![e] = "scanning"]
            /\ view' = [view EXCEPT ![e] = status[on[e]]]
            /\ UNCHANGED <<on, todo, gen>>
    /\ UNCHANGED <<status, attempt_count, scanned, stale, cancelling>>

\* _scan_target returns: findings and artifact are committed, the lease is
\* extended again.  A run that timed out or exited with an error returns, too,
\* with an artifact that says so.  A run that raises is Fail: it leaves a blocked
\* or failed artifact at most, which `scanned' does not count.
ScanTarget(e) ==
    /\ pc[e] = "scanning"
    /\ \E t \in todo[e] :
          /\ scanned' = [scanned EXCEPT ![on[e]] = @ \union {t}]
          /\ todo' = [todo EXCEPT ![e] = @ \ {t}]
    /\ ExtendLease(on[e])
    /\ pc' = [pc EXCEPT ![e] = "loop"]
    /\ UNCHANGED <<status, attempt_count, on, view, stale, cancelling, gen>>

\* The refresh after the loop, the last look at the status.
FinalCheck(e) ==
    /\ pc[e] = "loop"
    /\ todo[e] = {}
    /\ IF status[on[e]] = "cancelled"
       THEN Leave(e)
       ELSE /\ pc' = [pc EXCEPT ![e] = "mapping"]
            /\ view' = [view EXCEPT ![e] = status[on[e]]]
            /\ UNCHANGED <<on, todo, gen>>
    /\ UNCHANGED <<rowVars, stale, cancelling>>

\* run_semantic_mapping has returned and the result is committed.
Complete(e) ==
    /\ pc[e] = "mapping"
    /\ Write(on[e], view[e], "completed")
    /\ pc' = [pc EXCEPT ![e] = "projecting"]
    /\ view' = [view EXCEPT ![e] = "completed"]
    /\ UNCHANGED <<attempt_count, lease, scanned, on, todo, gen, stale, cancelling>>

\* _rebuild_evidence_projection_after_scan has returned.
Project(e) ==
    /\ pc[e] = "projecting"
    /\ Leave(e)
    /\ UNCHANGED <<rowVars, stale, cancelling>>

\* Mutation: a failed target ends the job with what there is.
FailPartial(e) ==
    /\ pc[e] \in {"loop", "scanning", "mapping", "projecting"}
    /\ Write(on[e], view[e], "completed")
    /\ Leave(e)
    /\ UNCHANGED <<attempt_count, lease, scanned, stale, cancelling>>

\* The three except clauses: a timeout, an unavailable tool, any other error
\* (and a job without targets).  None of them looks at the status again, not even
\* for an error of the rebuild, which comes after the commit of "completed".
Fail(e) ==
    /\ pc[e] \in {"loop", "scanning", "mapping", "projecting"}
    /\ Write(on[e], view[e], "failed")
    /\ Leave(e)
    /\ UNCHANGED <<attempt_count, lease, scanned, stale, cancelling>>

\* The process is killed, or the session breaks and the exception leaves
\* run_scan_job: what was not committed is lost, the row stays as it is.
Crash(e) ==
    /\ pc[e] # "idle"
    /\ Leave(e)
    /\ stale' = [w \in Workers |-> IF w = e THEN NoSelection ELSE stale[w]]
    /\ UNCHANGED <<rowVars, cancelling>>

-----------------------------------------------------------------------------
\* One step of an execution that has its job in hand.
Step(e) ==
    \/ Load(e)
    \/ PreflightFail(e)
    \/ Start(e)
    \/ CheckTarget(e)
    \/ ScanTarget(e)
    \/ FinalCheck(e)
    \/ Complete(e)
    \/ Project(e)
    \/ Fail(e)

Next ==
    \/ \E j \in Jobs : Submit(j) \/ LeaseExpires(j) \/ IngestHarnessOutput(j)
    \/ \E j \in Jobs, d \in Direct : SubmitInline(d, j) \/ SubmitOrchestrated(d, j)
    \/ \E j \in Jobs, u \in Users : CancelRead(u, j)
    \/ \E u \in Users : CancelWrite(u)
    \/ \E j \in Jobs, w \in Workers : Claim(w, j)
    \/ \E w \in Workers : Heartbeat(w) \/ ReapSelect(w) \/ ReapCommit(w)
    \/ \E e \in Executors : Step(e) \/ Crash(e)

Spec == Init /\ [][Next]_vars

(***************************************************************************)
(* Fairness.  A worker's loop runs on: after every job it polls again, its *)
(* reaper is due again after reap_interval_seconds, and a killed worker is *)
(* restarted by its container platform.  An execution takes its next step  *)
(* (every target runs under a timeout).  Leases are wall-clock deadlines.  *)
(* A reaper is not killed in the same window for ever: strong fairness of  *)
(* its commit.  Nothing makes a user cancel or a process crash.            *)
(***************************************************************************)
Fairness ==
    /\ \A w \in Workers :
          /\ WF_vars(\E j \in Jobs : Claim(w, j))
          /\ WF_vars(ReapSelect(w))
          /\ SF_vars(ReapCommit(w))
    /\ \A e \in Executors : WF_vars(Step(e))
    /\ \A j \in Jobs : WF_vars(LeaseExpires(j))
    /\ \A u \in Users : WF_vars(CancelWrite(u))

FairSpec == Spec /\ Fairness

-----------------------------------------------------------------------------
(* Safety.                                                                 *)

\* Every attempt of a job is handed to at most one worker, and no worker
\* holds an attempt the row has not counted: what the row lock in
\* _claim_next_pending_job really guarantees, crashes, stale reapers and
\* late workers included.
AttemptUnique ==
    \A w1, w2 \in Workers, j \in Jobs :
        /\ Executing(w1, j)
        /\ Executing(w2, j)
        => /\ gen[w1] \in 1..attempt_count[j]
           /\ gen[w1] = gen[w2] => w1 = w2

\* A running row always carries a lease, so that whatever happens to the
\* process that runs it the reaper's first condition finds it.
RunningIsLeased ==
    \A j \in Jobs : status[j] = "running" => lease[j] # "none"

\* A job reported completed has visited every target: a tool run returned for it
\* and left its artifact, even if attempts were interrupted, reaped or run twice.
\* (A visit may have failed: only an error that is raised fails the job.)
CompletedCoversTargets ==
    \A j \in Jobs : status[j] = "completed" => scanned[j] = Targets

\* A session that may still write the job's status: an execution past its
\* status check (until the rebuild after its result, whose error fails the job), a
\* reaper before its commit, a request about to cancel.
Held(j) ==
    \/ \E e \in Executors : Executing(e, j) /\ pc[e] # "claimed"
    \/ \E w \in Workers : j \in stale[w].retry \union stale[w].fail
    \/ \E u \in Users : cancelling[u] = j

\* Once a job has ended and the sessions that loaded it before are gone, it
\* keeps its status for good: no execution, reaper or request picks it up.
\* Review bundles are left out: a late harness report overwrites any status.
TerminalIsFinal ==
    [][\A j \in Jobs \ Bundled :
          status[j] \in Terminal /\ ~Held(j)
          => status'[j] = status[j] /\ ~Held(j)']_vars

\* A finished job comes back to life in two ways only: a reaper commits a row
\* it loaded before the job ended, or an execution that loaded the row as
\* pending sets it running.
RevivedByStaleSession ==
    [][\A j \in Jobs :
          status[j] \in Terminal /\ status'[j] \in Active
          => \/ \E w \in Workers : pc[w] = "reaping" /\ j \in stale[w].retry
             \/ \E e \in Executors :
                   pc[e] = "loaded" /\ on[e] = j /\ view[e] = "pending"]_vars

\* A pending row whose attempts are used up: no query selects it any more.
Stranded(j) == status[j] = "pending" /\ attempt_count[j] >= MaxAttempts

\* With a single polling worker no job is ever stranded.
NoJobStranded == \A j \in Jobs : ~Stranded(j)

-----------------------------------------------------------------------------
(* Refinement: the attempts of a job, seen as tickets of a ledger.         *)

Ledger == INSTANCE AttemptLedger WITH
    issued <- attempt_count,
    ticket <- [w \in Workers |-> [job |-> on[w], no |-> gen[w]]]

\* Whatever the sessions do to a row, its attempts are issued one by one, each
\* to one worker, and never more than MaxAttempts of them.
ImplementsLedger == Ledger!LedgerSpec

-----------------------------------------------------------------------------
(* Liveness, under FairSpec.                                               *)

\* Every job that is waiting or running ends: the reaper finds the jobs of
\* crashed workers and the attempts are bounded.
EveryJobSettles ==
    \A j \in Jobs : status[j] \in Active ~> status[j] \in Terminal

\* With several workers a job ends or is stranded; it never waits elsewhere.
SettlesOrStrands ==
    \A j \in Jobs : status[j] \in Active ~> (status[j] \in Terminal \/ Stranded(j))

=============================================================================
