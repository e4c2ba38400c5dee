-------------------------- MODULE OrchestrationQueue --------------------------
(***************************************************************************)
(* One durable orchestration job: its row, its tasks, and the processes    *)
(* that claim, execute, recover and roll them up                           *)
(* (backend/app/services/orchestration_worker.py).  Jobs share no row, so  *)
(* one job shows every interaction.                                        *)
(*                                                                         *)
(* Two kinds of process execute tasks.  A polling worker opens a fresh     *)
(* session to recover and claim and another one to execute.  A caller, an  *)
(* API request to run the job, does everything in the request's session,   *)
(* where the job and all its tasks were loaded before it started and stay  *)
(* referenced: later SELECTs find the rows but keep the loaded copies      *)
(* (expire_on_commit is off), and an UPDATE carries only the attributes    *)
(* that differ from those copies.  `sess' and `jsess' are these copies.    *)
(* Nothing refers to what a worker's recovery has loaded, but the job and  *)
(* its tasks refer to each other: its claim finds these copies still in    *)
(* the session or, if they have been collected, loads the rows anew.       *)
(*                                                                         *)
(* A transaction that finishes a task is open from the flush of the task's *)
(* row to its commit.  Its event row holds a key-share lock on the job, so *)
(* the FOR UPDATE SKIP LOCKED queries of claim and recovery see nothing of *)
(* the job meanwhile, but other tasks may finish at the same time.         *)
(***************************************************************************)
EXTENDS Integers

CONSTANTS
    Tasks,        \* the tasks of the job
    Reasoning,    \* those of kind agent_reasoning
    Workers,      \* processes polling run_one_pending_orchestration_task
    Callers,      \* requests inside run_orchestration_job
    MaxAttempts,  \* orchestration_tasks.max_attempts
    None          \* nothing loaded, nothing pending, no task

ASSUME TasksAssumption == Tasks # {} /\ Reasoning \subseteq Tasks
ASSUME AttemptsAssumption == MaxAttempts \in Nat \ {0}
ASSUME ExecutorsAssumption == Workers \intersect Callers = {}

Executors == Workers \union Callers

\* No statement of the code writes "cancelled" to a task or, therefore, a job.
TaskEnd == {"completed", "failed", "blocked"}
TaskStatus == {"pending", "running"} \union TaskEnd
JobStatus == {"pending", "running", "completed", "failed", "blocked"}

\* started_at: not set, within the staleness window, or past it.
Row == [status : TaskStatus, attempts : 0..MaxAttempts,
        started : {"none", "fresh", "old"}]

ASSUME NoneAssumption ==
    None \notin Tasks \union Row \union JobStatus \union [row : Row, job : JobStatus]

Pc == {"idle", "called", "looping", "claimed", "working", "finishing",
       "repair", "repairing"}

VARIABLES
    row,    \* orchestration_tasks
    job,    \* orchestration_jobs.status
    pc,     \* control state of each executor
    own,    \* the task each executor claimed
    sess,   \* the task copies in each executor's session
    jsess,  \* the job status in each executor's session
    pend,   \* what an open finishing transaction will commit
    ran     \* tasks whose present claim is older than the window (history)

vars == <<row, job, pc, own, sess, jsess, pend, ran>>
tableVars == <<row, job, ran>>

TypeOK ==
    /\ row \in [Tasks -> Row]
    /\ job \in JobStatus
    /\ pc \in [Executors -> Pc]
    /\ own \in [Executors -> Tasks \union {None}]
    /\ sess \in [Executors -> [Tasks -> Row \union {None}]]
    /\ jsess \in [Executors -> JobStatus \union {None}]
    /\ pend \in [Executors -> [row : Row, job : JobStatus] \union {None}]
    /\ ran \in SUBSET Tasks

NothingLoaded == [t \in Tasks |-> None]

\* create_orchestration_job has committed the job with its tasks.
Init ==
    /\ row = [t \in Tasks |->
                [status |-> "pending", attempts |-> 0, started |-> "none"]]
    /\ job = "pending"
    /\ pc = [e \in Executors |-> "idle"]
    /\ own = [e \in Executors |-> None]
    /\ sess = [e \in Executors |-> NothingLoaded]
    /\ jsess = [e \in Executors |-> None]
    /\ pend = [e \in Executors |-> None]
    /\ ran = {}

-----------------------------------------------------------------------------
(* Sessions.                                                               *)

\* What a SELECT of task t, or of the job, returns in e's session.
TaskSeen(e, t) == IF sess[e][t] = None THEN row[t] ELSE sess[e][t]
JobSeen(e) == IF jsess[e] = None THEN job ELSE jsess[e]

\* The row after an UPDATE of the attributes that differ from the loaded copy.
Merge(loaded, new, current) ==
    [a \in {"status", "attempts", "started"} |->
        IF new[a] = loaded[a] THEN current[a] ELSE new[a]]

\* The same for the job, which has one attribute here.
JobAfter(e, new) == IF new = JobSeen(e) THEN job ELSE new

FinishingOpen == \E e \in Executors : pend[e] # None

\* Mutation: one completed task completes the job.
RollUpOnFirst(tasks, current) ==
    LET statuses == {tasks[t].status : t \in Tasks}
    IN  IF "completed" \in statuses THEN "completed"
        ELSE IF current = "pending" THEN "running" ELSE current

\* update_orchestration_job_status: the job's status after a look at its tasks.
RollUp(tasks, current) ==
    LET statuses == {tasks[t].status : t \in Tasks}
    IN  CASE statuses \subseteq {"completed"} -> "completed"
          [] "failed" \in statuses /\ statuses \subseteq TaskEnd -> "failed"
          [] "failed" \notin statuses /\ "blocked" \in statuses
                /\ statuses \subseteq TaskEnd -> "blocked"
          [] OTHER -> IF current = "pending" THEN "running" ELSE current

\* e's session is closed: a worker between two polls, a request that returned.
Leave(e) ==
    /\ pc' = [pc EXCEPT ![e] = "idle"]
    /\ own' = [own EXCEPT ![e] = None]
    /\ sess' = [sess EXCEPT ![e] = NothingLoaded]
    /\ jsess' = [jsess EXCEPT ![e] = None]
    /\ pend' = [pend EXCEPT ![e] = None]

\* e's session stays open with these copies, and may claim next.
Keep(e, tasks, j) ==
    /\ pc' = [pc EXCEPT ![e] = "looping"]
    /\ own' = [own EXCEPT ![e] = None]
    /\ sess' = [sess EXCEPT ![e] = tasks]
    /\ jsess' = [jsess EXCEPT ![e] = j]
    /\ pend' = [pend EXCEPT ![e] = None]

\* e is done with its task: a worker closes its session, a caller goes on.
TaskDone(e, tasks, j) == IF e \in Workers THEN Leave(e) ELSE Keep(e, tasks, j)

-----------------------------------------------------------------------------
(* Polling workers and callers.                                            *)

\* run_job: the request loads the job and all its tasks.
Call(c) ==
    /\ pc[c] = "idle"
    /\ pc' = [pc EXCEPT ![c] = "called"]
    /\ sess' = [sess EXCEPT ![c] = row]
    /\ jsess' = [jsess EXCEPT ![c] = job]
    /\ UNCHANGED <<tableVars, own, pend>>

\* The running window of a task's claim passes; so does that of the
\* started_at it carries.
WindowPasses(t) ==
    /\ row[t].status = "running"
    /\ t \notin ran
    /\ ~FinishingOpen
    /\ row' = [row EXCEPT ![t].started = IF @ = "none" THEN "none" ELSE "old"]
    /\ ran' = ran \union {t}
    /\ UNCHANGED <<job, pc, own, sess, jsess, pend>>

\* Mutation: the query forgets that a task must be running.
StaleInAnyStatus == IF FinishingOpen \/ job # "running" THEN {}
                    ELSE {t \in Tasks : row[t].started = "old"}

\* Mutation: the query takes over the claim's condition on attempts.
StaleWithinBudget ==
    IF FinishingOpen \/ job # "running" THEN {}
    ELSE {t \in Tasks : /\ row[t].status = "running"
                        /\ row[t].started = "old"
                        /\ row[t].attempts < MaxAttempts}

\* The WHERE clause of the recovery.
Stale == IF FinishingOpen \/ job # "running" THEN {}
         ELSE {t \in Tasks : row[t].status = "running" /\ row[t].started = "old"}

\* _mark_stale_running_task, on the session's copy of the task.
Recovered(copy) ==
    IF copy.attempts < MaxAttempts
    THEN [copy EXCEPT !.status = "pending", !.started = "none"]
    ELSE [copy EXCEPT !.status = "failed"]

\* recover_stale_orchestration_tasks and the commit after it.  The job is
\* rolled up only if a stale task was found.
Recover(e) ==
    /\ \/ e \in Workers /\ pc[e] = "idle" /\ Stale # {}
       \/ e \in Callers /\ pc[e] = "called"
    /\ LET copies == [t \in Tasks |-> IF t \in Stale THEN Recovered(TaskSeen(e, t))
                                                     ELSE TaskSeen(e, t)]
           verdict == IF Stale = {} THEN JobSeen(e) ELSE RollUp(copies, JobSeen(e))
       IN  /\ row' = [t \in Tasks |->
                        IF t \in Stale THEN Merge(TaskSeen(e, t), copies[t], row[t])
                                       ELSE row[t]]
           /\ job' = JobAfter(e, verdict)
           /\ Keep(e, copies, verdict) \/ (e \in Workers /\ Leave(e))
    /\ UNCHANGED ran

\* claim_next_orchestration_task and its commit.  started_at is kept if the
\* copy has one.  The table's check constraint aborts an attempt too many.  A
\* worker's session ends here.
Claim(e, t) ==
    /\ pc[e] = "looping" \/ (e \in Workers /\ pc[e] = "idle")
    /\ ~FinishingOpen
    /\ row[t].status = "pending"
    /\ row[t].attempts < MaxAttempts
    /\ job \in {"pending", "running"}
    /\ LET copy == TaskSeen(e, t)
           new == [status |-> "running", attempts |-> copy.attempts + 1,
                   started |-> IF copy.started = "none" THEN "fresh" ELSE copy.started]
       IN  IF new.attempts > MaxAttempts
           THEN Leave(e) /\ UNCHANGED tableVars
           ELSE /\ row' = [row EXCEPT ![t] = Merge(copy, new, @)]
                /\ job' = IF JobSeen(e) = "pending" THEN "running" ELSE job
                /\ ran' = ran \ {t}
                /\ pc' = [pc EXCEPT ![e] = "claimed"]
                /\ own' = [own EXCEPT ![e] = t]
                /\ IF e \in Workers
                   THEN /\ sess' = [sess EXCEPT ![e] = NothingLoaded]
                        /\ jsess' = [jsess EXCEPT ![e] = None]
                   ELSE /\ sess' = [sess EXCEPT ![e][t] = new]
                        /\ jsess' = [jsess EXCEPT ![e] =
                                        IF JobSeen(e) = "pending" THEN "running" ELSE JobSeen(e)]
                /\ UNCHANGED pend

\* A worker that has recovered finds no task to claim, or only locked ones.
NothingToClaim(w) ==
    /\ pc[w] = "looping"
    /\ Leave(w)
    /\ UNCHANGED tableVars

\* execute_claimed_task loads the task and its job and stops unless the copy
\* is running.  A reasoning task's context loads every task of the job.
Load(e) ==
    /\ pc[e] = "claimed"
    /\ LET t == own[e]
           copies == IF t \in Reasoning
                     THEN [u \in Tasks |-> TaskSeen(e, u)]
                     ELSE [sess[e] EXCEPT ![t] = TaskSeen(e, t)]
       IN  IF TaskSeen(e, t).status # "running"
           THEN TaskDone(e, [sess[e] EXCEPT ![t] = TaskSeen(e, t)], JobSeen(e))
           ELSE /\ pc' = [pc EXCEPT ![e] = "working"]
                /\ sess' = [sess EXCEPT ![e] = copies]
                /\ jsess' = [jsess EXCEPT ![e] = JobSeen(e)]
                /\ UNCHANGED <<own, pend>>
    /\ UNCHANGED tableVars

\* Mutation: an error gives the attempt back.
MarkedRefunded(copy, outcome) ==
    IF outcome = "error"
    THEN [copy EXCEPT !.status = "pending", !.attempts = @ - 1]
    ELSE [copy EXCEPT !.status = outcome]

\* Mutation: the outcome is written as it is.
MarkedRaw(copy, outcome) == [copy EXCEPT !.status = outcome]

\* _mark_task_completed, _mark_task_blocked, _mark_task_failed_or_retry.
Marked(copy, outcome) ==
    IF outcome = "error"
    THEN [copy EXCEPT !.status = IF copy.attempts < MaxAttempts
                                 THEN "pending" ELSE "failed"]
    ELSE [copy EXCEPT !.status = outcome]

\* The mark is flushed, which locks the task's row, and the job rolled up on
\* the tasks this session sees: the flushed one, the copies, the table.
Mark(e, outcome, next) ==
    LET t == own[e]
        new == Marked(TaskSeen(e, t), outcome)
        copies == [[u \in Tasks |-> TaskSeen(e, u)] EXCEPT ![t] = new]
    IN  /\ \A f \in Executors : pend[f] # None => own[f] # t
        /\ pend' = [pend EXCEPT ![e] =
                      [row |-> Merge(TaskSeen(e, t), new, row[t]),
                       job |-> RollUp(copies, JobSeen(e))]]
        /\ sess' = [sess EXCEPT ![e] = copies]
        /\ jsess' = [jsess EXCEPT ![e] = JobSeen(e)]
        /\ pc' = [pc EXCEPT ![e] = next]
        /\ UNCHANGED <<tableVars, own>>

\* The handler has returned, was blocked, or raised.
Finish(e) ==
    /\ pc[e] = "working"
    /\ \E outcome \in {"completed", "blocked", "error"} : Mark(e, outcome, "finishing")

\* Mutation: the job's status is written even if the roll-up kept it.
CommitAlways(e) ==
    /\ pend[e] # None
    /\ row' = [row EXCEPT ![own[e]] = pend[e].row]
    /\ job' = pend[e].job
    /\ TaskDone(e, sess[e], pend[e].job)
    /\ UNCHANGED ran

\* The finishing transaction commits: the task, and the job if it changed.
Commit(e) ==
    /\ pend[e] # None
    /\ row' = [row EXCEPT ![own[e]] = pend[e].row]
    /\ job' = JobAfter(e, pend[e].job)
    /\ TaskDone(e, sess[e], pend[e].job)
    /\ UNCHANGED ran

\* Finishing fails: the session is rolled back, which expires every copy.
FinishError(e) ==
    /\ pc[e] = "finishing"
    /\ pc' = [pc EXCEPT ![e] = "repair"]
    /\ sess' = [sess EXCEPT ![e] = NothingLoaded]
    /\ jsess' = [jsess EXCEPT ![e] = None]
    /\ pend' = [pend EXCEPT ![e] = None]
    /\ UNCHANGED <<tableVars, own>>

\* _mark_running_task_after_finalize_error.
Repair(e) ==
    /\ pc[e] = "repair"
    /\ IF row[own[e]].status = "running"
       THEN Mark(e, "error", "repairing")
       ELSE /\ TaskDone(e, [sess[e] EXCEPT ![own[e]] = row[own[e]]], JobSeen(e))
            /\ UNCHANGED tableVars

\* The end of run_orchestration_job: no task left or max_tasks reached.
Return(c) ==
    /\ pc[c] = "looping"
    /\ job' = JobAfter(c, RollUp([t \in Tasks |-> TaskSeen(c, t)], JobSeen(c)))
    /\ Leave(c)
    /\ UNCHANGED <<row, ran>>

\* The process dies, or an error leaves the handler.
Crash(e) ==
    /\ pc[e] # "idle"
    /\ Leave(e)
    /\ UNCHANGED tableVars

-----------------------------------------------------------------------------
Work(e) == Load(e) \/ Finish(e) \/ Commit(e) \/ FinishError(e) \/ Repair(e)

Next ==
    \/ \E t \in Tasks : WindowPasses(t)
    \/ \E c \in Callers : Call(c) \/ Return(c)
    \/ \E w \in Workers : NothingToClaim(w)
    \/ \E e \in Executors : Recover(e) \/ Work(e) \/ Crash(e)
    \/ \E e \in Executors, t \in Tasks : Claim(e, t)

Spec == Init /\ [][Next]_vars

(***************************************************************************)
(* Fairness.  Workers keep polling and handlers return (validation tools   *)
(* and model calls run under timeouts); the window passes.  Requests are   *)
(* made by users: a caller is fair only while it is inside its request.    *)
(***************************************************************************)
Fairness ==
    /\ \A w \in Workers :
          /\ WF_vars(Recover(w))
          /\ WF_vars(\E t \in Tasks : Claim(w, t))
          /\ WF_vars(NothingToClaim(w))
    /\ \A e \in Executors : WF_vars(Work(e))
    /\ \A t \in Tasks : WF_vars(WindowPasses(t))

FairSpec == Spec /\ Fairness

-----------------------------------------------------------------------------
(* Properties.                                                             *)

JobEnded == job \in {"completed", "failed", "blocked"}

\* A job that reports an end has no task left to run: the roll-up, whatever
\* copies it was computed on, never ends a job too early.
EndedJobHasNoOpenTask ==
    JobEnded => \A t \in Tasks : row[t].status \in TaskEnd

\* A completed job has only completed tasks ("All orchestration tasks
\* completed." is its result_summary).
CompletedJobMeansCompletedTasks ==
    job = "completed" => \A t \in Tasks : row[t].status = "completed"

\* Without retries, a task is executed by at most one process in its life, so
\* the outcome of a task that has been reported completed or blocked stands, and
\* one that was given up as failed is rewritten by nobody but the process that
\* outlived the window with it, and to another end.
OutcomeStands ==
    [][\A t \in Tasks :
          /\ row[t].status \in {"completed", "blocked"} => row'[t] = row[t]
          /\ row[t].status = "failed" /\ row'[t] # row[t] =>
                /\ t \in ran /\ row'[t].status \in TaskEnd
                /\ \E e \in Executors : own[e] = t /\ own'[e] = None]_vars

\* What the recovery selects has been running for the window since it was
\* claimed: "running tasks that outlived the worker heartbeat window".  The
\* retry of a task keeps the started_at of the attempt that failed.
StaleHasOutlivedWindow == Stale \subseteq ran

\* A job that has ended stays ended.
JobStaysEnded == [][JobEnded => JobEnded']_vars

\* No late write takes an attempt back that a claim has counted, so that a
\* task's retries are bounded whatever the copies its writers hold.
AttemptsOnlyGrow ==
    [][\A t \in Tasks : row'[t].attempts >= row[t].attempts]_vars

\* With several workers a job ends, or is left for ever in one of three ways: its
\* last tasks finish at the same time, each rolled up on a copy that shows the
\* other one running, and nothing rolls the job up again; a late worker's error
\* returns a task to pending after its last attempt was claimed; or a task is
\* claimed on a copy with a started_at that a recovery has since removed from
\* the row, and its process dies: no recovery finds a row without started_at.
EndsOrIsLeftBehind ==
    <>[](JobEnded \/ \A t \in Tasks :
            \/ row[t].status \in TaskEnd
            \/ row[t].status = "pending" /\ row[t].attempts = MaxAttempts
            \/ row[t].status = "running" /\ row[t].started = "none")
=============================================================================
