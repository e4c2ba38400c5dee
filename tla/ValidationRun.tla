---------------------------- MODULE ValidationRun ----------------------------
(***************************************************************************)
(* One validation run of a threat: the scan plan that is proposed and      *)
(* approved or rejected, the controlled scan jobs that an approval or a    *)
(* direct start creates, and the refresh by which a reader of the run      *)
(* takes over what the jobs have come to                                   *)
(* (backend/app/services/threat_agent_orchestration.py and                 *)
(* backend/app/api/threat_agent_orchestration.py).                         *)
(*                                                                         *)
(* Every request loads the run and its orchestration job once, decides on  *)
(* these copies and writes, at its commit, the attributes it has changed.  *)
(* Nothing is locked or compared before that.                              *)
(*                                                                         *)
(* A scan job is here pending until it has settled: how it gets there is   *)
(* in ScanQueue.  Findings that leave the assessment where it was count as *)
(* none.  Domain agents group tools; their status follows from the tools'. *)
(***************************************************************************)
CONSTANTS
    Handlers,    \* requests that may be in flight at once
    Colleagues,  \* those of them by a reviewer who did not propose the run
    Tools,       \* the tools of the plan
    None         \* no value, no request

ASSUME ToolsAssumption == Tools # {}
ASSUME ColleaguesAssumption == Colleagues \subseteq Handlers

VARIABLES
    run,     \* status, results, evidence and conclusion of threat_validation_runs
    trace,   \* the run's orchestration_jobs row: status and its tasks' statuses
    scan,    \* scan_jobs.status of the jobs created for the run
    pc,      \* what each request is doing
    copy,    \* run and trace as the request loaded them
    read     \* the scan jobs as a refresh has selected them

vars == <<run, trace, scan, pc, copy, read>>

\* A job is named after its tool and the approval it was created by, None for a
\* direct start: no request creates jobs twice, the run is not created again.
Jobs == Tools \X (Handlers \union {None})

\* A job belongs to who approved it, the run to who proposed it: the refresh
\* selects the jobs that belong to the run's owner.
InScope(j) == j[2] \notin Colleagues

ASSUME NoneAssumption == None \notin Handlers \union Tools \union Jobs

ScanStatus == {"absent", "pending", "completed", "clean", "failed", "cancelled"}
RunStatus == {"absent", "created", "running", "completed", "failed", "blocked"}
Conclusions == {"supported", "more_evidence_required", "failed"}

\* Evidence is named after the job that found it; Review is the review's.
Review == <<None, None>>
Evidence == SUBSET (Jobs \union {Review})

\* skipped and evidence_attached are both "off": no job was created.
ToolResult == [status : {"planned", "off", "authorized", "completed", "failed"},
               job : Jobs \union {None}]

RunRow == [status : RunStatus, conclusion : Conclusions \union {None},
           evidence : Evidence, results : [Tools -> ToolResult]]

NoRun == [status |-> "absent", conclusion |-> None, evidence |-> {},
          results |-> [t \in Tools |-> [status |-> "planned", job |-> None]]]

Init ==
    /\ run = NoRun
    /\ trace = [status |-> "absent", tasks |-> {}]
    /\ scan = [j \in Jobs |-> "absent"]
    /\ pc = [h \in Handlers |-> "idle"]
    /\ copy = [h \in Handlers |-> None]
    /\ read = [h \in Handlers |-> None]

-----------------------------------------------------------------------------
(* Sessions.                                                               *)

Leave(h) ==
    /\ pc' = [pc EXCEPT ![h] = "idle"]
    /\ copy' = [copy EXCEPT ![h] = None]
    /\ read' = [read EXCEPT ![h] = None]

\* The unit of work writes the attributes that differ from the loaded ones.
Written(row, loaded, new) ==
    [a \in DOMAIN new |-> IF new[a] = loaded[a] THEN row[a] ELSE new[a]]

\* The jobs a run names.
Named(results) == {results[t].job : t \in Tools} \ {None}

\* What the evidence comes to; an assessment that asks for more evidence reads
\* as failed when a job has.
Conclusion(evidence, anyFailed) ==
    IF evidence # {} THEN "supported"
    ELSE IF anyFailed THEN "failed" ELSE "more_evidence_required"

\* Mutation: a plan may be decided whatever has become of the run.
Decidable == run.status # "absent"

\* Only a plan that is loaded as created can be approved or rejected.
Undecided == run.status = "created"

\* A request begins: it loads the run, and ends there if the status it finds
\* leaves it nothing to do.
Request(h, request) ==
    /\ pc[h] = "idle"
    /\ IF request = "refresh" THEN run.status = "running" ELSE Undecided
    /\ pc' = [pc EXCEPT ![h] = request]
    /\ copy' = [copy EXCEPT ![h] = [run |-> run, trace |-> trace.status]]
    /\ UNCHANGED <<run, trace, scan, read>>

-----------------------------------------------------------------------------
(* The plan.                                                               *)

\* create_threat_scan_plan.
Propose ==
    /\ run.status = "absent"
    /\ run' = [run EXCEPT !.status = "created"]
    /\ trace' = [trace EXCEPT !.status = "pending"]
    /\ UNCHANGED <<scan, pc, copy, read>>

\* The run once request h has created a job for each tool in authorized and
\* collected evidence from the review: it runs, or it concludes at once.
Launched(h, authorized, evidence) ==
    [status     |-> IF authorized # {} THEN "running" ELSE "completed",
     conclusion |-> IF authorized # {} THEN None ELSE Conclusion(evidence, FALSE),
     evidence   |-> evidence,
     results    |-> [t \in Tools |->
        IF t \in authorized THEN [status |-> "authorized", job |-> <<t, h>>]
        ELSE [status |-> "off", job |-> None]]]

\* _build_domain_agent_results and _create_controlled_runner_submission: the
\* jobs' rows and the tasks of the orchestration job; a skipped tool's task is
\* blocked.
Submit(h, authorized) ==
    /\ scan' = [j \in Jobs |-> IF j[1] \in authorized /\ j[2] = h THEN "pending" ELSE scan[j]]
    /\ \E skipped \in BOOLEAN :
          trace' = [tasks |-> trace.tasks
                       \union (IF authorized # {} \/ ~skipped THEN {"completed"} ELSE {})
                       \union (IF authorized # Tools /\ skipped THEN {"blocked"} ELSE {}),
                    status |-> IF authorized # {} THEN "running" ELSE "completed"]

\* create_threat_validation_run: plan, jobs and run in one transaction.
Start ==
    /\ run.status = "absent"
    /\ \E authorized \in SUBSET Tools, evidence \in {{}, {Review}} :
          /\ run' = Launched(None, authorized, evidence)
          /\ Submit(None, authorized)
    /\ UNCHANGED <<pc, copy, read>>

\* approve_threat_scan_plan, once it has read the review's entries.
Approve(h) ==
    /\ pc[h] = "approve"
    /\ \E authorized \in SUBSET Tools, evidence \in {{}, {Review}} :
          /\ run' = Written(run, copy[h].run, Launched(h, authorized, evidence))
          /\ Submit(h, authorized)
    /\ Leave(h)

\* Mutation: the rejection is not passed on to the orchestration job.
RejectRunOnly(h) ==
    /\ pc[h] = "reject"
    /\ run' = [run EXCEPT !.status = "blocked"]
    /\ Leave(h)
    /\ UNCHANGED <<trace, scan>>

\* reject_threat_scan_plan.
Reject(h) ==
    /\ pc[h] = "reject"
    /\ run' = [run EXCEPT !.status = "blocked"]
    /\ trace' = [trace EXCEPT !.status = "blocked"]
    /\ Leave(h)
    /\ UNCHANGED <<scan>>

-----------------------------------------------------------------------------
(* The refresh.                                                            *)

\* refresh_validation_run_from_controlled_scans selects, of the jobs that the
\* results of its copy name, those of the run's owner.
ReadScans(h) ==
    /\ pc[h] = "refresh"
    /\ read' = [read EXCEPT ![h] =
                  [j \in {i \in Named(copy[h].run.results) : InScope(i)} |-> scan[j]]]
    /\ pc' = [pc EXCEPT ![h] = "write"]
    /\ UNCHANGED <<run, trace, scan, copy>>

\* What the refresh makes of a tool's job: a job it did not select is not found.
Outcome(job, jobs) == IF job \in DOMAIN jobs THEN jobs[job] ELSE "not_found"

\* Mutation: a failed job leaves its tool authorized.
FailureUnseen(tool, jobs) ==
    IF tool.status = "authorized" /\ Outcome(tool.job, jobs) \in {"completed", "clean"}
    THEN [tool EXCEPT !.status = "completed"] ELSE tool

\* Mutation: a tool takes over whatever status its job has.
PolledAsIs(tool, jobs) ==
    IF tool.status = "authorized" THEN [tool EXCEPT !.status = Outcome(tool.job, jobs)] ELSE tool

\* Mutation: a cancelled job counts as one that has ended without findings.
CancelledIsDone(tool, jobs) ==
    IF tool.status = "authorized" /\ Outcome(tool.job, jobs) # "pending"
    THEN [tool EXCEPT !.status = "completed"] ELSE tool

\* An authorized tool takes over the end of its job, and fails if its job is
\* not among the selected ones.  A cancelled job is not an end.
Polled(tool, jobs) ==
    IF tool.status # "authorized" THEN tool
    ELSE CASE Outcome(tool.job, jobs) \in {"completed", "clean"} ->
                 [tool EXCEPT !.status = "completed"]
           [] Outcome(tool.job, jobs) \in {"failed", "not_found"} ->
                 [tool EXCEPT !.status = "failed"]
           [] OTHER -> tool

NewlyFound(r, jobs) ==
    {r.results[t].job : t \in {u \in Tools :
        r.results[u].status = "authorized" /\ Outcome(r.results[u].job, jobs) = "completed"}}

\* Mutation: the evidence the run had is not kept.
CollectedAnew(r, jobs) == NewlyFound(r, jobs)

Collected(r, jobs) == r.evidence \union NewlyFound(r, jobs)

\* Mutation: one failed tool is enough to conclude.
StillRunningUnlessFailed(results) ==
    /\ \E t \in Tools : results[t].status = "authorized"
    /\ \A t \in Tools : results[t].status # "failed"

StillRunning(results) == \E t \in Tools : results[t].status = "authorized"

\* What a refresh makes of the run it loaded: findings of the jobs that have
\* completed since are collected, and without an authorized tool it concludes.
Refreshed(r, jobs) ==
    LET results == [t \in Tools |-> Polled(r.results[t], jobs)]
        evidence == Collected(r, jobs)
        conclusion == Conclusion(evidence, \E t \in Tools : results[t].status = "failed")
    IN  IF StillRunning(results)
        THEN [r EXCEPT !.results = results, !.evidence = evidence]
        ELSE [status |-> IF conclusion = "failed" THEN "failed" ELSE "completed",
              conclusion |-> conclusion, evidence |-> evidence, results |-> results]

\* Flush and commit of the refresh.
WriteRefreshed(h) ==
    /\ pc[h] = "write"
    /\ LET new == Refreshed(copy[h].run, read[h])
       IN  /\ run' = Written(run, copy[h].run, new)
           /\ trace' = IF new.status \in {"running", copy[h].trace} THEN trace
                       ELSE [trace EXCEPT !.status = new.status]
    /\ Leave(h)
    /\ UNCHANGED <<scan>>

-----------------------------------------------------------------------------
(* Around it.                                                              *)

\* The runner ends a job.
Settle(j) ==
    /\ scan[j] = "pending"
    /\ \E s \in {"completed", "clean", "failed"} : scan' = [scan EXCEPT ![j] = s]
    /\ UNCHANGED <<run, trace, pc, copy, read>>

\* Its owner cancels it.
Cancel(j) ==
    /\ scan[j] = "pending"
    /\ scan' = [scan EXCEPT ![j] = "cancelled"]
    /\ UNCHANGED <<run, trace, pc, copy, read>>

\* run_orchestration_job on the run's orchestration job: there is no task to
\* claim, the job's status is computed from the tasks.
RunOrchestration ==
    /\ trace.tasks # {}
    /\ trace' = [trace EXCEPT !.status =
                    IF "blocked" \in trace.tasks THEN "blocked" ELSE "completed"]
    /\ UNCHANGED <<run, scan, pc, copy, read>>

Crash(h) ==
    /\ pc[h] # "idle"
    /\ Leave(h)
    /\ UNCHANGED <<run, trace, scan>>

Next ==
    \/ Propose \/ Start \/ RunOrchestration
    \/ \E h \in Handlers :
          \/ \E request \in {"approve", "reject", "refresh"} : Request(h, request)
          \/ Approve(h) \/ Reject(h)
          \/ ReadScans(h) \/ WriteRefreshed(h)
          \/ Crash(h)
    \/ \E j \in Jobs : Settle(j) \/ Cancel(j)

Spec == Init /\ [][Next]_vars

\* Jobs settle (ScanQueue), somebody goes on reading the run, and not every
\* such request dies.
Fairness ==
    /\ \A j \in Jobs : WF_vars(Settle(j) \/ Cancel(j))
    /\ \A h \in Handlers :
          /\ WF_vars(Request(h, "refresh"))
          /\ SF_vars(ReadScans(h))
          /\ SF_vars(WriteRefreshed(h))
          /\ WF_vars(Approve(h) \/ Reject(h))

FairSpec == Spec /\ Fairness

-----------------------------------------------------------------------------
TypeOK ==
    /\ run \in RunRow
    /\ trace.status \in RunStatus \union {"pending"}
    /\ trace.tasks \subseteq {"completed", "blocked"}
    /\ scan \in [Jobs -> ScanStatus]
    /\ pc \in [Handlers -> {"idle", "approve", "reject", "refresh", "write"}]

Concluded == {"completed", "failed"}

\* What a run names and shows has been there: an authorized tool has its job,
\* a completed one has a completed job of the run's owner, evidence comes from
\* such a job or from the review, and a tool reads as failed only if its job
\* has failed or belongs to a colleague.
ResultsAreTrue ==
    /\ \A t \in Tools :
          LET tool == run.results[t]
          IN  /\ tool.status = "authorized" => scan[tool.job] # "absent"
              /\ tool.status = "completed" =>
                    InScope(tool.job) /\ scan[tool.job] \in {"completed", "clean"}
              /\ tool.status = "failed" => ~InScope(tool.job) \/ scan[tool.job] = "failed"
    /\ \A j \in run.evidence \ {Review} : InScope(j) /\ scan[j] = "completed"

\* No request, however old its copy, concludes a run that names a job of its
\* owner which has not ended.
ConcludesOnEndedJobs ==
    [][run.status \notin Concluded /\ run'.status \in Concluded =>
          \A j \in Named(run'.results) :
             InScope(j) => scan[j] \in {"completed", "clean", "failed"}]_vars

\* Evidence disappears, and a result returns to an earlier one, only by a
\* request that had loaded the run before another one changed it.
LostByStaleCopyOnly ==
    [][\/ ~(run.evidence \subseteq run'.evidence)
       \/ \E t \in Tools : run.results[t].status \in Concluded
                              /\ run'.results[t] # run.results[t]
       => \E h \in Handlers :
             /\ pc[h] \in {"approve", "write"} /\ pc'[h] = "idle"
             /\ copy[h].run # run]_vars

\* A plan is decided once, and a scan job stays named by its run, unless a
\* second decision had loaded the plan before the first was committed.
DecidedAgainByStaleCopyOnly ==
    [][\/ run.status \in Concluded \union {"running", "blocked"}
             /\ run'.status \notin {run.status} \union Concluded
       \/ run.status = "blocked" /\ run'.status # "blocked"
       \/ ~(Named(run.results) \subseteq Named(run'.results))
       => \E h \in Handlers :
             /\ pc[h] \in {"approve", "reject", "write"} /\ pc'[h] = "idle"
             /\ copy[h].run.status \in {"created", "running"}
             /\ copy[h].run # run]_vars

\* The orchestration job, which the trace of the run is read from, says the same
\* as the run until somebody runs it as a job or a request writes whose copy of
\* either row is stale.
Agree == trace.status = IF run.status = "created" THEN "pending" ELSE run.status
PartedByRunnerOrStaleCopy ==
    [][Agree /\ ~Agree' =>
          \/ RunOrchestration
          \/ \E h \in Handlers :
                /\ pc[h] \in {"approve", "reject", "write"} /\ pc'[h] = "idle"
                /\ copy[h].run # run \/ copy[h].trace # trace.status]_vars

\* A run that is read again and again concludes, unless a job it names and its
\* owner owns has been cancelled: a colleague's job holds nothing up.
RunConcludesOrCancelled ==
    run.status = "running" ~>
        \/ run.status # "running"
        \/ \E j \in Named(run.results) : InScope(j) /\ scan[j] = "cancelled"
=============================================================================
