-------------------------- MODULE ValidationRunProofs --------------------------
(***************************************************************************)
(* Theorems about ValidationRun, for any requests and tools.               *)
(***************************************************************************)
EXTENDS ValidationRun, TLAPS

-----------------------------------------------------------------------------
(* The inductive invariant.  A request writes what it computed from its    *)
(* copies, so what holds of the run has to hold of every copy of it, at    *)
(* any later time; it does because a scan job never leaves the end it has  *)
(* come to, and because an approval finds its own jobs not yet created.    *)

ResultsTrue(results) ==
  \A t \in Tools :
     /\ results[t].status \in {"authorized", "completed", "failed"} =>
           results[t].job \in Jobs
     /\ results[t].status = "authorized" => scan[results[t].job] # "absent"
     /\ results[t].status = "completed" =>
           InScope(results[t].job) /\ scan[results[t].job] \in {"completed", "clean"}
     /\ results[t].status = "failed" =>
           ~InScope(results[t].job) \/ scan[results[t].job] = "failed"

EvidenceTrue(evidence) ==
  \A j \in evidence \ {Review} : InScope(j) /\ scan[j] = "completed"

\* The jobs that a refresh of the results selects.
Selected(results) == {j \in Named(results) : InScope(j)}

TraceStatus == RunStatus \union {"pending"}

Session(h) ==
  /\ pc[h] # "idle" =>
        /\ copy[h].run \in RunRow /\ copy[h].trace \in TraceStatus
        /\ ResultsTrue(copy[h].run.results)
        /\ EvidenceTrue(copy[h].run.evidence)
  /\ pc[h] \in {"approve", "reject"} => copy[h].run.status = "created"
  /\ pc[h] = "approve" => \A t \in Tools : scan[<<t, h>>] = "absent"
  /\ pc[h] \in {"refresh", "write"} => copy[h].run.status = "running"
  /\ pc[h] = "write" =>
        /\ read[h] \in [Selected(copy[h].run.results) -> ScanStatus]
        /\ \A j \in Selected(copy[h].run.results) :
              read[h][j] \in {"completed", "clean", "failed"} => scan[j] = read[h][j]

Sessions ==
  /\ pc \in [Handlers -> {"idle", "approve", "reject", "refresh", "write"}]
  /\ DOMAIN copy = Handlers /\ copy = [h \in Handlers |-> copy[h]]
  /\ DOMAIN read = Handlers /\ read = [h \in Handlers |-> read[h]]

Inv ==
  /\ run \in RunRow
  /\ trace.status \in TraceStatus /\ trace.tasks \subseteq {"completed", "blocked"}
  /\ trace = [status |-> trace.status, tasks |-> trace.tasks]
  /\ scan \in [Jobs -> ScanStatus]
  /\ Sessions
  /\ ResultsTrue(run.results)
  /\ EvidenceTrue(run.evidence)
  /\ run.status \in {"absent", "created"} => \A j \in Jobs : scan[j] = "absent"
  /\ \A h \in Handlers : Session(h)

LEMMA ReviewNotAJob == Review \notin Jobs
  BY NoneAssumption DEF Review, Jobs

LEMMA InitInv == Init => Inv
<1> SUFFICES ASSUME Init PROVE Inv
  OBVIOUS
<1>1. run \in RunRow /\ ResultsTrue(run.results) /\ EvidenceTrue(run.evidence)
  BY DEF Init, NoRun, RunRow, RunStatus, Evidence, ToolResult, ResultsTrue, EvidenceTrue
<1> QED
  BY <1>1 DEF Init, Inv, Sessions, Session, TraceStatus, RunStatus, ScanStatus

-----------------------------------------------------------------------------
(* What the jobs do to what is known of them.                              *)

Ended == {"completed", "clean", "failed", "cancelled"}

\* Jobs only go forward.
Forward ==
  /\ scan' \in [Jobs -> ScanStatus]
  /\ \A j \in Jobs : scan[j] # "absent" => scan'[j] # "absent"
  /\ \A j \in Jobs : scan[j] \in Ended => scan'[j] = scan[j]

LEMMA ResultsForward ==
  ASSUME Forward, NEW results, ResultsTrue(results)
  PROVE  \A t \in Tools :
            /\ results[t].status \in {"authorized", "completed", "failed"} =>
                  results[t].job \in Jobs
            /\ results[t].status = "authorized" => scan'[results[t].job] # "absent"
            /\ results[t].status = "completed" =>
                  InScope(results[t].job) /\ scan'[results[t].job] \in {"completed", "clean"}
            /\ results[t].status = "failed" =>
                  ~InScope(results[t].job) \/ scan'[results[t].job] = "failed"
  BY DEF Forward, ResultsTrue, Ended

LEMMA EvidenceForward ==
  ASSUME Forward, NEW evidence \in Evidence, EvidenceTrue(evidence)
  PROVE  \A j \in evidence \ {Review} : InScope(j) /\ scan'[j] = "completed"
  BY DEF Forward, EvidenceTrue, Evidence, Ended

Untouched(h) == pc'[h] = pc[h] /\ copy'[h] = copy[h] /\ read'[h] = read[h]

\* A session that does not step stays true while jobs go forward, unless they
\* are the ones it is going to create.
LEMMA SessionForward ==
  ASSUME Inv, Forward, NEW h \in Handlers, Untouched(h),
         \A t \in Tools : scan'[<<t, h>>] = scan[<<t, h>>] \/ scan[<<t, h>>] # "absent"
  PROVE  Session(h)'
<1>0. Session(h)
  BY DEF Inv
<1>1. CASE pc[h] = "idle"
  BY <1>1 DEF Session, Untouched
<1>2. CASE pc[h] # "idle"
  <2>1. /\ copy[h].run \in RunRow /\ copy[h].trace \in TraceStatus
        /\ ResultsTrue(copy[h].run.results) /\ EvidenceTrue(copy[h].run.evidence)
    BY <1>0, <1>2 DEF Session
  <2>2. ResultsTrue(copy[h].run.results)'
    <3> DEFINE results == copy[h].run.results
    <3>1. /\ \A t \in Tools :
                /\ results[t].status \in {"authorized", "completed", "failed"} =>
                      results[t].job \in Jobs
                /\ results[t].status = "authorized" => scan'[results[t].job] # "absent"
                /\ results[t].status = "completed" =>
                      InScope(results[t].job) /\ scan'[results[t].job] \in {"completed", "clean"}
                /\ results[t].status = "failed" =>
                      ~InScope(results[t].job) \/ scan'[results[t].job] = "failed"
      BY <2>1, ResultsForward
    <3>2. results' = results
      BY DEF Untouched
    <3> QED
      BY <3>1, <3>2 DEF ResultsTrue
  <2>3. EvidenceTrue(copy[h].run.evidence)'
    BY <2>1, EvidenceForward DEF EvidenceTrue, Untouched, RunRow
  <2>4. pc[h] = "approve" => \A t \in Tools : scan'[<<t, h>>] = "absent"
    BY <1>0 DEF Session
  <2>5. pc[h] = "write" =>
          \A j \in Selected(copy[h].run.results) :
             read[h][j] \in {"completed", "clean", "failed"} => scan'[j] = read[h][j]
    <3>1. Selected(copy[h].run.results) \subseteq Jobs
      BY <2>1 DEF Selected, Named, RunRow, ToolResult
    <3> QED
      BY <1>0, <3>1 DEF Session, Forward, Ended
  <2> QED
    BY <1>0, <2>1, <2>2, <2>3, <2>4, <2>5 DEF Session, Untouched
<1> QED
  BY <1>1, <1>2

-----------------------------------------------------------------------------
(* What the requests write.                                                *)

\* An attribute is the row's or the one the request computed; one it changed is
\* the one it computed.
LEMMA WrittenRow ==
  ASSUME NEW row \in RunRow, NEW loaded \in RunRow, NEW new \in RunRow
  PROVE  /\ Written(row, loaded, new) \in RunRow
         /\ Written(row, loaded, new).results \in {row.results, new.results}
         /\ Written(row, loaded, new).evidence \in {row.evidence, new.evidence}
         /\ Written(row, loaded, new).status \in {row.status, new.status}
         /\ new.status # loaded.status => Written(row, loaded, new).status = new.status
<1> DEFINE w == Written(row, loaded, new)
           Attributes == {"status", "conclusion", "evidence", "results"}
<1>1. DOMAIN new = Attributes
  BY DEF RunRow
<1>2. w = [a \in Attributes |-> IF new[a] = loaded[a] THEN row[a] ELSE new[a]]
  BY <1>1 DEF Written
<1>3. w = [status |-> w.status, conclusion |-> w.conclusion,
           evidence |-> w.evidence, results |-> w.results]
  BY <1>2
<1>4. /\ w.status \in {row.status, new.status}
      /\ w.conclusion \in {row.conclusion, new.conclusion}
      /\ w.evidence \in {row.evidence, new.evidence}
      /\ w.results \in {row.results, new.results}
      /\ new.status # loaded.status => w.status = new.status
  BY <1>2
<1>5. w \in RunRow
  <2>1. /\ w.status \in RunStatus /\ w.conclusion \in Conclusions \union {None}
        /\ w.evidence \in Evidence /\ w.results \in [Tools -> ToolResult]
    BY <1>4 DEF RunRow
  <2> QED
    BY <1>3, <2>1 DEF RunRow
<1> QED
  BY <1>4, <1>5

LEMMA ConclusionType ==
  ASSUME NEW evidence, NEW anyFailed
  PROVE  Conclusion(evidence, anyFailed) \in Conclusions
  BY DEF Conclusion, Conclusions

LEMMA LaunchedRow ==
  ASSUME NEW h \in Handlers \union {None}, NEW authorized \in SUBSET Tools,
         NEW evidence \in {{}, {Review}}
  PROVE  /\ Launched(h, authorized, evidence) \in RunRow
         /\ Launched(h, authorized, evidence).status \in {"running", "completed"}
         /\ Launched(h, authorized, evidence).evidence = evidence
<1>1. Conclusion(evidence, FALSE) \in Conclusions
  BY ConclusionType
<1>2. evidence \in Evidence
  BY DEF Evidence
<1>3. [t \in Tools |-> IF t \in authorized THEN [status |-> "authorized", job |-> <<t, h>>]
                       ELSE [status |-> "off", job |-> None]] \in [Tools -> ToolResult]
  BY DEF ToolResult, Jobs
<1> QED
  BY <1>1, <1>2, <1>3 DEF Launched, RunRow, RunStatus

\* The results of a request that has created its jobs are true once it has.
LEMMA LaunchedTrue ==
  ASSUME NEW h \in Handlers \union {None}, NEW authorized \in SUBSET Tools,
         NEW evidence \in {{}, {Review}}, scan \in [Jobs -> ScanStatus],
         Submit(h, authorized)
  PROVE  /\ ResultsTrue(Launched(h, authorized, evidence).results)'
         /\ EvidenceTrue(evidence)'
<1> DEFINE results == Launched(h, authorized, evidence).results
<1>1. results = [t \in Tools |->
          IF t \in authorized THEN [status |-> "authorized", job |-> <<t, h>>]
          ELSE [status |-> "off", job |-> None]]
  BY DEF Launched
<1>2. \A t \in authorized : <<t, h>> \in Jobs /\ scan'[<<t, h>>] = "pending"
  BY DEF Submit, Jobs
<1>3. ASSUME NEW t \in Tools
      PROVE  \/ t \in authorized /\ results[t].status = "authorized" /\ results[t].job = <<t, h>>
             \/ results[t].status = "off"
  BY <1>1, <1>3
<1>4. ResultsTrue(results)'
  BY <1>2, <1>3 DEF ResultsTrue
<1> QED
  BY <1>4 DEF EvidenceTrue

LEMMA SubmitForward ==
  ASSUME Inv, NEW h \in Handlers \union {None}, NEW authorized \in SUBSET Tools,
         Submit(h, authorized), \A t \in Tools : scan[<<t, h>>] = "absent"
  PROVE  /\ Forward
         /\ trace'.status \in TraceStatus /\ trace'.tasks \subseteq {"completed", "blocked"}
         /\ trace' = [status |-> trace'.status, tasks |-> trace'.tasks]
<1>1. scan \in [Jobs -> ScanStatus] /\ trace.tasks \subseteq {"completed", "blocked"}
  BY DEF Inv
<1>2. scan' = [j \in Jobs |-> IF j[1] \in authorized /\ j[2] = h THEN "pending" ELSE scan[j]]
  BY DEF Submit
<1>3. ASSUME NEW j \in Jobs, j[2] = h PROVE scan[j] = "absent"
  BY <1>3 DEF Jobs
<1>4. Forward
  BY <1>1, <1>2, <1>3 DEF Forward, ScanStatus, Ended
<1> QED
  BY <1>1, <1>4 DEF Submit, TraceStatus, RunStatus

\* What a refresh computes is a run, and true of the jobs it has read.
LEMMA RefreshedTrue ==
  ASSUME Inv, NEW h \in Handlers, pc[h] = "write"
  PROVE  LET new == Refreshed(copy[h].run, read[h])
         IN  /\ new \in RunRow
             /\ new.status \in {"running", "completed", "failed"}
             /\ ResultsTrue(new.results)
             /\ EvidenceTrue(new.evidence)
<1> DEFINE r == copy[h].run
           jobs == read[h]
           results == [t \in Tools |-> Polled(r.results[t], jobs)]
           evidence == Collected(r, jobs)
           conclusion == Conclusion(evidence, \E t \in Tools : results[t].status = "failed")
           new == Refreshed(r, jobs)
<1>0. /\ r \in RunRow /\ r.status = "running"
      /\ ResultsTrue(r.results) /\ EvidenceTrue(r.evidence)
      /\ jobs \in [Selected(r.results) -> ScanStatus]
      /\ \A j \in Selected(r.results) :
            jobs[j] \in {"completed", "clean", "failed"} => scan[j] = jobs[j]
  BY DEF Inv, Session
<1>1. ASSUME NEW t \in Tools, r.results[t].status = "authorized"
      PROVE  r.results[t].job \in Named(r.results) /\ r.results[t].job \in Jobs
  <2>1. r.results[t].job \in Jobs
    BY <1>0, <1>1 DEF ResultsTrue
  <2> QED
    BY <2>1, NoneAssumption DEF Named
<1>2. ASSUME NEW t \in Tools
      PROVE  /\ results[t] \in ToolResult
             /\ results[t].status \in {"authorized", "completed", "failed"} =>
                   results[t].job \in Jobs
             /\ results[t].status = "authorized" => scan[results[t].job] # "absent"
             /\ results[t].status = "completed" =>
                   InScope(results[t].job) /\ scan[results[t].job] \in {"completed", "clean"}
             /\ results[t].status = "failed" =>
                   ~InScope(results[t].job) \/ scan[results[t].job] = "failed"
  <2> DEFINE tool == r.results[t]
  <2>1. tool \in ToolResult
    BY <1>0 DEF RunRow
  <2>2. CASE tool.status # "authorized"
    BY <1>0, <2>1, <2>2 DEF Polled, ResultsTrue
  <2>3. CASE tool.status = "authorized"
    <3> DEFINE end == Outcome(tool.job, jobs)
    <3>1. tool.job \in Jobs /\ scan[tool.job] # "absent"
      BY <1>0, <1>1, <2>3 DEF ResultsTrue
    <3>2. /\ end \in {"completed", "clean", "failed"} =>
                InScope(tool.job) /\ scan[tool.job] = end
          /\ end = "not_found" /\ InScope(tool.job) =>
                tool.job \in DOMAIN jobs /\ jobs[tool.job] = "not_found"
      BY <1>0, <1>1, <2>3 DEF Outcome, Selected
    <3>3. end = "not_found" => ~InScope(tool.job)
      BY <1>0, <3>2 DEF ScanStatus
    <3>4. CASE end \in {"completed", "clean"}
      <4>1. results[t] = [tool EXCEPT !.status = "completed"]
        BY <2>3, <3>4 DEF Polled
      <4> QED
        BY <2>1, <3>1, <3>2, <3>4, <4>1 DEF ToolResult
    <3>5. CASE end \in {"failed", "not_found"}
      <4>1. results[t] = [tool EXCEPT !.status = "failed"]
        BY <2>3, <3>5 DEF Polled
      <4> QED
        BY <2>1, <3>1, <3>2, <3>3, <3>5, <4>1 DEF ToolResult
    <3>6. CASE end \notin {"completed", "clean", "failed", "not_found"}
      <4>1. results[t] = tool
        BY <2>3, <3>6 DEF Polled
      <4> QED
        BY <2>1, <2>3, <3>1, <4>1
    <3> QED
      BY <3>4, <3>5, <3>6
  <2> QED
    BY <2>2, <2>3
<1>3. results \in [Tools -> ToolResult] /\ ResultsTrue(results)
  BY <1>2 DEF ResultsTrue
<1>4. ASSUME NEW j \in NewlyFound(r, jobs)
      PROVE  j \in Jobs /\ InScope(j) /\ scan[j] = "completed"
  <2>1. PICK t \in Tools : /\ r.results[t].status = "authorized"
                           /\ Outcome(r.results[t].job, jobs) = "completed"
                           /\ j = r.results[t].job
    BY <1>4 DEF NewlyFound
  <2>2. j \in DOMAIN jobs /\ jobs[j] = "completed"
    BY <2>1 DEF Outcome
  <2> QED
    BY <1>0, <1>1, <2>1, <2>2 DEF Selected
<1>5. evidence \in Evidence /\ EvidenceTrue(evidence)
  <2>1. r.evidence \in Evidence
    BY <1>0 DEF RunRow
  <2> QED
    BY <1>0, <1>4, <2>1 DEF Collected, EvidenceTrue, Evidence
<1>6. conclusion \in Conclusions
  BY ConclusionType
<1>7. CASE \E t \in Tools : results[t].status = "authorized"
  <2>1. new = [r EXCEPT !.results = results, !.evidence = evidence]
    BY <1>7 DEF Refreshed, StillRunning
  <2> QED
    BY <1>0, <1>3, <1>5, <2>1 DEF RunRow
<1>8. CASE ~\E t \in Tools : results[t].status = "authorized"
  <2>1. new = [status |-> IF conclusion = "failed" THEN "failed" ELSE "completed",
               conclusion |-> conclusion, evidence |-> evidence, results |-> results]
    BY <1>8 DEF Refreshed, StillRunning
  <2> HIDE DEF new, results, evidence, conclusion
  <2>2. /\ new.results = results /\ new.evidence = evidence
        /\ new.status \in {"completed", "failed"}
    BY <2>1
  <2>3. new \in RunRow
    BY <1>3, <1>5, <1>6, <2>1 DEF RunRow, RunStatus
  <2>4. ResultsTrue(new.results) /\ EvidenceTrue(new.evidence)
    BY <1>3, <1>5, <2>2
  <2>5. new.status \in {"running", "completed", "failed"}
    BY <2>2
  <2> QED
    BY <2>3, <2>4, <2>5 DEF new
<1> QED
  BY <1>7, <1>8

-----------------------------------------------------------------------------
(* The invariant is kept.                                                  *)

\* A request that ends leaves nothing behind.
LEMMA LeftSession ==
  ASSUME Sessions, NEW h \in Handlers, Leave(h)
  PROVE  /\ Session(h)' /\ Sessions'
         /\ \A g \in Handlers \ {h} : Untouched(g)
  BY DEF Sessions, Leave, Session, Untouched

\* A step that moves no job and no copy changes nothing a session knows.
LEMMA SessionKept ==
  ASSUME UNCHANGED <<scan, pc, copy, read>>, NEW h \in Handlers, Session(h)
  PROVE  Session(h)'
  BY DEF Session, ResultsTrue, EvidenceTrue

LEMMA ProposeInv == Inv /\ Propose => Inv'
<1> SUFFICES ASSUME Inv, Propose PROVE Inv'
  OBVIOUS
<1>1. /\ run' \in RunRow /\ run'.results = run.results /\ run'.evidence = run.evidence
      /\ run.status = "absent"
  BY DEF Inv, Propose, RunRow, RunStatus
<1>2. /\ trace'.status \in TraceStatus /\ trace'.tasks = trace.tasks
      /\ trace' = [status |-> trace'.status, tasks |-> trace'.tasks]
  BY DEF Inv, Propose, TraceStatus
<1>3. \A h \in Handlers : Session(h)'
  BY SessionKept DEF Inv, Propose
<1>4. ResultsTrue(run.results)' /\ EvidenceTrue(run.evidence)'
  BY <1>1 DEF Inv, Propose, ResultsTrue, EvidenceTrue
<1> QED
  BY <1>1, <1>2, <1>3, <1>4 DEF Inv, Propose, Sessions

LEMMA StartInv == Inv /\ Start => Inv'
<1> SUFFICES ASSUME Inv, Start PROVE Inv'
  OBVIOUS
<1>1. PICK authorized \in SUBSET Tools, evidence \in {{}, {Review}} :
         /\ run' = Launched(None, authorized, evidence)
         /\ Submit(None, authorized)
  BY DEF Start
<1>2. \A j \in Jobs : scan[j] = "absent"
  BY DEF Inv, Start
<1>3. \A t \in Tools : scan[<<t, None>>] = "absent"
  BY <1>2 DEF Jobs
<1>4. /\ Forward
      /\ trace'.status \in TraceStatus /\ trace'.tasks \subseteq {"completed", "blocked"}
      /\ trace' = [status |-> trace'.status, tasks |-> trace'.tasks]
  BY <1>1, <1>3, SubmitForward
<1>5. run' \in RunRow /\ run'.status \notin {"absent", "created"} /\ run'.evidence = evidence
  BY <1>1, LaunchedRow
<1>6. ResultsTrue(run.results)' /\ EvidenceTrue(run.evidence)'
  <2>1. scan \in [Jobs -> ScanStatus]
    BY DEF Inv
  <2>2. ResultsTrue(Launched(None, authorized, evidence).results)' /\ EvidenceTrue(evidence)'
    BY <1>1, <2>1, LaunchedTrue
  <2> QED
    BY <1>1, <1>5, <2>2 DEF ResultsTrue, EvidenceTrue
<1>7. ASSUME NEW h \in Handlers PROVE Session(h)'
  <2>1. Untouched(h)
    BY DEF Start, Untouched
  <2>2. \A t \in Tools : scan'[<<t, h>>] = scan[<<t, h>>]
    BY <1>1, NoneAssumption DEF Submit, Jobs
  <2> QED
    BY <1>4, <2>1, <2>2, SessionForward
<1>8. Sessions'
  BY DEF Inv, Start, Sessions
<1> QED
  BY <1>4, <1>5, <1>6, <1>7, <1>8 DEF Inv, Forward

LEMMA RequestInv ==
  ASSUME Inv, NEW h \in Handlers, NEW request \in {"approve", "reject", "refresh"},
         Request(h, request)
  PROVE  Inv'
<1>1. \A j \in Jobs : run.status = "created" => scan[j] = "absent"
  BY DEF Inv
<1>2. /\ pc'[h] = request /\ copy'[h].run = run /\ copy'[h].trace = trace.status
      /\ request \in {"approve", "reject"} => run.status = "created"
      /\ request = "refresh" => run.status = "running"
  BY DEF Inv, Sessions, Request, Undecided
<1>3. Session(h)'
  <2>1. /\ copy'[h].run \in RunRow /\ copy'[h].trace \in TraceStatus
        /\ scan' = scan /\ pc'[h] # "write"
    BY <1>2 DEF Inv, Request
  <2>2. ResultsTrue(copy[h].run.results)' /\ EvidenceTrue(copy[h].run.evidence)'
    BY <1>2, <2>1 DEF Inv, ResultsTrue, EvidenceTrue
  <2>3. pc'[h] = "approve" => \A t \in Tools : scan'[<<t, h>>] = "absent"
    BY <1>1, <1>2, <2>1 DEF Jobs
  <2> QED
    BY <1>2, <2>1, <2>2, <2>3 DEF Session
<1>4. ASSUME NEW g \in Handlers \ {h} PROVE Session(g)'
  <2>1. Session(g) /\ pc'[g] = pc[g] /\ copy'[g] = copy[g] /\ read'[g] = read[g] /\ scan' = scan
    BY DEF Inv, Sessions, Request
  <2> QED
    BY <2>1 DEF Session, ResultsTrue, EvidenceTrue
<1>5. Sessions'
  BY DEF Inv, Request, Sessions
<1> QED
  BY <1>3, <1>4, <1>5 DEF Inv, Request, ResultsTrue, EvidenceTrue

LEMMA ApproveInv == ASSUME Inv, NEW h \in Handlers, Approve(h) PROVE Inv'
<1>1. PICK authorized \in SUBSET Tools, evidence \in {{}, {Review}} :
         /\ run' = Written(run, copy[h].run, Launched(h, authorized, evidence))
         /\ Submit(h, authorized)
  BY DEF Approve
<1> DEFINE new == Launched(h, authorized, evidence)
<1>2. /\ copy[h].run \in RunRow /\ copy[h].run.status = "created"
      /\ \A t \in Tools : scan[<<t, h>>] = "absent"
  BY DEF Inv, Session, Approve
<1>3. /\ Forward
      /\ trace'.status \in TraceStatus /\ trace'.tasks \subseteq {"completed", "blocked"}
      /\ trace' = [status |-> trace'.status, tasks |-> trace'.tasks]
  BY <1>1, <1>2, SubmitForward
<1>4. new \in RunRow /\ new.status \in {"running", "completed"} /\ new.evidence = evidence
  BY LaunchedRow
<1>5. scan \in [Jobs -> ScanStatus] /\ run \in RunRow
  BY DEF Inv
<1>6. ResultsTrue(new.results)' /\ EvidenceTrue(evidence)'
  BY <1>1, <1>5, LaunchedTrue
<1>7. /\ run' \in RunRow /\ run'.status \notin {"absent", "created"}
      /\ run'.results \in {run.results, new.results}
      /\ run'.evidence \in {run.evidence, evidence}
  <2> HIDE DEF new
  <2> QED
    BY <1>1, <1>2, <1>4, <1>5, WrittenRow DEF new
<1>8. ResultsTrue(run.results)' /\ EvidenceTrue(run.evidence)'
  <2>1. \A t \in Tools :
           /\ run.results[t].status \in {"authorized", "completed", "failed"} =>
                 run.results[t].job \in Jobs
           /\ run.results[t].status = "authorized" => scan'[run.results[t].job] # "absent"
           /\ run.results[t].status = "completed" =>
                 InScope(run.results[t].job) /\ scan'[run.results[t].job] \in {"completed", "clean"}
           /\ run.results[t].status = "failed" =>
                 ~InScope(run.results[t].job) \/ scan'[run.results[t].job] = "failed"
    <3>1. ResultsTrue(run.results)
      BY DEF Inv
    <3> QED
      BY <1>3, <3>1, ResultsForward
  <2>2. \A j \in run.evidence \ {Review} : InScope(j) /\ scan'[j] = "completed"
    <3>1. EvidenceTrue(run.evidence) /\ run.evidence \in Evidence
      BY DEF Inv, RunRow
    <3> QED
      BY <1>3, <3>1, EvidenceForward
  <2>3. ResultsTrue(run.results)'
    <3> HIDE DEF new
    <3>1. CASE run'.results = run.results
      BY <2>1, <3>1 DEF ResultsTrue
    <3>2. CASE run'.results = new.results
      BY <1>6, <3>2 DEF ResultsTrue, new
    <3> QED
      BY <1>7, <3>1, <3>2
  <2>4. EvidenceTrue(run.evidence)'
    BY <1>6, <1>7, <2>2 DEF EvidenceTrue
  <2> QED
    BY <2>3, <2>4
<1>9. Leave(h) /\ Sessions
  BY DEF Inv, Approve
<1>10. ASSUME NEW g \in Handlers \ {h} PROVE Session(g)'
  <2>1. \A t \in Tools : scan'[<<t, g>>] = scan[<<t, g>>]
    BY <1>1 DEF Submit, Jobs
  <2> QED
    BY <1>3, <1>9, <2>1, LeftSession, SessionForward
<1> QED
  BY <1>3, <1>7, <1>8, <1>9, <1>10, LeftSession DEF Inv, Forward

LEMMA RejectInv == ASSUME Inv, NEW h \in Handlers, Reject(h) PROVE Inv'
<1>1. /\ run' \in RunRow /\ run'.results = run.results /\ run'.evidence = run.evidence
      /\ run'.status = "blocked"
  BY DEF Inv, Reject, RunRow, RunStatus
<1>2. /\ trace'.status \in TraceStatus /\ trace'.tasks = trace.tasks
      /\ trace' = [status |-> trace'.status, tasks |-> trace'.tasks]
  BY DEF Inv, Reject, TraceStatus, RunStatus
<1>3. Forward /\ \A j \in Jobs : scan'[j] = scan[j]
  BY DEF Inv, Reject, Forward
<1>4. ResultsTrue(run.results)' /\ EvidenceTrue(run.evidence)'
  BY <1>1 DEF Inv, Reject, ResultsTrue, EvidenceTrue
<1>5. Leave(h) /\ Sessions
  BY DEF Inv, Reject
<1>6. ASSUME NEW g \in Handlers \ {h} PROVE Session(g)'
  BY <1>3, <1>5, LeftSession, SessionForward DEF Jobs
<1> QED
  BY <1>1, <1>2, <1>3, <1>4, <1>5, <1>6, LeftSession DEF Inv, Forward

LEMMA ReadScansInv == ASSUME Inv, NEW h \in Handlers, ReadScans(h) PROVE Inv'
<1>1. /\ scan' = scan /\ copy' = copy /\ pc[h] = "refresh"
      /\ pc'[h] = "write"
      /\ read'[h] = [j \in Selected(copy[h].run.results) |-> scan[j]]
  BY DEF Inv, Sessions, ReadScans, Selected
<1>2. Session(h)'
  <2>1. Session(h) /\ copy[h].run \in RunRow
    BY <1>1 DEF Inv, Session
  <2>2. Selected(copy[h].run.results) \subseteq Jobs
    BY <2>1 DEF Selected, Named, RunRow, ToolResult
  <2>3. read'[h] \in [Selected(copy[h].run.results) -> ScanStatus]
    BY <1>1, <2>2 DEF Inv
  <2> QED
    BY <1>1, <2>1, <2>3 DEF Session, ResultsTrue, EvidenceTrue
<1>3. ASSUME NEW g \in Handlers \ {h} PROVE Session(g)'
  <2>1. Session(g) /\ pc'[g] = pc[g] /\ copy'[g] = copy[g] /\ read'[g] = read[g]
    BY DEF Inv, Sessions, ReadScans
  <2> QED
    BY <1>1, <2>1 DEF Session, ResultsTrue, EvidenceTrue
<1>4. Sessions'
  BY DEF Inv, ReadScans, Sessions
<1> QED
  BY <1>2, <1>3, <1>4 DEF Inv, ReadScans, ResultsTrue, EvidenceTrue

LEMMA WriteRefreshedInv == ASSUME Inv, NEW h \in Handlers, WriteRefreshed(h) PROVE Inv'
<1> DEFINE new == Refreshed(copy[h].run, read[h])
<1>1. /\ new \in RunRow /\ new.status \in {"running", "completed", "failed"}
      /\ ResultsTrue(new.results) /\ EvidenceTrue(new.evidence)
  BY RefreshedTrue DEF WriteRefreshed
<1>2. run \in RunRow /\ copy[h].run \in RunRow /\ copy[h].run.status = "running"
  BY DEF Inv, Session, WriteRefreshed
<1>3. run' = Written(run, copy[h].run, new)
  BY DEF WriteRefreshed
<1> HIDE DEF new
<1>4. /\ run' \in RunRow
      /\ run'.results \in {run.results, new.results}
      /\ run'.evidence \in {run.evidence, new.evidence}
      /\ run'.status \in {run.status, new.status}
  BY <1>1, <1>2, <1>3, WrittenRow
<1>5. ResultsTrue(run'.results) /\ EvidenceTrue(run'.evidence)
  <2>1. ResultsTrue(run.results) /\ EvidenceTrue(run.evidence)
    BY DEF Inv
  <2> QED
    BY <1>1, <1>4, <2>1
<1>6. scan' = scan /\ Forward /\ \A j \in Jobs : scan'[j] = scan[j]
  BY DEF Inv, WriteRefreshed, Forward
<1>7. /\ trace'.status \in TraceStatus /\ trace'.tasks = trace.tasks
      /\ trace' = [status |-> trace'.status, tasks |-> trace'.tasks]
  BY <1>1 DEF Inv, WriteRefreshed, TraceStatus, RunStatus, new
<1>8. Leave(h) /\ Sessions
  BY DEF Inv, WriteRefreshed
<1>9. ASSUME NEW g \in Handlers \ {h} PROVE Session(g)'
  BY <1>6, <1>8, LeftSession, SessionForward DEF Jobs
<1>10. ResultsTrue(run.results)' /\ EvidenceTrue(run.evidence)'
  BY <1>5, <1>6 DEF ResultsTrue, EvidenceTrue
<1>11. run'.status \in {"absent", "created"} => \A j \in Jobs : scan'[j] = "absent"
  BY <1>1, <1>4, <1>6 DEF Inv
<1> QED
  BY <1>4, <1>6, <1>7, <1>8, <1>9, <1>10, <1>11, LeftSession DEF Inv, Forward

LEMMA CrashInv == ASSUME Inv, NEW h \in Handlers, Crash(h) PROVE Inv'
<1>1. Forward /\ \A j \in Jobs : scan'[j] = scan[j]
  BY DEF Inv, Crash, Forward
<1>2. Leave(h) /\ Sessions
  BY DEF Inv, Crash
<1>3. ASSUME NEW g \in Handlers \ {h} PROVE Session(g)'
  BY <1>1, <1>2, LeftSession, SessionForward DEF Jobs
<1> QED
  BY <1>2, <1>3, LeftSession DEF Inv, Crash, ResultsTrue, EvidenceTrue

LEMMA ScanInv == ASSUME Inv, NEW j \in Jobs, Settle(j) \/ Cancel(j) PROVE Inv'
<1>1. /\ scan[j] = "pending"
      /\ \E s \in Ended : scan' = [scan EXCEPT ![j] = s]
      /\ UNCHANGED <<run, trace, pc, copy, read>>
  BY DEF Settle, Cancel, Ended
<1>2. Forward /\ \A i \in Jobs : scan'[i] = scan[i] \/ scan[i] # "absent"
  BY <1>1 DEF Inv, Forward, Ended, ScanStatus
<1>3. ASSUME NEW h \in Handlers PROVE Session(h)'
  BY <1>1, <1>2, SessionForward DEF Untouched, Jobs
<1>4. ResultsTrue(run.results)'
  BY <1>1, <1>2, ResultsForward DEF Inv, ResultsTrue
<1>5. EvidenceTrue(run.evidence)'
  BY <1>1, <1>2, EvidenceForward DEF Inv, EvidenceTrue, RunRow
<1>6. run.status \notin {"absent", "created"}
  BY <1>1 DEF Inv
<1> QED
  BY <1>1, <1>2, <1>3, <1>4, <1>5, <1>6 DEF Inv, Sessions, Forward

LEMMA RunOrchestrationInv == Inv /\ RunOrchestration => Inv'
<1> SUFFICES ASSUME Inv, RunOrchestration PROVE Inv'
  OBVIOUS
<1>1. /\ trace'.status \in TraceStatus /\ trace'.tasks = trace.tasks
      /\ trace' = [status |-> trace'.status, tasks |-> trace'.tasks]
  BY DEF Inv, RunOrchestration, TraceStatus, RunStatus
<1>2. \A h \in Handlers : Session(h)'
  BY SessionKept DEF Inv, RunOrchestration
<1> QED
  BY <1>1, <1>2 DEF Inv, RunOrchestration, Sessions, ResultsTrue, EvidenceTrue

LEMMA NextInv == Inv /\ [Next]_vars => Inv'
<1> SUFFICES ASSUME Inv, [Next]_vars PROVE Inv'
  OBVIOUS
<1>1. CASE Propose
  BY <1>1, ProposeInv
<1>2. CASE Start
  BY <1>2, StartInv
<1>3. CASE RunOrchestration
  BY <1>3, RunOrchestrationInv
<1>4. CASE \E h \in Handlers :
             \/ \E request \in {"approve", "reject", "refresh"} : Request(h, request)
             \/ Approve(h) \/ Reject(h) \/ ReadScans(h) \/ WriteRefreshed(h) \/ Crash(h)
  BY <1>4, RequestInv, ApproveInv, RejectInv, ReadScansInv, WriteRefreshedInv, CrashInv
<1>5. CASE \E j \in Jobs : Settle(j) \/ Cancel(j)
  BY <1>5, ScanInv
<1>6. CASE UNCHANGED vars
  <2>1. \A h \in Handlers : Session(h)'
    BY <1>6, SessionKept DEF Inv, vars
  <2> QED
    BY <1>6, <2>1 DEF Inv, vars, Sessions, ResultsTrue, EvidenceTrue
<1> QED
  BY <1>1, <1>2, <1>3, <1>4, <1>5, <1>6 DEF Next

\* What the theorems rest on.
THEOREM InvHolds == Spec => []Inv
  BY InitInv, NextInv, PTL DEF Spec

-----------------------------------------------------------------------------
\* The run, its trace, its jobs and the requests keep their types.
THEOREM TypeCorrect == Spec => []TypeOK
<1>1. Inv => TypeOK
  BY DEF Inv, Sessions, TypeOK, TraceStatus
<1> QED
  BY <1>1, InvHolds, PTL

\* However refreshes, approvals and the jobs interleave, a tool of the run reads
\* completed only if a job of the run's owner completed, and failed only if such a
\* job failed or the job belongs to a colleague: no refresh, however old the copy
\* it writes, claims more.
THEOREM ResultsKeepTrue == Spec => []ResultsAreTrue
<1>1. Inv => ResultsAreTrue
  BY DEF Inv, ResultsTrue, EvidenceTrue, ResultsAreTrue
<1> QED
  BY <1>1, InvHolds, PTL

-----------------------------------------------------------------------------
(* What each request that writes does to the run.                          *)

\* Before its plan is decided a run is empty, and nobody refreshes it.
Started ==
  /\ run.status \in {"absent", "created"} => run = [NoRun EXCEPT !.status = run.status]
  /\ \A h \in Handlers :
        pc[h] \in {"refresh", "write"} => run.status \notin {"absent", "created"}

LEMMA StartedInit == Init => Started
  BY DEF Init, Started, NoRun

\* What the requests that write leave the run in.
LEMMA WrittenStatus ==
  ASSUME Inv, NEW h \in Handlers
  PROVE  /\ Approve(h) => run'.status \in {"running", "completed"}
         /\ WriteRefreshed(h) => run'.status \in {run.status, "completed", "failed"}
<1>1. ASSUME Approve(h) PROVE run'.status \in {"running", "completed"}
  <2>1. PICK authorized \in SUBSET Tools, evidence \in {{}, {Review}} :
           run' = Written(run, copy[h].run, Launched(h, authorized, evidence))
    BY <1>1 DEF Approve
  <2>2. /\ copy[h].run \in RunRow /\ copy[h].run.status = "created" /\ run \in RunRow
    BY <1>1 DEF Inv, Session, Approve
  <2>3. /\ Launched(h, authorized, evidence) \in RunRow
        /\ Launched(h, authorized, evidence).status \in {"running", "completed"}
    BY LaunchedRow
  <2> QED
    BY <2>1, <2>2, <2>3, WrittenRow
<1>2. ASSUME WriteRefreshed(h) PROVE run'.status \in {run.status, "completed", "failed"}
  <2> DEFINE new == Refreshed(copy[h].run, read[h])
  <2>1. new \in RunRow /\ new.status \in {"running", "completed", "failed"}
    BY <1>2, RefreshedTrue DEF WriteRefreshed
  <2>2. run' = Written(run, copy[h].run, new)
    BY <1>2 DEF WriteRefreshed
  <2>3. copy[h].run \in RunRow /\ copy[h].run.status = "running" /\ run \in RunRow
    BY <1>2 DEF Inv, Session, WriteRefreshed
  <2> HIDE DEF new
  <2>4. CASE new.status = "running"
    <3>1. run'.status = run.status
      BY <2>1, <2>2, <2>3, <2>4 DEF Written, RunRow
    <3> QED
      BY <3>1
  <2>5. CASE new.status # "running"
    BY <2>1, <2>2, <2>3, <2>5, WrittenRow
  <2> QED
    BY <2>4, <2>5
<1> QED
  BY <1>1, <1>2

LEMMA StartedNext == Inv /\ Started /\ [Next]_vars => Started'
<1> SUFFICES ASSUME Inv, Started, [Next]_vars PROVE Started'
  OBVIOUS
<1>0. pc \in [Handlers -> {"idle", "approve", "reject", "refresh", "write"}]
  BY DEF Inv, Sessions
<1>1. CASE Propose
  BY <1>1 DEF Started, Propose, NoRun
<1>2. CASE Start
  <2>1. run'.status \in {"running", "completed"}
    BY <1>2, LaunchedRow DEF Start
  <2> QED
    BY <2>1 DEF Started
<1>3. CASE \E h \in Handlers :
             \E request \in {"approve", "reject", "refresh"} : Request(h, request)
  BY <1>0, <1>3 DEF Started, Request
<1>4. CASE \E h \in Handlers : Approve(h)
  <2>1. run'.status \in {"running", "completed"}
    BY <1>4, WrittenStatus
  <2> QED
    BY <2>1 DEF Started
<1>5. CASE \E h \in Handlers : Reject(h)
  <2>1. run'.status = "blocked"
    BY <1>5 DEF Reject, Inv, RunRow
  <2> QED
    BY <2>1 DEF Started
<1>6. CASE \E h \in Handlers : ReadScans(h)
  BY <1>0, <1>6 DEF Started, ReadScans
<1>7. CASE \E h \in Handlers : WriteRefreshed(h)
  <2>1. run'.status \in {run.status, "completed", "failed"}
    BY <1>7, WrittenStatus
  <2>2. run.status \notin {"absent", "created"}
    BY <1>7 DEF Started, WriteRefreshed
  <2> QED
    BY <2>1, <2>2 DEF Started
<1>8. CASE \E h \in Handlers : Crash(h)
  BY <1>0, <1>8 DEF Started, Crash, Leave
<1>9. CASE UNCHANGED <<run, pc>>
  BY <1>9 DEF Started
<1> QED
  BY <1>1, <1>2, <1>3, <1>4, <1>5, <1>6, <1>7, <1>8, <1>9
     DEF Next, vars, RunOrchestration, Settle, Cancel

LEMMA StartedHolds == Spec => []Started
  BY StartedInit, StartedNext, InvHolds, PTL DEF Spec

\* A request whose copy is the row leaves the row as it computed it.
LEMMA WrittenFresh ==
  ASSUME NEW row \in RunRow, NEW new \in RunRow
  PROVE  Written(row, row, new) = new
<1>1. Written(row, row, new) = [a \in DOMAIN new |-> new[a]]
  BY DEF Written
<1> QED
  BY <1>1 DEF RunRow

\* What an approval on a fresh copy does.
LEMMA ApproveFresh ==
  ASSUME Inv, Started, NEW h \in Handlers, Approve(h), copy[h].run = run
  PROVE  /\ run.status = "created" /\ run.evidence = {}
         /\ \A t \in Tools : run.results[t] = [status |-> "planned", job |-> None]
         /\ Agree'
<1>1. run.status = "created"
  BY DEF Inv, Session, Approve
<1>2. PICK authorized \in SUBSET Tools, evidence \in {{}, {Review}} :
         /\ run' = Written(run, copy[h].run, Launched(h, authorized, evidence))
         /\ Submit(h, authorized)
  BY DEF Approve
<1>3. run' = Launched(h, authorized, evidence)
  <2>1. Launched(h, authorized, evidence) \in RunRow /\ run \in RunRow
    BY LaunchedRow DEF Inv
  <2> QED
    BY <1>2, <2>1, WrittenFresh
<1>4. run'.status = IF authorized # {} THEN "running" ELSE "completed"
  BY <1>3 DEF Launched
<1>5. trace'.status = IF authorized # {} THEN "running" ELSE "completed"
  BY <1>2 DEF Submit
<1>6. Agree'
  BY <1>4, <1>5 DEF Agree
<1>7. run = [NoRun EXCEPT !.status = "created"]
  BY <1>1 DEF Started
<1> QED
  BY <1>1, <1>6, <1>7 DEF NoRun

\* What a refresh on a fresh copy does.
LEMMA RefreshFresh ==
  ASSUME Inv, NEW h \in Handlers, WriteRefreshed(h), copy[h].run = run
  PROVE  /\ run.status = "running"
         /\ run' = Refreshed(run, read[h])
         /\ run'.status \in {"running", "completed", "failed"}
         /\ run.evidence \subseteq run'.evidence
         /\ \A t \in Tools : /\ run'.results[t].job = run.results[t].job
                             /\ run.results[t].status # "authorized" =>
                                   run'.results[t] = run.results[t]
<1>1. run.status = "running" /\ run \in RunRow
  BY DEF Inv, Session, WriteRefreshed
<1> DEFINE new == Refreshed(copy[h].run, read[h])
<1>2. new \in RunRow /\ new.status \in {"running", "completed", "failed"}
  BY RefreshedTrue DEF WriteRefreshed
<1>3. run' = new
  BY <1>1, <1>2, WrittenFresh DEF WriteRefreshed
<1>4. /\ new.results = [t \in Tools |-> Polled(run.results[t], read[h])]
      /\ new.evidence = Collected(run, read[h])
  BY <1>1 DEF Refreshed, StillRunning, RunRow
<1>5. ASSUME NEW t \in Tools
      PROVE  /\ Polled(run.results[t], read[h]).job = run.results[t].job
             /\ run.results[t].status # "authorized" =>
                   Polled(run.results[t], read[h]) = run.results[t]
  <2>1. run.results[t] \in ToolResult
    BY <1>1 DEF RunRow
  <2> QED
    BY <2>1 DEF Polled, ToolResult
<1> QED
  BY <1>1, <1>2, <1>3, <1>4, <1>5 DEF Collected

\* The steps that write the run with nobody else's copy in hand.
LEMMA OtherSteps ==
  ASSUME Inv, Started, [Next]_vars,
         ~ \E h \in Handlers : Approve(h) \/ Reject(h) \/ WriteRefreshed(h)
  PROVE  \/ Propose \/ Start
         \/ run' = run /\ (RunOrchestration \/ trace' = trace)
  BY DEF Next, vars, RunOrchestration, Request, ReadScans, Settle, Cancel, Crash

\* The copies of a request that ends by writing.
LEMMA Enders ==
  ASSUME Inv, NEW h \in Handlers, Approve(h) \/ Reject(h) \/ WriteRefreshed(h)
  PROVE  pc'[h] = "idle" /\ copy[h].run.status \in {"created", "running"}
<1>1. Session(h) /\ pc \in [Handlers -> {"idle", "approve", "reject", "refresh", "write"}]
  BY DEF Inv, Sessions
<1> QED
  BY <1>1 DEF Approve, Reject, WriteRefreshed, Leave, Session

-----------------------------------------------------------------------------
(* When a run concludes.  A run that is running has an authorized tool,    *)
(* and so has every copy a refresh holds: a request that concludes the run *)
(* has therefore changed the results, and writes them with the conclusion. *)

\* Only a tool that was handed to the runner names a job.
NamesHanded(results) ==
  \A t \in Tools : results[t].job # None =>
                      results[t].status \in {"authorized", "completed", "failed"}

Waiting ==
  /\ NamesHanded(run.results)
  /\ run.status = "running" => StillRunning(run.results)
  /\ \A h \in Handlers :
        /\ pc[h] # "idle" => NamesHanded(copy[h].run.results)
        /\ pc[h] \in {"approve", "reject"} => copy[h].run.results = NoRun.results
        /\ pc[h] \in {"refresh", "write"} => StillRunning(copy[h].run.results)

LEMMA WaitingInit == Init => Waiting
  BY DEF Init, Waiting, NamesHanded, NoRun

LEMMA LaunchedWaits ==
  ASSUME NEW h \in Handlers \union {None}, NEW authorized \in SUBSET Tools,
         NEW evidence \in {{}, {Review}}
  PROVE  LET new == Launched(h, authorized, evidence)
         IN  /\ NamesHanded(new.results)
             /\ new.results # NoRun.results
             /\ new.status = "running" => StillRunning(new.results)
             /\ new.status # "running" => Named(new.results) = {}
<1> DEFINE new == Launched(h, authorized, evidence)
<1>1. /\ new.results = [t \in Tools |->
            IF t \in authorized THEN [status |-> "authorized", job |-> <<t, h>>]
            ELSE [status |-> "off", job |-> None]]
      /\ new.status = IF authorized # {} THEN "running" ELSE "completed"
  BY DEF Launched
<1>2. NamesHanded(new.results)
  BY <1>1 DEF NamesHanded
<1>3. new.results # NoRun.results
  <2>1. PICK t \in Tools : TRUE
    BY ToolsAssumption
  <2>2. new.results[t].status # "planned" /\ NoRun.results[t].status = "planned"
    BY <1>1, <2>1 DEF NoRun
  <2> QED
    BY <2>2
<1>4. new.status = "running" => StillRunning(new.results)
  BY <1>1 DEF StillRunning
<1>5. new.status # "running" => Named(new.results) = {}
  BY <1>1 DEF Named
<1> QED
  BY <1>2, <1>3, <1>4, <1>5

\* An approval writes its results together with its status.
LEMMA ApproveWhole ==
  ASSUME Inv, Waiting, NEW h \in Handlers, Approve(h)
  PROVE  /\ NamesHanded(run'.results)
         /\ run'.status = "running" => StillRunning(run'.results)
         /\ run'.status # "running" => Named(run'.results) = {}
<1>1. PICK authorized \in SUBSET Tools, evidence \in {{}, {Review}} :
         run' = Written(run, copy[h].run, Launched(h, authorized, evidence))
  BY DEF Approve
<1> DEFINE new == Launched(h, authorized, evidence)
<1>2. /\ copy[h].run \in RunRow /\ copy[h].run.status = "created"
      /\ copy[h].run.results = NoRun.results
  BY DEF Inv, Session, Waiting, Approve
<1>3. new \in RunRow /\ new.status \in {"running", "completed"}
  BY LaunchedRow
<1>4. /\ NamesHanded(new.results) /\ new.results # NoRun.results
      /\ new.status = "running" => StillRunning(new.results)
      /\ new.status # "running" => Named(new.results) = {}
  BY LaunchedWaits
<1>5. run'.results = new.results /\ run'.status = new.status
  <2> HIDE DEF new
  <2>1. DOMAIN new = {"status", "conclusion", "evidence", "results"}
    BY <1>3 DEF RunRow
  <2> QED
    BY <1>1, <1>2, <1>3, <1>4, <2>1 DEF Written, new
<1> QED
  BY <1>4, <1>5

\* A refresh that concludes the run writes its results with the conclusion.
LEMMA RefreshWhole ==
  ASSUME Inv, Waiting, NEW h \in Handlers, WriteRefreshed(h)
  PROVE  LET new == Refreshed(copy[h].run, read[h])
         IN  /\ NamesHanded(new.results) /\ ResultsTrue(new.results)
             /\ run'.results \in {run.results, new.results}
             /\ \/ /\ new.status = "running" /\ run'.status = run.status
                   /\ StillRunning(new.results)
                \/ /\ run'.status = new.status /\ new.status \in Concluded
                   /\ run'.results = new.results /\ ~StillRunning(new.results)
<1> DEFINE r == copy[h].run
           new == Refreshed(r, read[h])
<1>1. /\ r \in RunRow /\ r.status = "running" /\ StillRunning(r.results)
      /\ NamesHanded(r.results) /\ run \in RunRow
  BY DEF Inv, Session, Waiting, WriteRefreshed
<1>2. /\ new \in RunRow /\ new.status \in {"running", "completed", "failed"}
      /\ ResultsTrue(new.results)
  BY RefreshedTrue DEF WriteRefreshed
<1>3. new.results = [t \in Tools |-> Polled(r.results[t], read[h])]
  BY <1>1 DEF Refreshed, RunRow
<1>4. IF StillRunning(new.results) THEN new.status = "running" ELSE new.status \in Concluded
  BY <1>1, <1>3 DEF Refreshed, RunRow, Concluded
<1>5. NamesHanded(new.results)
  <2> SUFFICES ASSUME NEW t \in Tools, new.results[t].job # None
               PROVE  new.results[t].status \in {"authorized", "completed", "failed"}
    BY DEF NamesHanded
  <2>1. r.results[t] \in ToolResult
    BY <1>1 DEF RunRow
  <2>2. CASE r.results[t].status # "authorized"
    BY <1>1, <1>3, <2>2 DEF Polled, NamesHanded
  <2>3. CASE r.results[t].status = "authorized"
    <3>1. new.results[t] = Polled(r.results[t], read[h])
      BY <1>3
    <3> HIDE DEF new
    <3>2. Polled(r.results[t], read[h]).status \in {"authorized", "completed", "failed"}
      BY <2>1, <2>3 DEF Polled, ToolResult
    <3> QED
      BY <3>1, <3>2
  <2> QED
    BY <2>2, <2>3
<1>6. run' = Written(run, r, new)
  BY DEF WriteRefreshed
<1> HIDE DEF new
<1>7. /\ run'.status = IF new.status = r.status THEN run.status ELSE new.status
      /\ run'.results = IF new.results = r.results THEN run.results ELSE new.results
  <2>1. DOMAIN new = {"status", "conclusion", "evidence", "results"}
    BY <1>2 DEF RunRow
  <2> QED
    BY <1>6, <2>1 DEF Written
<1> QED
  BY <1>1, <1>2, <1>4, <1>5, <1>7 DEF Concluded, new

LEMMA WaitingNext == Inv /\ Started /\ Waiting /\ [Next]_vars => Waiting'
<1> SUFFICES ASSUME Inv, Started, Waiting, [Next]_vars PROVE Waiting'
  OBVIOUS
<1> DEFINE Row == /\ NamesHanded(run.results)
                  /\ run.status = "running" => StillRunning(run.results)
           Copy(h) == /\ pc[h] # "idle" => NamesHanded(copy[h].run.results)
                      /\ pc[h] \in {"approve", "reject"} => copy[h].run.results = NoRun.results
                      /\ pc[h] \in {"refresh", "write"} => StillRunning(copy[h].run.results)
<1>1. Row /\ (\A h \in Handlers : Copy(h)) /\ Sessions
  BY DEF Waiting, Inv
<1>2. ASSUME Row', NEW h \in Handlers, Leave(h) PROVE Waiting'
  BY <1>1, <1>2 DEF Waiting, Leave, Sessions, NamesHanded, StillRunning
<1>3. ASSUME Row', UNCHANGED <<pc, copy>> PROVE Waiting'
  BY <1>1, <1>3 DEF Waiting, NamesHanded, StillRunning
<1>4. ASSUME UNCHANGED run PROVE Row'
  BY <1>1, <1>4 DEF NamesHanded, StillRunning
<1>5. CASE Propose
  <2>1. run'.results = run.results /\ run'.status = "created"
    BY <1>5 DEF Propose, Inv, RunRow
  <2>2. Row'
    BY <1>1, <2>1 DEF NamesHanded
  <2> QED
    BY <1>3, <1>5, <2>2 DEF Propose
<1>6. CASE Start
  <2>1. PICK authorized \in SUBSET Tools, evidence \in {{}, {Review}} :
           run' = Launched(None, authorized, evidence)
    BY <1>6 DEF Start
  <2>2. /\ NamesHanded(run'.results)
        /\ run'.status = "running" => StillRunning(run'.results)
    BY <2>1, LaunchedWaits
  <2>3. Row'
    BY <2>2 DEF NamesHanded, StillRunning
  <2> QED
    BY <1>3, <1>6, <2>3 DEF Start
<1>7. ASSUME NEW h \in Handlers, NEW request \in {"approve", "reject", "refresh"},
             Request(h, request)
      PROVE  Waiting'
  <2>1. /\ pc' = [pc EXCEPT ![h] = request]
        /\ copy' = [copy EXCEPT ![h] = [run |-> run, trace |-> trace.status]]
        /\ run' = run
        /\ request \in {"approve", "reject"} => run.status = "created"
        /\ request = "refresh" => run.status = "running"
    BY <1>7 DEF Request, Undecided
  <2>2. run.status = "created" => run.results = NoRun.results
    BY DEF Started, NoRun
  <2>3. copy'[h].run = run /\ pc'[h] = request
    BY <1>1, <2>1 DEF Sessions
  <2>4. Copy(h)'
    BY <1>1, <2>1, <2>2, <2>3 DEF NamesHanded, StillRunning
  <2>5. ASSUME NEW g \in Handlers \ {h} PROVE Copy(g)'
    <3>1. pc'[g] = pc[g] /\ copy'[g] = copy[g]
      BY <1>1, <2>1 DEF Sessions
    <3> QED
      BY <1>1, <3>1 DEF NamesHanded, StillRunning
  <2> QED
    BY <1>4, <2>1, <2>4, <2>5 DEF Waiting
<1>8. ASSUME NEW h \in Handlers, Approve(h) PROVE Waiting'
  <2>1. Row'
    BY <1>8, ApproveWhole DEF NamesHanded, StillRunning
  <2> QED
    BY <1>2, <1>8, <2>1 DEF Approve
<1>9. ASSUME NEW h \in Handlers, Reject(h) PROVE Waiting'
  <2>1. run'.results = run.results /\ run'.status = "blocked"
    BY <1>9 DEF Reject, Inv, RunRow
  <2>2. Row'
    BY <1>1, <2>1 DEF NamesHanded
  <2> QED
    BY <1>2, <1>9, <2>2 DEF Reject
<1>10. ASSUME NEW h \in Handlers, WriteRefreshed(h) PROVE Waiting'
  <2> DEFINE new == Refreshed(copy[h].run, read[h])
  <2>1. /\ NamesHanded(new.results)
        /\ run'.results \in {run.results, new.results}
        /\ \/ /\ new.status = "running" /\ run'.status = run.status
              /\ StillRunning(new.results)
           \/ run'.status = new.status /\ new.status \in Concluded
    BY <1>10, RefreshWhole
  <2> HIDE DEF new
  <2>2. NamesHanded(run'.results) /\ (run'.status = "running" => StillRunning(run'.results))
    BY <1>1, <2>1 DEF Concluded
  <2>3. Row'
    BY <2>2 DEF NamesHanded, StillRunning
  <2> QED
    BY <1>2, <1>10, <2>3 DEF WriteRefreshed
<1>11. ASSUME NEW h \in Handlers, ReadScans(h) PROVE Waiting'
  <2>1. /\ pc[h] = "refresh" /\ pc' = [pc EXCEPT ![h] = "write"]
        /\ copy' = copy /\ run' = run
    BY <1>11 DEF ReadScans
  <2>2. ASSUME NEW g \in Handlers PROVE Copy(g)'
    BY <1>1, <2>1 DEF Sessions, NamesHanded, StillRunning
  <2> QED
    BY <1>4, <2>1, <2>2 DEF Waiting
<1>12. ASSUME NEW h \in Handlers, Crash(h) PROVE Waiting'
  BY <1>2, <1>4, <1>12 DEF Crash
<1>13. CASE UNCHANGED <<run, pc, copy>>
  BY <1>3, <1>4, <1>13
<1> QED
  BY <1>5, <1>6, <1>7, <1>8, <1>9, <1>10, <1>11, <1>12, <1>13
     DEF Next, vars, RunOrchestration, Settle, Cancel

\* Whatever copies refreshes and approvals hold, a run concludes only when every
\* job it names and its owner owns has completed or failed.
THEOREM ConclusionsWait == Spec => ConcludesOnEndedJobs
<1> DEFINE Ready == \A j \in Named(run'.results) :
                       InScope(j) => scan[j] \in {"completed", "clean", "failed"}
           Ends == run.status \notin Concluded /\ run'.status \in Concluded
<1>1. ASSUME Inv, Started, Waiting, [Next]_vars, Ends PROVE Ready
  <2>1. ASSUME NEW h \in Handlers, Approve(h) PROVE Ready
    BY <1>1, <2>1, ApproveWhole DEF Concluded
  <2>2. ASSUME NEW h \in Handlers, Reject(h) PROVE Ready
    BY <1>1, <2>2 DEF Reject, Inv, RunRow, Concluded
  <2>3. ASSUME NEW h \in Handlers, WriteRefreshed(h) PROVE Ready
    <3> DEFINE new == Refreshed(copy[h].run, read[h])
    <3>1. /\ NamesHanded(new.results) /\ ResultsTrue(new.results)
          /\ run'.results = new.results /\ ~StillRunning(new.results)
      BY <1>1, <2>3, RefreshWhole
    <3> HIDE DEF new
    <3>2. SUFFICES ASSUME NEW t \in Tools, new.results[t].job # None,
                          InScope(new.results[t].job)
                   PROVE  scan[new.results[t].job] \in {"completed", "clean", "failed"}
      BY <3>1 DEF Named
    <3>3. new.results[t].status \in {"completed", "failed"}
      BY <3>1, <3>2 DEF NamesHanded, StillRunning
    <3> QED
      BY <3>1, <3>2, <3>3 DEF ResultsTrue
  <2>4. CASE ~ \E h \in Handlers : Approve(h) \/ Reject(h) \/ WriteRefreshed(h)
    <3>1. CASE Propose
      BY <1>1, <3>1 DEF Propose, Inv, RunRow, Concluded
    <3>2. CASE Start
      <4>1. PICK authorized \in SUBSET Tools, evidence \in {{}, {Review}} :
               run' = Launched(None, authorized, evidence)
        BY <3>2 DEF Start
      <4> QED
        BY <1>1, <4>1, LaunchedWaits DEF Concluded
    <3> QED
      BY <1>1, <2>4, <3>1, <3>2, OtherSteps
  <2> QED
    BY <2>1, <2>2, <2>3, <2>4
<1>2. Inv /\ Started /\ Waiting /\ [Next]_vars => [Ends => Ready]_vars
  BY <1>1
<1> QED
  BY <1>2, WaitingInit, WaitingNext, InvHolds, StartedHolds, PTL
     DEF Spec, ConcludesOnEndedJobs

-----------------------------------------------------------------------------
(* What only stale copies break.                                           *)

\* A refresh or an approval that loses evidence or a result had loaded another
\* run than the one it writes to.
THEOREM OnlyStaleCopiesLose == Spec => LostByStaleCopyOnly
<1> DEFINE Lost == \/ ~(run.evidence \subseteq run'.evidence)
                   \/ \E t \in Tools : run.results[t].status \in Concluded
                                          /\ run'.results[t] # run.results[t]
           ByStale == \E h \in Handlers :
                         /\ pc[h] \in {"approve", "write"} /\ pc'[h] = "idle"
                         /\ copy[h].run # run
<1>1. ASSUME Inv, Started, [Next]_vars, Lost PROVE ByStale
  <2>1. CASE \E h \in Handlers : Approve(h) \/ WriteRefreshed(h)
    <3>1. PICK h \in Handlers : Approve(h) \/ WriteRefreshed(h)
      BY <2>1
    <3>2. pc[h] \in {"approve", "write"} /\ pc'[h] = "idle"
      BY <1>1, <3>1, Enders DEF Approve, WriteRefreshed
    <3>3. copy[h].run # run
      <4> SUFFICES ASSUME copy[h].run = run PROVE FALSE
        OBVIOUS
      <4>1. CASE Approve(h)
        BY <1>1, <4>1, ApproveFresh DEF Concluded
      <4>2. CASE WriteRefreshed(h)
        BY <1>1, <4>2, RefreshFresh DEF Concluded
      <4> QED
        BY <3>1, <4>1, <4>2
    <3> QED
      BY <3>2, <3>3
  <2>2. CASE \E h \in Handlers : Reject(h)
    BY <1>1, <2>2 DEF Reject, Inv, RunRow
  <2>3. CASE ~ \E h \in Handlers : Approve(h) \/ Reject(h) \/ WriteRefreshed(h)
    <3>1. CASE Propose
      BY <1>1, <3>1 DEF Propose, Inv, RunRow
    <3>2. CASE Start
      BY <1>1, <3>2 DEF Start, Started, NoRun, Concluded
    <3> QED
      BY <1>1, <2>3, <3>1, <3>2, OtherSteps
  <2> QED
    BY <2>1, <2>2, <2>3
<1>2. Inv /\ Started /\ [Next]_vars => [Lost => ByStale]_vars
  BY <1>1
<1> QED
  BY <1>2, InvHolds, StartedHolds, PTL DEF Spec, LostByStaleCopyOnly, Concluded

\* A plan that is decided a second time, or a scan job that its run forgets, is
\* the work of a decision or a refresh on a run loaded before.
THEOREM OnlyStaleCopiesDecideAgain == Spec => DecidedAgainByStaleCopyOnly
<1> DEFINE Again == \/ run.status \in Concluded \union {"running", "blocked"}
                          /\ run'.status \notin {run.status} \union Concluded
                    \/ run.status = "blocked" /\ run'.status # "blocked"
                    \/ ~(Named(run.results) \subseteq Named(run'.results))
           ByStale == \E h \in Handlers :
                         /\ pc[h] \in {"approve", "reject", "write"} /\ pc'[h] = "idle"
                         /\ copy[h].run.status \in {"created", "running"}
                         /\ copy[h].run # run
<1>1. ASSUME Inv, Started, [Next]_vars, Again PROVE ByStale
  <2>1. CASE \E h \in Handlers : Approve(h) \/ Reject(h) \/ WriteRefreshed(h)
    <3>1. PICK h \in Handlers : Approve(h) \/ Reject(h) \/ WriteRefreshed(h)
      BY <2>1
    <3>2. /\ pc[h] \in {"approve", "reject", "write"} /\ pc'[h] = "idle"
          /\ copy[h].run.status \in {"created", "running"}
      BY <1>1, <3>1, Enders DEF Approve, Reject, WriteRefreshed
    <3>3. copy[h].run # run
      <4> SUFFICES ASSUME copy[h].run = run PROVE FALSE
        OBVIOUS
      <4>1. CASE Approve(h)
        BY <1>1, <4>1, ApproveFresh DEF Concluded, Named
      <4>2. CASE Reject(h)
        BY <1>1, <4>2 DEF Reject, Inv, Session, RunRow, Concluded
      <4>3. CASE WriteRefreshed(h)
        <5>1. /\ run.status = "running"
              /\ run'.status \in {"running", "completed", "failed"}
              /\ \A t \in Tools : run'.results[t].job = run.results[t].job
          BY <1>1, <4>3, RefreshFresh
        <5>2. Named(run'.results) = Named(run.results)
          BY <5>1 DEF Named
        <5> QED
          BY <1>1, <5>1, <5>2 DEF Concluded
      <4> QED
        BY <3>1, <4>1, <4>2, <4>3
    <3> QED
      BY <3>2, <3>3
  <2>2. CASE ~ \E h \in Handlers : Approve(h) \/ Reject(h) \/ WriteRefreshed(h)
    <3>1. CASE Propose
      BY <1>1, <3>1 DEF Propose, Inv, RunRow, Concluded
    <3>2. CASE Start
      BY <1>1, <3>2 DEF Start, Started, NoRun, Concluded, Named
    <3> QED
      BY <1>1, <2>2, <3>1, <3>2, OtherSteps
  <2> QED
    BY <2>1, <2>2
<1>2. Inv /\ Started /\ [Next]_vars => [Again => ByStale]_vars
  BY <1>1
<1> QED
  BY <1>2, InvHolds, StartedHolds, PTL DEF Spec, DecidedAgainByStaleCopyOnly, Concluded

\* The run and the orchestration job it is read from part only by a run of that
\* job or by a request with an old copy of either.
THEOREM OnlyRunnerOrStaleCopiesPart == Spec => PartedByRunnerOrStaleCopy
<1> DEFINE ByStale == \E h \in Handlers :
                         /\ pc[h] \in {"approve", "reject", "write"} /\ pc'[h] = "idle"
                         /\ copy[h].run # run \/ copy[h].trace # trace.status
<1>1. ASSUME Inv, Started, [Next]_vars, Agree, ~Agree' PROVE RunOrchestration \/ ByStale
  <2>1. CASE \E h \in Handlers : Approve(h) \/ Reject(h) \/ WriteRefreshed(h)
    <3>1. PICK h \in Handlers : Approve(h) \/ Reject(h) \/ WriteRefreshed(h)
      BY <2>1
    <3>2. pc[h] \in {"approve", "reject", "write"} /\ pc'[h] = "idle"
      BY <1>1, <3>1, Enders DEF Approve, Reject, WriteRefreshed
    <3>3. copy[h].run # run \/ copy[h].trace # trace.status
      <4> SUFFICES ASSUME copy[h].run = run, copy[h].trace = trace.status PROVE FALSE
        OBVIOUS
      <4>1. CASE Approve(h)
        BY <1>1, <4>1, ApproveFresh
      <4>2. CASE Reject(h)
        BY <1>1, <4>2 DEF Reject, Agree, Inv, RunRow
      <4>3. CASE WriteRefreshed(h)
        <5>1. /\ run.status = "running" /\ run' = Refreshed(run, read[h])
              /\ run'.status \in {"running", "completed", "failed"}
          BY <1>1, <4>3, RefreshFresh
        <5>2. trace' = IF run'.status \in {"running", trace.status} THEN trace
                       ELSE [trace EXCEPT !.status = run'.status]
          BY <4>3, <5>1 DEF WriteRefreshed
        <5>3. trace'.status = run'.status
          BY <1>1, <5>1, <5>2 DEF Agree, Inv
        <5> QED
          BY <1>1, <5>1, <5>3 DEF Agree
      <4> QED
        BY <3>1, <4>1, <4>2, <4>3
    <3> QED
      BY <3>2, <3>3
  <2>2. CASE ~ \E h \in Handlers : Approve(h) \/ Reject(h) \/ WriteRefreshed(h)
    <3>1. CASE Propose
      BY <1>1, <3>1 DEF Propose, Inv, RunRow, Agree
    <3>2. CASE Start
      BY <1>1, <3>2 DEF Start, Launched, Submit, Agree
    <3>3. CASE run' = run /\ (RunOrchestration \/ trace' = trace)
      BY <1>1, <3>3 DEF Agree
    <3> QED
      BY <1>1, <2>2, <3>1, <3>2, <3>3, OtherSteps
  <2> QED
    BY <2>1, <2>2
<1>2. Inv /\ Started /\ [Next]_vars => [Agree /\ ~Agree' => RunOrchestration \/ ByStale]_vars
  BY <1>1
<1> QED
  BY <1>2, InvHolds, StartedHolds, PTL DEF Spec, PartedByRunnerOrStaleCopy

-----------------------------------------------------------------------------
(* One request at a time.  A sole request's copy is the run, so what only  *)
(* a stale copy can break is kept; jobs settle and are cancelled meanwhile *)
(* and the orchestration job may be run.                                   *)

Alone == \A g, h \in Handlers : g = h
Fresh ==
  \A h \in Handlers :
     pc[h] # "idle" => copy[h].run = run /\ run.status # "absent"

LEMMA NextFresh == ASSUME Alone PROVE Inv /\ Fresh /\ [Next]_vars => Fresh'
<1> SUFFICES ASSUME Inv, Fresh, [Next]_vars PROVE Fresh'
  OBVIOUS
<1> USE DEF Fresh, Inv, Sessions
<1>1. CASE Propose \/ Start
  BY <1>1 DEF Propose, Start
<1>2. ASSUME NEW h \in Handlers, NEW request \in {"approve", "reject", "refresh"},
             Request(h, request)
      PROVE  Fresh'
  BY <1>2 DEF Request, Undecided
<1>3. ASSUME NEW h \in Handlers, Leave(h) PROVE Fresh'
  BY <1>3, Alone DEF Alone, Leave
<1>4. ASSUME NEW h \in Handlers, ReadScans(h) PROVE Fresh'
  BY <1>4 DEF ReadScans
<1>5. CASE UNCHANGED <<run, pc, copy>>
  BY <1>5
<1> QED
  BY <1>1, <1>2, <1>3, <1>4, <1>5
  DEF Next, Approve, Reject, WriteRefreshed, Crash, Settle, Cancel,
      RunOrchestration, vars

\* A run keeps its evidence, the results that are in, its jobs and its end.
RunIsKept ==
  [][/\ run.evidence \subseteq run'.evidence
     /\ \A t \in Tools : run.results[t].status \in Concluded =>
                            run'.results[t] = run.results[t]
     /\ Named(run.results) \subseteq Named(run'.results)
     /\ run.status \in Concluded \union {"blocked"} => run'.status = run.status]_vars

\* Requests that never overlap lose nothing of a run and decide its plan once.
THEOREM LoneRequestsKeepRun == ASSUME Alone PROVE Spec => RunIsKept
<1> DEFINE Kept ==
      /\ run.evidence \subseteq run'.evidence
      /\ \A t \in Tools : run.results[t].status \in Concluded =>
                             run'.results[t] = run.results[t]
      /\ Named(run.results) \subseteq Named(run'.results)
      /\ run.status \in Concluded \union {"blocked"} => run'.status = run.status
<1>1. Init => Fresh
  BY DEF Init, Fresh
<1>2. Inv /\ Fresh /\ [Next]_vars => Fresh'
  BY Alone, NextFresh
<1>3. ASSUME Inv, Started, Fresh, [Next]_vars PROVE Kept
  <2>1. CASE \E h \in Handlers : Approve(h) \/ Reject(h) \/ WriteRefreshed(h)
    <3>1. PICK h \in Handlers : Approve(h) \/ Reject(h) \/ WriteRefreshed(h)
      BY <2>1
    <3>2. copy[h].run = run
      BY <1>3, <3>1 DEF Fresh, Approve, Reject, WriteRefreshed
    <3>3. CASE Approve(h)
      BY <1>3, <3>2, <3>3, ApproveFresh DEF Concluded, Named
    <3>4. CASE Reject(h)
      BY <1>3, <3>2, <3>4 DEF Reject, Inv, Session, RunRow, Concluded
    <3>5. CASE WriteRefreshed(h)
      <4>1. /\ run.status = "running"
            /\ run.evidence \subseteq run'.evidence
            /\ \A t \in Tools : /\ run'.results[t].job = run.results[t].job
                                /\ run.results[t].status # "authorized" =>
                                      run'.results[t] = run.results[t]
        BY <1>3, <3>2, <3>5, RefreshFresh
      <4>2. Named(run'.results) = Named(run.results)
        BY <4>1 DEF Named
      <4> QED
        BY <4>1, <4>2 DEF Concluded
    <3> QED
      BY <3>1, <3>3, <3>4, <3>5
  <2>2. CASE ~ \E h \in Handlers : Approve(h) \/ Reject(h) \/ WriteRefreshed(h)
    <3>1. CASE Propose
      BY <1>3, <3>1 DEF Propose, Inv, RunRow, Concluded
    <3>2. CASE Start
      BY <1>3, <3>2 DEF Start, Started, NoRun, Concluded, Named
    <3> QED
      BY <1>3, <2>2, <3>1, <3>2, OtherSteps
  <2> QED
    BY <2>1, <2>2
<1>4. Inv /\ Started /\ Fresh /\ [Next]_vars => [Kept]_vars
  BY <1>3
<1> QED
  BY <1>1, <1>2, <1>4, InvHolds, StartedHolds, PTL DEF Spec, RunIsKept, Concluded
=============================================================================
