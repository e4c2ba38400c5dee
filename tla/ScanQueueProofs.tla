--------------------------- MODULE ScanQueueProofs ---------------------------
(***************************************************************************)
(* Theorems about ScanQueue, for any sets of jobs, workers, direct         *)
(* executors, users and targets and any number of attempts.                *)
(***************************************************************************)
EXTENDS ScanQueue, TLAPS

-----------------------------------------------------------------------------
(* Type correctness.  TypeOK alone is not inductive: an execution reads and *)
(* writes the row of on[e], which is a row only because of its control     *)
(* state.                                                                  *)

Free(e) == pc[e] \in {"idle", "reaping"}

\* A process without an execution has no job and no attempt; one that is
\* executing has a job.
Sessions ==
  \A e \in Executors :
     IF Free(e) THEN on[e] = None /\ gen[e] = 0 ELSE on[e] \in Jobs

LEMMA InitTypeOK == Init => TypeOK
  BY BudgetAssumption
  DEF Init, TypeOK, Status, Active, Terminal, Lease, Pc, Selection, NoSelection

LEMMA LeaveTypes ==
  ASSUME TypeOK, NEW e \in Executors, Leave(e)
  PROVE  /\ pc' \in [Executors -> Pc]
         /\ on' \in [Executors -> Jobs \union {None}]
         /\ view' \in [Executors -> Status \union {None}]
         /\ todo' \in [Executors -> SUBSET Targets]
         /\ gen' \in [Executors -> 0..MaxAttempts]
  BY BudgetAssumption DEF TypeOK, Leave, Pc

LEMMA WriteTypes ==
  ASSUME TypeOK, NEW j, NEW loaded, NEW new \in Status,
         Write(j, loaded, new)
  PROVE  status' \in [Jobs -> Status]
  BY DEF TypeOK, Write

LEMMA NextTypeOK == TypeOK /\ Sessions /\ [Next]_vars => TypeOK'
<1> SUFFICES ASSUME TypeOK, Sessions, [Next]_vars PROVE TypeOK'
  OBVIOUS
<1> USE DEF TypeOK
<1>1. ASSUME NEW j \in Jobs, Submit(j) PROVE TypeOK'
  BY <1>1 DEF Submit, execVars, Status, Active
<1>2. ASSUME NEW j \in Jobs, LeaseExpires(j) PROVE TypeOK'
  BY <1>2 DEF LeaseExpires, execVars, Lease
<1>3. ASSUME NEW j \in Jobs, IngestHarnessOutput(j) PROVE TypeOK'
  BY <1>3 DEF IngestHarnessOutput, execVars, Status, Terminal
<1>4. ASSUME NEW j \in Jobs, NEW d \in Direct, SubmitInline(d, j) PROVE TypeOK'
  BY <1>4 DEF SubmitInline, Executors, Status, Active, Pc
<1>5. ASSUME NEW j \in Jobs, NEW d \in Direct, SubmitOrchestrated(d, j)
      PROVE  TypeOK'
  BY <1>5 DEF SubmitOrchestrated, Executors, Status, Active, Pc
<1>6. ASSUME NEW j \in Jobs, NEW u \in Users, CancelRead(u, j) PROVE TypeOK'
  BY <1>6 DEF CancelRead, rowVars, execVars
<1>7. ASSUME NEW u \in Users, CancelWrite(u) PROVE TypeOK'
  BY <1>7 DEF CancelWrite, execVars, Status, Terminal
<1>8. ASSUME NEW j \in Jobs, NEW w \in Workers, Claim(w, j) PROVE TypeOK'
  BY <1>8, BudgetAssumption
  DEF Claim, Claimable, NextAttempt, ExtendLease, Executors, Status, Active,
      Lease, Pc
<1>9. ASSUME NEW w \in Workers, Heartbeat(w) PROVE TypeOK'
  BY <1>9 DEF Heartbeat, ExtendLease, execVars, Lease
<1>10. ASSUME NEW w \in Workers, ReapSelect(w) PROVE TypeOK'
  BY <1>10 DEF ReapSelect, Lapsed, rowVars, Selection, Executors, Pc
<1>11. ASSUME NEW w \in Workers, ReapCommit(w) PROVE TypeOK'
  BY <1>11, LeaveTypes
  DEF ReapCommit, Selection, NoSelection, Executors, Status, Active, Terminal,
      Lease
<1>12. ASSUME NEW e \in Executors, Load(e) PROVE TypeOK'
  BY <1>12, LeaveTypes DEF Load, rowVars, Pc, Status, Active
<1>13. ASSUME NEW e \in Executors, PreflightFail(e) PROVE TypeOK'
  BY <1>13, LeaveTypes, WriteTypes DEF PreflightFail, Status, Terminal
<1>14. ASSUME NEW e \in Executors, Start(e) PROVE TypeOK'
  <2>1. "running" \in Status
    BY DEF Status, Active
  <2>2. status' \in [Jobs -> Status]
    BY <1>14, <2>1, WriteTypes DEF Start
  <2> QED
    BY <1>14, <2>1, <2>2 DEF Start, ExtendLease, Lease, Pc
<1>15. ASSUME NEW e \in Executors, CheckTarget(e) PROVE TypeOK'
  BY <1>15, LeaveTypes DEF CheckTarget, ExtendLease, Lease, Pc, Sessions, Free
<1>16. ASSUME NEW e \in Executors, ScanTarget(e) PROVE TypeOK'
  BY <1>16 DEF ScanTarget, ExtendLease, Lease, Pc, Sessions, Free
<1>17. ASSUME NEW e \in Executors, FinalCheck(e) PROVE TypeOK'
  BY <1>17, LeaveTypes DEF FinalCheck, rowVars, Pc, Sessions, Free
<1>18. ASSUME NEW e \in Executors, Complete(e) PROVE TypeOK'
  <2>1. "completed" \in Status
    BY DEF Status, Terminal
  <2>2. status' \in [Jobs -> Status]
    BY <1>18, <2>1, WriteTypes DEF Complete
  <2> QED
    BY <1>18, <2>1, <2>2 DEF Complete, Pc
<1>19. ASSUME NEW e \in Executors, Project(e) PROVE TypeOK'
  BY <1>19, LeaveTypes DEF Project, rowVars
<1>20. ASSUME NEW e \in Executors, Fail(e) PROVE TypeOK'
  BY <1>20, LeaveTypes, WriteTypes DEF Fail, Status, Terminal
<1>21. ASSUME NEW e \in Executors, Crash(e) PROVE TypeOK'
  BY <1>21, LeaveTypes DEF Crash, rowVars, Selection, NoSelection
<1>22. CASE UNCHANGED vars
  BY <1>22 DEF vars
<1> QED
  BY <1>1, <1>2, <1>3, <1>4, <1>5, <1>6, <1>7, <1>8, <1>9, <1>10, <1>11,
     <1>12, <1>13, <1>14, <1>15, <1>16, <1>17, <1>18, <1>19, <1>20, <1>21, <1>22
  DEF Next, Step

LEMMA InitSessions == Init => Sessions
  BY DEF Init, Sessions, Free

LEMMA NextSessions == TypeOK /\ Sessions /\ [Next]_vars => Sessions'
<1> SUFFICES ASSUME TypeOK, Sessions, [Next]_vars PROVE Sessions'
  OBVIOUS
<1> USE DEF Sessions, Free, TypeOK
<1>1. ASSUME NEW j \in Jobs, Submit(j) PROVE Sessions'
  BY <1>1 DEF Submit, execVars
<1>2. ASSUME NEW j \in Jobs, LeaseExpires(j) PROVE Sessions'
  BY <1>2 DEF LeaseExpires, execVars
<1>3. ASSUME NEW j \in Jobs, IngestHarnessOutput(j) PROVE Sessions'
  BY <1>3 DEF IngestHarnessOutput, execVars
<1>4. ASSUME NEW j \in Jobs, NEW d \in Direct, SubmitInline(d, j)
      PROVE  Sessions'
  BY <1>4 DEF SubmitInline, Executors
<1>5. ASSUME NEW j \in Jobs, NEW d \in Direct, SubmitOrchestrated(d, j)
      PROVE  Sessions'
  BY <1>5 DEF SubmitOrchestrated, Executors
<1>6. ASSUME NEW j \in Jobs, NEW u \in Users, CancelRead(u, j) PROVE Sessions'
  BY <1>6 DEF CancelRead, execVars
<1>7. ASSUME NEW u \in Users, CancelWrite(u) PROVE Sessions'
  BY <1>7 DEF CancelWrite, execVars
<1>8. ASSUME NEW j \in Jobs, NEW w \in Workers, Claim(w, j) PROVE Sessions'
  BY <1>8 DEF Claim, Executors
<1>9. ASSUME NEW w \in Workers, Heartbeat(w) PROVE Sessions'
  BY <1>9 DEF Heartbeat, execVars
<1>10. ASSUME NEW w \in Workers, ReapSelect(w) PROVE Sessions'
  BY <1>10 DEF ReapSelect, Executors
<1>11. ASSUME NEW w \in Workers, ReapCommit(w) PROVE Sessions'
  BY <1>11 DEF ReapCommit, Leave
<1>12. ASSUME NEW e \in Executors, Load(e) PROVE Sessions'
  BY <1>12 DEF Load, Leave
<1>13. ASSUME NEW e \in Executors, PreflightFail(e) PROVE Sessions'
  BY <1>13 DEF PreflightFail, Leave
<1>14. ASSUME NEW e \in Executors, Start(e) PROVE Sessions'
  BY <1>14 DEF Start
<1>15. ASSUME NEW e \in Executors, CheckTarget(e) PROVE Sessions'
  BY <1>15 DEF CheckTarget, Leave
<1>16. ASSUME NEW e \in Executors, ScanTarget(e) PROVE Sessions'
  BY <1>16 DEF ScanTarget
<1>17. ASSUME NEW e \in Executors, FinalCheck(e) PROVE Sessions'
  BY <1>17 DEF FinalCheck, Leave
<1>18. ASSUME NEW e \in Executors, Complete(e) PROVE Sessions'
  BY <1>18 DEF Complete
<1>19. ASSUME NEW e \in Executors, Project(e) PROVE Sessions'
  BY <1>19 DEF Project, Leave
<1>20. ASSUME NEW e \in Executors, Fail(e) PROVE Sessions'
  BY <1>20 DEF Fail, Leave
<1>21. ASSUME NEW e \in Executors, Crash(e) PROVE Sessions'
  BY <1>21 DEF Crash, Leave
<1>22. CASE UNCHANGED vars
  BY <1>22 DEF vars
<1> QED
  BY <1>1, <1>2, <1>3, <1>4, <1>5, <1>6, <1>7, <1>8, <1>9, <1>10, <1>11,
     <1>12, <1>13, <1>14, <1>15, <1>16, <1>17, <1>18, <1>19, <1>20, <1>21, <1>22
  DEF Next, Step

LEMMA SessionsInvariant == Spec => [](TypeOK /\ Sessions)
<1>1. Init => TypeOK /\ Sessions
  BY InitTypeOK, InitSessions
<1>2. TypeOK /\ Sessions /\ [Next]_vars => TypeOK' /\ Sessions'
  BY NextTypeOK, NextSessions
<1> QED
  BY <1>1, <1>2, PTL DEF Spec

\* The tables and the sessions always have the shape the schema and the code
\* give them; in particular attempt_count never exceeds max_attempts.
THEOREM TypeCorrect == Spec => []TypeOK
  BY SessionsInvariant, PTL

-----------------------------------------------------------------------------
(* The lease of a running row.                                             *)

LEMMA NextLeased ==
  TypeOK /\ RunningIsLeased /\ [Next]_vars => RunningIsLeased'
<1> SUFFICES ASSUME TypeOK, RunningIsLeased, [Next]_vars PROVE RunningIsLeased'
  OBVIOUS
<1> USE DEF RunningIsLeased, TypeOK
<1>1. ASSUME NEW j \in Jobs, Submit(j) PROVE RunningIsLeased'
  BY <1>1 DEF Submit
<1>2. ASSUME NEW j \in Jobs, LeaseExpires(j) PROVE RunningIsLeased'
  BY <1>2 DEF LeaseExpires
<1>3. ASSUME NEW j \in Jobs, IngestHarnessOutput(j) PROVE RunningIsLeased'
  BY <1>3 DEF IngestHarnessOutput
<1>4. ASSUME NEW j \in Jobs, NEW d \in Direct, SubmitInline(d, j)
      PROVE  RunningIsLeased'
  BY <1>4 DEF SubmitInline
<1>5. ASSUME NEW j \in Jobs, NEW d \in Direct, SubmitOrchestrated(d, j)
      PROVE  RunningIsLeased'
  BY <1>5 DEF SubmitOrchestrated
<1>6. ASSUME NEW j \in Jobs, NEW u \in Users, CancelRead(u, j)
      PROVE  RunningIsLeased'
  BY <1>6 DEF CancelRead, rowVars
<1>7. ASSUME NEW u \in Users, CancelWrite(u) PROVE RunningIsLeased'
  BY <1>7 DEF CancelWrite
<1>8. ASSUME NEW j \in Jobs, NEW w \in Workers, Claim(w, j)
      PROVE  RunningIsLeased'
  BY <1>8 DEF Claim, ExtendLease
<1>9. ASSUME NEW w \in Workers, Heartbeat(w) PROVE RunningIsLeased'
  BY <1>9 DEF Heartbeat, ExtendLease
<1>10. ASSUME NEW w \in Workers, ReapSelect(w) PROVE RunningIsLeased'
  BY <1>10 DEF ReapSelect, rowVars
<1>11. ASSUME NEW w \in Workers, ReapCommit(w) PROVE RunningIsLeased'
  BY <1>11 DEF ReapCommit
<1>12. ASSUME NEW e \in Executors, Load(e) PROVE RunningIsLeased'
  BY <1>12 DEF Load, rowVars
<1>13. ASSUME NEW e \in Executors, PreflightFail(e) PROVE RunningIsLeased'
  BY <1>13 DEF PreflightFail, Write
<1>14. ASSUME NEW e \in Executors, Start(e) PROVE RunningIsLeased'
  BY <1>14 DEF Start, Write, ExtendLease
<1>15. ASSUME NEW e \in Executors, CheckTarget(e) PROVE RunningIsLeased'
  BY <1>15 DEF CheckTarget, ExtendLease
<1>16. ASSUME NEW e \in Executors, ScanTarget(e) PROVE RunningIsLeased'
  BY <1>16 DEF ScanTarget, ExtendLease
<1>17. ASSUME NEW e \in Executors, FinalCheck(e) PROVE RunningIsLeased'
  BY <1>17 DEF FinalCheck, rowVars
<1>18. ASSUME NEW e \in Executors, Complete(e) PROVE RunningIsLeased'
  BY <1>18 DEF Complete, Write
<1>19. ASSUME NEW e \in Executors, Project(e) PROVE RunningIsLeased'
  BY <1>19 DEF Project, rowVars
<1>20. ASSUME NEW e \in Executors, Fail(e) PROVE RunningIsLeased'
  BY <1>20 DEF Fail, Write
<1>21. ASSUME NEW e \in Executors, Crash(e) PROVE RunningIsLeased'
  BY <1>21 DEF Crash, rowVars
<1>22. CASE UNCHANGED vars
  BY <1>22 DEF vars
<1> QED
  BY <1>1, <1>2, <1>3, <1>4, <1>5, <1>6, <1>7, <1>8, <1>9, <1>10, <1>11,
     <1>12, <1>13, <1>14, <1>15, <1>16, <1>17, <1>18, <1>19, <1>20, <1>21, <1>22
  DEF Next, Step

\* A running row always carries a lease, so the reaper can always find it.
THEOREM LeasedCorrect == Spec => []RunningIsLeased
<1>1. Init => RunningIsLeased
  BY DEF Init, RunningIsLeased
<1>2. TypeOK /\ RunningIsLeased /\ [Next]_vars => RunningIsLeased'
  BY NextLeased
<1> QED
  BY <1>1, <1>2, TypeCorrect, PTL DEF Spec

-----------------------------------------------------------------------------
(* Attempts.                                                               *)

\* The ticket of each worker, as ScanQueue's refinement defines it.
Tickets == [w \in Workers |-> [job |-> on[w], no |-> gen[w]]]

LedgerMove == Ledger!LedgerNext \/ UNCHANGED <<attempt_count, Tickets>>

LEMMA StutterMoves ==
  ASSUME UNCHANGED <<attempt_count, on, gen>>
  PROVE  LedgerMove
  BY DEF LedgerMove, Tickets

\* An execution that ends gives its attempt back, if it holds one.
LEMMA LeaveMoves ==
  ASSUME TypeOK, Sessions, NEW e \in Executors, Leave(e),
         UNCHANGED attempt_count
  PROVE  LedgerMove
<1>1. CASE e \in Workers /\ on[e] # None
  <2>1. Tickets[e] # Ledger!NoTicket
    BY <1>1 DEF Tickets, Ledger!NoTicket
  <2>2. Tickets' = [Tickets EXCEPT ![e] = Ledger!NoTicket]
    BY <1>1 DEF Tickets, Leave, Ledger!NoTicket, TypeOK, Executors
  <2>3. Ledger!GiveUp(e)
    BY <1>1, <2>1, <2>2 DEF Ledger!GiveUp, Tickets
  <2> QED
    BY <1>1, <2>3 DEF LedgerMove, Ledger!LedgerNext
<1>2. CASE e \notin Workers \/ on[e] = None
  <2>1. ASSUME NEW w \in Workers
        PROVE  on'[w] = on[w] /\ gen'[w] = gen[w]
    BY <1>2, <2>1, NoneAssumption DEF Leave, TypeOK, Sessions, Executors
  <2>2. UNCHANGED Tickets
    BY <2>1 DEF Tickets
  <2> QED
    BY <2>2 DEF LedgerMove
<1> QED
  BY <1>1, <1>2

\* A direct executor never holds a ticket.
LEMMA DirectMoves ==
  ASSUME TypeOK, NEW d \in Direct, NEW j \in Jobs,
         on' = [on EXCEPT ![d] = j], UNCHANGED <<attempt_count, gen>>
  PROVE  LedgerMove
<1>1. ASSUME NEW w \in Workers PROVE on'[w] = on[w]
  BY <1>1, DistinctAssumption DEF TypeOK, Executors
<1> QED
  BY <1>1 DEF LedgerMove, Tickets

\* Every step of the queue is a step of the ledger or leaves it unchanged.
LEMMA LedgerStep == TypeOK /\ Sessions /\ [Next]_vars => LedgerMove
<1> SUFFICES ASSUME TypeOK, Sessions, [Next]_vars PROVE LedgerMove
  OBVIOUS
<1>1. ASSUME NEW j \in Jobs, Submit(j) PROVE LedgerMove
  BY <1>1, StutterMoves DEF Submit, execVars
<1>2. ASSUME NEW j \in Jobs, LeaseExpires(j) PROVE LedgerMove
  BY <1>2, StutterMoves DEF LeaseExpires, execVars
<1>3. ASSUME NEW j \in Jobs, IngestHarnessOutput(j) PROVE LedgerMove
  BY <1>3, StutterMoves DEF IngestHarnessOutput, execVars
<1>4. ASSUME NEW j \in Jobs, NEW d \in Direct, SubmitInline(d, j)
      PROVE  LedgerMove
  BY <1>4, DirectMoves DEF SubmitInline, Free
<1>5. ASSUME NEW j \in Jobs, NEW d \in Direct, SubmitOrchestrated(d, j)
      PROVE  LedgerMove
  BY <1>5, DirectMoves DEF SubmitOrchestrated, Free
<1>6. ASSUME NEW j \in Jobs, NEW u \in Users, CancelRead(u, j)
      PROVE  LedgerMove
  BY <1>6, StutterMoves DEF CancelRead, rowVars, execVars
<1>7. ASSUME NEW u \in Users, CancelWrite(u) PROVE LedgerMove
  BY <1>7, StutterMoves DEF CancelWrite, execVars
<1>8. ASSUME NEW j \in Jobs, NEW w \in Workers, Claim(w, j) PROVE LedgerMove
  <2>1. w \in Executors /\ on[w] = None /\ gen[w] = 0
    BY <1>8 DEF Claim, Executors, Sessions, Free
  <2>2. Tickets[w] = Ledger!NoTicket
    BY <2>1 DEF Tickets, Ledger!NoTicket
  <2>3. Tickets' = [Tickets EXCEPT ![w] = [job |-> j, no |-> attempt_count[j] + 1]]
    BY <1>8, <2>1 DEF Claim, NextAttempt, Tickets, TypeOK, Executors
  <2>4. Ledger!Issue(w, j)
    BY <1>8, <2>2, <2>3 DEF Claim, Claimable, NextAttempt, Ledger!Issue, Tickets
  <2> QED
    BY <2>4 DEF LedgerMove, Ledger!LedgerNext
<1>9. ASSUME NEW w \in Workers, Heartbeat(w) PROVE LedgerMove
  BY <1>9, StutterMoves DEF Heartbeat, execVars
<1>10. ASSUME NEW w \in Workers, ReapSelect(w) PROVE LedgerMove
  BY <1>10, StutterMoves DEF ReapSelect, rowVars
<1>11. ASSUME NEW w \in Workers, ReapCommit(w) PROVE LedgerMove
  BY <1>11, LeaveMoves DEF ReapCommit, Executors
<1>12. ASSUME NEW e \in Executors, Load(e) PROVE LedgerMove
  BY <1>12, LeaveMoves, StutterMoves DEF Load, rowVars
<1>13. ASSUME NEW e \in Executors, PreflightFail(e) PROVE LedgerMove
  BY <1>13, LeaveMoves DEF PreflightFail
<1>14. ASSUME NEW e \in Executors, Start(e) PROVE LedgerMove
  BY <1>14, StutterMoves DEF Start
<1>15. ASSUME NEW e \in Executors, CheckTarget(e) PROVE LedgerMove
  BY <1>15, LeaveMoves, StutterMoves DEF CheckTarget
<1>16. ASSUME NEW e \in Executors, ScanTarget(e) PROVE LedgerMove
  BY <1>16, StutterMoves DEF ScanTarget
<1>17. ASSUME NEW e \in Executors, FinalCheck(e) PROVE LedgerMove
  BY <1>17, LeaveMoves, StutterMoves DEF FinalCheck, rowVars
<1>18. ASSUME NEW e \in Executors, Complete(e) PROVE LedgerMove
  BY <1>18, StutterMoves DEF Complete
<1>19. ASSUME NEW e \in Executors, Project(e) PROVE LedgerMove
  BY <1>19, LeaveMoves DEF Project, rowVars
<1>20. ASSUME NEW e \in Executors, Fail(e) PROVE LedgerMove
  BY <1>20, LeaveMoves DEF Fail
<1>21. ASSUME NEW e \in Executors, Crash(e) PROVE LedgerMove
  BY <1>21, LeaveMoves DEF Crash, rowVars
<1>22. CASE UNCHANGED vars
  BY <1>22, StutterMoves DEF vars
<1> QED
  BY <1>1, <1>2, <1>3, <1>4, <1>5, <1>6, <1>7, <1>8, <1>9, <1>10, <1>11,
     <1>12, <1>13, <1>14, <1>15, <1>16, <1>17, <1>18, <1>19, <1>20, <1>21, <1>22
  DEF Next, Step

\* The queue implements the ledger: attempts are issued one by one, each to
\* one worker, never more than MaxAttempts of them, whatever is written to the
\* rows meanwhile.
THEOREM LedgerImplemented == Spec => ImplementsLedger
<1>1. Init => Ledger!LedgerInit
  BY DEF Init, Ledger!LedgerInit, Ledger!NoTicket, Executors
<1>2. TypeOK /\ Sessions /\ [Next]_vars
        => [Ledger!LedgerNext]_(Ledger!ledgerVars)
  BY LedgerStep DEF LedgerMove, Tickets, Ledger!ledgerVars
<1> QED
  BY <1>1, <1>2, SessionsInvariant, PTL
  DEF Spec, ImplementsLedger, Ledger!LedgerSpec

\* Holders of attempts.  Uniqueness is inductive only together with the bound
\* by attempt_count: the attempt a claim hands out is larger than all others.
Attempts ==
  /\ \A w \in Workers :
        on[w] # None => gen[w] \in 1..attempt_count[on[w]]
  /\ \A w1, w2 \in Workers :
        on[w1] # None /\ on[w1] = on[w2] /\ gen[w1] = gen[w2] => w1 = w2

LEMMA MoveAttempts ==
  ASSUME TypeOK, TypeOK', Attempts, LedgerMove
  PROVE  Attempts'
<1>1. ASSUME NEW w \in Workers, Ledger!GiveUp(w) PROVE Attempts'
  <2>1. on'[w] = None /\ attempt_count' = attempt_count
    BY <1>1 DEF Ledger!GiveUp, Ledger!NoTicket
  <2>2. ASSUME NEW v \in Workers, v # w
        PROVE  on'[v] = on[v] /\ gen'[v] = gen[v]
    BY <1>1, <2>2 DEF Ledger!GiveUp, Ledger!NoTicket
  <2> QED
    BY <2>1, <2>2 DEF Attempts
<1>2. ASSUME NEW w \in Workers, NEW j \in Jobs, Ledger!Issue(w, j)
      PROVE  Attempts'
  <2>1. /\ on'[w] = j
        /\ gen'[w] = attempt_count[j] + 1
        /\ attempt_count' = [attempt_count EXCEPT ![j] = @ + 1]
    BY <1>2 DEF Ledger!Issue
  <2>2. ASSUME NEW v \in Workers, v # w
        PROVE  on'[v] = on[v] /\ gen'[v] = gen[v]
    BY <1>2, <2>2 DEF Ledger!Issue
  <2>3. ASSUME NEW i \in Jobs
        PROVE  attempt_count[i] \in Nat /\ attempt_count'[i] \in Nat
    BY <2>3, BudgetAssumption DEF TypeOK
  <2>4. ASSUME NEW i \in Jobs PROVE attempt_count[i] <= attempt_count'[i]
    BY <2>1, <2>3, <2>4 DEF TypeOK
  <2>5. ASSUME NEW v \in Workers, on'[v] # None
        PROVE  gen'[v] \in 1..attempt_count'[on'[v]]
    <3>1. CASE v = w
      BY <2>1, <2>3, <3>1 DEF TypeOK
    <3>2. CASE v # w
      <4>1. on[v] \in Jobs /\ gen[v] \in 1..attempt_count[on[v]]
        BY <2>2, <2>5, <3>2 DEF Attempts, TypeOK, Executors
      <4> QED
        BY <2>2, <2>3, <2>4, <3>2, <4>1
    <3> QED
      BY <3>1, <3>2
  <2>6. ASSUME NEW v \in Workers, v # w, on'[v] = j PROVE gen'[v] # gen'[w]
    <3>1. gen[v] \in 1..attempt_count[j]
      BY <2>2, <2>6, NoneAssumption DEF Attempts
    <3> QED
      BY <2>1, <2>2, <2>3, <2>6, <3>1
  <2>7. ASSUME NEW w1 \in Workers, NEW w2 \in Workers,
               on'[w1] # None, on'[w1] = on'[w2], gen'[w1] = gen'[w2]
        PROVE  w1 = w2
    BY <2>1, <2>2, <2>6, <2>7 DEF Attempts
  <2> QED
    BY <2>5, <2>7 DEF Attempts
<1>3. CASE UNCHANGED <<attempt_count, Tickets>>
  <2>1. ASSUME NEW w \in Workers
        PROVE  on'[w] = on[w] /\ gen'[w] = gen[w]
    BY <1>3 DEF Tickets
  <2> QED
    BY <1>3, <2>1 DEF Attempts
<1> QED
  BY <1>1, <1>2, <1>3 DEF LedgerMove, Ledger!LedgerNext

\* No attempt of a job is held by two workers, and every attempt held has been
\* counted: the promise of the row lock in _claim_next_pending_job.
THEOREM AttemptUniqueCorrect == Spec => []AttemptUnique
<1>1. Init => Attempts
  BY DEF Init, Attempts, Executors
<1>2. TypeOK /\ Sessions /\ Attempts /\ [Next]_vars => Attempts'
  BY NextTypeOK, LedgerStep, MoveAttempts
<1>3. Attempts => AttemptUnique
  BY NoneAssumption DEF Attempts, AttemptUnique, Executing
<1> QED
  BY <1>1, <1>2, <1>3, SessionsInvariant, PTL DEF Spec

-----------------------------------------------------------------------------
(* Completion and revival.                                                 *)

\* What an execution has left out of `todo' has been visited; past the loop
\* that is every target.
Coverage ==
  \A e \in Executors :
     /\ pc[e] \in {"loop", "scanning"} => Targets \subseteq scanned[on[e]] \union todo[e]
     /\ pc[e] = "mapping" => Targets \subseteq scanned[on[e]]

CoverageInv == Coverage /\ CompletedCoversTargets

LEMMA NextCoverage ==
  TypeOK /\ Sessions /\ CoverageInv /\ [Next]_vars => CoverageInv'
<1> SUFFICES ASSUME TypeOK, Sessions, CoverageInv, [Next]_vars
             PROVE  CoverageInv'
  OBVIOUS
<1> USE DEF TypeOK, Sessions, Free, CoverageInv, Coverage, CompletedCoversTargets
<1>1. ASSUME NEW j \in Jobs, Submit(j) PROVE CoverageInv'
  BY <1>1 DEF Submit, execVars
<1>2. ASSUME NEW j \in Jobs, LeaseExpires(j) PROVE CoverageInv'
  BY <1>2 DEF LeaseExpires, execVars
<1>3. ASSUME NEW j \in Jobs, IngestHarnessOutput(j) PROVE CoverageInv'
  BY <1>3 DEF IngestHarnessOutput, execVars
<1>4. ASSUME NEW j \in Jobs, NEW d \in Direct, SubmitInline(d, j)
      PROVE  CoverageInv'
  BY <1>4 DEF SubmitInline, Executors
<1>5. ASSUME NEW j \in Jobs, NEW d \in Direct, SubmitOrchestrated(d, j)
      PROVE  CoverageInv'
  BY <1>5 DEF SubmitOrchestrated, Executors
<1>6. ASSUME NEW j \in Jobs, NEW u \in Users, CancelRead(u, j)
      PROVE  CoverageInv'
  BY <1>6 DEF CancelRead, rowVars, execVars
<1>7. ASSUME NEW u \in Users, CancelWrite(u) PROVE CoverageInv'
  BY <1>7 DEF CancelWrite, execVars
<1>8. ASSUME NEW j \in Jobs, NEW w \in Workers, Claim(w, j) PROVE CoverageInv'
  BY <1>8 DEF Claim, Executors
<1>9. ASSUME NEW w \in Workers, Heartbeat(w) PROVE CoverageInv'
  BY <1>9 DEF Heartbeat, execVars
<1>10. ASSUME NEW w \in Workers, ReapSelect(w) PROVE CoverageInv'
  BY <1>10 DEF ReapSelect, rowVars
<1>11. ASSUME NEW w \in Workers, ReapCommit(w) PROVE CoverageInv'
  BY <1>11 DEF ReapCommit, Leave
<1>12. ASSUME NEW e \in Executors, Load(e) PROVE CoverageInv'
  BY <1>12 DEF Load, rowVars, Leave, Active
<1>13. ASSUME NEW e \in Executors, PreflightFail(e) PROVE CoverageInv'
  BY <1>13 DEF PreflightFail, Write, Leave
<1>14. ASSUME NEW e \in Executors, Start(e) PROVE CoverageInv'
  BY <1>14 DEF Start, Write
<1>15. ASSUME NEW e \in Executors, CheckTarget(e) PROVE CoverageInv'
  BY <1>15 DEF CheckTarget, Leave
<1>16. ASSUME NEW e \in Executors, ScanTarget(e) PROVE CoverageInv'
  BY <1>16 DEF ScanTarget
<1>17. ASSUME NEW e \in Executors, FinalCheck(e) PROVE CoverageInv'
  BY <1>17 DEF FinalCheck, rowVars, Leave
<1>18. ASSUME NEW e \in Executors, Complete(e) PROVE CoverageInv'
  <2>1. on[e] \in Jobs /\ Targets \subseteq scanned[on[e]]
    BY <1>18 DEF Complete
  <2>2. scanned[on[e]] = Targets
    BY <2>1
  <2>3. CompletedCoversTargets'
    BY <1>18, <2>1, <2>2 DEF Complete, Write
  <2> QED
    BY <1>18, <2>3 DEF Complete
<1>19. ASSUME NEW e \in Executors, Project(e) PROVE CoverageInv'
  BY <1>19 DEF Project, rowVars, Leave
<1>20. ASSUME NEW e \in Executors, Fail(e) PROVE CoverageInv'
  BY <1>20 DEF Fail, Write, Leave
<1>21. ASSUME NEW e \in Executors, Crash(e) PROVE CoverageInv'
  BY <1>21 DEF Crash, rowVars, Leave
<1>22. CASE UNCHANGED vars
  BY <1>22 DEF vars
<1> QED
  BY <1>1, <1>2, <1>3, <1>4, <1>5, <1>6, <1>7, <1>8, <1>9, <1>10, <1>11,
     <1>12, <1>13, <1>14, <1>15, <1>16, <1>17, <1>18, <1>19, <1>20, <1>21, <1>22
  DEF Next, Step

\* A completed job has visited every target and has an artifact for each, whatever
\* interruptions, retries, double executions and late reports it went through.
THEOREM CoverageCorrect == Spec => []CompletedCoversTargets
<1>1. Init => CoverageInv
  BY DEF Init, CoverageInv, Coverage, CompletedCoversTargets
<1>2. TypeOK /\ Sessions /\ CoverageInv /\ [Next]_vars => CoverageInv'
  BY NextCoverage
<1>3. CoverageInv => CompletedCoversTargets
  BY DEF CoverageInv
<1> QED
  BY <1>1, <1>2, <1>3, SessionsInvariant, PTL DEF Spec

\* The status check of _execute_scan: what an execution holds before it starts
\* was pending or running when it was loaded.
LoadedActive == \A e \in Executors : pc[e] = "loaded" => view[e] \in Active

LEMMA NextLoadedActive == TypeOK /\ LoadedActive /\ [Next]_vars => LoadedActive'
<1> SUFFICES ASSUME TypeOK, LoadedActive, [Next]_vars PROVE LoadedActive'
  OBVIOUS
<1> USE DEF TypeOK, LoadedActive
<1>1. ASSUME NEW j \in Jobs, Submit(j) PROVE LoadedActive'
  BY <1>1 DEF Submit, execVars
<1>2. ASSUME NEW j \in Jobs, LeaseExpires(j) PROVE LoadedActive'
  BY <1>2 DEF LeaseExpires, execVars
<1>3. ASSUME NEW j \in Jobs, IngestHarnessOutput(j) PROVE LoadedActive'
  BY <1>3 DEF IngestHarnessOutput, execVars
<1>4. ASSUME NEW j \in Jobs, NEW d \in Direct, SubmitInline(d, j)
      PROVE  LoadedActive'
  BY <1>4 DEF SubmitInline, Executors
<1>5. ASSUME NEW j \in Jobs, NEW d \in Direct, SubmitOrchestrated(d, j)
      PROVE  LoadedActive'
  BY <1>5 DEF SubmitOrchestrated, Executors, Active
<1>6. ASSUME NEW j \in Jobs, NEW u \in Users, CancelRead(u, j)
      PROVE  LoadedActive'
  BY <1>6 DEF CancelRead, execVars
<1>7. ASSUME NEW u \in Users, CancelWrite(u) PROVE LoadedActive'
  BY <1>7 DEF CancelWrite, execVars
<1>8. ASSUME NEW j \in Jobs, NEW w \in Workers, Claim(w, j)
      PROVE  LoadedActive'
  BY <1>8 DEF Claim, Executors
<1>9. ASSUME NEW w \in Workers, Heartbeat(w) PROVE LoadedActive'
  BY <1>9 DEF Heartbeat, execVars
<1>10. ASSUME NEW w \in Workers, ReapSelect(w) PROVE LoadedActive'
  BY <1>10 DEF ReapSelect
<1>11. ASSUME NEW w \in Workers, ReapCommit(w) PROVE LoadedActive'
  BY <1>11 DEF ReapCommit, Leave
<1>12. ASSUME NEW e \in Executors, Load(e) PROVE LoadedActive'
  BY <1>12 DEF Load, Leave
<1>13. ASSUME NEW e \in Executors, PreflightFail(e) PROVE LoadedActive'
  BY <1>13 DEF PreflightFail, Leave
<1>14. ASSUME NEW e \in Executors, Start(e) PROVE LoadedActive'
  BY <1>14 DEF Start
<1>15. ASSUME NEW e \in Executors, CheckTarget(e) PROVE LoadedActive'
  BY <1>15 DEF CheckTarget, Leave
<1>16. ASSUME NEW e \in Executors, ScanTarget(e) PROVE LoadedActive'
  BY <1>16 DEF ScanTarget
<1>17. ASSUME NEW e \in Executors, FinalCheck(e) PROVE LoadedActive'
  BY <1>17 DEF FinalCheck, Leave
<1>18. ASSUME NEW e \in Executors, Complete(e) PROVE LoadedActive'
  BY <1>18 DEF Complete
<1>19. ASSUME NEW e \in Executors, Project(e) PROVE LoadedActive'
  BY <1>19 DEF Project, Leave
<1>20. ASSUME NEW e \in Executors, Fail(e) PROVE LoadedActive'
  BY <1>20 DEF Fail, Leave
<1>21. ASSUME NEW e \in Executors, Crash(e) PROVE LoadedActive'
  BY <1>21 DEF Crash, Leave
<1>22. CASE UNCHANGED vars
  BY <1>22 DEF vars
<1> QED
  BY <1>1, <1>2, <1>3, <1>4, <1>5, <1>6, <1>7, <1>8, <1>9, <1>10, <1>11,
     <1>12, <1>13, <1>14, <1>15, <1>16, <1>17, <1>18, <1>19, <1>20, <1>21, <1>22
  DEF Next, Step

\* The step that brings an ended job back.
Revival ==
  \A j \in Jobs :
     status[j] \in Terminal /\ status'[j] \in Active
     => \/ \E w \in Workers : pc[w] = "reaping" /\ j \in stale[w].retry
        \/ \E e \in Executors :
              pc[e] = "loaded" /\ on[e] = j /\ view[e] = "pending"

LEMMA NextRevival == TypeOK /\ LoadedActive /\ [Next]_vars => Revival
<1> SUFFICES ASSUME TypeOK, LoadedActive, [Next]_vars PROVE Revival
  OBVIOUS
<1> USE DEF TypeOK, Revival, Active, Terminal
<1>1. ASSUME NEW j \in Jobs, Submit(j) PROVE Revival
  BY <1>1 DEF Submit
<1>2. ASSUME NEW j \in Jobs, LeaseExpires(j) PROVE Revival
  BY <1>2 DEF LeaseExpires
<1>3. ASSUME NEW j \in Jobs, IngestHarnessOutput(j) PROVE Revival
  BY <1>3 DEF IngestHarnessOutput
<1>4. ASSUME NEW j \in Jobs, NEW d \in Direct, SubmitInline(d, j)
      PROVE  Revival
  BY <1>4 DEF SubmitInline
<1>5. ASSUME NEW j \in Jobs, NEW d \in Direct, SubmitOrchestrated(d, j)
      PROVE  Revival
  BY <1>5 DEF SubmitOrchestrated
<1>6. ASSUME NEW j \in Jobs, NEW u \in Users, CancelRead(u, j) PROVE Revival
  BY <1>6 DEF CancelRead, rowVars
<1>7. ASSUME NEW u \in Users, CancelWrite(u) PROVE Revival
  BY <1>7 DEF CancelWrite
<1>8. ASSUME NEW j \in Jobs, NEW w \in Workers, Claim(w, j) PROVE Revival
  BY <1>8 DEF Claim, Claimable
<1>9. ASSUME NEW w \in Workers, Heartbeat(w) PROVE Revival
  BY <1>9 DEF Heartbeat
<1>10. ASSUME NEW w \in Workers, ReapSelect(w) PROVE Revival
  BY <1>10 DEF ReapSelect, rowVars
<1>11. ASSUME NEW w \in Workers, ReapCommit(w) PROVE Revival
  BY <1>11 DEF ReapCommit
<1>12. ASSUME NEW e \in Executors, Load(e) PROVE Revival
  BY <1>12 DEF Load, rowVars
<1>13. ASSUME NEW e \in Executors, PreflightFail(e) PROVE Revival
  BY <1>13 DEF PreflightFail, Write
<1>14. ASSUME NEW e \in Executors, Start(e) PROVE Revival
  BY <1>14 DEF Start, Write, LoadedActive
<1>15. ASSUME NEW e \in Executors, CheckTarget(e) PROVE Revival
  BY <1>15 DEF CheckTarget
<1>16. ASSUME NEW e \in Executors, ScanTarget(e) PROVE Revival
  BY <1>16 DEF ScanTarget
<1>17. ASSUME NEW e \in Executors, FinalCheck(e) PROVE Revival
  BY <1>17 DEF FinalCheck, rowVars
<1>18. ASSUME NEW e \in Executors, Complete(e) PROVE Revival
  BY <1>18 DEF Complete, Write
<1>19. ASSUME NEW e \in Executors, Project(e) PROVE Revival
  BY <1>19 DEF Project, rowVars
<1>20. ASSUME NEW e \in Executors, Fail(e) PROVE Revival
  BY <1>20 DEF Fail, Write
<1>21. ASSUME NEW e \in Executors, Crash(e) PROVE Revival
  BY <1>21 DEF Crash, rowVars
<1>22. CASE UNCHANGED vars
  BY <1>22 DEF vars
<1> QED
  BY <1>1, <1>2, <1>3, <1>4, <1>5, <1>6, <1>7, <1>8, <1>9, <1>10, <1>11,
     <1>12, <1>13, <1>14, <1>15, <1>16, <1>17, <1>18, <1>19, <1>20, <1>21, <1>22
  DEF Next, Step

\* An ended job is revived only by a reaper that loaded it while it ran or by
\* an execution that loaded it while it was pending.
THEOREM RevivedCorrect == Spec => RevivedByStaleSession
<1>1. Init => LoadedActive
  BY DEF Init, LoadedActive
<1>2. TypeOK /\ LoadedActive /\ [Next]_vars => LoadedActive'
  BY NextLoadedActive
<1>3. TypeOK /\ LoadedActive /\ [Next]_vars => [Revival]_vars
  BY NextRevival
<1>4. Spec => []LoadedActive
  BY <1>1, <1>2, TypeCorrect, PTL DEF Spec
<1>5. Spec => [][Revival]_vars
  BY <1>3, <1>4, TypeCorrect, PTL DEF Spec
<1> QED
  BY <1>5 DEF RevivedByStaleSession, Revival

\* The step that an ended job nobody holds may take: none.
Final ==
  \A j \in Jobs \ Bundled :
     status[j] \in Terminal /\ ~Held(j) => status'[j] = status[j] /\ ~Held(j)'

LEMMA NextFinal == TypeOK /\ Sessions /\ [Next]_vars => Final
<1> SUFFICES ASSUME TypeOK, Sessions, [Next]_vars,
                    NEW i \in Jobs \ Bundled, status[i] \in Terminal, ~Held(i)
             PROVE  status'[i] = status[i] /\ ~Held(i)'
  BY DEF Final
<1> USE DEF TypeOK, Sessions, Free, Held, Executing, Active, Terminal
<1>1. ASSUME NEW j \in Jobs, Submit(j)
      PROVE  status'[i] = status[i] /\ ~Held(i)'
  BY <1>1 DEF Submit, execVars
<1>2. ASSUME NEW j \in Jobs, LeaseExpires(j)
      PROVE  status'[i] = status[i] /\ ~Held(i)'
  BY <1>2 DEF LeaseExpires, execVars
<1>3. ASSUME NEW j \in Jobs, IngestHarnessOutput(j)
      PROVE  status'[i] = status[i] /\ ~Held(i)'
  BY <1>3 DEF IngestHarnessOutput, execVars
<1>4. ASSUME NEW j \in Jobs, NEW d \in Direct, SubmitInline(d, j)
      PROVE  status'[i] = status[i] /\ ~Held(i)'
  BY <1>4 DEF SubmitInline, Executors
<1>5. ASSUME NEW j \in Jobs, NEW d \in Direct, SubmitOrchestrated(d, j)
      PROVE  status'[i] = status[i] /\ ~Held(i)'
  BY <1>5 DEF SubmitOrchestrated, Executors
<1>6. ASSUME NEW j \in Jobs, NEW u \in Users, CancelRead(u, j)
      PROVE  status'[i] = status[i] /\ ~Held(i)'
  BY <1>6 DEF CancelRead, rowVars, execVars
<1>7. ASSUME NEW u \in Users, CancelWrite(u)
      PROVE  status'[i] = status[i] /\ ~Held(i)'
  BY <1>7, NoneAssumption DEF CancelWrite, execVars
<1>8. ASSUME NEW j \in Jobs, NEW w \in Workers, Claim(w, j)
      PROVE  status'[i] = status[i] /\ ~Held(i)'
  BY <1>8 DEF Claim, Claimable, Executors
<1>9. ASSUME NEW w \in Workers, Heartbeat(w)
      PROVE  status'[i] = status[i] /\ ~Held(i)'
  BY <1>9 DEF Heartbeat, execVars
<1>10. ASSUME NEW w \in Workers, ReapSelect(w)
      PROVE  status'[i] = status[i] /\ ~Held(i)'
  BY <1>10 DEF ReapSelect, rowVars, Lapsed, Executors
<1>11. ASSUME NEW w \in Workers, ReapCommit(w)
      PROVE  status'[i] = status[i] /\ ~Held(i)'
  BY <1>11 DEF ReapCommit, Leave, NoSelection
<1>12. ASSUME NEW e \in Executors, Load(e)
      PROVE  status'[i] = status[i] /\ ~Held(i)'
  BY <1>12 DEF Load, rowVars, Leave
<1>13. ASSUME NEW e \in Executors, PreflightFail(e)
      PROVE  status'[i] = status[i] /\ ~Held(i)'
  BY <1>13 DEF PreflightFail, Write, Leave
<1>14. ASSUME NEW e \in Executors, Start(e)
      PROVE  status'[i] = status[i] /\ ~Held(i)'
  BY <1>14 DEF Start, Write
<1>15. ASSUME NEW e \in Executors, CheckTarget(e)
      PROVE  status'[i] = status[i] /\ ~Held(i)'
  BY <1>15 DEF CheckTarget, Leave
<1>16. ASSUME NEW e \in Executors, ScanTarget(e)
      PROVE  status'[i] = status[i] /\ ~Held(i)'
  BY <1>16 DEF ScanTarget
<1>17. ASSUME NEW e \in Executors, FinalCheck(e)
      PROVE  status'[i] = status[i] /\ ~Held(i)'
  BY <1>17 DEF FinalCheck, rowVars, Leave
<1>18. ASSUME NEW e \in Executors, Complete(e)
      PROVE  status'[i] = status[i] /\ ~Held(i)'
  BY <1>18 DEF Complete, Write
<1>19. ASSUME NEW e \in Executors, Project(e)
      PROVE  status'[i] = status[i] /\ ~Held(i)'
  BY <1>19 DEF Project, rowVars, Leave
<1>20. ASSUME NEW e \in Executors, Fail(e)
      PROVE  status'[i] = status[i] /\ ~Held(i)'
  BY <1>20 DEF Fail, Write, Leave
<1>21. ASSUME NEW e \in Executors, Crash(e)
      PROVE  status'[i] = status[i] /\ ~Held(i)'
  BY <1>21 DEF Crash, rowVars, Leave, NoSelection
<1>22. CASE UNCHANGED vars
  BY <1>22 DEF vars
<1> QED
  BY <1>1, <1>2, <1>3, <1>4, <1>5, <1>6, <1>7, <1>8, <1>9, <1>10, <1>11,
     <1>12, <1>13, <1>14, <1>15, <1>16, <1>17, <1>18, <1>19, <1>20, <1>21, <1>22
  DEF Next, Step

\* Once a job has ended and the sessions that loaded it before are gone, its
\* status never changes again.
THEOREM TerminalCorrect == Spec => TerminalIsFinal
<1>1. TypeOK /\ Sessions /\ [Next]_vars => [Final]_vars
  BY NextFinal
<1>2. Spec => [][Final]_vars
  BY <1>1, SessionsInvariant, PTL DEF Spec
<1> QED
  BY <1>2 DEF TerminalIsFinal, Final

-----------------------------------------------------------------------------
(* Stranded jobs: pending rows whose attempts are used up.                 *)

\* No attempt is counted before the row is inserted, and only a reaper holds
\* a selection.
Unused ==
  /\ \A j \in Jobs : status[j] = "absent" => attempt_count[j] = 0
  /\ \A w \in Workers : pc[w] # "reaping" => stale[w] = NoSelection

LEMMA NextUnused == TypeOK /\ Sessions /\ Unused /\ [Next]_vars => Unused'
<1> SUFFICES ASSUME TypeOK, Sessions, Unused, [Next]_vars PROVE Unused'
  OBVIOUS
<1> USE DEF TypeOK, Unused
<1>1. ASSUME NEW j \in Jobs, Submit(j) PROVE Unused'
  BY <1>1 DEF Submit, execVars
<1>2. ASSUME NEW j \in Jobs, LeaseExpires(j) PROVE Unused'
  BY <1>2 DEF LeaseExpires, execVars
<1>3. ASSUME NEW j \in Jobs, IngestHarnessOutput(j) PROVE Unused'
  BY <1>3 DEF IngestHarnessOutput, execVars
<1>4. ASSUME NEW j \in Jobs, NEW d \in Direct, SubmitInline(d, j)
      PROVE  Unused'
  BY <1>4, DistinctAssumption DEF SubmitInline, Executors
<1>5. ASSUME NEW j \in Jobs, NEW d \in Direct, SubmitOrchestrated(d, j)
      PROVE  Unused'
  BY <1>5, DistinctAssumption DEF SubmitOrchestrated, Executors
<1>6. ASSUME NEW j \in Jobs, NEW u \in Users, CancelRead(u, j) PROVE Unused'
  BY <1>6 DEF CancelRead, rowVars, execVars
<1>7. ASSUME NEW u \in Users, CancelWrite(u) PROVE Unused'
  BY <1>7 DEF CancelWrite, execVars
<1>8. ASSUME NEW j \in Jobs, NEW w \in Workers, Claim(w, j) PROVE Unused'
  BY <1>8 DEF Claim, Claimable, Executors
<1>9. ASSUME NEW w \in Workers, Heartbeat(w) PROVE Unused'
  BY <1>9 DEF Heartbeat, execVars
<1>10. ASSUME NEW w \in Workers, ReapSelect(w) PROVE Unused'
  BY <1>10 DEF ReapSelect, rowVars, Executors
<1>11. ASSUME NEW w \in Workers, ReapCommit(w) PROVE Unused'
  BY <1>11 DEF ReapCommit, Leave, Executors
<1>12. ASSUME NEW e \in Executors, Load(e) PROVE Unused'
  BY <1>12 DEF Load, Leave, rowVars, Executors
<1>13. ASSUME NEW e \in Executors, PreflightFail(e) PROVE Unused'
  BY <1>13 DEF PreflightFail, Write, Leave, Executors
<1>14. ASSUME NEW e \in Executors, Start(e) PROVE Unused'
  BY <1>14 DEF Start, Write, Executors
<1>15. ASSUME NEW e \in Executors, CheckTarget(e) PROVE Unused'
  BY <1>15 DEF CheckTarget, Leave, Executors
<1>16. ASSUME NEW e \in Executors, ScanTarget(e) PROVE Unused'
  BY <1>16 DEF ScanTarget, Executors
<1>17. ASSUME NEW e \in Executors, FinalCheck(e) PROVE Unused'
  BY <1>17 DEF FinalCheck, Leave, rowVars, Executors
<1>18. ASSUME NEW e \in Executors, Complete(e) PROVE Unused'
  BY <1>18 DEF Complete, Write, Executors
<1>19. ASSUME NEW e \in Executors, Project(e) PROVE Unused'
  BY <1>19 DEF Project, rowVars, Leave, Executors
<1>20. ASSUME NEW e \in Executors, Fail(e) PROVE Unused'
  BY <1>20 DEF Fail, Write, Leave, Executors
<1>21. ASSUME NEW e \in Executors, Crash(e) PROVE Unused'
  BY <1>21 DEF Crash, Leave, rowVars, Executors
<1>22. CASE UNCHANGED vars
  BY <1>22 DEF vars
<1> QED
  BY <1>1, <1>2, <1>3, <1>4, <1>5, <1>6, <1>7, <1>8, <1>9, <1>10, <1>11,
     <1>12, <1>13, <1>14, <1>15, <1>16, <1>17, <1>18, <1>19, <1>20, <1>21, <1>22
  DEF Next, Step

LEMMA UnusedInvariant == Spec => [](TypeOK /\ Sessions /\ Unused)
<1>1. Init => Unused
  BY DEF Init, Unused
<1>2. TypeOK /\ Sessions /\ Unused /\ [Next]_vars => Unused'
  BY NextUnused
<1> QED
  BY <1>1, <1>2, SessionsInvariant, PTL DEF Spec

\* The step that strands a job.
Stranding ==
  \A j \in Jobs :
     ~Stranded(j) /\ Stranded(j)'
     => \E w \in Workers :
           pc[w] = "reaping" /\ j \in stale[w].retry /\ Exhausted(j)

LEMMA NextStranding == TypeOK /\ Sessions /\ Unused /\ [Next]_vars => Stranding
<1> SUFFICES ASSUME TypeOK, Sessions, Unused, [Next]_vars,
                    NEW i \in Jobs, ~Stranded(i), Stranded(i)'
             PROVE  \E w \in Workers :
                       pc[w] = "reaping" /\ i \in stale[w].retry /\ Exhausted(i)
  BY DEF Stranding
<1> USE DEF TypeOK, Sessions, Free, Stranded
<1>1. ASSUME NEW j \in Jobs, Submit(j) PROVE FALSE
  BY <1>1, BudgetAssumption DEF Submit, Unused
<1>2. ASSUME NEW j \in Jobs, LeaseExpires(j) PROVE FALSE
  BY <1>2 DEF LeaseExpires
<1>3. ASSUME NEW j \in Jobs, IngestHarnessOutput(j) PROVE FALSE
  BY <1>3 DEF IngestHarnessOutput
<1>4. ASSUME NEW j \in Jobs, NEW d \in Direct, SubmitInline(d, j) PROVE FALSE
  BY <1>4, BudgetAssumption DEF SubmitInline, Unused
<1>5. ASSUME NEW j \in Jobs, NEW d \in Direct, SubmitOrchestrated(d, j)
      PROVE  FALSE
  BY <1>5, BudgetAssumption DEF SubmitOrchestrated, Unused
<1>6. ASSUME NEW j \in Jobs, NEW u \in Users, CancelRead(u, j) PROVE FALSE
  BY <1>6 DEF CancelRead, rowVars
<1>7. ASSUME NEW u \in Users, CancelWrite(u) PROVE FALSE
  BY <1>7 DEF CancelWrite
<1>8. ASSUME NEW j \in Jobs, NEW w \in Workers, Claim(w, j) PROVE FALSE
  BY <1>8 DEF Claim
<1>9. ASSUME NEW w \in Workers, Heartbeat(w) PROVE FALSE
  BY <1>9 DEF Heartbeat
<1>10. ASSUME NEW w \in Workers, ReapSelect(w) PROVE FALSE
  BY <1>10 DEF ReapSelect, rowVars
<1>11. ASSUME NEW w \in Workers, ReapCommit(w)
       PROVE  pc[w] = "reaping" /\ i \in stale[w].retry /\ Exhausted(i)
  BY <1>11 DEF ReapCommit, Exhausted
<1>12. ASSUME NEW e \in Executors, Load(e) PROVE FALSE
  BY <1>12 DEF Load, rowVars
<1>13. ASSUME NEW e \in Executors, PreflightFail(e) PROVE FALSE
  BY <1>13 DEF PreflightFail, Write
<1>14. ASSUME NEW e \in Executors, Start(e) PROVE FALSE
  BY <1>14 DEF Start, Write
<1>15. ASSUME NEW e \in Executors, CheckTarget(e) PROVE FALSE
  BY <1>15 DEF CheckTarget
<1>16. ASSUME NEW e \in Executors, ScanTarget(e) PROVE FALSE
  BY <1>16 DEF ScanTarget
<1>17. ASSUME NEW e \in Executors, FinalCheck(e) PROVE FALSE
  BY <1>17 DEF FinalCheck, rowVars
<1>18. ASSUME NEW e \in Executors, Complete(e) PROVE FALSE
  BY <1>18 DEF Complete, Write
<1>19. ASSUME NEW e \in Executors, Project(e) PROVE FALSE
  BY <1>19 DEF Project, rowVars
<1>20. ASSUME NEW e \in Executors, Fail(e) PROVE FALSE
  BY <1>20 DEF Fail, Write
<1>21. ASSUME NEW e \in Executors, Crash(e) PROVE FALSE
  BY <1>21 DEF Crash, rowVars
<1>22. CASE UNCHANGED vars
  BY <1>22 DEF vars
<1> QED
  BY <1>1, <1>2, <1>3, <1>4, <1>5, <1>6, <1>7, <1>8, <1>9, <1>10, <1>11,
     <1>12, <1>13, <1>14, <1>15, <1>16, <1>17, <1>18, <1>19, <1>20, <1>21, <1>22
  DEF Next, Step

\* A job is stranded only by a reaper that puts it back to pending after its
\* last attempt has been claimed: the row it selected had attempts left.
StrandedByStaleReaper == [][Stranding]_vars

\* No claim, cancellation, late outcome or crash strands a job.
THEOREM StrandingCorrect == Spec => StrandedByStaleReaper
<1>1. TypeOK /\ Sessions /\ Unused /\ [Next]_vars => [Stranding]_vars
  BY NextStranding
<1> QED
  BY <1>1, UnusedInvariant, PTL DEF Spec, StrandedByStaleReaper

\* What a sole worker means to retry still has attempts left: it does not
\* claim while it reaps.
SoleWorker == \A v, w \in Workers : v = w
RetriesLeft ==
  \A w \in Workers : \A j \in stale[w].retry : attempt_count[j] < MaxAttempts

LEMMA NextRetriesLeft ==
  ASSUME SoleWorker
  PROVE  TypeOK /\ Sessions /\ Unused /\ RetriesLeft /\ [Next]_vars => RetriesLeft'
<1> SUFFICES ASSUME TypeOK, Sessions, Unused, RetriesLeft, [Next]_vars
             PROVE  RetriesLeft'
  OBVIOUS
<1> USE DEF TypeOK, RetriesLeft
<1>1. ASSUME NEW j \in Jobs, NEW w \in Workers, Claim(w, j) PROVE RetriesLeft'
  <2>1. \A v \in Workers : stale'[v] = NoSelection
    BY <1>1, SoleWorker DEF SoleWorker, Claim, Unused
  <2> QED
    BY <2>1 DEF NoSelection
<1>2. ASSUME NEW w \in Workers, ReapSelect(w) PROVE RetriesLeft'
  BY <1>2, BudgetAssumption DEF ReapSelect, Exhausted, rowVars
<1>3. ASSUME NEW w \in Workers, ReapCommit(w) PROVE RetriesLeft'
  BY <1>3 DEF ReapCommit, NoSelection
<1>4. ASSUME NEW e \in Executors, Crash(e) PROVE RetriesLeft'
  BY <1>4 DEF Crash, rowVars, NoSelection
<1>5. CASE UNCHANGED <<attempt_count, stale>>
  BY <1>5
<1>6. ASSUME NEW j \in Jobs,
             \/ Submit(j) \/ LeaseExpires(j) \/ IngestHarnessOutput(j)
             \/ \E d \in Direct : SubmitInline(d, j) \/ SubmitOrchestrated(d, j)
             \/ \E u \in Users : CancelRead(u, j)
      PROVE  UNCHANGED <<attempt_count, stale>>
  BY <1>6
  DEF Submit, LeaseExpires, IngestHarnessOutput, SubmitInline,
      SubmitOrchestrated, CancelRead, rowVars
<1>7. ASSUME \/ \E u \in Users : CancelWrite(u)
             \/ \E w \in Workers : Heartbeat(w)
             \/ \E e \in Executors : Step(e)
             \/ UNCHANGED vars
      PROVE  UNCHANGED <<attempt_count, stale>>
  BY <1>7
  DEF CancelWrite, Heartbeat, Step, Load, PreflightFail, Start, CheckTarget,
      ScanTarget, FinalCheck, Complete, Project, Fail, rowVars, vars
<1> QED
  BY <1>1, <1>2, <1>3, <1>4, <1>5, <1>6, <1>7 DEF Next

\* With at most one polling worker, and any executors that never claim, no job
\* is ever stranded.
THEOREM NoJobStrandedCorrect == ASSUME SoleWorker PROVE Spec => []NoJobStranded
<1>1. Init => RetriesLeft /\ NoJobStranded
  BY BudgetAssumption DEF Init, RetriesLeft, NoSelection, NoJobStranded, Stranded
<1>2. TypeOK /\ Sessions /\ Unused /\ RetriesLeft /\ [Next]_vars => RetriesLeft'
  BY SoleWorker, NextRetriesLeft
<1>3. /\ TypeOK /\ Sessions /\ Unused /\ RetriesLeft /\ NoJobStranded
      /\ [Next]_vars
      => NoJobStranded'
  <2> SUFFICES ASSUME TypeOK, Sessions, Unused, RetriesLeft, NoJobStranded,
                      [Next]_vars, NEW j \in Jobs, Stranded(j)'
               PROVE  FALSE
    BY DEF NoJobStranded
  <2>1. ~Stranded(j)
    BY DEF NoJobStranded
  <2>2. Stranding
    BY NextStranding
  <2>3. PICK w \in Workers : j \in stale[w].retry /\ Exhausted(j)
    BY <2>1, <2>2 DEF Stranding
  <2>4. attempt_count[j] \in Nat /\ MaxAttempts \in Nat
    BY BudgetAssumption DEF TypeOK
  <2> QED
    BY <2>3, <2>4 DEF RetriesLeft, Exhausted
<1> QED
  BY <1>1, <1>2, <1>3, UnusedInvariant, PTL DEF Spec
=============================================================================
