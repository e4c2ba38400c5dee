----------------------- MODULE OrchestrationQueueProofs -----------------------
(***************************************************************************)
(* Theorems about OrchestrationQueue.  The type invariant holds for all    *)
(* values of the constants.  That a job stays ended is proved for the      *)
(* polling workers alone: a request rolls up on an old copy of the job.    *)
(* That attempts are never taken back is proved for up to two attempts: a  *)
(* claim on a copy that is several attempts old takes some back.  With one *)
(* attempt per task, the default, the outcomes and the end of the job are  *)
(* right for any workers and any requests; with any number of attempts     *)
(* they are so for one process at a time.                                  *)
(***************************************************************************)
EXTENDS OrchestrationQueue, TLAPS

-----------------------------------------------------------------------------
(* The inductive invariant that holds for every value of the constants:    *)
(* what a session holds at each stage.                                     *)

Owning == {"claimed", "working", "finishing", "repair", "repairing"}

Session(e) ==
  /\ pc[e] \in Owning <=> own[e] # None
  /\ pend[e] # None <=> pc[e] \in {"finishing", "repairing"}
  /\ pc[e] \in {"idle", "repair"} => sess[e] = NothingLoaded /\ jsess[e] = None
  /\ pc[e] = "working" =>
        sess[e][own[e]] # None /\ sess[e][own[e]].status = "running"
  /\ e \in Workers /\ pc[e] = "claimed" => sess[e] = NothingLoaded /\ jsess[e] = None
  /\ pc[e] = "called" => e \in Callers
  /\ pend[e] # None =>
        /\ sess[e][own[e]] # None /\ jsess[e] # None
        /\ pend[e].row.attempts = row[own[e]].attempts

\* A finishing transaction holds its task's row.
RowLocks ==
  \A e, f \in Executors : pend[e] # None /\ pend[f] # None /\ own[e] = own[f] => e = f

Inv == TypeOK /\ RowLocks /\ \A e \in Executors : Session(e)

LEMMA InitInv == Init => Inv
  BY NoneAssumption, AttemptsAssumption, TasksAssumption
     DEF Init, Inv, TypeOK, RowLocks, Session, NothingLoaded, Row, TaskStatus,
         JobStatus, Pc, Owning

-----------------------------------------------------------------------------
(* The operators.                                                          *)

LEMMA MergeRow ==
  ASSUME NEW loaded \in Row, NEW new \in Row, NEW current \in Row
  PROVE  /\ Merge(loaded, new, current) \in Row
         /\ Merge(loaded, new, current).status =
               IF new.status = loaded.status THEN current.status ELSE new.status
         /\ Merge(loaded, new, current).attempts =
               IF new.attempts = loaded.attempts THEN current.attempts ELSE new.attempts
         /\ Merge(loaded, new, current).started =
               IF new.started = loaded.started THEN current.started ELSE new.started
<1> DEFINE m == Merge(loaded, new, current)
<1>1. m = [a \in {"status", "attempts", "started"} |->
             IF new[a] = loaded[a] THEN current[a] ELSE new[a]]
  BY DEF Merge
<1>2. m = [status |-> m.status, attempts |-> m.attempts, started |-> m.started]
  BY <1>1
<1>3. /\ m.status = IF new.status = loaded.status THEN current.status ELSE new.status
      /\ m.attempts = IF new.attempts = loaded.attempts THEN current.attempts
                      ELSE new.attempts
      /\ m.started = IF new.started = loaded.started THEN current.started ELSE new.started
  BY <1>1
<1>4. m.status \in TaskStatus /\ m.attempts \in 0..MaxAttempts
      /\ m.started \in {"none", "fresh", "old"}
  BY <1>3 DEF Row
<1> QED
  BY <1>2, <1>3, <1>4 DEF Row

\* A roll-up reports the end only of tasks that have ended, or else what the
\* session had as the job's status.
LEMMA RollUpFacts ==
  ASSUME NEW tasks \in [Tasks -> Row], NEW current \in JobStatus
  PROVE  /\ RollUp(tasks, current) \in JobStatus
         /\ RollUp(tasks, current) \in TaskEnd \union {current, "running"}
         /\ RollUp(tasks, current) = "running" => current \in {"pending", "running"}
         /\ RollUp(tasks, current) # current /\ RollUp(tasks, current) \in TaskEnd =>
               \A t \in Tasks : tasks[t].status \in TaskEnd
         /\ RollUp(tasks, current) # current /\ RollUp(tasks, current) = "completed" =>
               \A t \in Tasks : tasks[t].status = "completed"
<1> DEFINE statuses == {tasks[t].status : t \in Tasks}
<1>1. \A t \in Tasks : tasks[t].status \in statuses
  OBVIOUS
<1>2. CASE statuses \subseteq {"completed"}
  <2>1. RollUp(tasks, current) = "completed"
    BY <1>2 DEF RollUp
  <2> QED
    BY <1>1, <1>2, <2>1 DEF TaskEnd, JobStatus
<1>3. CASE /\ ~(statuses \subseteq {"completed"}) /\ "failed" \in statuses
           /\ statuses \subseteq TaskEnd
  <2>1. RollUp(tasks, current) = "failed"
    BY <1>3 DEF RollUp
  <2> QED
    BY <1>1, <1>3, <2>1 DEF TaskEnd, JobStatus
<1>4. CASE /\ ~(statuses \subseteq {"completed"})
           /\ "failed" \notin statuses /\ "blocked" \in statuses
           /\ statuses \subseteq TaskEnd
  <2>1. RollUp(tasks, current) = "blocked"
    BY <1>4 DEF RollUp
  <2> QED
    BY <1>1, <1>4, <2>1 DEF TaskEnd, JobStatus
<1>5. CASE /\ ~(statuses \subseteq {"completed"})
           /\ ~("failed" \in statuses /\ statuses \subseteq TaskEnd)
           /\ ~("failed" \notin statuses /\ "blocked" \in statuses
                   /\ statuses \subseteq TaskEnd)
  <2>1. RollUp(tasks, current) = IF current = "pending" THEN "running" ELSE current
    BY <1>5 DEF RollUp
  <2> QED
    BY <2>1 DEF TaskEnd, JobStatus
<1> QED
  BY <1>2, <1>3, <1>4, <1>5

LEMMA SeenTypes ==
  ASSUME TypeOK, NEW e \in Executors
  PROVE  /\ \A t \in Tasks : TaskSeen(e, t) \in Row
         /\ JobSeen(e) \in JobStatus
  BY DEF TypeOK, TaskSeen, JobSeen

LEMMA RecoveredRow ==
  ASSUME NEW copy \in Row
  PROVE  /\ Recovered(copy) \in Row /\ Recovered(copy).attempts = copy.attempts
  BY DEF Recovered, Row, TaskStatus, TaskEnd

LEMMA MarkedRow ==
  ASSUME NEW copy \in Row, NEW outcome \in {"completed", "blocked", "error"}
  PROVE  /\ Marked(copy, outcome) \in Row /\ Marked(copy, outcome).attempts = copy.attempts
  BY DEF Marked, Row, TaskStatus, TaskEnd

-----------------------------------------------------------------------------
(* The sessions a step leaves alone, and the one it moves.                 *)

SessionTypes ==
  /\ pc \in [Executors -> Pc]
  /\ own \in [Executors -> Tasks \union {None}]
  /\ sess \in [Executors -> [Tasks -> Row \union {None}]]
  /\ jsess \in [Executors -> JobStatus \union {None}]
  /\ pend \in [Executors -> [row : Row, job : JobStatus] \union {None}]

Others(e) ==
  \A f \in Executors \ {e} :
     /\ pc'[f] = pc[f] /\ own'[f] = own[f] /\ pend'[f] = pend[f]
     /\ sess'[f] = sess[f] /\ jsess'[f] = jsess[f]

LEMMA LeaveFacts ==
  ASSUME TypeOK, NEW e \in Executors, Leave(e)
  PROVE  /\ SessionTypes' /\ Others(e) /\ Session(e)'
         /\ pc'[e] = "idle" /\ own'[e] = None /\ pend'[e] = None
         /\ sess'[e] = NothingLoaded /\ jsess'[e] = None
  BY DEF TypeOK, Leave, SessionTypes, Others, Session, Pc, NothingLoaded, Owning

\* A step after which the session is closed, or stays open with these copies.
LEMMA KeepFacts ==
  ASSUME TypeOK, NEW e \in Executors, NEW tasks \in [Tasks -> Row \union {None}],
         NEW j \in JobStatus \union {None}, Keep(e, tasks, j) \/ Leave(e)
  PROVE  /\ SessionTypes' /\ Others(e) /\ Session(e)'
         /\ pc'[e] \in {"idle", "looping"} /\ own'[e] = None /\ pend'[e] = None
         /\ \/ sess'[e] = NothingLoaded /\ jsess'[e] = None
            \/ sess'[e] = tasks /\ jsess'[e] = j
<1>1. CASE Leave(e)
  BY <1>1, LeaveFacts
<1>2. CASE Keep(e, tasks, j)
  <2>1. SessionTypes' /\ Others(e)
    BY <1>2 DEF Keep, TypeOK, SessionTypes, Others, Pc
  <2>2. /\ pc'[e] = "looping" /\ own'[e] = None /\ pend'[e] = None
        /\ sess'[e] = tasks /\ jsess'[e] = j
    BY <1>2 DEF Keep, TypeOK
  <2>3. Session(e)'
    BY <2>2 DEF Session, Owning
  <2> QED
    BY <2>1, <2>2, <2>3
<1> QED
  BY <1>1, <1>2

LEMMA DoneFacts ==
  ASSUME TypeOK, NEW e \in Executors, NEW tasks \in [Tasks -> Row \union {None}],
         NEW j \in JobStatus \union {None}, TaskDone(e, tasks, j)
  PROVE  /\ SessionTypes' /\ Others(e) /\ Session(e)'
         /\ pc'[e] \in {"idle", "looping"} /\ own'[e] = None /\ pend'[e] = None
         /\ \/ sess'[e] = NothingLoaded /\ jsess'[e] = None
            \/ sess'[e] = tasks /\ jsess'[e] = j
<1>1. Keep(e, tasks, j) \/ Leave(e)
  BY DEF TaskDone
<1> QED
  BY <1>1, KeepFacts

\* A session that is left alone keeps its invariant if its task keeps the
\* attempts while a transaction is open.
LEMMA OtherSession ==
  ASSUME Inv, NEW e \in Executors, NEW f \in Executors \ {e}, Others(e),
         pend[f] # None => row'[own[f]].attempts = row[own[f]].attempts
  PROVE  Session(f)'
<1>1. Session(f)
  BY DEF Inv
<1> QED
  BY <1>1 DEF Session, Others, NothingLoaded

LEMMA LocksKept ==
  ASSUME Inv, NEW e \in Executors, Others(e),
         \/ pend'[e] = None
         \/ \A f \in Executors : pend[f] # None => own[f] # own'[e]
  PROVE  RowLocks'
  BY DEF Inv, RowLocks, Others

-----------------------------------------------------------------------------
(* The invariant is kept.                                                  *)

LEMMA WindowPassesInv == ASSUME Inv, NEW t \in Tasks, WindowPasses(t) PROVE Inv'
<1>1. /\ row' = [row EXCEPT ![t].started = IF @ = "none" THEN "none" ELSE "old"]
      /\ row \in [Tasks -> Row]
  BY DEF Inv, TypeOK, WindowPasses
<1>2. row' \in [Tasks -> Row]
  BY <1>1 DEF Row
<1>3. TypeOK'
  BY <1>2 DEF Inv, TypeOK, WindowPasses
<1>4. ASSUME NEW e \in Executors PROVE Session(e)'
  <2>1. Session(e) /\ pend[e] = None
    BY DEF Inv, WindowPasses, FinishingOpen
  <2> QED
    BY <2>1 DEF Session, WindowPasses, NothingLoaded
<1> QED
  BY <1>3, <1>4 DEF Inv, RowLocks, WindowPasses

LEMMA CallInv == ASSUME Inv, NEW c \in Callers, Call(c) PROVE Inv'
<1>1. c \in Executors /\ Session(c)
  BY DEF Executors, Inv
<1>2. TypeOK' /\ Others(c) /\ row' = row
  BY <1>1 DEF Inv, TypeOK, Call, tableVars, Others, Pc
<1>3. Session(c)'
  BY <1>1 DEF Inv, TypeOK, Call, Session, Owning
<1>4. \A f \in Executors \ {c} : Session(f)'
  BY <1>1, <1>2, OtherSession
<1>5. RowLocks'
  BY DEF Inv, RowLocks, Call
<1> QED
  BY <1>2, <1>3, <1>4, <1>5 DEF Inv

\* What the recovery does to the rows and to the copies.
Copies(e) == [t \in Tasks |-> IF t \in Stale THEN Recovered(TaskSeen(e, t))
                                             ELSE TaskSeen(e, t)]
Verdict(e) == IF Stale = {} THEN JobSeen(e) ELSE RollUp(Copies(e), JobSeen(e))

LEMMA RecoverFacts ==
  ASSUME Inv, NEW e \in Executors, Recover(e)
  PROVE  /\ Copies(e) \in [Tasks -> Row] /\ Verdict(e) \in JobStatus
         /\ row' \in [Tasks -> Row]
         /\ \A t \in Tasks :
               row'[t] = IF t \in Stale THEN Merge(TaskSeen(e, t), Copies(e)[t], row[t])
                                        ELSE row[t]
         /\ \A t \in Tasks : row'[t].attempts = row[t].attempts
         /\ job' = JobAfter(e, Verdict(e)) /\ job' \in JobStatus
         /\ ran' = ran
         /\ Keep(e, Copies(e), Verdict(e)) \/ Leave(e)
<1>1. \A t \in Tasks : TaskSeen(e, t) \in Row
  BY SeenTypes DEF Inv
<1>2. JobSeen(e) \in JobStatus
  BY SeenTypes DEF Inv
<1>3. \A t \in Tasks : Copies(e)[t] \in Row /\ Copies(e)[t].attempts = TaskSeen(e, t).attempts
  BY <1>1, RecoveredRow DEF Copies
<1>4. Copies(e) \in [Tasks -> Row]
  BY <1>3 DEF Copies
<1>5. Verdict(e) \in JobStatus
  BY <1>2, <1>4, RollUpFacts DEF Verdict
<1>6. row' = [t \in Tasks |-> IF t \in Stale
                              THEN Merge(TaskSeen(e, t), Copies(e)[t], row[t]) ELSE row[t]]
  BY DEF Recover, Copies
<1>7. row \in [Tasks -> Row]
  BY DEF Inv, TypeOK
<1>8. ASSUME NEW t \in Tasks
      PROVE  /\ Merge(TaskSeen(e, t), Copies(e)[t], row[t]) \in Row
             /\ Merge(TaskSeen(e, t), Copies(e)[t], row[t]).attempts = row[t].attempts
  <2>1. TaskSeen(e, t) \in Row /\ row[t] \in Row
    BY <1>1, <1>7
  <2>2. Copies(e)[t] \in Row /\ Copies(e)[t].attempts = TaskSeen(e, t).attempts
    BY <1>3
  <2> QED
    BY <2>1, <2>2, MergeRow
<1>9. row' \in [Tasks -> Row] /\ \A t \in Tasks : row'[t].attempts = row[t].attempts
  BY <1>6, <1>7, <1>8
<1>10. job' = JobAfter(e, Verdict(e))
  BY DEF Recover, Copies, Verdict
<1>11. job' \in JobStatus
  BY <1>5, <1>10 DEF JobAfter, Inv, TypeOK
<1>12. Keep(e, Copies(e), Verdict(e)) \/ Leave(e)
  BY DEF Recover, Copies, Verdict
<1>13. ran' = ran
  BY DEF Recover
<1> QED
  BY <1>4, <1>5, <1>6, <1>9, <1>10, <1>11, <1>12, <1>13

LEMMA RecoverInv == ASSUME Inv, NEW e \in Executors, Recover(e) PROVE Inv'
<1>1. /\ row' \in [Tasks -> Row] /\ job' \in JobStatus /\ ran' = ran
      /\ \A t \in Tasks : row'[t].attempts = row[t].attempts
  BY RecoverFacts
<1>2. \A f \in Executors : pend[f] # None => own[f] \in Tasks
  BY DEF Inv, TypeOK, Session, Owning
<1>3. SessionTypes' /\ Others(e) /\ Session(e)' /\ pend'[e] = None
  BY RecoverFacts, KeepFacts DEF Inv
<1>4. \A f \in Executors \ {e} : Session(f)'
  BY <1>1, <1>2, <1>3, OtherSession
<1> QED
  BY <1>1, <1>3, <1>4, LocksKept DEF Inv, TypeOK, SessionTypes

\* What a claim writes.
Claimed(copy) ==
  [status |-> "running", attempts |-> copy.attempts + 1,
   started |-> IF copy.started = "none" THEN "fresh" ELSE copy.started]

LEMMA ClaimFacts ==
  ASSUME Inv, NEW e \in Executors, NEW t \in Tasks, Claim(e, t)
  PROVE  /\ pend[e] = None /\ own[e] = None
         /\ \A f \in Executors : pend[f] = None
         /\ row[t].status = "pending" /\ row[t].attempts < MaxAttempts
         /\ job \in {"pending", "running"}
         /\ \/ Leave(e) /\ UNCHANGED tableVars
            \/ /\ Claimed(TaskSeen(e, t)) \in Row
               /\ row' = [row EXCEPT ![t] =
                            Merge(TaskSeen(e, t), Claimed(TaskSeen(e, t)), row[t])]
               /\ row' \in [Tasks -> Row]
               /\ job' = IF JobSeen(e) = "pending" THEN "running" ELSE job
               /\ job' \in JobStatus
               /\ ran' = ran \ {t}
               /\ pc' = [pc EXCEPT ![e] = "claimed"]
               /\ own' = [own EXCEPT ![e] = t]
               /\ \/ /\ e \in Workers
                     /\ sess' = [sess EXCEPT ![e] = NothingLoaded]
                     /\ jsess' = [jsess EXCEPT ![e] = None]
                  \/ /\ e \in Callers
                     /\ sess' = [sess EXCEPT ![e][t] = Claimed(TaskSeen(e, t))]
                     /\ jsess' = [jsess EXCEPT ![e] = IF JobSeen(e) = "pending"
                                                      THEN "running" ELSE JobSeen(e)]
               /\ pend' = pend
<1>1. TaskSeen(e, t) \in Row /\ row \in [Tasks -> Row] /\ job \in JobStatus
  BY SeenTypes DEF Inv, TypeOK
<1>2. \A f \in Executors : pend[f] = None
  BY DEF Claim, FinishingOpen
<1>3. own[e] = None
  BY DEF Inv, Session, Claim, Owning
<1>4. /\ row[t].status = "pending" /\ row[t].attempts < MaxAttempts
      /\ job \in {"pending", "running"}
  BY DEF Claim
<1>5. CASE Claimed(TaskSeen(e, t)).attempts > MaxAttempts
  <2>1. Leave(e) /\ UNCHANGED tableVars
    BY <1>5 DEF Claim, Claimed
  <2> QED
    BY <1>2, <1>3, <1>4, <2>1
<1>6. CASE ~(Claimed(TaskSeen(e, t)).attempts > MaxAttempts)
  <2>1. Claimed(TaskSeen(e, t)) \in Row
    BY <1>1, <1>6, AttemptsAssumption DEF Claimed, Row, TaskStatus
  <2>2. row' = [row EXCEPT ![t] =
                  Merge(TaskSeen(e, t), Claimed(TaskSeen(e, t)), row[t])]
    BY <1>6 DEF Claim, Claimed
  <2>3. row' \in [Tasks -> Row]
    BY <1>1, <2>1, <2>2, MergeRow
  <2>4. /\ job' = IF JobSeen(e) = "pending" THEN "running" ELSE job
        /\ ran' = ran \ {t}
        /\ pc' = [pc EXCEPT ![e] = "claimed"]
        /\ own' = [own EXCEPT ![e] = t]
        /\ pend' = pend
    BY <1>6 DEF Claim, Claimed
  <2>5. \/ /\ e \in Workers
           /\ sess' = [sess EXCEPT ![e] = NothingLoaded]
           /\ jsess' = [jsess EXCEPT ![e] = None]
        \/ /\ e \in Callers
           /\ sess' = [sess EXCEPT ![e][t] = Claimed(TaskSeen(e, t))]
           /\ jsess' = [jsess EXCEPT ![e] = IF JobSeen(e) = "pending"
                                            THEN "running" ELSE JobSeen(e)]
    BY <1>6 DEF Claim, Claimed, Executors
  <2>6. job' \in JobStatus
    BY <1>1, <2>4 DEF JobStatus
  <2> QED
    BY <1>2, <1>3, <1>4, <2>1, <2>2, <2>3, <2>4, <2>5, <2>6
<1> QED
  BY <1>5, <1>6

LEMMA ClaimInv == ASSUME Inv, NEW e \in Executors, NEW t \in Tasks, Claim(e, t) PROVE Inv'
<1>0. Session(e) /\ \A f \in Executors : pend[f] = None
  BY ClaimFacts DEF Inv
<1>1. CASE Leave(e) /\ UNCHANGED tableVars
  <2>1. SessionTypes' /\ Others(e) /\ Session(e)' /\ pend'[e] = None
    BY <1>1, LeaveFacts DEF Inv
  <2>2. \A f \in Executors \ {e} : Session(f)'
    BY <1>0, <2>1, OtherSession
  <2> QED
    BY <1>1, <2>1, <2>2, LocksKept DEF Inv, TypeOK, SessionTypes, tableVars
<1>2. CASE ~(Leave(e) /\ UNCHANGED tableVars)
  <2>1. /\ row' \in [Tasks -> Row] /\ job' \in JobStatus /\ ran' = ran \ {t}
        /\ pc' = [pc EXCEPT ![e] = "claimed"]
        /\ own' = [own EXCEPT ![e] = t]
        /\ pend' = pend
        /\ \/ /\ e \in Workers
              /\ sess' = [sess EXCEPT ![e] = NothingLoaded]
              /\ jsess' = [jsess EXCEPT ![e] = None]
           \/ /\ e \in Callers
              /\ sess' = [sess EXCEPT ![e][t] = Claimed(TaskSeen(e, t))]
              /\ jsess' = [jsess EXCEPT ![e] = IF JobSeen(e) = "pending"
                                               THEN "running" ELSE JobSeen(e)]
        /\ Claimed(TaskSeen(e, t)) \in Row
    BY <1>2, ClaimFacts
  <2>2. JobSeen(e) \in JobStatus
    BY SeenTypes DEF Inv
  <2>3. /\ sess' \in [Executors -> [Tasks -> Row \union {None}]]
        /\ jsess' \in [Executors -> JobStatus \union {None}]
    <3>1. sess[e] \in [Tasks -> Row \union {None}]
      BY DEF Inv, TypeOK
    <3>2. [sess[e] EXCEPT ![t] = Claimed(TaskSeen(e, t))] \in [Tasks -> Row \union {None}]
      BY <2>1, <3>1
    <3>3. \/ sess' = [sess EXCEPT ![e] = NothingLoaded]
          \/ sess' = [sess EXCEPT ![e] = [sess[e] EXCEPT ![t] = Claimed(TaskSeen(e, t))]]
      BY <2>1
    <3>4. sess' \in [Executors -> [Tasks -> Row \union {None}]]
      <4>1. NothingLoaded \in [Tasks -> Row \union {None}]
        BY DEF NothingLoaded
      <4> QED
        BY <3>2, <3>3, <4>1 DEF Inv, TypeOK
    <3>5. "running" \in JobStatus
      BY DEF JobStatus
    <3>6. jsess' \in [Executors -> JobStatus \union {None}]
      BY <2>1, <2>2, <3>5 DEF Inv, TypeOK
    <3> QED
      BY <3>4, <3>6
  <2>4. TypeOK'
    BY <2>1, <2>3 DEF Inv, TypeOK, Pc
  <2>5. Others(e)
    BY <2>1 DEF Inv, TypeOK, Others
  <2>6. Session(e)'
    <3>1. pc'[e] = "claimed" /\ own'[e] = t /\ own'[e] # None /\ pend'[e] = None
      BY <1>0, <2>1, NoneAssumption DEF Inv, TypeOK
    <3>2. e \in Workers => sess'[e] = NothingLoaded /\ jsess'[e] = None
      BY <2>1, ExecutorsAssumption DEF Inv, TypeOK
    <3> QED
      BY <3>1, <3>2 DEF Session, Owning, NothingLoaded
  <2>7. \A f \in Executors \ {e} : Session(f)'
    BY <1>0, <2>5, OtherSession
  <2>8. RowLocks'
    BY <1>0, <2>5, LocksKept
  <2> QED
    BY <2>4, <2>6, <2>7, <2>8 DEF Inv
<1> QED
  BY <1>1, <1>2

\* What a session that finishes or repairs its task writes and holds.
New(e, outcome) == Marked(TaskSeen(e, own[e]), outcome)
NewCopies(e, outcome) ==
  [[u \in Tasks |-> TaskSeen(e, u)] EXCEPT ![own[e]] = New(e, outcome)]

LEMMA MarkFacts ==
  ASSUME Inv, NEW e \in Executors, own[e] \in Tasks,
         NEW outcome \in {"completed", "blocked", "error"},
         NEW next \in {"finishing", "repairing"}, Mark(e, outcome, next)
  PROVE  /\ New(e, outcome) \in Row /\ NewCopies(e, outcome) \in [Tasks -> Row]
         /\ \A u \in Tasks : NewCopies(e, outcome)[u] =
                              IF u = own[e] THEN New(e, outcome) ELSE TaskSeen(e, u)
         /\ pend'[e] \in [row : Row, job : JobStatus]
         /\ pend'[e].row = Merge(TaskSeen(e, own[e]), New(e, outcome), row[own[e]])
         /\ pend'[e].row.attempts = row[own[e]].attempts
         /\ pend'[e].job = RollUp(NewCopies(e, outcome), JobSeen(e))
         /\ sess'[e] = NewCopies(e, outcome) /\ jsess'[e] = JobSeen(e) /\ pc'[e] = next
         /\ UNCHANGED <<tableVars, own>>
         /\ SessionTypes' /\ Others(e) /\ Session(e)' /\ RowLocks'
<1> DEFINE t == own[e]
           new == New(e, outcome)
           copies == NewCopies(e, outcome)
<1>1. \A u \in Tasks : TaskSeen(e, u) \in Row
  BY SeenTypes DEF Inv
<1>2. JobSeen(e) \in JobStatus
  BY SeenTypes DEF Inv
<1>3. new \in Row /\ new.attempts = TaskSeen(e, t).attempts
  BY <1>1, MarkedRow DEF New
<1>4. /\ copies \in [Tasks -> Row]
      /\ \A u \in Tasks : copies[u] = IF u = t THEN new ELSE TaskSeen(e, u)
  BY <1>1, <1>3 DEF NewCopies
<1>5. RollUp(copies, JobSeen(e)) \in JobStatus
  BY <1>2, <1>4, RollUpFacts
<1>6. row[t] \in Row
  BY DEF Inv, TypeOK
<1>7. /\ Merge(TaskSeen(e, t), new, row[t]) \in Row
      /\ Merge(TaskSeen(e, t), new, row[t]).attempts = row[t].attempts
  BY <1>1, <1>3, <1>6, MergeRow
<1>8. /\ \A f \in Executors : pend[f] # None => own[f] # t
      /\ pend' = [pend EXCEPT ![e] = [row |-> Merge(TaskSeen(e, t), new, row[t]),
                                      job |-> RollUp(copies, JobSeen(e))]]
      /\ sess' = [sess EXCEPT ![e] = copies]
      /\ jsess' = [jsess EXCEPT ![e] = JobSeen(e)]
      /\ pc' = [pc EXCEPT ![e] = next]
      /\ UNCHANGED <<tableVars, own>>
  BY DEF Mark, New, NewCopies
<1> DEFINE pending == [row |-> Merge(TaskSeen(e, t), new, row[t]),
                       job |-> RollUp(copies, JobSeen(e))]
<1>9. /\ pending \in [row : Row, job : JobStatus]
      /\ pending.row = Merge(TaskSeen(e, t), new, row[t])
      /\ pending.job = RollUp(copies, JobSeen(e))
  BY <1>5, <1>7
<1> HIDE DEF pending
<1>10. pend' = [pend EXCEPT ![e] = pending]
  BY <1>8 DEF pending
<1>11. /\ pend'[e] = pending /\ sess'[e] = copies /\ jsess'[e] = JobSeen(e) /\ pc'[e] = next
       /\ Others(e)
  BY <1>8, <1>10 DEF Inv, TypeOK, Others
<1>12. SessionTypes'
  BY <1>2, <1>4, <1>8, <1>9, <1>10 DEF Inv, TypeOK, SessionTypes, Pc
<1>13. Session(e)'
  <2>1. own'[e] = t /\ row'[t] = row[t] /\ t # None
    BY <1>8, NoneAssumption DEF tableVars
  <2>2. pend'[e] # None /\ sess'[e][t] # None /\ jsess'[e] # None
    BY <1>2, <1>4, <1>9, <1>11, NoneAssumption
  <2>3. pend'[e].row.attempts = row'[own'[e]].attempts
    BY <1>7, <1>9, <1>11, <2>1
  <2>4. pc'[e] \in {"finishing", "repairing"}
    BY <1>11
  <2> QED
    BY <2>1, <2>2, <2>3, <2>4 DEF Session, Owning
<1>14. RowLocks'
  <2>1. own'[e] = t
    BY <1>8
  <2> QED
    BY <1>8, <1>11, <2>1, LocksKept
<1> QED
  BY <1>3, <1>4, <1>7, <1>8, <1>9, <1>11, <1>12, <1>13, <1>14

LEMMA OwnTask ==
  ASSUME Inv, NEW e \in Executors, pc[e] \in Owning
  PROVE  own[e] \in Tasks
  BY DEF Inv, TypeOK, Session

LEMMA MarkInv ==
  ASSUME Inv, NEW e \in Executors, pc[e] \in Owning,
         NEW outcome \in {"completed", "blocked", "error"},
         NEW next \in {"finishing", "repairing"}, Mark(e, outcome, next)
  PROVE  Inv'
<1>1. own[e] \in Tasks
  BY OwnTask
<1>2. UNCHANGED <<tableVars, own>> /\ SessionTypes' /\ Others(e) /\ Session(e)' /\ RowLocks'
  BY <1>1, MarkFacts
<1>3. \A f \in Executors \ {e} : Session(f)'
  BY <1>2, OtherSession DEF tableVars
<1> QED
  BY <1>2, <1>3 DEF Inv, TypeOK, SessionTypes, tableVars

\* A step that ends a session's work on its task and leaves the rows.
LEMMA DoneInv ==
  ASSUME Inv, NEW e \in Executors, NEW tasks \in [Tasks -> Row \union {None}],
         NEW j \in JobStatus \union {None}, TaskDone(e, tasks, j), UNCHANGED tableVars
  PROVE  Inv'
<1>1. SessionTypes' /\ Others(e) /\ Session(e)' /\ pend'[e] = None
  BY DoneFacts DEF Inv
<1>2. \A f \in Executors \ {e} : Session(f)'
  BY <1>1, OtherSession DEF tableVars
<1> QED
  BY <1>1, <1>2, LocksKept DEF Inv, TypeOK, SessionTypes, tableVars

\* What a load leaves in the session.
LoadCopies(e) ==
  IF own[e] \in Reasoning THEN [u \in Tasks |-> TaskSeen(e, u)]
  ELSE [sess[e] EXCEPT ![own[e]] = TaskSeen(e, own[e])]

LEMMA LoadFacts ==
  ASSUME Inv, NEW e \in Executors, Load(e)
  PROVE  /\ own[e] \in Tasks /\ UNCHANGED tableVars /\ pc[e] = "claimed"
         /\ LoadCopies(e) \in [Tasks -> Row \union {None}]
         /\ LoadCopies(e)[own[e]] = TaskSeen(e, own[e])
         /\ \A u \in Tasks : LoadCopies(e)[u] \in {sess[e][u], TaskSeen(e, u)}
         /\ [sess[e] EXCEPT ![own[e]] = TaskSeen(e, own[e])] \in [Tasks -> Row \union {None}]
         /\ \/ /\ TaskSeen(e, own[e]).status # "running"
               /\ TaskDone(e, [sess[e] EXCEPT ![own[e]] = TaskSeen(e, own[e])], JobSeen(e))
            \/ /\ TaskSeen(e, own[e]).status = "running"
               /\ pc' = [pc EXCEPT ![e] = "working"]
               /\ sess' = [sess EXCEPT ![e] = LoadCopies(e)]
               /\ jsess' = [jsess EXCEPT ![e] = JobSeen(e)]
               /\ UNCHANGED <<own, pend>>
<1>1. own[e] \in Tasks /\ pc[e] = "claimed"
  BY OwnTask DEF Load, Owning
<1>2. sess[e] \in [Tasks -> Row \union {None}] /\ \A u \in Tasks : TaskSeen(e, u) \in Row
  BY SeenTypes DEF Inv, TypeOK
<1>3. [sess[e] EXCEPT ![own[e]] = TaskSeen(e, own[e])] \in [Tasks -> Row \union {None}]
  BY <1>1, <1>2
<1>4. /\ LoadCopies(e) \in [Tasks -> Row \union {None}]
      /\ LoadCopies(e)[own[e]] = TaskSeen(e, own[e])
      /\ \A u \in Tasks : LoadCopies(e)[u] \in {sess[e][u], TaskSeen(e, u)}
  BY <1>1, <1>2, <1>3 DEF LoadCopies
<1> QED
  BY <1>1, <1>3, <1>4 DEF Load, LoadCopies

LEMMA LoadInv == ASSUME Inv, NEW e \in Executors, Load(e) PROVE Inv'
<1>1. JobSeen(e) \in JobStatus
  BY SeenTypes DEF Inv
<1>2. CASE TaskDone(e, [sess[e] EXCEPT ![own[e]] = TaskSeen(e, own[e])], JobSeen(e))
  BY <1>1, <1>2, LoadFacts, DoneInv
<1>3. CASE /\ TaskSeen(e, own[e]).status = "running"
           /\ pc' = [pc EXCEPT ![e] = "working"]
           /\ sess' = [sess EXCEPT ![e] = LoadCopies(e)]
           /\ jsess' = [jsess EXCEPT ![e] = JobSeen(e)]
           /\ UNCHANGED <<own, pend>>
  <2>1. TypeOK'
    BY <1>1, <1>3, LoadFacts DEF Inv, TypeOK, Pc, tableVars
  <2>2. Others(e)
    BY <1>3 DEF Inv, TypeOK, Others
  <2>3. Session(e)'
    <3>1. Session(e) /\ own[e] \in Tasks /\ pc[e] = "claimed" /\ pend[e] = None
      BY LoadFacts DEF Inv, Session
    <3>2. /\ pc'[e] = "working" /\ own'[e] = own[e] /\ pend'[e] = None
          /\ sess'[e][own[e]] = TaskSeen(e, own[e])
      BY <1>3, <3>1, LoadFacts DEF Inv, TypeOK
    <3>3. TaskSeen(e, own[e]) # None
      BY <3>1, SeenTypes, NoneAssumption DEF Inv
    <3> QED
      BY <1>3, <3>1, <3>2, <3>3, NoneAssumption DEF Session, Owning
  <2>4. \A f \in Executors \ {e} : Session(f)'
    BY <2>2, LoadFacts, OtherSession DEF tableVars
  <2>5. RowLocks'
    BY <1>3 DEF Inv, RowLocks
  <2> QED
    BY <2>1, <2>3, <2>4, <2>5 DEF Inv
<1> QED
  BY <1>2, <1>3, LoadFacts

LEMMA CommitFacts ==
  ASSUME Inv, NEW e \in Executors, Commit(e)
  PROVE  /\ own[e] \in Tasks /\ pend[e] # None /\ pend[e] \in [row : Row, job : JobStatus]
         /\ row' = [row EXCEPT ![own[e]] = pend[e].row] /\ row' \in [Tasks -> Row]
         /\ job' = JobAfter(e, pend[e].job) /\ job' \in JobStatus
         /\ ran' = ran
         /\ sess[e] \in [Tasks -> Row \union {None}]
         /\ TaskDone(e, sess[e], pend[e].job)
         /\ \A t \in Tasks : row'[t].attempts = row[t].attempts
<1>1. Session(e) /\ pend[e] # None
  BY DEF Inv, Commit
<1>2. own[e] \in Tasks
  BY <1>1, OwnTask DEF Session, Owning
<1>3. pend[e] \in [row : Row, job : JobStatus]
  BY <1>1 DEF Inv, TypeOK
<1>4. pend[e].row \in Row /\ pend[e].job \in JobStatus
  BY <1>3
<1>5. /\ row' = [row EXCEPT ![own[e]] = pend[e].row] /\ row' \in [Tasks -> Row]
      /\ job' = JobAfter(e, pend[e].job) /\ job' \in JobStatus
  BY <1>4 DEF Commit, JobAfter, Inv, TypeOK
<1>6. \A t \in Tasks : row'[t].attempts = row[t].attempts
  BY <1>1, <1>5 DEF Session, Inv, TypeOK
<1> QED
  BY <1>1, <1>2, <1>3, <1>5, <1>6 DEF Commit, Inv, TypeOK

LEMMA CommitInv == ASSUME Inv, NEW e \in Executors, Commit(e) PROVE Inv'
<1>1. SessionTypes' /\ Others(e) /\ Session(e)' /\ pend'[e] = None
  <2>1. pend[e].job \in JobStatus
    BY CommitFacts
  <2> QED
    BY <2>1, CommitFacts, DoneFacts DEF Inv
<1>2. ASSUME NEW f \in Executors \ {e} PROVE Session(f)'
  <2>1. pend[f] # None => own[f] \in Tasks
    BY DEF Inv, TypeOK, Session, Owning
  <2> QED
    BY <1>1, <2>1, CommitFacts, OtherSession
<1> QED
  BY <1>1, <1>2, CommitFacts, LocksKept DEF Inv, TypeOK, SessionTypes

LEMMA FinishErrorInv == ASSUME Inv, NEW e \in Executors, FinishError(e) PROVE Inv'
<1>1. Session(e) /\ own[e] \in Tasks
  BY OwnTask DEF Inv, FinishError, Owning
<1>2. TypeOK' /\ Others(e) /\ row' = row /\ own' = own
  BY DEF Inv, TypeOK, FinishError, tableVars, Others, NothingLoaded, Pc
<1>3. Session(e)'
  BY <1>1 DEF Inv, TypeOK, FinishError, Session, NothingLoaded, Owning
<1>4. \A f \in Executors \ {e} : Session(f)'
  BY <1>2, OtherSession
<1>5. pend'[e] = None
  BY DEF Inv, TypeOK, FinishError
<1> QED
  BY <1>2, <1>3, <1>4, <1>5, LocksKept DEF Inv

LEMMA RepairInv == ASSUME Inv, NEW e \in Executors, Repair(e) PROVE Inv'
<1>1. own[e] \in Tasks /\ pc[e] \in Owning
  BY OwnTask DEF Repair, Owning
<1>2. CASE row[own[e]].status = "running"
  BY <1>1, <1>2, MarkInv DEF Repair
<1>3. CASE row[own[e]].status # "running"
  <2>1. /\ TaskDone(e, [sess[e] EXCEPT ![own[e]] = row[own[e]]], JobSeen(e))
        /\ UNCHANGED tableVars
    BY <1>3 DEF Repair
  <2>2. [sess[e] EXCEPT ![own[e]] = row[own[e]]] \in [Tasks -> Row \union {None}]
    BY <1>1 DEF Inv, TypeOK
  <2>3. JobSeen(e) \in JobStatus
    BY SeenTypes DEF Inv
  <2> QED
    BY <2>1, <2>2, <2>3, DoneInv
<1> QED
  BY <1>2, <1>3

LEMMA LeaveInv ==
  ASSUME Inv, NEW e \in Executors, Leave(e), UNCHANGED row, job' \in JobStatus, ran' = ran
  PROVE  Inv'
<1>1. SessionTypes' /\ Others(e) /\ Session(e)' /\ pend'[e] = None
  BY LeaveFacts DEF Inv
<1>2. \A f \in Executors \ {e} : Session(f)'
  BY <1>1, OtherSession
<1> QED
  BY <1>1, <1>2, LocksKept DEF Inv, TypeOK, SessionTypes

LEMMA ReturnFacts ==
  ASSUME Inv, NEW c \in Callers, Return(c)
  PROVE  LET copies == [t \in Tasks |-> TaskSeen(c, t)]
         IN  /\ c \in Executors /\ Leave(c) /\ row' = row /\ ran' = ran
             /\ copies \in [Tasks -> Row] /\ JobSeen(c) \in JobStatus
             /\ job' = JobAfter(c, RollUp(copies, JobSeen(c))) /\ job' \in JobStatus
<1>1. c \in Executors
  BY DEF Executors
<1>2. JobSeen(c) \in JobStatus /\ \A t \in Tasks : TaskSeen(c, t) \in Row
  BY <1>1, SeenTypes DEF Inv
<1> DEFINE copies == [t \in Tasks |-> TaskSeen(c, t)]
<1>3. copies \in [Tasks -> Row]
  BY <1>2
<1>4. job' = JobAfter(c, RollUp(copies, JobSeen(c)))
  BY DEF Return
<1> HIDE DEF copies
<1>5. RollUp(copies, JobSeen(c)) \in JobStatus
  BY <1>2, <1>3, RollUpFacts
<1>6. job' \in JobStatus
  BY <1>4, <1>5 DEF JobAfter, Inv, TypeOK
<1> QED
  BY <1>1, <1>2, <1>3, <1>4, <1>6 DEF Return, copies

LEMMA NextInv == Inv /\ [Next]_vars => Inv'
<1> SUFFICES ASSUME Inv, [Next]_vars PROVE Inv'
  OBVIOUS
<1>1. ASSUME NEW t \in Tasks, WindowPasses(t) PROVE Inv'
  BY <1>1, WindowPassesInv
<1>2. ASSUME NEW c \in Callers, Call(c) PROVE Inv'
  BY <1>2, CallInv
<1>3. ASSUME NEW c \in Callers, Return(c) PROVE Inv'
  BY <1>3, ReturnFacts, LeaveInv
<1>4. ASSUME NEW e \in Executors, Recover(e) PROVE Inv'
  BY <1>4, RecoverInv
<1>5. ASSUME NEW e \in Executors, Work(e) PROVE Inv'
  <2>1. CASE Finish(e)
    <3>1. PICK outcome \in {"completed", "blocked", "error"} : Mark(e, outcome, "finishing")
      BY <2>1 DEF Finish
    <3> QED
      BY <2>1, <3>1, MarkInv DEF Finish, Owning
  <2> QED
    BY <1>5, <2>1, LoadInv, CommitInv, FinishErrorInv, RepairInv DEF Work
<1>6. ASSUME NEW e \in Executors, Crash(e) PROVE Inv'
  BY <1>6, LeaveInv DEF Crash, tableVars, Inv, TypeOK
<1>9. ASSUME NEW w \in Workers, NothingToClaim(w) PROVE Inv'
  BY <1>9, LeaveInv DEF NothingToClaim, tableVars, Inv, TypeOK, Executors
<1>7. ASSUME NEW e \in Executors, NEW t \in Tasks, Claim(e, t) PROVE Inv'
  BY <1>7, ClaimInv
<1>8. CASE UNCHANGED vars
  BY <1>8 DEF vars, Inv, TypeOK, RowLocks, Session, NothingLoaded
<1> QED
  BY <1>1, <1>2, <1>3, <1>4, <1>5, <1>6, <1>7, <1>8, <1>9 DEF Next

LEMMA InvHolds == Spec => []Inv
  BY InitInv, NextInv, PTL DEF Spec

\* Rows, sessions and open transactions keep their types: no write, on whatever
\* copy, takes a task's attempts past their limit.
THEOREM TypeCorrect == Spec => []TypeOK
<1>1. Inv => TypeOK
  BY DEF Inv
<1> QED
  BY <1>1, InvHolds, PTL

-----------------------------------------------------------------------------
(* Attempts, and the end of the job when only workers run it.              *)

\* Apart from a claim of the task, which may be made on an old copy, no step lowers
\* its attempts.
LEMMA AttemptsStep ==
  ASSUME Inv, [Next]_vars, NEW t \in Tasks,
         ~ \E e \in Executors : Claim(e, t)
  PROVE  row'[t].attempts >= row[t].attempts
<1>0. row[t].attempts \in Nat
  BY AttemptsAssumption DEF Inv, TypeOK, Row
<1>1. CASE \E u \in Tasks : WindowPasses(u)
  <2>1. row'[t].attempts = row[t].attempts
    BY <1>1 DEF WindowPasses, Inv, TypeOK, Row
  <2> QED
    BY <1>0, <2>1
<1>2. CASE \E e \in Executors : Recover(e)
  BY <1>0, <1>2, RecoverFacts
<1>3. CASE \E e \in Executors : Commit(e)
  BY <1>0, <1>3, CommitFacts
<1>4. ASSUME NEW e \in Executors, NEW u \in Tasks, Claim(e, u)
      PROVE  row'[t].attempts >= row[t].attempts
  <2>1. row'[t] = row[t]
    BY <1>4, ClaimFacts DEF Inv, TypeOK, tableVars
  <2> QED
    BY <1>0, <2>1
<1>5. CASE row' = row
  BY <1>0, <1>5
<1>6. CASE \E c \in Callers : Return(c)
  BY <1>0, <1>6 DEF Return
<1>7. ASSUME NEW e \in Executors, Work(e) PROVE row' = row \/ Commit(e)
  BY <1>7 DEF Work, Load, Finish, Mark, FinishError, Repair, tableVars
<1> QED
  BY <1>1, <1>2, <1>3, <1>4, <1>5, <1>6, <1>7 DEF Next, vars, Call, Crash, NothingToClaim, tableVars

\* With up to two attempts per task no write takes a counted attempt back, for any
\* workers and requests: a claim on the oldest copy still counts the first one.
THEOREM AttemptsAreKept ==
  ASSUME MaxAttempts <= 2 PROVE Spec => AttemptsOnlyGrow
<1>1. ASSUME Inv, [Next]_vars, NEW t \in Tasks
      PROVE  row'[t].attempts >= row[t].attempts
  <2>1. CASE ~ \E e \in Executors : Claim(e, t)
    BY <1>1, <2>1, AttemptsStep
  <2>2. ASSUME NEW e \in Executors, Claim(e, t) PROVE row'[t].attempts >= row[t].attempts
    <3>1. row[t] \in Row /\ TaskSeen(e, t) \in Row /\ row \in [Tasks -> Row]
      BY <1>1, SeenTypes DEF Inv, TypeOK
    <3>2. row[t].attempts \in {0, 1} /\ TaskSeen(e, t).attempts \in Nat
      BY <1>1, <2>2, <3>1, ClaimFacts, AttemptsAssumption DEF Row
    <3>3. CASE row' = row
      BY <3>2, <3>3
    <3>4. CASE row' # row
      <4>1. /\ row' = [row EXCEPT ![t] =
                         Merge(TaskSeen(e, t), Claimed(TaskSeen(e, t)), row[t])]
            /\ Claimed(TaskSeen(e, t)) \in Row
        BY <1>1, <2>2, <3>4, ClaimFacts DEF tableVars
      <4>2. Claimed(TaskSeen(e, t)).attempts = TaskSeen(e, t).attempts + 1
        BY DEF Claimed
      <4>3. row'[t].attempts = TaskSeen(e, t).attempts + 1
        BY <3>1, <3>2, <4>1, <4>2, MergeRow
      <4> QED
        BY <3>2, <4>3
    <3> QED
      BY <3>3, <3>4
  <2> QED
    BY <2>1, <2>2
<1>2. Inv /\ [Next]_vars => [\A t \in Tasks : row'[t].attempts >= row[t].attempts]_vars
  BY <1>1
<1> QED
  BY <1>2, InvHolds, PTL DEF Spec, AttemptsOnlyGrow

\* A worker in the middle of a task knows that the job has been started.
JobStarted ==
  \A e \in Executors :
     /\ pc[e] # "idle" => job # "pending"
     /\ jsess[e] # "pending"
     /\ pend[e] # None => pend[e].job \in TaskEnd \union {jsess[e]}

LEMMA JobStartedInit == Init => JobStarted
  BY NoneAssumption DEF Init, JobStarted, JobStatus

\* A step of a worker keeps that, and never reopens the job.
LEMMA JobStep ==
  ASSUME Callers = {}, Inv, JobStarted, [Next]_vars
  PROVE  JobStarted' /\ (JobEnded => JobEnded')
<1>0. Executors = Workers /\ job \in JobStatus
  BY DEF Executors, Inv, TypeOK
<1>1. ASSUME NEW e \in Executors, Leave(e), UNCHANGED job
      PROVE  JobStarted' /\ (JobEnded => JobEnded')
  <2>1. Others(e) /\ pc'[e] = "idle" /\ jsess'[e] = None /\ pend'[e] = None
    BY <1>1, LeaveFacts DEF Inv
  <2> QED
    BY <1>1, <2>1, NoneAssumption DEF JobStarted, Others, JobEnded, JobStatus
<1>2. ASSUME NEW e \in Executors, Recover(e)
      PROVE  JobStarted' /\ (JobEnded => JobEnded')
  <2>1. pc[e] = "idle" /\ Stale # {} /\ job = "running"
    BY <1>0, <1>2, ExecutorsAssumption DEF Recover, Stale
  <2>2. Verdict(e) \in TaskEnd \union {"running"}
    <3>1. JobSeen(e) = job
      BY <2>1 DEF Inv, Session, JobSeen
    <3>2. Verdict(e) = RollUp(Copies(e), "running") /\ Copies(e) \in [Tasks -> Row]
      BY <1>2, <2>1, <3>1, RecoverFacts DEF Verdict
    <3> QED
      BY <3>2, RollUpFacts DEF JobStatus
  <2>3. job' \in TaskEnd \union {"running"}
    BY <1>2, <2>1, <2>2, RecoverFacts DEF JobAfter
  <2>4. Others(e) /\ pend'[e] = None /\ jsess'[e] \in {None, Verdict(e)}
    BY <1>2, RecoverFacts, KeepFacts DEF Inv
  <2> QED
    BY <2>1, <2>2, <2>3, <2>4, NoneAssumption
       DEF JobStarted, JobEnded, TaskEnd, Others, JobStatus
<1>3. ASSUME NEW e \in Executors, NEW t \in Tasks, Claim(e, t)
      PROVE  JobStarted' /\ (JobEnded => JobEnded')
  <2>1. CASE Leave(e) /\ UNCHANGED tableVars
    BY <1>1, <2>1 DEF tableVars
  <2>2. CASE ~(Leave(e) /\ UNCHANGED tableVars)
    <3>1. /\ job \in {"pending", "running"}
          /\ job' = IF JobSeen(e) = "pending" THEN "running" ELSE job
          /\ pc' = [pc EXCEPT ![e] = "claimed"] /\ pend' = pend
          /\ jsess' = [jsess EXCEPT ![e] = None] /\ pend[e] = None
      BY <1>0, <1>3, <2>2, ExecutorsAssumption, ClaimFacts
    <3>2. job = "pending" => JobSeen(e) = "pending"
      <4>1. job = "pending" => pc[e] = "idle"
        BY DEF JobStarted
      <4> QED
        BY <4>1 DEF Inv, Session, JobSeen
    <3>3. job' = "running" /\ ~JobEnded
      BY <3>1, <3>2 DEF JobEnded
    <3> QED
      BY <3>1, <3>3, NoneAssumption DEF JobStarted, Inv, TypeOK, JobStatus
  <2> QED
    BY <2>1, <2>2
<1>4. ASSUME NEW e \in Executors, Load(e)
      PROVE  JobStarted' /\ (JobEnded => JobEnded')
  <2>1. pc[e] = "claimed" /\ job # "pending" /\ job' = job
    BY <1>4, LoadFacts DEF JobStarted, tableVars
  <2>2. JobSeen(e) # "pending"
    BY <2>1 DEF JobStarted, JobSeen
  <2>3. CASE TaskDone(e, [sess[e] EXCEPT ![own[e]] = TaskSeen(e, own[e])], JobSeen(e))
    <3>1. Leave(e)
      BY <1>0, <2>3 DEF TaskDone
    <3> QED
      BY <1>1, <2>1, <3>1
  <2>4. CASE /\ pc' = [pc EXCEPT ![e] = "working"]
             /\ jsess' = [jsess EXCEPT ![e] = JobSeen(e)]
             /\ UNCHANGED <<own, pend>>
    <3>1. pend[e] = None
      BY <2>1 DEF Inv, Session
    <3> QED
      BY <2>1, <2>2, <2>4, <3>1 DEF JobStarted, JobEnded, Inv, TypeOK
  <2> QED
    BY <1>4, <2>3, <2>4, LoadFacts
<1>5. ASSUME NEW e \in Executors, pc[e] \in Owning,
             NEW outcome \in {"completed", "blocked", "error"},
             NEW next \in {"finishing", "repairing"}, Mark(e, outcome, next)
      PROVE  JobStarted' /\ (JobEnded => JobEnded')
  <2>1. job # "pending" /\ JobSeen(e) # "pending" /\ JobSeen(e) \in JobStatus
    BY <1>5, SeenTypes DEF JobStarted, JobSeen, Owning, Inv
  <2>2. own[e] \in Tasks
    BY <1>5, OwnTask
  <2>3. /\ job' = job /\ Others(e) /\ jsess'[e] = JobSeen(e)
        /\ \E copies \in [Tasks -> Row] : pend'[e].job = RollUp(copies, JobSeen(e))
    BY <1>5, <2>2, MarkFacts DEF tableVars
  <2>4. pend'[e].job \in TaskEnd \union {JobSeen(e)}
    BY <2>1, <2>3, RollUpFacts
  <2> QED
    BY <2>1, <2>3, <2>4 DEF JobStarted, JobEnded, Others
<1>6. ASSUME NEW e \in Executors, Commit(e)
      PROVE  JobStarted' /\ (JobEnded => JobEnded')
  <2>1. Leave(e) /\ pend[e] # None /\ pc[e] # "idle" /\ jsess[e] # None
    BY <1>0, <1>6 DEF Commit, TaskDone, Inv, Session
  <2>2. Others(e) /\ pc'[e] = "idle" /\ jsess'[e] = None /\ pend'[e] = None
    BY <2>1, LeaveFacts DEF Inv
  <2>3. job' \in TaskEnd \union {job}
    <3>1. JobSeen(e) = jsess[e] /\ pend[e].job \in TaskEnd \union {jsess[e]}
      BY <2>1 DEF JobSeen, JobStarted
    <3> QED
      BY <1>6, <3>1, CommitFacts DEF JobAfter
  <2>4. job # "pending"
    BY <2>1 DEF JobStarted
  <2> QED
    BY <2>2, <2>3, <2>4, NoneAssumption
       DEF JobStarted, JobEnded, TaskEnd, Others, JobStatus
<1>7. ASSUME NEW e \in Executors, FinishError(e)
      PROVE  JobStarted' /\ (JobEnded => JobEnded')
  BY <1>7, NoneAssumption
     DEF FinishError, JobStarted, JobEnded, Inv, TypeOK, JobStatus, tableVars
<1>8. ASSUME NEW e \in Executors, Repair(e)
      PROVE  JobStarted' /\ (JobEnded => JobEnded')
  <2>1. CASE row[own[e]].status = "running"
    BY <1>5, <1>8, <2>1 DEF Repair, Owning
  <2>2. CASE row[own[e]].status # "running"
    BY <1>0, <1>1, <1>8, <2>2 DEF Repair, TaskDone, tableVars
  <2> QED
    BY <2>1, <2>2
<1>9. ASSUME NEW e \in Executors, Finish(e)
      PROVE  JobStarted' /\ (JobEnded => JobEnded')
  BY <1>5, <1>9 DEF Finish, Owning
<1>10. ASSUME NEW e \in Executors, Crash(e)
       PROVE  JobStarted' /\ (JobEnded => JobEnded')
  BY <1>1, <1>10 DEF Crash, tableVars
<1>13. ASSUME NEW w \in Workers, NothingToClaim(w)
       PROVE  JobStarted' /\ (JobEnded => JobEnded')
  BY <1>0, <1>1, <1>13 DEF NothingToClaim, tableVars
<1>11. CASE \E t \in Tasks : WindowPasses(t)
  BY <1>11 DEF WindowPasses, JobStarted, JobEnded
<1>12. CASE UNCHANGED vars
  BY <1>12 DEF vars, JobStarted, JobEnded
<1> QED
  BY <1>2, <1>3, <1>4, <1>6, <1>7, <1>8, <1>9, <1>10, <1>11, <1>12,
     <1>13 DEF Next, Work

\* With polling workers only, a job that has ended is never open again, however
\* late a worker finishes its task.
THEOREM EndedJobsStayEnded ==
  ASSUME Callers = {} PROVE Spec => JobStaysEnded
<1>1. Inv /\ JobStarted /\ [Next]_vars => JobStarted'
  BY JobStep
<1>2. Spec => []JobStarted
  BY <1>1, JobStartedInit, InvHolds, PTL DEF Spec
<1>3. Inv /\ JobStarted /\ [Next]_vars => [JobEnded => JobEnded']_vars
  BY JobStep
<1> QED
  BY <1>2, <1>3, InvHolds, PTL DEF Spec, JobStaysEnded

-----------------------------------------------------------------------------
(* One attempt per task.  A task is then claimed once in its life, so that *)
(* an end which a copy shows is the row's own, and a task has one owner.   *)

\* An attempt has been counted once the task is no longer pending.
Counted(c) == /\ c.attempts = 0 <=> c.status = "pending"
              /\ c.attempts = 0 => c.started = "none"

\* An end that copy c shows, row r has come to.
Settled(c, r) == /\ c.status \in {"completed", "blocked"} => r.status = c.status
                 /\ c.status = "failed" => r.status \in TaskEnd

OnceRows ==
  \A t \in Tasks : /\ Counted(row[t])
                   /\ row[t].status = "running" /\ row[t].started = "old" => t \in ran

OnceCopy(e, t) ==
  sess[e][t] # None =>
     /\ Counted(sess[e][t]) /\ sess[e][t].attempts <= row[t].attempts
     /\ ~(pend[e] # None /\ own[e] = t) => Settled(sess[e][t], row[t])

OnceOwn(e) ==
  own[e] # None =>
     /\ row[own[e]].attempts = 1 /\ row[own[e]].status \in {"running", "failed"}
     /\ row[own[e]].status = "failed" => own[e] \in ran
     /\ sess[e][own[e]] # None => sess[e][own[e]].attempts = 1

OncePending(e) ==
  pend[e] # None =>
     /\ pend[e].row.status \in TaskEnd /\ pend[e].row.status = sess[e][own[e]].status
     /\ pend[e].job # jsess[e] /\ pend[e].job \in TaskEnd =>
           \A u \in Tasks \ {own[e]} : row[u].status \in TaskEnd
     /\ pend[e].job # jsess[e] /\ pend[e].job = "completed" =>
           /\ pend[e].row.status = "completed"
           /\ \A u \in Tasks \ {own[e]} : row[u].status = "completed"

OnceSession(e) == (\A t \in Tasks : OnceCopy(e, t)) /\ OnceOwn(e) /\ OncePending(e)

Owners == \A e, f \in Executors : own[e] # None /\ own[e] = own[f] => e = f

OnceJob == EndedJobHasNoOpenTask /\ CompletedJobMeansCompletedTasks

OnceInv == OnceRows /\ OnceJob /\ Owners /\ \A e \in Executors : OnceSession(e)

LEMMA OnceInit == Init => OnceInv
  BY NoneAssumption, TasksAssumption
     DEF Init, OnceInv, OnceRows, OnceJob, EndedJobHasNoOpenTask, JobEnded,
         CompletedJobMeansCompletedTasks, Owners, OnceSession, OnceCopy, OnceOwn,
         OncePending, Counted, NothingLoaded

\* What is read without a finishing transaction of one's own.
LEMMA SeenOnce ==
  ASSUME Inv, OnceInv, NEW e \in Executors, pend[e] = None, NEW t \in Tasks
  PROVE  /\ Counted(TaskSeen(e, t)) /\ Settled(TaskSeen(e, t), row[t])
         /\ TaskSeen(e, t).attempts <= row[t].attempts
         /\ t = own[e] => TaskSeen(e, t).attempts = 1
<1>1. OnceCopy(e, t) /\ OnceOwn(e) /\ Counted(row[t]) /\ row[t].attempts \in Nat
  BY AttemptsAssumption DEF OnceInv, OnceSession, OnceRows, Inv, TypeOK, Row
<1>2. CASE sess[e][t] = None
  BY <1>1, <1>2, NoneAssumption DEF TaskSeen, OnceOwn, Settled, TaskEnd
<1>3. CASE sess[e][t] # None
  BY <1>1, <1>3, NoneAssumption DEF TaskSeen, OnceCopy, OnceOwn
<1> QED
  BY <1>2, <1>3

\* Rows go forward.
OnceForward ==
  \A t \in Tasks :
     /\ row'[t].attempts >= row[t].attempts
     /\ row[t].status \in {"completed", "blocked"} => row'[t].status = row[t].status
     /\ row[t].status \in TaskEnd => row'[t].status \in TaskEnd

Same(f) == /\ pc'[f] = pc[f] /\ own'[f] = own[f] /\ pend'[f] = pend[f]
           /\ sess'[f] = sess[f] /\ jsess'[f] = jsess[f]

LEMMA ForwardSame ==
  ASSUME Inv, row' = row PROVE OnceForward
  BY AttemptsAssumption DEF Inv, TypeOK, Row, OnceForward

\* What a session knows stays true while rows go forward.
LEMMA OnceOther ==
  ASSUME Inv, OnceInv, OnceForward, row' \in [Tasks -> Row],
         NEW f \in Executors, Same(f),
         own[f] # None => /\ row'[own[f]].attempts = 1
                          /\ row'[own[f]].status \in {"running", "failed"}
                          /\ row'[own[f]].status = "failed" => own[f] \in ran'
  PROVE  OnceSession(f)'
<1>1. ASSUME NEW t \in Tasks PROVE OnceCopy(f, t)'
  <2>1. OnceCopy(f, t)
    BY DEF OnceInv, OnceSession
  <2>2. CASE sess[f][t] = None
    BY <2>2 DEF OnceCopy, Same
  <2>3. CASE sess[f][t] # None
    <3>1. sess[f][t].attempts \in Int /\ row[t].attempts \in Int /\ row'[t].attempts \in Int
      BY <2>3, AttemptsAssumption DEF Inv, TypeOK, Row
    <3> QED
      BY <2>1, <2>3, <3>1 DEF OnceCopy, Same, OnceForward, Settled, Counted, TaskEnd
  <2> QED
    BY <2>2, <2>3
<1>2. OnceOwn(f)'
  BY DEF OnceInv, OnceSession, OnceOwn, Same
<1>3. OncePending(f)'
  BY DEF OnceInv, OnceSession, OncePending, Same, OnceForward
<1> QED
  BY <1>1, <1>2, <1>3 DEF OnceSession

\* A session that is done with its task keeps what is true of the rows.
LEMMA OnceDone ==
  ASSUME NEW e \in Executors, own'[e] = None, pend'[e] = None,
         NEW tasks \in [Tasks -> Row \union {None}],
         sess'[e] = tasks \/ sess'[e] = NothingLoaded,
         \A t \in Tasks : tasks[t] # None =>
            /\ Counted(tasks[t]) /\ tasks[t].attempts <= row'[t].attempts
            /\ Settled(tasks[t], row'[t])
  PROVE  OnceSession(e)'
  BY DEF OnceSession, OnceCopy, OnceOwn, OncePending, NothingLoaded, Settled, Counted

\* A roll-up ends the job only if the rows have ended.
LEMMA OnceRollUp ==
  ASSUME Inv, OnceInv, OnceForward, NEW e \in Executors, NEW tasks \in [Tasks -> Row],
         \A t \in Tasks : Settled(tasks[t], row'[t]),
         job' = JobAfter(e, RollUp(tasks, JobSeen(e)))
  PROVE  OnceJob'
<1>1. JobSeen(e) \in JobStatus
  BY SeenTypes DEF Inv
<1>2. CASE RollUp(tasks, JobSeen(e)) = JobSeen(e)
  <2>1. job' = job
    BY <1>2 DEF JobAfter
  <2> QED
    BY <2>1 DEF OnceInv, OnceJob, OnceForward, EndedJobHasNoOpenTask,
                CompletedJobMeansCompletedTasks, JobEnded
<1>3. CASE RollUp(tasks, JobSeen(e)) # JobSeen(e)
  <2>1. job' = RollUp(tasks, JobSeen(e))
    BY <1>3 DEF JobAfter
  <2>2. /\ job' \in TaskEnd => \A t \in Tasks : tasks[t].status \in TaskEnd
        /\ job' = "completed" => \A t \in Tasks : tasks[t].status = "completed"
    BY <1>1, <1>3, <2>1, RollUpFacts
  <2> QED
    BY <2>2 DEF OnceJob, EndedJobHasNoOpenTask, CompletedJobMeansCompletedTasks,
                JobEnded, TaskEnd, Settled
<1> QED
  BY <1>2, <1>3

LEMMA OnceOwners ==
  ASSUME OnceInv, NEW e \in Executors, own'[e] \in {None, own[e]},
         \A f \in Executors \ {e} : own'[f] = own[f]
  PROVE  Owners'
  BY DEF OnceInv, Owners

-----------------------------------------------------------------------------
(* The steps.                                                              *)

\* A step that leaves the rows and the job and ends a session's work.
LEMMA OnceEnd ==
  ASSUME Inv, OnceInv, NEW e \in Executors, NEW tasks \in [Tasks -> Row \union {None}],
         Others(e), own'[e] = None, pend'[e] = None,
         sess'[e] = tasks \/ sess'[e] = NothingLoaded,
         \A t \in Tasks : tasks[t] # None =>
            /\ Counted(tasks[t]) /\ tasks[t].attempts <= row[t].attempts
            /\ Settled(tasks[t], row[t]),
         row' = row, ran' = ran, OnceJob'
  PROVE  OnceInv'
<1>1. OnceSession(e)'
  BY OnceDone
<1>2. \A f \in Executors \ {e} : OnceSession(f)'
  <2>1. OnceForward /\ row' \in [Tasks -> Row]
    BY ForwardSame DEF Inv, TypeOK
  <2>2. \A f \in Executors \ {e} : Same(f)
    BY DEF Others, Same
  <2>3. \A f \in Executors : own[f] # None => /\ row'[own[f]].attempts = 1
                                              /\ row'[own[f]].status \in {"running", "failed"}
                                              /\ row'[own[f]].status = "failed" => own[f] \in ran'
    BY DEF OnceInv, OnceSession, OnceOwn
  <2> QED
    BY <2>1, <2>2, <2>3, OnceOther
<1>3. OnceRows' /\ Owners'
  BY OnceOwners DEF OnceInv, OnceRows, Others
<1> QED
  BY <1>1, <1>2, <1>3 DEF OnceInv

LEMMA OnceLeave ==
  ASSUME Inv, OnceInv, NEW e \in Executors, Leave(e), row' = row, ran' = ran, OnceJob'
  PROVE  OnceInv'
<1>1. /\ Others(e) /\ own'[e] = None /\ pend'[e] = None /\ sess'[e] = NothingLoaded
  BY LeaveFacts DEF Inv
<1>2. NothingLoaded \in [Tasks -> Row \union {None}]
  BY DEF NothingLoaded
<1>3. \A t \in Tasks : NothingLoaded[t] = None
  BY DEF NothingLoaded
<1> QED
  BY <1>1, <1>2, <1>3, OnceEnd

LEMMA OnceWindow ==
  ASSUME Inv, OnceInv, NEW t \in Tasks, WindowPasses(t) PROVE OnceInv'
<1>1. /\ row' \in [Tasks -> Row]
      /\ \A u \in Tasks : /\ row'[u].status = row[u].status
                          /\ row'[u].attempts = row[u].attempts
                          /\ u # t => row'[u] = row[u]
      /\ row[t].status = "running" /\ ran' = ran \union {t} /\ job' = job
  <2> DEFINE new == [row[t] EXCEPT !.started = IF @ = "none" THEN "none" ELSE "old"]
  <2>1. /\ row \in [Tasks -> Row] /\ row' = [row EXCEPT ![t] = new]
        /\ row[t].status = "running" /\ ran' = ran \union {t} /\ job' = job
    BY DEF Inv, TypeOK, WindowPasses
  <2>2. /\ row[t] \in Row /\ row'[t] = new
        /\ \A u \in Tasks : u # t => row'[u] = row[u]
    BY <2>1
  <2>3. /\ row'[t].status = row[t].status /\ row'[t].attempts = row[t].attempts
        /\ row'[t] \in Row
    BY <2>2 DEF Row
  <2> QED
    BY <2>1, <2>2, <2>3
<1>2. OnceForward
  BY <1>1, AttemptsAssumption DEF OnceForward, Inv, TypeOK, Row
<1>3. \A f \in Executors : OnceSession(f)'
  <2>1. \A f \in Executors : Same(f)
    BY DEF WindowPasses, Same
  <2>2. \A f \in Executors : own[f] # None => /\ own[f] \in Tasks /\ row[own[f]].attempts = 1
                                              /\ row[own[f]].status \in {"running", "failed"}
                                              /\ row[own[f]].status = "failed" => own[f] \in ran
    BY DEF OnceInv, OnceSession, OnceOwn, Inv, TypeOK
  <2>3. \A f \in Executors : own[f] # None => /\ row'[own[f]].attempts = 1
                                              /\ row'[own[f]].status \in {"running", "failed"}
                                              /\ row'[own[f]].status = "failed" => own[f] \in ran'
    BY <1>1, <2>2
  <2> QED
    BY <1>1, <1>2, <2>1, <2>3, OnceOther
<1>4. OnceRows'
  BY <1>1 DEF OnceInv, OnceRows, Counted
<1>5. OnceJob' /\ Owners'
  BY <1>1 DEF OnceInv, OnceJob, EndedJobHasNoOpenTask, CompletedJobMeansCompletedTasks,
              JobEnded, Owners, WindowPasses
<1> QED
  BY <1>3, <1>4, <1>5 DEF OnceInv

LEMMA OnceCall ==
  ASSUME Inv, OnceInv, NEW c \in Callers, Call(c) PROVE OnceInv'
<1>1. c \in Executors /\ own[c] = None /\ pend[c] = None
  BY DEF Executors, Inv, Session, Owning, Call
<1>2. /\ Others(c) /\ own'[c] = None /\ pend'[c] = None /\ sess'[c] = row
      /\ row' = row /\ ran' = ran /\ job' = job
  BY <1>1 DEF Call, Others, Inv, TypeOK, tableVars
<1>3. ASSUME NEW t \in Tasks
      PROVE  /\ Counted(row[t]) /\ row[t].attempts <= row[t].attempts
             /\ Settled(row[t], row[t])
  <2>1. row[t].attempts \in Int
    BY AttemptsAssumption DEF Inv, TypeOK, Row
  <2>2. row[t].attempts <= row[t].attempts
    BY <2>1
  <2>3. Counted(row[t])
    BY DEF OnceInv, OnceRows
  <2>4. Settled(row[t], row[t])
    BY DEF Settled, TaskEnd
  <2> QED
    BY <2>2, <2>3, <2>4
<1>4. row \in [Tasks -> Row \union {None}]
  BY DEF Inv, TypeOK
<1>5. OnceJob'
  BY <1>2 DEF OnceInv, OnceJob, EndedJobHasNoOpenTask, CompletedJobMeansCompletedTasks, JobEnded
<1> QED
  BY <1>1, <1>2, <1>3, <1>4, <1>5, OnceEnd

\* A recovery fails the stale tasks whose copies count their attempt, and
\* leaves the others as they are.
LEMMA OnceRecovered ==
  ASSUME MaxAttempts = 1, Inv, OnceInv, NEW e \in Executors, Recover(e), NEW t \in Tasks
  PROVE  /\ \/ row'[t] = row[t]
            \/ /\ row[t].status = "running" /\ row'[t].status = "failed"
               /\ row'[t].attempts = row[t].attempts /\ t \in ran
         /\ Counted(Copies(e)[t]) /\ Copies(e)[t].attempts <= row'[t].attempts
         /\ Settled(Copies(e)[t], row'[t])
<1>0. pend[e] = None
  BY DEF Recover, Inv, Session
<1>1. /\ TaskSeen(e, t) \in Row /\ row[t] \in Row
      /\ Counted(TaskSeen(e, t)) /\ Settled(TaskSeen(e, t), row[t])
      /\ TaskSeen(e, t).attempts <= row[t].attempts
  BY <1>0, SeenOnce, SeenTypes DEF Inv, TypeOK
<1>2. CASE t \notin Stale
  BY <1>1, <1>2, RecoverFacts DEF Copies
<1>3. CASE t \in Stale
  <2>1. row[t].status = "running" /\ t \in ran
    BY <1>3 DEF Stale, OnceInv, OnceRows
  <2>2. /\ Copies(e)[t] = Recovered(TaskSeen(e, t)) /\ Copies(e)[t] \in Row
        /\ row'[t] = Merge(TaskSeen(e, t), Copies(e)[t], row[t])
        /\ row'[t].attempts = row[t].attempts
        /\ Copies(e)[t].attempts = TaskSeen(e, t).attempts
    BY <1>1, <1>3, RecoverFacts, RecoveredRow DEF Copies
  <2>3. CASE TaskSeen(e, t).attempts = 0
    <3>1. Copies(e)[t] = TaskSeen(e, t)
      <4>1. TaskSeen(e, t) = [status |-> "pending", attempts |-> 0, started |-> "none"]
        BY <1>1, <2>3 DEF Counted, Row
      <4>2. /\ Recovered(TaskSeen(e, t)).status = "pending"
            /\ Recovered(TaskSeen(e, t)).started = "none"
        BY <1>1, <2>3 DEF Recovered, Row
      <4>3. Copies(e)[t] = [status |-> "pending", attempts |-> 0, started |-> "none"]
        BY <2>2, <2>3, <4>2 DEF Row
      <4> QED
        BY <4>1, <4>3
    <3>2. Merge(TaskSeen(e, t), TaskSeen(e, t), row[t]) = row[t]
      BY <1>1 DEF Merge, Row
    <3> QED
      BY <1>1, <2>2, <3>1, <3>2
  <2>4. CASE TaskSeen(e, t).attempts # 0
    <3>1. TaskSeen(e, t).status = "running"
      BY <1>1, <2>1, <2>4 DEF Counted, Settled, Row, TaskStatus, TaskEnd
    <3>2. Copies(e)[t].status = "failed"
      BY <1>1, <2>2, <2>4 DEF Recovered, Row
    <3>3. row'[t].status = "failed"
      BY <1>1, <2>2, <3>1, <3>2, MergeRow
    <3> QED
      BY <1>1, <2>1, <2>2, <2>4, <3>2, <3>3 DEF Counted, Settled, TaskEnd
  <2> QED
    BY <2>3, <2>4
<1> QED
  BY <1>2, <1>3

LEMMA OnceRecover ==
  ASSUME MaxAttempts = 1, Inv, OnceInv, NEW e \in Executors, Recover(e) PROVE OnceInv'
<1>1. /\ Copies(e) \in [Tasks -> Row] /\ row' \in [Tasks -> Row] /\ ran' = ran
      /\ job' = JobAfter(e, Verdict(e))
  BY RecoverFacts
<1>2. \A t \in Tasks : \/ row'[t] = row[t]
                       \/ /\ row[t].status = "running" /\ row'[t].status = "failed"
                          /\ row'[t].attempts = row[t].attempts /\ t \in ran
  BY OnceRecovered
<1>3. OnceForward
  BY <1>2, AttemptsAssumption DEF OnceForward, TaskEnd, Inv, TypeOK, Row
<1>4. OnceRows'
  BY <1>1, <1>2 DEF OnceInv, OnceRows, Counted
<1>5. OnceJob'
  <2>1. CASE Stale = {}
    <3>1. job' = job
      BY <1>1, <2>1 DEF Verdict, JobAfter
    <3> QED
      BY <1>3, <3>1 DEF OnceInv, OnceJob, OnceForward, EndedJobHasNoOpenTask,
                        CompletedJobMeansCompletedTasks, JobEnded
  <2>2. CASE Stale # {}
    <3>1. job' = JobAfter(e, RollUp(Copies(e), JobSeen(e)))
      BY <1>1, <2>2 DEF Verdict
    <3> QED
      BY <1>1, <1>3, <3>1, OnceRecovered, OnceRollUp
  <2> QED
    BY <2>1, <2>2
<1>6. \A f \in Executors : own[f] # None => /\ row'[own[f]].attempts = 1
                                            /\ row'[own[f]].status \in {"running", "failed"}
                                            /\ row'[own[f]].status = "failed" => own[f] \in ran'
  <2>1. \A f \in Executors : own[f] # None => /\ own[f] \in Tasks /\ row[own[f]].attempts = 1
                                              /\ row[own[f]].status \in {"running", "failed"}
                                              /\ row[own[f]].status = "failed" => own[f] \in ran
    BY DEF OnceInv, OnceSession, OnceOwn, Inv, TypeOK
  <2> QED
    BY <1>1, <1>2, <2>1
<1>7. /\ Copies(e) \in [Tasks -> Row \union {None}]
      /\ Verdict(e) \in JobStatus \union {None}
  BY RecoverFacts
<1>8. /\ Others(e) /\ own'[e] = None /\ pend'[e] = None
      /\ sess'[e] = Copies(e) \/ sess'[e] = NothingLoaded
  BY <1>7, RecoverFacts, KeepFacts DEF Inv
<1>9. OnceSession(e)'
  BY <1>7, <1>8, OnceRecovered, OnceDone
<1>10. \A f \in Executors \ {e} : OnceSession(f)'
  BY <1>1, <1>3, <1>6, <1>8, OnceOther DEF Same, Others
<1>11. Owners'
  BY <1>8, OnceOwners DEF Others
<1> QED
  BY <1>4, <1>5, <1>9, <1>10, <1>11 DEF OnceInv

LEMMA OnceClaim ==
  ASSUME MaxAttempts = 1, Inv, OnceInv, NEW e \in Executors, NEW t \in Tasks, Claim(e, t)
  PROVE  OnceInv'
<1>1. CASE Leave(e) /\ UNCHANGED tableVars
  <2>1. OnceJob'
    BY <1>1 DEF tableVars, OnceInv, OnceJob, EndedJobHasNoOpenTask,
                CompletedJobMeansCompletedTasks, JobEnded
  <2> QED
    BY <1>1, <2>1, OnceLeave DEF tableVars
<1>2. CASE ~(Leave(e) /\ UNCHANGED tableVars)
  <2>0. /\ row[t].status = "pending" /\ row[t] \in Row /\ row \in [Tasks -> Row]
        /\ pend[e] = None /\ own[e] = None /\ t # None
    BY ClaimFacts, NoneAssumption DEF Inv, TypeOK
  <2>1. TaskSeen(e, t) = [status |-> "pending", attempts |-> 0, started |-> "none"]
    <3>1. row[t].attempts = 0
      BY <2>0 DEF OnceInv, OnceRows, Counted
    <3>2. /\ TaskSeen(e, t) \in Row /\ Counted(TaskSeen(e, t))
          /\ TaskSeen(e, t).attempts <= row[t].attempts
      BY <2>0, SeenOnce, SeenTypes DEF Inv
    <3> QED
      BY <3>1, <3>2, AttemptsAssumption DEF Row, Counted
  <2>2. Claimed(TaskSeen(e, t)) = [status |-> "running", attempts |-> 1, started |-> "fresh"]
    BY <2>1 DEF Claimed
  <2>3. /\ row' = [row EXCEPT ![t] = Merge(TaskSeen(e, t), Claimed(TaskSeen(e, t)), row[t])]
        /\ row' \in [Tasks -> Row]
        /\ job' = IF JobSeen(e) = "pending" THEN "running" ELSE job
        /\ job \in {"pending", "running"}
        /\ ran' = ran \ {t}
        /\ pc' = [pc EXCEPT ![e] = "claimed"] /\ own' = [own EXCEPT ![e] = t] /\ pend' = pend
        /\ \/ /\ e \in Workers
              /\ sess' = [sess EXCEPT ![e] = NothingLoaded]
              /\ jsess' = [jsess EXCEPT ![e] = None]
           \/ /\ e \in Callers
              /\ sess' = [sess EXCEPT ![e][t] = Claimed(TaskSeen(e, t))]
              /\ jsess' = [jsess EXCEPT ![e] = IF JobSeen(e) = "pending"
                                               THEN "running" ELSE JobSeen(e)]
        /\ Claimed(TaskSeen(e, t)) \in Row /\ TaskSeen(e, t) \in Row
    BY <1>2, ClaimFacts, SeenTypes DEF Inv
  <2>4. /\ row'[t].status = "running" /\ row'[t].attempts = 1 /\ row'[t].started = "fresh"
        /\ \A u \in Tasks \ {t} : row'[u] = row[u]
    <3> DEFINE m == Merge(TaskSeen(e, t), Claimed(TaskSeen(e, t)), row[t])
    <3> DEFINE old == TaskSeen(e, t)
               new == Claimed(TaskSeen(e, t))
    <3>3. row[t] \in Row /\ old \in Row /\ new \in Row
      BY <2>0, <2>3 DEF Inv, TypeOK
    <3>4. /\ new.status = "running" /\ new.attempts = 1 /\ new.started = "fresh"
          /\ old.status # "running" /\ old.attempts = 0 /\ old.started # "fresh"
      BY <2>1, <2>2
    <3> HIDE DEF old, new
    <3>5. m = Merge(old, new, row[t])
      BY DEF old, new
    <3>1. /\ m.status = "running" /\ m.attempts = 1 /\ m.started = "fresh"
      BY <3>3, <3>4, <3>5, MergeRow
    <3> HIDE DEF m
    <3>2. row' = [row EXCEPT ![t] = m]
      BY <2>3 DEF m
    <3> QED
      BY <2>0, <3>1, <3>2
  <2>5. OnceForward
    <3>1. ASSUME NEW u \in Tasks \ {t}
          PROVE  row'[u] = row[u] /\ row[u].attempts \in Nat
      BY <2>0, <2>4, AttemptsAssumption DEF Row
    <3>2. row[t].attempts \in 0..1 /\ row[t].status = "pending"
      BY <2>0 DEF Row
    <3> QED
      BY <2>4, <3>1, <3>2 DEF OnceForward, TaskEnd
  <2>6. OnceRows'
    BY <2>3, <2>4 DEF OnceInv, OnceRows, Counted
  <2>7. OnceJob'
    BY <2>3 DEF OnceJob, EndedJobHasNoOpenTask, CompletedJobMeansCompletedTasks, JobEnded
  <2>8. \A f \in Executors : own[f] # t
    BY <2>0 DEF OnceInv, OnceSession, OnceOwn
  <2>9. Owners'
    BY <2>3, <2>8 DEF OnceInv, Owners, Inv, TypeOK
  <2>10. ASSUME NEW f \in Executors \ {e} PROVE OnceSession(f)'
    <3>1. Same(f)
      BY <2>3 DEF Same, Inv, TypeOK
    <3>2. own[f] # None => /\ own[f] \in Tasks \ {t} /\ row[own[f]].attempts = 1
                           /\ row[own[f]].status \in {"running", "failed"}
                           /\ row[own[f]].status = "failed" => own[f] \in ran
      BY <2>8 DEF OnceInv, OnceSession, OnceOwn, Inv, TypeOK
    <3> QED
      BY <2>3, <2>4, <2>5, <3>1, <3>2, OnceOther
  <2>11. OnceSession(e)'
    <3>1. own'[e] = t /\ pend'[e] = None
      BY <2>0, <2>3 DEF Inv, TypeOK
    <3>2. ASSUME NEW u \in Tasks
          PROVE  \/ sess'[e][u] = sess[e][u]
                 \/ u = t /\ sess'[e][u] = Claimed(TaskSeen(e, t))
                 \/ sess'[e][u] = None
      <4>1. CASE sess' = [sess EXCEPT ![e] = NothingLoaded]
        BY <4>1 DEF Inv, TypeOK, NothingLoaded
      <4>2. CASE sess' = [sess EXCEPT ![e][t] = Claimed(TaskSeen(e, t))]
        <5>1. sess'[e] = [sess[e] EXCEPT ![t] = Claimed(TaskSeen(e, t))]
          BY <4>2 DEF Inv, TypeOK
        <5> QED
          BY <5>1 DEF Inv, TypeOK
      <4> QED
        BY <2>3, <4>1, <4>2
    <3>3. ASSUME NEW u \in Tasks PROVE OnceCopy(e, u)'
      <4>1. CASE u = t /\ sess'[e][u] = Claimed(TaskSeen(e, t))
        BY <2>2, <2>4, <3>1, <4>1 DEF OnceCopy, Counted, Settled
      <4>2. CASE sess'[e][u] = sess[e][u] /\ u # t
        BY <2>0, <2>4, <3>1, <4>2 DEF OnceInv, OnceSession, OnceCopy, Settled, Counted
      <4>3. CASE sess'[e][u] = sess[e][u] /\ u = t
        <5>1. CASE sess[e][t] = None
          BY <4>3, <5>1 DEF OnceCopy
        <5>2. CASE sess[e][t] # None
          <6>1. sess'[e][u] = [status |-> "pending", attempts |-> 0, started |-> "none"]
            BY <2>1, <4>3, <5>2 DEF TaskSeen
          <6> QED
            BY <2>4, <3>1, <4>3, <6>1 DEF OnceCopy, Counted, Settled
        <5> QED
          BY <5>1, <5>2
      <4>4. CASE sess'[e][u] = None
        BY <4>4 DEF OnceCopy
      <4> QED
        BY <3>2, <4>1, <4>2, <4>3, <4>4
    <3>4. OnceOwn(e)'
      <4>1. CASE e \in Workers
        <5>1. sess'[e] = NothingLoaded
          BY <2>3, <4>1, ExecutorsAssumption DEF Inv, TypeOK
        <5> QED
          BY <2>4, <3>1, <5>1 DEF OnceOwn, NothingLoaded
      <4>2. CASE e \notin Workers
        <5>1. sess'[e][t] = Claimed(TaskSeen(e, t))
          BY <2>3, <4>2 DEF Inv, TypeOK
        <5> QED
          BY <2>2, <2>4, <3>1, <5>1 DEF OnceOwn
      <4> QED
        BY <4>1, <4>2
    <3> QED
      BY <3>1, <3>3, <3>4 DEF OnceSession, OncePending
  <2> QED
    BY <2>6, <2>7, <2>9, <2>10, <2>11 DEF OnceInv
<1> QED
  BY <1>1, <1>2

\* The copies a session may read without a finishing transaction.
LEMMA OnceSeenCopies ==
  ASSUME Inv, OnceInv, NEW e \in Executors, pend[e] = None,
         NEW tasks \in [Tasks -> Row \union {None}],
         \A u \in Tasks : tasks[u] \in {sess[e][u], TaskSeen(e, u), row[u]}
  PROVE  \A u \in Tasks : tasks[u] # None =>
            /\ Counted(tasks[u]) /\ tasks[u].attempts <= row[u].attempts
            /\ Settled(tasks[u], row[u])
<1> SUFFICES ASSUME NEW u \in Tasks, tasks[u] # None
             PROVE  /\ Counted(tasks[u]) /\ tasks[u].attempts <= row[u].attempts
                    /\ Settled(tasks[u], row[u])
  OBVIOUS
<1>1. tasks[u] = TaskSeen(e, u) \/ tasks[u] = row[u]
  BY DEF TaskSeen
<1>2. CASE tasks[u] = TaskSeen(e, u)
  BY <1>2, SeenOnce
<1>3. CASE tasks[u] = row[u]
  <2>1. row[u].attempts \in Int
    BY AttemptsAssumption DEF Inv, TypeOK, Row
  <2> QED
    BY <1>3, <2>1 DEF OnceInv, OnceRows, Settled, TaskEnd
<1> QED
  BY <1>1, <1>2, <1>3

LEMMA OnceTaskDone ==
  ASSUME Inv, OnceInv, NEW e \in Executors, pend[e] = None,
         NEW tasks \in [Tasks -> Row \union {None}], NEW j \in JobStatus,
         \A u \in Tasks : tasks[u] \in {sess[e][u], TaskSeen(e, u), row[u]},
         TaskDone(e, tasks, j), UNCHANGED tableVars
  PROVE  OnceInv'
<1>1. /\ Others(e) /\ own'[e] = None /\ pend'[e] = None
      /\ sess'[e] = tasks \/ sess'[e] = NothingLoaded
  BY DoneFacts DEF Inv
<1>2. OnceJob'
  BY DEF tableVars, OnceInv, OnceJob, EndedJobHasNoOpenTask,
         CompletedJobMeansCompletedTasks, JobEnded
<1> QED
  BY <1>1, <1>2, OnceSeenCopies, OnceEnd DEF tableVars

LEMMA OnceLoad ==
  ASSUME Inv, OnceInv, NEW e \in Executors, Load(e) PROVE OnceInv'
<1>0. /\ own[e] \in Tasks /\ pend[e] = None /\ JobSeen(e) \in JobStatus /\ UNCHANGED tableVars
  BY LoadFacts, SeenTypes DEF Inv, Session
<1>1. CASE TaskDone(e, [sess[e] EXCEPT ![own[e]] = TaskSeen(e, own[e])], JobSeen(e))
  <2>1. /\ [sess[e] EXCEPT ![own[e]] = TaskSeen(e, own[e])] \in [Tasks -> Row \union {None}]
        /\ \A u \in Tasks : [sess[e] EXCEPT ![own[e]] = TaskSeen(e, own[e])][u]
                              \in {sess[e][u], TaskSeen(e, u), row[u]}
    BY <1>0, LoadFacts DEF Inv, TypeOK
  <2> QED
    BY <1>0, <1>1, <2>1, OnceTaskDone
<1>2. CASE /\ pc' = [pc EXCEPT ![e] = "working"]
           /\ sess' = [sess EXCEPT ![e] = LoadCopies(e)]
           /\ jsess' = [jsess EXCEPT ![e] = JobSeen(e)]
           /\ UNCHANGED <<own, pend>>
  <2>1. /\ LoadCopies(e) \in [Tasks -> Row \union {None}]
        /\ \A u \in Tasks : LoadCopies(e)[u] \in {sess[e][u], TaskSeen(e, u), row[u]}
        /\ LoadCopies(e)[own[e]] = TaskSeen(e, own[e])
    BY LoadFacts
  <2>2. \A u \in Tasks : LoadCopies(e)[u] # None =>
            /\ Counted(LoadCopies(e)[u]) /\ LoadCopies(e)[u].attempts <= row[u].attempts
            /\ Settled(LoadCopies(e)[u], row[u])
    BY <1>0, <2>1, OnceSeenCopies
  <2>3. /\ sess'[e] = LoadCopies(e) /\ own'[e] = own[e] /\ pend'[e] = None
        /\ row' = row /\ ran' = ran
    BY <1>0, <1>2 DEF Inv, TypeOK, tableVars
  <2>4. OnceSession(e)'
    <3>1. \A u \in Tasks : OnceCopy(e, u)'
      BY <2>2, <2>3 DEF OnceCopy, Counted, Settled
    <3>2. OnceOwn(e)'
      BY <1>0, <2>1, <2>3, SeenOnce DEF OnceInv, OnceSession, OnceOwn
    <3> QED
      BY <2>3, <3>1, <3>2 DEF OnceSession, OncePending
  <2>5. ASSUME NEW f \in Executors \ {e} PROVE OnceSession(f)'
    <3>1. Same(f) /\ OnceForward /\ row' \in [Tasks -> Row]
      BY <1>2, <2>3, ForwardSame DEF Same, Inv, TypeOK
    <3>2. own[f] # None => /\ row'[own[f]].attempts = 1
                           /\ row'[own[f]].status \in {"running", "failed"}
                           /\ row'[own[f]].status = "failed" => own[f] \in ran'
      BY <2>3 DEF OnceInv, OnceSession, OnceOwn
    <3> QED
      BY <3>1, <3>2, OnceOther
  <2>6. OnceRows' /\ Owners' /\ OnceJob'
    BY <1>0, <1>2 DEF tableVars, OnceInv, OnceRows, Owners, OnceJob,
       EndedJobHasNoOpenTask, CompletedJobMeansCompletedTasks, JobEnded
  <2> QED
    BY <2>4, <2>5, <2>6 DEF OnceInv
<1> QED
  BY <1>1, <1>2, LoadFacts

LEMMA OnceMark ==
  ASSUME MaxAttempts = 1, Inv, OnceInv, NEW e \in Executors, own[e] \in Tasks,
         pend[e] = None, TaskSeen(e, own[e]).status = "running",
         NEW outcome \in {"completed", "blocked", "error"},
         NEW next \in {"finishing", "repairing"}, Mark(e, outcome, next)
  PROVE  OnceInv'
<1> DEFINE copies == NewCopies(e, outcome)
<1>0. /\ New(e, outcome) \in Row /\ copies \in [Tasks -> Row]
      /\ \A u \in Tasks : copies[u] = IF u = own[e] THEN New(e, outcome) ELSE TaskSeen(e, u)
      /\ pend'[e] \in [row : Row, job : JobStatus]
      /\ pend'[e].row = Merge(TaskSeen(e, own[e]), New(e, outcome), row[own[e]])
      /\ pend'[e].job = RollUp(copies, JobSeen(e))
      /\ sess'[e] = copies /\ jsess'[e] = JobSeen(e)
      /\ UNCHANGED <<tableVars, own>> /\ Others(e)
  BY MarkFacts
<1> HIDE DEF copies
<1>1. /\ TaskSeen(e, own[e]) \in Row /\ TaskSeen(e, own[e]).attempts = 1
      /\ row[own[e]] \in Row /\ own[e] # None /\ row[own[e]].attempts = 1
      /\ row[own[e]].status \in {"running", "failed"}
  BY SeenOnce, SeenTypes, NoneAssumption DEF OnceInv, OnceSession, OnceOwn, Inv, TypeOK
<1>2. New(e, outcome).attempts = 1 /\ New(e, outcome).status \in TaskEnd
  BY <1>1 DEF New, Marked, Row, TaskEnd
<1>3. pend'[e].row.status = New(e, outcome).status
  BY <1>0, <1>1, <1>2, MergeRow DEF TaskEnd
<1>4. row' = row /\ job' = job /\ ran' = ran /\ own' = own
  BY <1>0 DEF tableVars
<1>5. ASSUME NEW u \in Tasks, u # own[e]
      PROVE  /\ copies[u] = TaskSeen(e, u) /\ Counted(copies[u]) /\ Settled(copies[u], row[u])
             /\ copies[u].attempts <= row[u].attempts
  BY <1>0, <1>5, SeenOnce
<1>6. OnceSession(e)'
  <2>1. ASSUME NEW u \in Tasks PROVE OnceCopy(e, u)'
    <3>1. CASE u = own[e]
      BY <1>0, <1>1, <1>2, <1>4, <3>1, NoneAssumption DEF OnceCopy, Counted, TaskEnd
    <3>2. CASE u # own[e]
      BY <1>0, <1>4, <1>5, <3>2 DEF OnceCopy, Counted, Settled
    <3> QED
      BY <3>1, <3>2
  <2>2. OnceOwn(e)'
    BY <1>0, <1>1, <1>2, <1>4 DEF OnceInv, OnceSession, OnceOwn
  <2>3. OncePending(e)'
    <3>1. JobSeen(e) \in JobStatus
      BY SeenTypes DEF Inv
    <3>2. /\ RollUp(copies, JobSeen(e)) # JobSeen(e) /\ RollUp(copies, JobSeen(e)) \in TaskEnd =>
                \A u \in Tasks : copies[u].status \in TaskEnd
          /\ RollUp(copies, JobSeen(e)) # JobSeen(e)
                /\ RollUp(copies, JobSeen(e)) = "completed" =>
                \A u \in Tasks : copies[u].status = "completed"
      BY <1>0, <3>1, RollUpFacts
    <3>3. /\ copies[own[e]] = New(e, outcome)
          /\ \A u \in Tasks \ {own[e]} : Settled(copies[u], row[u])
      BY <1>0, <1>5
    <3> QED
      BY <1>0, <1>2, <1>3, <1>4, <3>2, <3>3 DEF OncePending, Settled, TaskEnd
  <2> QED
    BY <2>1, <2>2, <2>3 DEF OnceSession
<1>7. ASSUME NEW f \in Executors \ {e} PROVE OnceSession(f)'
  <2>1. Same(f) /\ OnceForward /\ row' \in [Tasks -> Row]
    BY <1>0, <1>4, ForwardSame DEF Same, Others, Inv, TypeOK
  <2>2. own[f] # None => /\ row'[own[f]].attempts = 1
                         /\ row'[own[f]].status \in {"running", "failed"}
                         /\ row'[own[f]].status = "failed" => own[f] \in ran'
    BY <1>4 DEF OnceInv, OnceSession, OnceOwn
  <2> QED
    BY <2>1, <2>2, OnceOther
<1>8. OnceRows' /\ Owners' /\ OnceJob'
  BY <1>4 DEF OnceInv, OnceRows, Owners, OnceJob, EndedJobHasNoOpenTask,
              CompletedJobMeansCompletedTasks, JobEnded
<1> QED
  BY <1>6, <1>7, <1>8 DEF OnceInv

LEMMA OnceCommit ==
  ASSUME Inv, OnceInv, NEW e \in Executors, Commit(e) PROVE OnceInv'
<1> DEFINE t == own[e]
<1>0. /\ t \in Tasks /\ t # None /\ pend[e] # None /\ pend[e].row \in Row
      /\ pend[e].job \in JobStatus /\ jsess[e] # None /\ sess[e][t] # None
      /\ row' = [row EXCEPT ![t] = pend[e].row] /\ row' \in [Tasks -> Row]
      /\ job' = JobAfter(e, pend[e].job) /\ ran' = ran
      /\ sess[e] \in [Tasks -> Row \union {None}]
      /\ TaskDone(e, sess[e], pend[e].job)
      /\ \A u \in Tasks : row'[u].attempts = row[u].attempts
  BY CommitFacts, NoneAssumption DEF Inv, Session
<1>1. /\ row[t].attempts = 1 /\ row[t].status \in {"running", "failed"}
      /\ pend[e].row.status \in TaskEnd /\ pend[e].row.status = sess[e][t].status
  BY <1>0 DEF OnceInv, OnceSession, OnceOwn, OncePending
<1>2. /\ row'[t].status = pend[e].row.status /\ row'[t].attempts = 1
      /\ \A u \in Tasks \ {t} : row'[u] = row[u]
  BY <1>0, <1>1 DEF Inv, TypeOK
<1>3. OnceForward
  BY <1>0, <1>1, <1>2, AttemptsAssumption DEF OnceForward, TaskEnd, Inv, TypeOK, Row
<1>4. OnceRows'
  BY <1>0, <1>1, <1>2 DEF OnceInv, OnceRows, Counted, TaskEnd
<1>5. OnceJob'
  <2>1. JobSeen(e) = jsess[e]
    BY <1>0 DEF JobSeen
  <2>2. CASE pend[e].job = jsess[e]
    <3>1. job' = job
      BY <1>0, <2>1, <2>2 DEF JobAfter
    <3> QED
      BY <1>3, <3>1 DEF OnceInv, OnceJob, OnceForward, EndedJobHasNoOpenTask,
                        CompletedJobMeansCompletedTasks, JobEnded
  <2>3. CASE pend[e].job # jsess[e]
    <3>1. job' = pend[e].job
      BY <1>0, <2>1, <2>3 DEF JobAfter
    <3>2. /\ job' \in TaskEnd => \A u \in Tasks \ {t} : row[u].status \in TaskEnd
          /\ job' = "completed" => /\ pend[e].row.status = "completed"
                                   /\ \A u \in Tasks \ {t} : row[u].status = "completed"
      BY <1>0, <2>3, <3>1 DEF OnceInv, OnceSession, OncePending
    <3> QED
      BY <1>1, <1>2, <3>2 DEF OnceJob, EndedJobHasNoOpenTask,
                              CompletedJobMeansCompletedTasks, JobEnded, TaskEnd
  <2> QED
    BY <2>2, <2>3
<1>6. /\ Others(e) /\ own'[e] = None /\ pend'[e] = None
      /\ sess'[e] = sess[e] \/ sess'[e] = NothingLoaded
  BY <1>0, DoneFacts DEF Inv
<1>7. OnceSession(e)'
  <2>1. ASSUME NEW u \in Tasks, sess[e][u] # None
        PROVE  /\ Counted(sess[e][u]) /\ sess[e][u].attempts <= row'[u].attempts
               /\ Settled(sess[e][u], row'[u])
    <3>1. OnceCopy(e, u)
      BY DEF OnceInv, OnceSession
    <3>2. CASE u = t
      BY <1>0, <1>1, <1>2, <2>1, <3>1, <3>2 DEF OnceCopy, Settled
    <3>3. CASE u # t
      BY <1>2, <2>1, <3>1, <3>3 DEF OnceCopy
    <3> QED
      BY <3>2, <3>3
  <2> QED
    BY <1>0, <1>6, <2>1, OnceDone
<1>8. ASSUME NEW f \in Executors \ {e} PROVE OnceSession(f)'
  <2>1. own[f] # None => /\ own[f] \in Tasks \ {t} /\ row[own[f]].attempts = 1
                         /\ row[own[f]].status \in {"running", "failed"}
                         /\ row[own[f]].status = "failed" => own[f] \in ran
    BY <1>0 DEF OnceInv, OnceSession, OnceOwn, Owners, Inv, TypeOK
  <2> QED
    BY <1>0, <1>2, <1>3, <1>6, <2>1, OnceOther DEF Same, Others
<1>9. Owners'
  BY <1>6, OnceOwners DEF Others
<1> QED
  BY <1>4, <1>5, <1>7, <1>8, <1>9 DEF OnceInv

LEMMA OnceFinishError ==
  ASSUME Inv, OnceInv, NEW e \in Executors, FinishError(e) PROVE OnceInv'
<1>1. /\ row' = row /\ job' = job /\ ran' = ran /\ own' = own /\ Others(e)
      /\ sess'[e] = NothingLoaded /\ pend'[e] = None
  BY DEF FinishError, Inv, TypeOK, Others, tableVars
<1>2. OnceSession(e)'
  <2>1. own[e] \in Tasks
    BY OwnTask DEF FinishError, Owning
  <2>2. \A t \in Tasks : sess'[e][t] = None
    BY <1>1 DEF NothingLoaded
  <2>3. OnceOwn(e)
    BY DEF OnceInv, OnceSession
  <2> QED
    BY <1>1, <2>1, <2>2, <2>3 DEF OnceSession, OnceCopy, OnceOwn, OncePending
<1>3. ASSUME NEW f \in Executors \ {e} PROVE OnceSession(f)'
  <2>1. Same(f) /\ OnceForward /\ row' \in [Tasks -> Row]
    BY <1>1, ForwardSame DEF Same, Others, Inv, TypeOK
  <2>2. own[f] # None => /\ row'[own[f]].attempts = 1
                         /\ row'[own[f]].status \in {"running", "failed"}
                         /\ row'[own[f]].status = "failed" => own[f] \in ran'
    BY <1>1 DEF OnceInv, OnceSession, OnceOwn
  <2> QED
    BY <2>1, <2>2, OnceOther
<1>4. OnceRows' /\ Owners' /\ OnceJob'
  BY <1>1 DEF OnceInv, OnceRows, Owners, OnceJob, EndedJobHasNoOpenTask,
              CompletedJobMeansCompletedTasks, JobEnded
<1> QED
  BY <1>2, <1>3, <1>4 DEF OnceInv

LEMMA OnceRepair ==
  ASSUME MaxAttempts = 1, Inv, OnceInv, NEW e \in Executors, Repair(e) PROVE OnceInv'
<1>0. /\ own[e] \in Tasks /\ pend[e] = None /\ sess[e] = NothingLoaded
      /\ JobSeen(e) \in JobStatus
  BY OwnTask, SeenTypes DEF Repair, Owning, Inv, Session
<1>1. TaskSeen(e, own[e]) = row[own[e]]
  BY <1>0 DEF TaskSeen, NothingLoaded
<1>2. CASE row[own[e]].status = "running"
  BY <1>0, <1>1, <1>2, OnceMark DEF Repair
<1>3. CASE row[own[e]].status # "running"
  <2> DEFINE tasks == [sess[e] EXCEPT ![own[e]] = row[own[e]]]
  <2>1. TaskDone(e, tasks, JobSeen(e)) /\ UNCHANGED tableVars
    BY <1>3 DEF Repair
  <2>2. /\ tasks \in [Tasks -> Row \union {None}]
        /\ \A u \in Tasks : tasks[u] \in {sess[e][u], TaskSeen(e, u), row[u]}
    <3>1. sess[e] \in [Tasks -> Row \union {None}] /\ row[own[e]] \in Row
      BY <1>0 DEF Inv, TypeOK
    <3> QED
      BY <1>0, <3>1
  <2> HIDE DEF tasks
  <2> QED
    BY <1>0, <2>1, <2>2, OnceTaskDone
<1> QED
  BY <1>2, <1>3

LEMMA OnceFinish ==
  ASSUME MaxAttempts = 1, Inv, OnceInv, NEW e \in Executors, Finish(e) PROVE OnceInv'
<1>1. own[e] \in Tasks /\ pend[e] = None
  BY OwnTask DEF Finish, Owning, Inv, Session
<1>2. TaskSeen(e, own[e]).status = "running"
  BY DEF Finish, TaskSeen, Inv, Session
<1> QED
  BY <1>1, <1>2, OnceMark DEF Finish

LEMMA OnceReturn ==
  ASSUME Inv, OnceInv, NEW c \in Callers, Return(c) PROVE OnceInv'
<1> DEFINE copies == [t \in Tasks |-> TaskSeen(c, t)]
<1>1. /\ c \in Executors /\ Leave(c) /\ row' = row /\ ran' = ran
      /\ copies \in [Tasks -> Row]
      /\ job' = JobAfter(c, RollUp(copies, JobSeen(c)))
  BY ReturnFacts
<1>2. pend[c] = None
  BY <1>1 DEF Return, Inv, Session
<1>3. \A t \in Tasks : Settled(copies[t], row'[t])
  BY <1>1, <1>2, SeenOnce
<1>4. OnceForward
  BY <1>1, ForwardSame
<1> HIDE DEF copies
<1>5. OnceJob'
  BY <1>1, <1>3, <1>4, OnceRollUp
<1> QED
  BY <1>1, <1>5, OnceLeave

LEMMA OnceNext ==
  ASSUME MaxAttempts = 1, Inv, OnceInv, [Next]_vars PROVE OnceInv'
<1>1. ASSUME NEW e \in Executors, Crash(e) PROVE OnceInv'
  <2>1. Leave(e) /\ row' = row /\ ran' = ran /\ job' = job
    BY <1>1 DEF Crash, tableVars
  <2>2. OnceJob'
    BY <2>1 DEF OnceInv, OnceJob, EndedJobHasNoOpenTask,
                CompletedJobMeansCompletedTasks, JobEnded
  <2> QED
    BY <2>1, <2>2, OnceLeave
<1>2. CASE UNCHANGED vars
  BY <1>2 DEF vars, OnceInv, OnceRows, OnceJob, EndedJobHasNoOpenTask, JobEnded,
     CompletedJobMeansCompletedTasks, Owners, OnceSession, OnceCopy, OnceOwn, OncePending,
     Counted, Settled
<1>3. ASSUME NEW e \in Executors, Work(e) PROVE OnceInv'
  BY <1>3, OnceLoad, OnceFinish, OnceCommit, OnceFinishError, OnceRepair DEF Work
<1>4. ASSUME NEW w \in Workers, NothingToClaim(w) PROVE OnceInv'
  BY <1>1, <1>4 DEF NothingToClaim, Crash, Executors
<1> QED
  BY <1>1, <1>2, <1>3, <1>4, OnceWindow, OnceCall, OnceReturn, OnceRecover, OnceClaim DEF Next

LEMMA OnceHolds ==
  ASSUME MaxAttempts = 1 PROVE Spec => []OnceInv
<1>1. Inv /\ OnceInv /\ [Next]_vars => OnceInv'
  BY OnceNext
<1> QED
  BY <1>1, OnceInit, InvHolds, PTL DEF Spec

\* With one attempt per task a job that reports an end has no task left to run,
\* for any number of workers and requests and whatever copies they roll up.
THEOREM NoOpenTaskAtTheEnd ==
  ASSUME MaxAttempts = 1 PROVE Spec => []EndedJobHasNoOpenTask
<1>1. OnceInv => EndedJobHasNoOpenTask
  BY DEF OnceInv, OnceJob
<1> QED
  BY <1>1, OnceHolds, PTL

\* And a job that reports completed has only completed tasks.
THEOREM CompletedIsComplete ==
  ASSUME MaxAttempts = 1 PROVE Spec => []CompletedJobMeansCompletedTasks
<1>1. OnceInv => CompletedJobMeansCompletedTasks
  BY DEF OnceInv, OnceJob
<1> QED
  BY <1>1, OnceHolds, PTL

\* What one write may do to the row of a task that has ended.
RowStands(t) ==
  /\ row[t].status \in {"completed", "blocked"} => row'[t] = row[t]
  /\ row[t].status = "failed" /\ row'[t] # row[t] =>
        /\ t \in ran /\ row'[t].status \in TaskEnd
        /\ \E e \in Executors : own[e] = t /\ own'[e] = None

\* And an outcome stands: a completed or blocked one against every write, a failed
\* one against every write but that of the process that outlived its window.
THEOREM OutcomesStand ==
  ASSUME MaxAttempts = 1 PROVE Spec => OutcomeStands
<1>1. ASSUME Inv, OnceInv, [Next]_vars, NEW t \in Tasks, row[t].status \in TaskEnd
      PROVE  row'[t] = row[t] \/ \E e \in Executors : Commit(e) /\ own[e] = t
  <2>1. ASSUME NEW u \in Tasks, WindowPasses(u) PROVE row'[t] = row[t]
    BY <1>1, <2>1 DEF WindowPasses, Inv, TypeOK, TaskEnd
  <2>2. ASSUME NEW e \in Executors, Recover(e) PROVE row'[t] = row[t]
    BY <1>1, <2>2, OnceRecovered DEF TaskEnd
  <2>3. ASSUME NEW e \in Executors, NEW u \in Tasks, Claim(e, u) PROVE row'[t] = row[t]
    BY <1>1, <2>3, ClaimFacts DEF Inv, TypeOK, tableVars, TaskEnd
  <2>4. ASSUME NEW e \in Executors, Commit(e), own[e] # t PROVE row'[t] = row[t]
    BY <1>1, <2>4, CommitFacts DEF Inv, TypeOK
  <2>5. ASSUME NEW e \in Executors, Work(e) PROVE row' = row \/ Commit(e)
    BY <2>5 DEF Work, Load, Finish, Mark, FinishError, Repair, tableVars
  <2> QED
    BY <1>1, <2>1, <2>2, <2>3, <2>4, <2>5
       DEF Next, vars, Call, Return, Crash, NothingToClaim, tableVars
<1>2. ASSUME Inv, OnceInv, NEW e \in Executors, Commit(e)
      PROVE  /\ row[own[e]].status \in {"running", "failed"}
             /\ row[own[e]].status = "failed" => own[e] \in ran
             /\ row'[own[e]].status \in TaskEnd /\ own'[e] = None
  <2>1. /\ own[e] \in Tasks /\ own[e] # None /\ pend[e] # None
        /\ pend[e].job \in JobStatus /\ sess[e] \in [Tasks -> Row \union {None}]
        /\ row'[own[e]] = pend[e].row /\ TaskDone(e, sess[e], pend[e].job)
    BY <1>2, CommitFacts, NoneAssumption DEF Inv, TypeOK
  <2>2. own'[e] = None
    BY <1>2, <2>1, DoneFacts DEF Inv
  <2> QED
    BY <1>2, <2>1, <2>2 DEF OnceInv, OnceSession, OnceOwn, OncePending
<1>3. ASSUME Inv, OnceInv, [Next]_vars, NEW t \in Tasks PROVE RowStands(t)
  BY <1>1, <1>2, <1>3 DEF RowStands, TaskEnd
<1>4. Inv /\ OnceInv /\ [Next]_vars => [\A t \in Tasks : RowStands(t)]_vars
  BY <1>3
<1> QED
  BY <1>4, OnceHolds, InvHolds, PTL DEF Spec, OutcomeStands, RowStands

-----------------------------------------------------------------------------
(* One process, any number of attempts: a polling worker and no request,   *)
(* or one request and no worker.  It may crash, leave tasks running that   *)
(* it recovers later, fail to finish and repair.  Its copies then show     *)
(* what the tables hold, so that no retry overwrites an outcome.           *)

Alone == \A d, e \in Executors : d = e

\* A task that waits has an attempt left.
NoTaskIsStuck ==
  \A t \in Tasks : row[t].status = "pending" => row[t].attempts < MaxAttempts

\* A copy tells the status and the attempts of a row.
Shows(c, r) == c.status = r.status /\ c.attempts = r.attempts

\* The row of u as e will leave it when its open transaction commits.
Final(e, u) == IF pend[e] # None /\ u = own[e] THEN pend[e].row ELSE row[u]

SolePending(e) ==
  pend[e] # None =>
     /\ pend[e].row.status = "pending" => pend[e].row.attempts < MaxAttempts
     /\ pend[e].job # job /\ pend[e].job \in TaskEnd =>
           \A u \in Tasks : Final(e, u).status \in TaskEnd
     /\ pend[e].job # job /\ pend[e].job = "completed" =>
           \A u \in Tasks : Final(e, u).status = "completed"

SoleSession(e) ==
  /\ own[e] # None => row[own[e]].status = "running"
  /\ \A u \in Tasks : sess[e][u] # None => Shows(sess[e][u], Final(e, u))
  /\ jsess[e] # None => jsess[e] = job
  /\ SolePending(e)

SoleInv == OnceJob /\ NoTaskIsStuck /\ \A e \in Executors : SoleSession(e)

LEMMA SoleInit == Init => SoleInv
  BY AttemptsAssumption, TasksAssumption
     DEF Init, SoleInv, OnceJob, EndedJobHasNoOpenTask, CompletedJobMeansCompletedTasks,
         JobEnded, NoTaskIsStuck, SoleSession, SolePending, NothingLoaded

\* Outside a finishing transaction the process sees what the tables hold.
LEMMA SoleSeen ==
  ASSUME Inv, SoleInv, NEW e \in Executors, pend[e] = None
  PROVE  /\ \A u \in Tasks : Shows(TaskSeen(e, u), row[u])
         /\ JobSeen(e) = job
  BY DEF SoleInv, SoleSession, Final, Shows, TaskSeen, JobSeen

\* A process that has nothing in hand, and copies of what the tables now hold.
LEMMA SoleLeft ==
  ASSUME Alone, NEW e \in Executors, own'[e] = None, pend'[e] = None,
         \A u \in Tasks : sess'[e][u] # None => Shows(sess'[e][u], row'[u]),
         jsess'[e] # None => jsess'[e] = job'
  PROVE  \A f \in Executors : SoleSession(f)'
  BY DEF Alone, SoleSession, SolePending, Final

\* A step that ends a session's work and leaves the tables.
LEMMA SoleDone ==
  ASSUME Alone, Inv, SoleInv, NEW e \in Executors, pend[e] = None,
         NEW tasks \in [Tasks -> Row \union {None}],
         \A u \in Tasks : tasks[u] # None => Shows(tasks[u], row[u]),
         TaskDone(e, tasks, JobSeen(e)), UNCHANGED tableVars
  PROVE  SoleInv'
<1>1. JobSeen(e) \in JobStatus /\ JobSeen(e) = job
  BY SeenTypes, SoleSeen DEF Inv
<1>2. /\ own'[e] = None /\ pend'[e] = None
      /\ \/ sess'[e] = NothingLoaded /\ jsess'[e] = None
         \/ sess'[e] = tasks /\ jsess'[e] = JobSeen(e)
  BY <1>1, DoneFacts DEF Inv
<1>3. row' = row /\ job' = job
  BY DEF tableVars
<1>4. \A f \in Executors : SoleSession(f)'
  BY <1>1, <1>2, <1>3, SoleLeft DEF NothingLoaded
<1> QED
  BY <1>3, <1>4 DEF SoleInv, OnceJob, EndedJobHasNoOpenTask, JobEnded,
                    CompletedJobMeansCompletedTasks, NoTaskIsStuck

\* A step that closes the session, and may have ended the job.
LEMMA SoleLeave ==
  ASSUME Alone, Inv, SoleInv, NEW e \in Executors, Leave(e), row' = row, OnceJob'
  PROVE  SoleInv'
<1>1. /\ own'[e] = None /\ pend'[e] = None
      /\ sess'[e] = NothingLoaded /\ jsess'[e] = None
  BY LeaveFacts DEF Inv
<1>2. \A f \in Executors : SoleSession(f)'
  BY <1>1, SoleLeft DEF NothingLoaded
<1> QED
  BY <1>2 DEF SoleInv, NoTaskIsStuck

\* The job after a roll-up on what the tables hold.
LEMMA SoleRollUp ==
  ASSUME OnceJob, NEW tasks \in [Tasks -> Row], NEW current \in JobStatus, current = job,
         job' = RollUp(tasks, current),
         \A t \in Tasks : tasks[t].status = row'[t].status,
         \A t \in Tasks : row[t].status \in TaskEnd => row'[t].status = row[t].status
  PROVE  OnceJob'
<1>1. CASE job' = job
  BY <1>1 DEF OnceJob, EndedJobHasNoOpenTask, CompletedJobMeansCompletedTasks,
              JobEnded, TaskEnd
<1>2. CASE job' # job
  <2>1. /\ job' \in TaskEnd => \A t \in Tasks : row'[t].status \in TaskEnd
        /\ job' = "completed" => \A t \in Tasks : row'[t].status = "completed"
    BY <1>2, RollUpFacts
  <2> QED
    BY <2>1 DEF OnceJob, EndedJobHasNoOpenTask, CompletedJobMeansCompletedTasks,
                JobEnded, TaskEnd
<1> QED
  BY <1>1, <1>2

LEMMA SoleWindow ==
  ASSUME Inv, SoleInv, NEW t \in Tasks, WindowPasses(t) PROVE SoleInv'
<1>1. /\ \A u \in Tasks : row'[u].status = row[u].status /\ row'[u].attempts = row[u].attempts
      /\ UNCHANGED <<job, pc, own, sess, jsess, pend>>
      /\ \A e \in Executors : pend[e] = None
  BY DEF WindowPasses, Inv, TypeOK, Row, FinishingOpen
<1>2. ASSUME NEW e \in Executors PROVE SoleSession(e)'
  <2>1. own[e] # None => own[e] \in Tasks
    BY DEF Inv, TypeOK
  <2> QED
    BY <1>1, <2>1 DEF SoleInv, SoleSession, SolePending, Final, Shows
<1> QED
  BY <1>1, <1>2 DEF SoleInv, OnceJob, EndedJobHasNoOpenTask, JobEnded,
                    CompletedJobMeansCompletedTasks, NoTaskIsStuck

LEMMA SoleCall ==
  ASSUME Alone, Inv, SoleInv, NEW c \in Callers, Call(c) PROVE SoleInv'
<1>1. /\ c \in Executors /\ row' = row /\ job' = job
      /\ own'[c] = None /\ pend'[c] = None /\ sess'[c] = row /\ jsess'[c] = job
  BY DEF Call, Executors, Inv, TypeOK, Session, Owning, tableVars
<1>2. \A e \in Executors : SoleSession(e)'
  BY <1>1, SoleLeft DEF Shows
<1> QED
  BY <1>1, <1>2 DEF SoleInv, OnceJob, EndedJobHasNoOpenTask, JobEnded,
                    CompletedJobMeansCompletedTasks, NoTaskIsStuck

\* The recovery of a stale task, on a copy that shows it.
LEMMA SoleRecovered ==
  ASSUME Inv, SoleInv, NEW e \in Executors, Recover(e), pend[e] = None, NEW t \in Tasks
  PROVE  /\ Shows(Copies(e)[t], row'[t])
         /\ row[t].status \in TaskEnd => row'[t] = row[t]
         /\ row'[t].status = "pending" => row'[t].attempts < MaxAttempts
<1>1. /\ TaskSeen(e, t) \in Row /\ row[t] \in Row /\ Shows(TaskSeen(e, t), row[t])
  BY SeenTypes, SoleSeen DEF Inv, TypeOK
<1>2. /\ row'[t] = IF t \in Stale THEN Merge(TaskSeen(e, t), Copies(e)[t], row[t]) ELSE row[t]
      /\ row'[t].attempts = row[t].attempts
  BY RecoverFacts
<1>3. CASE t \notin Stale
  <2>1. row'[t] = row[t] /\ Copies(e)[t] = TaskSeen(e, t)
    BY <1>2, <1>3 DEF Copies
  <2> QED
    BY <1>1, <2>1 DEF SoleInv, NoTaskIsStuck
<1>4. CASE t \in Stale
  <2>1. Copies(e)[t] = Recovered(TaskSeen(e, t)) /\ row[t].status = "running"
    BY <1>4 DEF Copies, Stale
  <2>2. /\ Recovered(TaskSeen(e, t)) \in Row
        /\ Recovered(TaskSeen(e, t)).attempts = TaskSeen(e, t).attempts
    BY <1>1, RecoveredRow
  <2>3. /\ Recovered(TaskSeen(e, t)).status \in {"pending", "failed"}
        /\ Recovered(TaskSeen(e, t)).status = "pending" =>
              TaskSeen(e, t).attempts < MaxAttempts
    BY <1>1 DEF Recovered, Row
  <2>4. row'[t].status = Recovered(TaskSeen(e, t)).status
    BY <1>1, <1>2, <1>4, <2>1, <2>2, <2>3, MergeRow DEF Shows
  <2> QED
    BY <1>1, <1>2, <2>1, <2>2, <2>3, <2>4 DEF Shows, TaskEnd
<1> QED
  BY <1>3, <1>4

LEMMA SoleRecover ==
  ASSUME Alone, Inv, SoleInv, NEW e \in Executors, Recover(e) PROVE SoleInv'
<1>1. pend[e] = None /\ own[e] = None
  BY DEF Recover, Inv, Session, Owning
<1>2. JobSeen(e) = job /\ JobSeen(e) \in JobStatus
  BY <1>1, SoleSeen, SeenTypes DEF Inv
<1>3. job' = Verdict(e)
  BY <1>2, RecoverFacts DEF JobAfter
<1>4. \A t \in Tasks : Shows(Copies(e)[t], row'[t])
  BY <1>1, SoleRecovered
<1>5. OnceJob'
  <2>1. \A t \in Tasks : row[t].status \in TaskEnd => row'[t].status = row[t].status
    BY <1>1, SoleRecovered
  <2>2. CASE Stale = {}
    BY <1>2, <1>3, <2>1, <2>2 DEF Verdict, SoleInv, OnceJob, EndedJobHasNoOpenTask,
       CompletedJobMeansCompletedTasks, JobEnded, TaskEnd
  <2>3. CASE Stale # {}
    <3>1. job' = RollUp(Copies(e), JobSeen(e)) /\ Copies(e) \in [Tasks -> Row]
      BY <1>3, <2>3, RecoverFacts DEF Verdict
    <3> QED
      BY <1>2, <1>4, <2>1, <3>1, SoleRollUp DEF SoleInv, Shows
  <2> QED
    BY <2>2, <2>3
<1>6. NoTaskIsStuck'
  BY <1>1, SoleRecovered DEF NoTaskIsStuck
<1>7. \A f \in Executors : SoleSession(f)'
  <2>1. /\ Copies(e) \in [Tasks -> Row \union {None}]
        /\ Verdict(e) \in JobStatus \union {None}
    BY RecoverFacts
  <2>2. /\ own'[e] = None /\ pend'[e] = None
        /\ \/ sess'[e] = NothingLoaded /\ jsess'[e] = None
           \/ sess'[e] = Copies(e) /\ jsess'[e] = Verdict(e)
    BY <2>1, RecoverFacts, KeepFacts DEF Inv
  <2> QED
    BY <1>3, <1>4, <2>2, SoleLeft DEF NothingLoaded
<1> QED
  BY <1>5, <1>6, <1>7 DEF SoleInv

\* A claim starts an attempt on a task that shows as it is.
LEMMA SoleClaimed ==
  ASSUME Inv, SoleInv, NEW e \in Executors, NEW t \in Tasks, Claim(e, t), row' # row
  PROVE  /\ Claimed(TaskSeen(e, t)) \in Row
         /\ row'[t].status = "running" /\ row'[t].attempts = row[t].attempts + 1
         /\ \A u \in Tasks \ {t} : row'[u] = row[u]
         /\ Shows(Claimed(TaskSeen(e, t)), row'[t])
         /\ job' = "running"
<1>1. /\ pend[e] = None /\ row[t].status = "pending" /\ job \in {"pending", "running"}
      /\ Claimed(TaskSeen(e, t)) \in Row
      /\ row' = [row EXCEPT ![t] =
                   Merge(TaskSeen(e, t), Claimed(TaskSeen(e, t)), row[t])]
      /\ job' = IF JobSeen(e) = "pending" THEN "running" ELSE job
  BY ClaimFacts DEF tableVars
<1>2. /\ TaskSeen(e, t) \in Row /\ row \in [Tasks -> Row] /\ row[t] \in Row
      /\ Shows(TaskSeen(e, t), row[t]) /\ JobSeen(e) = job
  BY <1>1, SeenTypes, SoleSeen DEF Inv, TypeOK
<1>3. /\ Claimed(TaskSeen(e, t)).status = "running"
      /\ Claimed(TaskSeen(e, t)).attempts = row[t].attempts + 1
      /\ row[t].attempts \in Nat
  BY <1>2, AttemptsAssumption DEF Claimed, Shows, Row
<1>4. /\ row'[t] = Merge(TaskSeen(e, t), Claimed(TaskSeen(e, t)), row[t])
      /\ \A u \in Tasks \ {t} : row'[u] = row[u]
  BY <1>1, <1>2
<1>5. row'[t].status = "running" /\ row'[t].attempts = row[t].attempts + 1
  BY <1>1, <1>2, <1>3, <1>4, MergeRow DEF Shows
<1> QED
  BY <1>1, <1>2, <1>3, <1>4, <1>5 DEF Shows

LEMMA SoleClaim ==
  ASSUME Alone, Inv, SoleInv, NEW e \in Executors, NEW t \in Tasks, Claim(e, t)
  PROVE  SoleInv'
<1>1. CASE Leave(e) /\ UNCHANGED tableVars
  BY <1>1, SoleLeave DEF tableVars, SoleInv, OnceJob, EndedJobHasNoOpenTask, JobEnded,
     CompletedJobMeansCompletedTasks
<1>2. CASE ~(Leave(e) /\ UNCHANGED tableVars)
  <2>1. /\ row' = [row EXCEPT ![t] =
                     Merge(TaskSeen(e, t), Claimed(TaskSeen(e, t)), row[t])]
        /\ job' = IF JobSeen(e) = "pending" THEN "running" ELSE job
        /\ own' = [own EXCEPT ![e] = t]
        /\ \/ /\ e \in Workers
              /\ sess' = [sess EXCEPT ![e] = NothingLoaded]
              /\ jsess' = [jsess EXCEPT ![e] = None]
           \/ /\ e \in Callers
              /\ sess' = [sess EXCEPT ![e][t] = Claimed(TaskSeen(e, t))]
              /\ jsess' = [jsess EXCEPT ![e] = IF JobSeen(e) = "pending"
                                               THEN "running" ELSE JobSeen(e)]
        /\ pend' = pend /\ pend[e] = None
        /\ Claimed(TaskSeen(e, t)) \in Row /\ row[t].status = "pending"
    BY <1>2, ClaimFacts
  <2>2. JobSeen(e) = job /\ \A u \in Tasks : Shows(TaskSeen(e, u), row[u])
    BY <2>1, SoleSeen
  <2>3. row' # row
    <3>1. TaskSeen(e, t) \in Row /\ row[t] \in Row /\ row \in [Tasks -> Row]
      BY SeenTypes DEF Inv, TypeOK
    <3>2. Merge(TaskSeen(e, t), Claimed(TaskSeen(e, t)), row[t]).status = "running"
      BY <2>1, <2>2, <3>1, MergeRow DEF Claimed, Shows
    <3>3. row'[t].status = "running"
      BY <2>1, <3>1, <3>2
    <3> QED
      BY <2>1, <3>3
  <2>4. /\ row'[t].status = "running"
        /\ \A u \in Tasks \ {t} : row'[u] = row[u]
        /\ Shows(Claimed(TaskSeen(e, t)), row'[t])
        /\ job' = "running"
    BY <2>3, SoleClaimed
  <2>5. /\ own'[e] = t /\ pend'[e] = None
        /\ \A u \in Tasks : sess'[e][u] # None => Shows(sess'[e][u], row'[u])
        /\ jsess'[e] # None => jsess'[e] = job'
    <3>1. own'[e] = t /\ pend'[e] = None
      BY <2>1 DEF Inv, TypeOK
    <3>2. CASE e \in Workers
      <4>1. sess'[e] = NothingLoaded /\ jsess'[e] = None
        BY <2>1, <3>2, ExecutorsAssumption DEF Inv, TypeOK
      <4> QED
        BY <2>1, <3>1, <3>2, <4>1, ExecutorsAssumption DEF NothingLoaded
    <3>3. CASE e \in Callers
      <4>1. /\ sess'[e] = [sess[e] EXCEPT ![t] = Claimed(TaskSeen(e, t))]
            /\ jsess'[e] = IF JobSeen(e) = "pending" THEN "running" ELSE JobSeen(e)
            /\ sess[e] \in [Tasks -> Row \union {None}]
        BY <2>1, <3>3, ExecutorsAssumption DEF Inv, TypeOK
      <4>2. jsess'[e] = job'
        BY <2>1, <2>2, <4>1
      <4>3. ASSUME NEW u \in Tasks, sess'[e][u] # None PROVE Shows(sess'[e][u], row'[u])
        <5>1. CASE u = t
          BY <2>4, <4>1, <5>1
        <5>2. CASE u # t
          <6>1. sess'[e][u] = TaskSeen(e, u)
            BY <4>1, <4>3, <5>2 DEF TaskSeen
          <6> QED
            BY <2>2, <2>4, <5>2, <6>1
        <5> QED
          BY <5>1, <5>2
      <4> QED
        BY <3>1, <4>2, <4>3
    <3> QED
      BY <3>2, <3>3 DEF Executors
  <2>6. \A f \in Executors : SoleSession(f)'
    BY <2>4, <2>5 DEF Alone, SoleSession, SolePending, Final
  <2>7. NoTaskIsStuck'
    <3>1. ASSUME NEW u \in Tasks, row'[u].status = "pending"
          PROVE  row'[u].attempts < MaxAttempts
      <4>1. u # t
        BY <2>4, <3>1
      <4> QED
        BY <2>4, <3>1, <4>1 DEF SoleInv, NoTaskIsStuck
    <3> QED
      BY <3>1 DEF NoTaskIsStuck
  <2>8. OnceJob'
    BY <2>4 DEF OnceJob, EndedJobHasNoOpenTask, CompletedJobMeansCompletedTasks, JobEnded
  <2> QED
    BY <2>6, <2>7, <2>8 DEF SoleInv
<1> QED
  BY <1>1, <1>2

LEMMA SoleLoad ==
  ASSUME Alone, Inv, SoleInv, NEW e \in Executors, Load(e) PROVE SoleInv'
<1>1. /\ own[e] \in Tasks /\ UNCHANGED tableVars /\ pend[e] = None
      /\ sess[e] \in [Tasks -> Row \union {None}]
  BY LoadFacts DEF Inv, TypeOK, Session
<1>2. JobSeen(e) = job /\ \A u \in Tasks : Shows(TaskSeen(e, u), row[u])
  BY <1>1, SoleSeen
<1>3. \A u \in Tasks : sess[e][u] # None => Shows(sess[e][u], row[u])
  BY <1>2 DEF TaskSeen
<1>4. CASE TaskDone(e, [sess[e] EXCEPT ![own[e]] = TaskSeen(e, own[e])], JobSeen(e))
  <2> DEFINE tasks == [sess[e] EXCEPT ![own[e]] = TaskSeen(e, own[e])]
  <2>1. /\ tasks \in [Tasks -> Row \union {None}]
        /\ \A u \in Tasks : tasks[u] # None => Shows(tasks[u], row[u])
    BY <1>1, <1>2, <1>3, LoadFacts
  <2> HIDE DEF tasks
  <2>2. TaskDone(e, tasks, JobSeen(e))
    BY <1>4 DEF tasks
  <2> QED
    BY <1>1, <2>1, <2>2, SoleDone
<1>5. CASE /\ sess' = [sess EXCEPT ![e] = LoadCopies(e)]
           /\ jsess' = [jsess EXCEPT ![e] = JobSeen(e)]
           /\ UNCHANGED <<own, pend>>
  <2>1. /\ sess'[e] = LoadCopies(e) /\ jsess'[e] = JobSeen(e)
        /\ own'[e] = own[e] /\ pend'[e] = None /\ row' = row /\ job' = job
    BY <1>1, <1>5 DEF tableVars, Inv, TypeOK
  <2>2. \A u \in Tasks : LoadCopies(e)[u] # None => Shows(LoadCopies(e)[u], row[u])
    <3>1. \A u \in Tasks : LoadCopies(e)[u] \in {sess[e][u], TaskSeen(e, u)}
      BY LoadFacts
    <3> QED
      BY <1>2, <1>3, <3>1
  <2>3. SoleSession(e)'
    <3>1. SoleSession(e)
      BY DEF SoleInv
    <3> QED
      BY <1>2, <2>1, <2>2, <3>1 DEF SoleSession, SolePending, Final
  <2>4. OnceJob' /\ NoTaskIsStuck'
    BY <2>1 DEF SoleInv, OnceJob, EndedJobHasNoOpenTask, JobEnded,
                CompletedJobMeansCompletedTasks, NoTaskIsStuck
  <2> QED
    BY <2>3, <2>4 DEF SoleInv, Alone
<1> QED
  BY <1>4, <1>5, LoadFacts

LEMMA SoleMark ==
  ASSUME Alone, Inv, SoleInv, NEW e \in Executors, own[e] \in Tasks, pend[e] = None,
         NEW outcome \in {"completed", "blocked", "error"},
         NEW next \in {"finishing", "repairing"}, Mark(e, outcome, next)
  PROVE  SoleInv'
<1> DEFINE copies == NewCopies(e, outcome)
<1>1. /\ New(e, outcome) \in Row /\ copies \in [Tasks -> Row]
      /\ \A u \in Tasks : copies[u] = IF u = own[e] THEN New(e, outcome) ELSE TaskSeen(e, u)
      /\ pend'[e] \in [row : Row, job : JobStatus]
      /\ pend'[e].row = Merge(TaskSeen(e, own[e]), New(e, outcome), row[own[e]])
      /\ pend'[e].row.attempts = row[own[e]].attempts
      /\ pend'[e].job = RollUp(copies, JobSeen(e))
      /\ sess'[e] = copies /\ jsess'[e] = JobSeen(e)
      /\ row' = row /\ job' = job /\ own' = own
  BY MarkFacts DEF tableVars
<1> HIDE DEF copies
<1>2. /\ JobSeen(e) = job /\ JobSeen(e) \in JobStatus
      /\ \A u \in Tasks : Shows(TaskSeen(e, u), row[u])
  BY SoleSeen, SeenTypes DEF Inv
<1>3. /\ TaskSeen(e, own[e]) \in Row /\ row[own[e]] \in Row
      /\ row[own[e]].status = "running" /\ own[e] # None
  BY SeenTypes, NoneAssumption DEF Inv, TypeOK, SoleInv, SoleSession
<1>4. /\ New(e, outcome).attempts = row[own[e]].attempts
      /\ New(e, outcome).status \in {"pending"} \union TaskEnd
      /\ New(e, outcome).status = "pending" => row[own[e]].attempts < MaxAttempts
  BY <1>2, <1>3 DEF New, Marked, Row, TaskEnd, Shows
<1>5. pend'[e].row.status = New(e, outcome).status
  BY <1>1, <1>2, <1>3, <1>4, MergeRow DEF Shows, TaskEnd
<1>6. pend'[e] # None
  BY <1>1, NoneAssumption
<1>7. \A u \in Tasks : Shows(copies[u], Final(e, u)')
  <2>1. \A u \in Tasks : Final(e, u)' = IF u = own[e] THEN pend'[e].row ELSE row[u]
    BY <1>1, <1>6 DEF Final
  <2> QED
    BY <1>1, <1>2, <1>4, <1>5, <2>1 DEF Shows
<1>8. SolePending(e)'
  <2>1. /\ pend'[e].job # job /\ pend'[e].job \in TaskEnd =>
              \A u \in Tasks : copies[u].status \in TaskEnd
        /\ pend'[e].job # job /\ pend'[e].job = "completed" =>
              \A u \in Tasks : copies[u].status = "completed"
    BY <1>1, <1>2, RollUpFacts
  <2>2. pend'[e].row.status = "pending" => pend'[e].row.attempts < MaxAttempts
    BY <1>1, <1>4, <1>5
  <2> QED
    BY <1>1, <1>7, <2>1, <2>2 DEF SolePending, Shows
<1>9. SoleSession(e)'
  BY <1>1, <1>2, <1>3, <1>7, <1>8 DEF SoleSession
<1>10. OnceJob' /\ NoTaskIsStuck'
  BY <1>1 DEF SoleInv, OnceJob, EndedJobHasNoOpenTask, JobEnded,
              CompletedJobMeansCompletedTasks, NoTaskIsStuck
<1> QED
  BY <1>9, <1>10 DEF SoleInv, Alone

\* A task is open while its process owns it, so the job is, too.
LEMMA SoleCommit ==
  ASSUME Alone, Inv, SoleInv, NEW e \in Executors, Commit(e) PROVE SoleInv'
<1> DEFINE t == own[e]
<1>1. /\ t \in Tasks /\ t # None /\ pend[e] # None /\ pend[e].row \in Row
      /\ pend[e].job \in JobStatus /\ jsess[e] # None
      /\ row' = [row EXCEPT ![t] = pend[e].row]
      /\ job' = JobAfter(e, pend[e].job)
      /\ sess[e] \in [Tasks -> Row \union {None}]
      /\ TaskDone(e, sess[e], pend[e].job)
  BY CommitFacts, NoneAssumption DEF Inv, Session
<1>2. /\ SoleSession(e) /\ row[t].status = "running" /\ jsess[e] = job
      /\ job' = pend[e].job
  BY <1>1 DEF SoleInv, SoleSession, JobAfter, JobSeen
<1>3. \A u \in Tasks : row'[u] = Final(e, u)
  BY <1>1 DEF Final, Inv, TypeOK
<1>4. OnceJob'
  <2>1. ~JobEnded
    BY <1>1, <1>2 DEF SoleInv, OnceJob, EndedJobHasNoOpenTask, TaskEnd
  <2>2. CASE job' = job
    BY <2>1, <2>2 DEF OnceJob, EndedJobHasNoOpenTask, CompletedJobMeansCompletedTasks,
                      JobEnded
  <2>3. CASE job' # job
    BY <1>1, <1>2, <1>3, <2>3 DEF SoleSession, SolePending, OnceJob, JobEnded, TaskEnd,
       EndedJobHasNoOpenTask, CompletedJobMeansCompletedTasks
  <2> QED
    BY <2>2, <2>3
<1>5. NoTaskIsStuck'
  <2>1. \A u \in Tasks : Final(e, u).status = "pending" => Final(e, u).attempts < MaxAttempts
    BY <1>2 DEF Final, SoleSession, SolePending, SoleInv, NoTaskIsStuck
  <2> QED
    BY <1>3, <2>1 DEF NoTaskIsStuck
<1>6. /\ own'[e] = None /\ pend'[e] = None
      /\ \/ sess'[e] = NothingLoaded /\ jsess'[e] = None
         \/ sess'[e] = sess[e] /\ jsess'[e] = pend[e].job
  BY <1>1, DoneFacts DEF Inv
<1>7. \A f \in Executors : SoleSession(f)'
  <2>1. \A u \in Tasks : sess[e][u] # None => Shows(sess[e][u], row'[u])
    BY <1>2, <1>3 DEF SoleSession
  <2> QED
    BY <1>2, <1>6, <2>1, SoleLeft DEF NothingLoaded
<1> QED
  BY <1>4, <1>5, <1>7 DEF SoleInv

LEMMA SoleFinishError ==
  ASSUME Alone, Inv, SoleInv, NEW e \in Executors, FinishError(e) PROVE SoleInv'
<1>1. /\ row' = row /\ job' = job /\ own' = own
      /\ sess'[e] = NothingLoaded /\ jsess'[e] = None /\ pend'[e] = None
  BY DEF FinishError, Inv, TypeOK, tableVars
<1>2. SoleSession(e)'
  BY <1>1 DEF SoleInv, SoleSession, SolePending, NothingLoaded
<1>3. OnceJob' /\ NoTaskIsStuck'
  BY <1>1 DEF SoleInv, OnceJob, EndedJobHasNoOpenTask, JobEnded,
              CompletedJobMeansCompletedTasks, NoTaskIsStuck
<1> QED
  BY <1>2, <1>3 DEF SoleInv, Alone

LEMMA SoleRepair ==
  ASSUME Alone, Inv, SoleInv, NEW e \in Executors, Repair(e) PROVE SoleInv'
<1>1. own[e] \in Tasks /\ own[e] # None /\ pend[e] = None
  BY OwnTask, NoneAssumption DEF Repair, Owning, Inv, Session
<1>2. row[own[e]].status = "running"
  BY <1>1 DEF SoleInv, SoleSession
<1> QED
  BY <1>1, <1>2, SoleMark DEF Repair

LEMMA SoleFinish ==
  ASSUME Alone, Inv, SoleInv, NEW e \in Executors, Finish(e) PROVE SoleInv'
<1>1. own[e] \in Tasks /\ pend[e] = None
  BY OwnTask DEF Finish, Owning, Inv, Session
<1> QED
  BY <1>1, SoleMark DEF Finish

LEMMA SoleReturn ==
  ASSUME Alone, Inv, SoleInv, NEW c \in Callers, Return(c) PROVE SoleInv'
<1> DEFINE copies == [t \in Tasks |-> TaskSeen(c, t)]
<1>1. /\ c \in Executors /\ Leave(c) /\ row' = row
      /\ copies \in [Tasks -> Row] /\ JobSeen(c) \in JobStatus
      /\ job' = JobAfter(c, RollUp(copies, JobSeen(c)))
  BY ReturnFacts
<1>2. pend[c] = None
  BY <1>1 DEF Return, Inv, Session
<1>3. JobSeen(c) = job /\ \A t \in Tasks : copies[t].status = row'[t].status
  BY <1>1, <1>2, SoleSeen DEF Shows
<1> HIDE DEF copies
<1>4. job' = RollUp(copies, JobSeen(c))
  BY <1>1, <1>3 DEF JobAfter
<1>5. OnceJob'
  BY <1>1, <1>3, <1>4, SoleRollUp DEF SoleInv
<1> QED
  BY <1>1, <1>5, SoleLeave

LEMMA SoleNext ==
  ASSUME Alone, Inv, SoleInv, [Next]_vars PROVE SoleInv'
<1>1. ASSUME NEW e \in Executors, Crash(e) PROVE SoleInv'
  <2>1. Leave(e) /\ row' = row /\ job' = job
    BY <1>1 DEF Crash, tableVars
  <2>2. OnceJob'
    BY <2>1 DEF SoleInv, OnceJob, EndedJobHasNoOpenTask, JobEnded,
                CompletedJobMeansCompletedTasks
  <2> QED
    BY <2>1, <2>2, SoleLeave
<1>2. CASE UNCHANGED vars
  BY <1>2 DEF vars, SoleInv, OnceJob, EndedJobHasNoOpenTask, JobEnded,
     CompletedJobMeansCompletedTasks, NoTaskIsStuck, SoleSession, SolePending, Final, Shows
<1>3. ASSUME NEW e \in Executors, Work(e) PROVE SoleInv'
  BY <1>3, SoleLoad, SoleFinish, SoleCommit, SoleFinishError, SoleRepair DEF Work
<1>4. ASSUME NEW w \in Workers, NothingToClaim(w) PROVE SoleInv'
  BY <1>1, <1>4 DEF NothingToClaim, Crash, Executors
<1> QED
  BY <1>1, <1>2, <1>3, <1>4, SoleWindow, SoleCall, SoleReturn, SoleRecover, SoleClaim DEF Next

LEMMA SoleHolds == ASSUME Alone PROVE Spec => []SoleInv
<1>1. Inv /\ SoleInv /\ [Next]_vars => SoleInv'
  BY SoleNext
<1> QED
  BY <1>1, SoleInit, InvHolds, PTL DEF Spec

\* However many attempts its tasks have, a job run by one process at a time ends
\* only when no task is left to run, is completed only by completed tasks, and
\* never waits for a task whose attempts are used up.
THEOREM LoneProcessEndsWell ==
  ASSUME Alone
  PROVE  Spec => [](EndedJobHasNoOpenTask /\ CompletedJobMeansCompletedTasks /\ NoTaskIsStuck)
<1>1. SoleInv => EndedJobHasNoOpenTask /\ CompletedJobMeansCompletedTasks /\ NoTaskIsStuck
  BY DEF SoleInv, OnceJob
<1> QED
  BY <1>1, SoleHolds, PTL

\* And the outcome of a task stands, a failed one too, through every recovery and
\* retry.
THEOREM LoneOutcomesStand == ASSUME Alone PROVE Spec => OutcomeStands
<1>1. ASSUME Inv, SoleInv, [Next]_vars, NEW t \in Tasks,
             row[t].status \in TaskEnd
      PROVE  row'[t] = row[t]
  <2>1. ASSUME NEW u \in Tasks, WindowPasses(u) PROVE row'[t] = row[t]
    BY <1>1, <2>1 DEF WindowPasses, Inv, TypeOK, TaskEnd
  <2>2. ASSUME NEW e \in Executors, Recover(e) PROVE row'[t] = row[t]
    <3>1. pend[e] = None
      BY <1>1, <2>2 DEF Recover, Inv, Session
    <3> QED
      BY <1>1, <2>2, <3>1, SoleRecovered DEF TaskEnd
  <2>3. ASSUME NEW e \in Executors, NEW u \in Tasks, Claim(e, u) PROVE row'[t] = row[t]
    BY <1>1, <2>3, ClaimFacts DEF Inv, TypeOK, tableVars, TaskEnd
  <2>4. ASSUME NEW e \in Executors, Commit(e) PROVE row'[t] = row[t]
    <3>1. own[e] \in Tasks /\ own[e] # None /\ row' = [row EXCEPT ![own[e]] = pend[e].row]
      BY <1>1, <2>4, CommitFacts, NoneAssumption
    <3>2. row[own[e]].status = "running"
      BY <1>1, <3>1 DEF SoleInv, SoleSession
    <3> QED
      BY <1>1, <3>1, <3>2 DEF Inv, TypeOK, TaskEnd
  <2>5. ASSUME NEW e \in Executors, Work(e) PROVE row' = row \/ Commit(e)
    BY <2>5 DEF Work, Load, Finish, Mark, FinishError, Repair, tableVars
  <2> QED
    BY <1>1, <2>1, <2>2, <2>3, <2>4, <2>5
       DEF Next, vars, Call, Return, Crash, NothingToClaim, tableVars
<1>2. Inv /\ SoleInv /\ [Next]_vars => [\A t \in Tasks : RowStands(t)]_vars
  BY <1>1 DEF RowStands, TaskEnd
<1> QED
  BY <1>2, SoleHolds, InvHolds, PTL DEF Spec, OutcomeStands, RowStands

\* A roll-up of tasks that have all ended reports an end.
LEMMA RollUpOfEnded ==
  ASSUME NEW tasks, NEW current, \A t \in Tasks : tasks[t].status \in TaskEnd
  PROVE  RollUp(tasks, current) \in TaskEnd
<1> DEFINE statuses == {tasks[t].status : t \in Tasks}
<1>1. statuses \subseteq TaskEnd
  OBVIOUS
<1>2. CASE statuses \subseteq {"completed"}
  BY <1>2 DEF RollUp, TaskEnd
<1>3. CASE ~(statuses \subseteq {"completed"}) /\ "failed" \in statuses
  BY <1>1, <1>3 DEF RollUp, TaskEnd
<1>4. CASE ~(statuses \subseteq {"completed"}) /\ "failed" \notin statuses
  <2>1. "blocked" \in statuses
    BY <1>1, <1>4 DEF TaskEnd
  <2> QED
    BY <1>1, <1>4, <2>1 DEF RollUp, TaskEnd
<1> QED
  BY <1>2, <1>3, <1>4

\* And a job that it has ended stays ended, whenever it is run again.
THEOREM LoneJobStaysEnded == ASSUME Alone PROVE Spec => JobStaysEnded
<1>1. ASSUME Inv, SoleInv, [Next]_vars, JobEnded PROVE JobEnded'
  <2>1. /\ \A t \in Tasks : row[t].status \in TaskEnd
        /\ job \notin {"pending", "running"} /\ Stale = {}
    BY <1>1 DEF SoleInv, OnceJob, EndedJobHasNoOpenTask, JobEnded, Stale
  <2>2. ASSUME NEW e \in Executors, Recover(e) PROVE job' = job
    <3>1. pend[e] = None
      BY <1>1, <2>2 DEF Recover, Inv, Session
    <3>2. JobSeen(e) = job
      BY <1>1, <3>1, SoleSeen
    <3> QED
      BY <1>1, <2>1, <2>2, <3>2, RecoverFacts DEF JobAfter, Verdict
  <2>3. ASSUME NEW e \in Executors, Commit(e) PROVE FALSE
    <3>1. own[e] \in Tasks /\ own[e] # None
      BY <1>1, <2>3, CommitFacts, NoneAssumption
    <3>2. row[own[e]].status = "running"
      BY <1>1, <3>1 DEF SoleInv, SoleSession
    <3> QED
      BY <2>1, <3>1, <3>2 DEF TaskEnd
  <2>4. ASSUME NEW c \in Callers, Return(c) PROVE JobEnded'
    <3> DEFINE copies == [t \in Tasks |-> TaskSeen(c, t)]
    <3>1. c \in Executors /\ pend[c] = None
      BY <1>1, <2>4 DEF Executors, Return, Inv, Session
    <3>2. JobSeen(c) = job /\ \A t \in Tasks : copies[t].status \in TaskEnd
      BY <1>1, <2>1, <3>1, SoleSeen DEF Shows
    <3>3. job' = JobAfter(c, RollUp(copies, JobSeen(c)))
      BY <2>4 DEF Return
    <3> HIDE DEF copies
    <3>4. RollUp(copies, JobSeen(c)) \in TaskEnd
      BY <3>2, RollUpOfEnded
    <3> QED
      BY <1>1, <3>3, <3>4 DEF JobAfter, JobEnded, TaskEnd
  <2>5. ASSUME NEW e \in Executors, NEW t \in Tasks, Claim(e, t) PROVE FALSE
    BY <2>1, <2>5 DEF Claim
  <2>6. ASSUME NEW e \in Executors, Work(e) PROVE job' = job
    BY <2>3, <2>6 DEF Work, Load, Finish, Mark, FinishError, Repair, tableVars
  <2> QED
    BY <1>1, <2>2, <2>4, <2>5, <2>6
       DEF Next, vars, WindowPasses, Call, Crash, NothingToClaim, JobEnded, tableVars
<1>2. Inv /\ SoleInv /\ [Next]_vars => [JobEnded => JobEnded']_vars
  BY <1>1
<1> QED
  BY <1>2, SoleHolds, InvHolds, PTL DEF Spec, JobStaysEnded

\* And it never takes back an attempt that it has counted.
THEOREM LoneAttemptsGrow == ASSUME Alone PROVE Spec => AttemptsOnlyGrow
<1>1. ASSUME Inv, SoleInv, [Next]_vars, NEW t \in Tasks
      PROVE  row'[t].attempts >= row[t].attempts
  <2>1. row[t].attempts \in Nat
    BY <1>1, AttemptsAssumption DEF Inv, TypeOK, Row
  <2>2. ASSUME NEW e \in Executors, Claim(e, t) PROVE row'[t].attempts >= row[t].attempts
    <3>1. CASE row' = row
      BY <2>1, <3>1
    <3>2. CASE row' # row
      BY <1>1, <2>1, <2>2, <3>2, SoleClaimed
    <3> QED
      BY <3>1, <3>2
  <2>3. CASE ~ \E e \in Executors : Claim(e, t)
    BY <1>1, <2>3, AttemptsStep
  <2> QED
    BY <2>2, <2>3
<1>2. Inv /\ SoleInv /\ [Next]_vars => [\A t \in Tasks : row'[t].attempts >= row[t].attempts]_vars
  BY <1>1
<1> QED
  BY <1>2, SoleHolds, InvHolds, PTL DEF Spec, AttemptsOnlyGrow
=============================================================================
