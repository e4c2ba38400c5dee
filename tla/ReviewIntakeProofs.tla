-------------------------- MODULE ReviewIntakeProofs --------------------------
(***************************************************************************)
(* Theorems about ReviewIntake, for any requests and contents of bundles.  *)
(***************************************************************************)
EXTENDS ReviewIntake, TLAPS

-----------------------------------------------------------------------------
(* Type correctness.                                                       *)

SessTypes ==
  /\ pc \in [Handlers -> Pc]
  /\ flow \in [Handlers -> {"single", "orchestrated"}]
  /\ copy \in [Handlers -> ReviewRow]
  /\ on \in [Handlers -> Bundles]
  /\ found \in [Handlers -> BundleStatus]
  /\ seen \in [Handlers -> SUBSET Bundles]

LEMMA NoBundleType == NoBundle \in Bundles
  BY BundlesAssumption DEF NoBundle

LEMMA StagesType ==
  ASSUME NEW i \in 1..4
  PROVE  Stages[i] \in StageNames /\ Stages[i] \in Pc
  BY DEF StageNames, Pc

LEMMA LeaveTypes ==
  ASSUME SessTypes, NEW h \in Handlers, Leave(h)
  PROVE  SessTypes'
  BY NoBundleType DEF SessTypes, Leave, Pc, ReviewRow, BundleStatus

LEMMA ProceedTypes ==
  ASSUME SessTypes, NEW h \in Handlers, NEW stage, NEW t \in ReviewRow,
         Proceed(h, stage, t)
  PROVE  SessTypes'
<1>1. CASE Leave(h)
  BY <1>1, LeaveTypes
<1>2. CASE ~Leave(h)
  BY <1>2, StagesType DEF Proceed, SessTypes, BundleStatus
<1> QED
  BY <1>1, <1>2

LEMMA AfterBundleType ==
  ASSUME TypeOK, NEW h \in Handlers PROVE AfterBundle(h) \in ReviewRow
  BY DEF TypeOK, AfterBundle, ReviewRow, ReviewStatuses

LEMMA InitTypeOK == Init => TypeOK
  BY NoBundleType
  DEF Init, TypeOK, ReviewRow, BundleStatus, Pc

LEMMA NextTypeOK == TypeOK /\ [Next]_vars => TypeOK'
<1> SUFFICES ASSUME TypeOK, [Next]_vars PROVE TypeOK'
  OBVIOUS
<1> USE DEF TypeOK, rowVars
<1>0. SessTypes
  BY DEF SessTypes
<1>1. ASSUME NEW h \in Handlers, Lookup(h) PROVE TypeOK'
  BY <1>1 DEF Lookup, Pc
<1>2. ASSUME NEW h \in Handlers, Insert(h) PROVE TypeOK'
  <2>1. status' \in ReviewRow /\ bundle' = bundle /\ jobs' = jobs
    BY <1>2 DEF Insert, ReviewRow, ReviewStatuses
  <2>2. CASE Leave(h)
    BY <1>0, <2>1, <2>2, LeaveTypes DEF SessTypes
  <2>3. CASE ~Leave(h)
    BY <1>2, <2>1, <2>3 DEF Insert, Pc
  <2> QED
    BY <2>2, <2>3
<1>3. ASSUME NEW h \in Handlers, Begin(h) PROVE TypeOK'
  BY <1>3 DEF Begin, Pc
<1>4. ASSUME NEW h \in Handlers, FindBundle(h) PROVE TypeOK'
  BY <1>4 DEF FindBundle, Pc
<1>5. ASSUME NEW h \in Handlers, SelectReady(h) PROVE TypeOK'
  BY <1>5 DEF SelectReady, Pc
<1>6. ASSUME NEW h \in Handlers, StoreBundle(h) PROVE TypeOK'
  <2>1. CASE Leave(h) /\ UNCHANGED <<status, bundle, jobs>>
    BY <1>0, <2>1, LeaveTypes DEF SessTypes
  <2>2. CASE /\ bundle' = [c \in Bundles |->
                             IF c \in seen[h] THEN "superseded"
                             ELSE IF c = on[h] /\ found[h] # "ready" THEN "ready"
                             ELSE bundle[c]]
             /\ Write(h, AfterBundle(h))
             /\ Proceed(h, "bundle", AfterBundle(h))
             /\ UNCHANGED jobs
    <3>1. status' \in ReviewRow
      BY <2>2, AfterBundleType DEF Write
    <3>2. bundle' \in [Bundles -> BundleStatus]
      BY <2>2 DEF BundleStatus
    <3>3. SessTypes'
      BY <1>0, <2>2, AfterBundleType, ProceedTypes
    <3> QED
      BY <2>2, <3>1, <3>2, <3>3 DEF SessTypes
  <2> QED
    BY <1>6, <2>1, <2>2 DEF StoreBundle
<1>7. ASSUME NEW h \in Handlers, PlanScan(h) PROVE TypeOK'
  <2>1. CASE Leave(h)
    BY <1>0, <1>7, <2>1, LeaveTypes DEF SessTypes, PlanScan
  <2>2. CASE ~Leave(h)
    BY <1>7, <2>2 DEF PlanScan, Pc, BundleStatus
  <2> QED
    BY <2>1, <2>2
<1>8. ASSUME NEW h \in Handlers, EnqueueScan(h) PROVE TypeOK'
  <2>1. "scanning" \in ReviewRow
    BY DEF ReviewRow, ReviewStatuses
  <2>2. SessTypes'
    BY <1>0, <1>8, <2>1, LeaveTypes, ProceedTypes DEF EnqueueScan
  <2>3. status' \in ReviewRow /\ jobs' \in [Bundles -> Nat] /\ bundle' = bundle
    BY <1>8, <2>1 DEF EnqueueScan, Write
  <2> QED
    BY <2>2, <2>3 DEF SessTypes
<1>9. ASSUME NEW h \in Handlers, Rebuild(h) PROVE TypeOK'
  <2>1. PICK t \in ReviewRow : Write(h, t) /\ Proceed(h, "rebuild", t)
    BY <1>9 DEF Rebuild, ReviewRow, ReviewStatuses
  <2>2. SessTypes'
    BY <1>0, <2>1, ProceedTypes
  <2> QED
    BY <1>9, <2>1, <2>2 DEF SessTypes, Rebuild, Write
<1>10. ASSUME NEW h \in Handlers, Evaluate(h) PROVE TypeOK'
  <2>1. status' \in ReviewRow /\ bundle' = bundle /\ jobs' = jobs
    BY <1>10 DEF Evaluate, Write, ReviewRow, ReviewStatuses
  <2>2. SessTypes'
    BY <1>0, <1>10, LeaveTypes DEF Evaluate
  <2> QED
    BY <2>1, <2>2 DEF SessTypes
<1>11. ASSUME NEW h \in Handlers, Crash(h) PROVE TypeOK'
  BY <1>0, <1>11, LeaveTypes DEF Crash, SessTypes
<1>12. CASE UNCHANGED vars
  BY <1>12 DEF vars
<1> QED
  BY <1>1, <1>2, <1>3, <1>4, <1>5, <1>6, <1>7, <1>8, <1>9, <1>10, <1>11, <1>12
  DEF Next

\* The rows and the sessions of all requests have their types.
THEOREM TypeCorrect == Spec => []TypeOK
  BY InitTypeOK, NextTypeOK, PTL DEF Spec

-----------------------------------------------------------------------------
(* The inductive invariant.  OneReadyBundle is kept by StoreBundle because *)
(* every ready bundle but the request's own is one that it selected, or    *)
(* the flush is refused; StatusHasBacking because what a session's copy or *)
(* lookup says is there does not go away while the session holds it.       *)

SomeBundle == \E b \in Bundles : bundle[b] # "absent"
SomeJob == \E b \in Bundles : jobs[b] > 0

\* What status s needs.
Backed(s) ==
  /\ s = "bundle_received" => SomeBundle
  /\ s = "scanning" => SomeJob

Session(h) ==
  /\ pc[h] \notin {"store", "enqueue"} => seen[h] = {}
  /\ pc[h] = "select" => found[h] # "ready"
  /\ pc[h] = "store" /\ found[h] = "ready" => seen[h] = {}
  /\ pc[h] \in {"select", "store"} /\ found[h] # "absent" => bundle[on[h]] # "absent"
  /\ pc[h] = "enqueue" => /\ seen[h] = {}
                          /\ found[h] # "absent" => jobs[on[h]] > 0
  /\ on[h] \notin seen[h]
  /\ Backed(copy[h])

Inv ==
  /\ OneReadyBundle
  /\ Backed(status)
  /\ \A h \in Handlers : Session(h)

\* Nothing that was there goes away.
Grows ==
  /\ \A b \in Bundles : bundle[b] # "absent" => bundle'[b] # "absent"
  /\ \A b \in Bundles : jobs[b] > 0 => jobs'[b] > 0

Untouched(h) ==
  /\ pc'[h] = pc[h] /\ copy'[h] = copy[h] /\ on'[h] = on[h]
  /\ found'[h] = found[h] /\ seen'[h] = seen[h]

LEMMA BackedGrows ==
  ASSUME Grows, NEW s, Backed(s)
  PROVE  (s = "bundle_received" => SomeBundle') /\ (s = "scanning" => SomeJob')
  BY DEF Backed, Grows, SomeBundle, SomeJob

LEMMA SessionGrows ==
  ASSUME TypeOK, Grows, NEW h \in Handlers, Session(h), Untouched(h)
  PROVE  Session(h)'
<1>1. Backed(copy[h]) /\ on[h] \in Bundles
  BY DEF Session, TypeOK
<1>2. (copy[h] = "bundle_received" => SomeBundle') /\ (copy[h] = "scanning" => SomeJob')
  BY <1>1, BackedGrows
<1>3. Backed(copy[h])'
  BY <1>2 DEF Backed, Untouched
<1> QED
  BY <1>1, <1>3 DEF Session, Untouched, Grows

\* A request that leaves, or goes on to another stage with status t.
Moved(h, t) ==
  /\ pc'[h] \in {"idle"} \union StageNames
  /\ copy'[h] \in {"absent", t}
  /\ found'[h] = "absent"
  /\ seen'[h] = {}
  /\ \A g \in Handlers \ {h} : Untouched(g)

LEMMA LeaveMoves ==
  ASSUME TypeOK, NEW h \in Handlers, NEW t, Leave(h) PROVE Moved(h, t)
  BY DEF TypeOK, Leave, Moved, Untouched

LEMMA ProceedMoves ==
  ASSUME TypeOK, NEW h \in Handlers, NEW stage, NEW t, Proceed(h, stage, t)
  PROVE  Moved(h, t)
<1>1. CASE Leave(h)
  BY <1>1, LeaveMoves
<1>2. CASE ~Leave(h)
  BY <1>2, StagesType DEF Proceed, TypeOK, Moved, Untouched
<1> QED
  BY <1>1, <1>2

LEMMA MovedInv ==
  ASSUME TypeOK, Inv, Grows, OneReadyBundle', NEW h \in Handlers, NEW t, Moved(h, t),
         (t = "bundle_received" => SomeBundle') /\ (t = "scanning" => SomeJob'),
         status' \in {status, t}
  PROVE  Inv'
<1>1. Backed(status)'
  BY BackedGrows DEF Inv, Backed
<1>2. Session(h)'
  BY DEF Moved, Session, Backed, StageNames, Stages
<1>3. ASSUME NEW g \in Handlers \ {h} PROVE Session(g)'
  BY <1>3, SessionGrows DEF Moved, Inv
<1> QED
  BY <1>1, <1>2, <1>3 DEF Inv

\* StoreBundle leaves one bundle ready: its own, or the one that was.
LEMMA StoreKeepsOne ==
  ASSUME TypeOK, Inv, NEW h \in Handlers, pc[h] = "store", ~BundleConflict(h),
         bundle' = [c \in Bundles |->
                      IF c \in seen[h] THEN "superseded"
                      ELSE IF c = on[h] /\ found[h] # "ready" THEN "ready"
                      ELSE bundle[c]]
  PROVE  /\ OneReadyBundle'
         /\ \A b \in Bundles : bundle[b] # "absent" => bundle'[b] # "absent"
         /\ bundle'[on[h]] # "absent"
<1>1. Session(h) /\ on[h] \in Bundles /\ on[h] \notin seen[h]
  BY DEF Inv, Session, TypeOK
<1>2. CASE found[h] = "ready"
  <2>1. bundle' = bundle /\ bundle[on[h]] # "absent"
    BY <1>1, <1>2 DEF Session, TypeOK
  <2> QED
    BY <2>1 DEF Inv, OneReadyBundle
<1>3. CASE found[h] # "ready"
  <2>1. \A c \in Bundles \ {on[h]} : bundle[c] = "ready" => c \in seen[h]
    BY <1>3 DEF BundleConflict
  <2>2. \A c \in Bundles : bundle'[c] = "ready" <=> c = on[h]
    BY <1>1, <1>3, <2>1
  <2> QED
    BY <1>1, <1>3, <2>2 DEF OneReadyBundle
<1> QED
  BY <1>2, <1>3

LEMMA InitInv == Init => Inv
  BY NoBundleType DEF Init, Inv, OneReadyBundle, Backed, Session

LEMMA NextInv == TypeOK /\ Inv /\ [Next]_vars => Inv'
<1> SUFFICES ASSUME TypeOK, Inv, [Next]_vars PROVE Inv'
  OBVIOUS
<1> USE DEF rowVars
<1>a. ASSUME UNCHANGED <<bundle, jobs>> PROVE Grows /\ OneReadyBundle'
  BY <1>a DEF Grows, OneReadyBundle, Inv
<1>b. ASSUME UNCHANGED rowVars PROVE Backed(status)'
  BY <1>b DEF Inv, Backed, SomeBundle, SomeJob
\* A step of h's session that leaves the rows alone.
<1>c. ASSUME NEW h \in Handlers, UNCHANGED rowVars, Session(h)',
             \A g \in Handlers \ {h} : Untouched(g)
      PROVE  Inv'
  <2>1. \A g \in Handlers \ {h} : Session(g)'
    BY <1>a, <1>c, SessionGrows DEF Inv
  <2> QED
    BY <1>a, <1>b, <1>c, <2>1 DEF Inv
<1>d. ASSUME NEW h \in Handlers, Leave(h), UNCHANGED rowVars PROVE Inv'
  <2>1. Moved(h, "created") /\ status' \in {status, "created"}
    BY <1>d, LeaveMoves
  <2> QED
    BY <1>a, <1>d, <2>1, MovedInv
<1>1. ASSUME NEW h \in Handlers, Lookup(h) PROVE Inv'
  <2>1. \A g \in Handlers \ {h} : Untouched(g)
    BY <1>1 DEF Lookup, Untouched, TypeOK
  <2>2. Session(h)'
    <3>1. /\ pc'[h] \in {"insert"} \union (StageNames \ {"scan"})
          /\ copy'[h] \in {copy[h], status} /\ seen'[h] = {}
      <4>1. pc[h] \notin {"store", "enqueue"}
        BY <1>1 DEF Lookup
      <4>2. seen[h] = {}
        BY <4>1 DEF Inv, Session
      <4> QED
        BY <1>1, <4>2 DEF Lookup, TypeOK
    <3>2. Backed(copy[h])'
      BY <1>1, <3>1 DEF Lookup, Inv, Session, Backed, SomeBundle, SomeJob
    <3> QED
      BY <3>1, <3>2 DEF Session, StageNames, Stages
  <2> QED
    BY <1>1, <1>c, <2>1, <2>2 DEF Lookup
<1>2. ASSUME NEW h \in Handlers, Insert(h) PROVE Inv'
  <2>1. Grows /\ OneReadyBundle'
    BY <1>2, <1>a DEF Insert
  <2>2. CASE Leave(h)
    <3>1. Moved(h, "created")
      BY <2>2, LeaveMoves
    <3>2. status' \in {status, "created"}
      BY <1>2 DEF Insert
    <3> QED
      BY <2>1, <3>1, <3>2, MovedInv
  <2>3. CASE ~Leave(h)
    <3>1. /\ status' = IF status = "absent" THEN "created" ELSE status
          /\ copy' = [copy EXCEPT ![h] = status']
          /\ \E s \in StageNames \ {"scan"} : pc' = [pc EXCEPT ![h] = s]
          /\ UNCHANGED <<on, found, seen, bundle, jobs>>
      BY <1>2, <2>3 DEF Insert
    <3>2. \A g \in Handlers \ {h} : Session(g)'
      BY <2>1, <3>1, SessionGrows DEF Untouched, TypeOK, Inv
    <3>3. Backed(status)'
      BY <3>1 DEF Inv, Backed, SomeBundle, SomeJob
    <3>4. pc'[h] \in StageNames /\ copy'[h] = status' /\ seen'[h] = {}
      <4>1. seen[h] = {}
        BY <1>2 DEF Insert, Inv, Session
      <4> QED
        BY <3>1, <4>1 DEF TypeOK
    <3>5. Session(h)'
      BY <3>3, <3>4 DEF Session, StageNames, Stages
    <3> QED
      BY <2>1, <3>2, <3>3, <3>5 DEF Inv
  <2> QED
    BY <2>2, <2>3
<1>3. ASSUME NEW h \in Handlers, Begin(h) PROVE Inv'
  <2>1. \A g \in Handlers \ {h} : Untouched(g)
    BY <1>3 DEF Begin, Untouched, TypeOK
  <2>2. pc'[h] \in StageNames /\ copy'[h] = status /\ seen'[h] = {}
    <3>1. seen[h] = {}
      BY <1>3 DEF Begin, Inv, Session
    <3> QED
      BY <1>3, <3>1 DEF Begin, TypeOK
  <2>3. Backed(copy[h])'
    BY <1>3, <2>2 DEF Begin, Inv, Backed, SomeBundle, SomeJob
  <2>4. Session(h)'
    BY <2>2, <2>3 DEF Session, StageNames, Stages
  <2> QED
    BY <1>3, <1>c, <2>1, <2>4 DEF Begin
<1>4. ASSUME NEW h \in Handlers, FindBundle(h) PROVE Inv'
  <2>1. \A g \in Handlers \ {h} : Untouched(g)
    BY <1>4 DEF FindBundle, Untouched, TypeOK
  <2>2. Session(h)'
    BY <1>4 DEF FindBundle, Inv, Session, TypeOK, Backed, SomeBundle, SomeJob
  <2> QED
    BY <1>4, <1>c, <2>1, <2>2 DEF FindBundle
<1>5. ASSUME NEW h \in Handlers, SelectReady(h) PROVE Inv'
  <2>1. \A g \in Handlers \ {h} : Untouched(g)
    BY <1>5 DEF SelectReady, Untouched, TypeOK
  <2>2. found[h] # "ready"
    BY <1>5 DEF SelectReady, Inv, Session
  <2>3. Session(h)'
    BY <1>5, <2>2 DEF SelectReady, Inv, Session, TypeOK, Backed, SomeBundle, SomeJob
  <2> QED
    BY <1>5, <1>c, <2>1, <2>3 DEF SelectReady
<1>6. ASSUME NEW h \in Handlers, StoreBundle(h) PROVE Inv'
  <2>1. CASE Leave(h) /\ UNCHANGED rowVars
    BY <1>d, <2>1
  <2>2. CASE /\ ~BundleConflict(h)
             /\ bundle' = [c \in Bundles |->
                             IF c \in seen[h] THEN "superseded"
                             ELSE IF c = on[h] /\ found[h] # "ready" THEN "ready"
                             ELSE bundle[c]]
             /\ Write(h, AfterBundle(h))
             /\ Proceed(h, "bundle", AfterBundle(h))
             /\ UNCHANGED jobs
    <3>1. /\ OneReadyBundle' /\ bundle'[on[h]] # "absent"
          /\ \A b \in Bundles : bundle[b] # "absent" => bundle'[b] # "absent"
      BY <1>6, <2>2, StoreKeepsOne DEF StoreBundle
    <3>2. Grows
      BY <2>2, <3>1 DEF Grows
    <3>3. SomeBundle'
      BY <3>1 DEF SomeBundle, TypeOK
    <3>4. Moved(h, AfterBundle(h))
      BY <2>2, ProceedMoves
    <3>5. AfterBundle(h) = "scanning" => SomeJob'
      <4>1. SUFFICES ASSUME AfterBundle(h) = "scanning" PROVE SomeJob'
        OBVIOUS
      <4>2. copy[h] = "scanning" /\ Backed(copy[h])
        BY <4>1 DEF AfterBundle, Inv, Session
      <4> QED
        BY <2>2, <4>2 DEF Backed, SomeJob
    <3>6. status' \in {status, AfterBundle(h)}
      BY <2>2 DEF Write
    <3> QED
      BY <3>1, <3>2, <3>3, <3>4, <3>5, <3>6, MovedInv
  <2> QED
    BY <1>6, <2>1, <2>2 DEF StoreBundle
<1>7. ASSUME NEW h \in Handlers, PlanScan(h) PROVE Inv'
  <2>1. CASE Leave(h)
    BY <1>7, <1>d, <2>1 DEF PlanScan
  <2>2. CASE ~Leave(h)
    <3>1. \A g \in Handlers \ {h} : Untouched(g)
      BY <1>7, <2>2 DEF PlanScan, Untouched, TypeOK
    <3>2. Session(h)'
      BY <1>7, <2>2 DEF PlanScan, Inv, Session, TypeOK, Backed, SomeBundle, SomeJob
    <3> QED
      BY <1>7, <1>c, <3>1, <3>2 DEF PlanScan
  <2> QED
    BY <2>1, <2>2
<1>8. ASSUME NEW h \in Handlers, EnqueueScan(h) PROVE Inv'
  <2>1. CASE Leave(h) /\ UNCHANGED rowVars
    BY <1>d, <2>1
  <2>2. CASE /\ jobs' = [jobs EXCEPT ![on[h]] = IF found[h] = "absent" THEN @ + 1 ELSE @]
             /\ Write(h, "scanning")
             /\ Proceed(h, "scan", "scanning")
    <3>1. bundle' = bundle /\ on[h] \in Bundles /\ jobs[on[h]] \in Nat
      BY <1>8 DEF EnqueueScan, TypeOK
    <3>2. found[h] # "absent" => jobs[on[h]] > 0
      BY <1>8 DEF EnqueueScan, Inv, Session
    <3>3. jobs'[on[h]] > 0 /\ \A b \in Bundles : jobs[b] > 0 => jobs'[b] > 0
      BY <2>2, <3>1, <3>2 DEF TypeOK
    <3>4. Grows /\ SomeJob' /\ OneReadyBundle'
      BY <3>1, <3>3 DEF Grows, SomeJob, OneReadyBundle, Inv
    <3>5. Moved(h, "scanning") /\ status' \in {status, "scanning"}
      BY <2>2, ProceedMoves DEF Write
    <3> QED
      BY <3>4, <3>5, MovedInv
  <2> QED
    BY <1>8, <2>1, <2>2 DEF EnqueueScan
<1>9. ASSUME NEW h \in Handlers, Rebuild(h) PROVE Inv'
  <2>1. PICK t \in {"indexing", copy[h]} : Write(h, t) /\ Proceed(h, "rebuild", t)
    BY <1>9 DEF Rebuild
  <2>2. Grows /\ OneReadyBundle'
    BY <1>9, <1>a DEF Rebuild
  <2>3. (t = "bundle_received" => SomeBundle') /\ (t = "scanning" => SomeJob')
    BY <2>2, BackedGrows DEF Inv, Session
  <2>4. Moved(h, t) /\ status' \in {status, t}
    BY <2>1, ProceedMoves DEF Write
  <2> QED
    BY <2>2, <2>3, <2>4, MovedInv
<1>10. ASSUME NEW h \in Handlers, Evaluate(h) PROVE Inv'
  <2>1. PICK t \in {copy[h], "completed"} : Write(h, t)
    BY <1>10 DEF Evaluate
  <2>2. Grows /\ OneReadyBundle'
    BY <1>10, <1>a DEF Evaluate
  <2>3. (t = "bundle_received" => SomeBundle') /\ (t = "scanning" => SomeJob')
    BY <2>2, BackedGrows DEF Inv, Session
  <2>4. Moved(h, t) /\ status' \in {status, t}
    BY <1>10, <2>1, LeaveMoves DEF Evaluate, Write
  <2> QED
    BY <2>2, <2>3, <2>4, MovedInv
<1>11. ASSUME NEW h \in Handlers, Crash(h) PROVE Inv'
  BY <1>11, <1>d DEF Crash
<1>12. CASE UNCHANGED vars
  BY <1>12 DEF vars, Inv, OneReadyBundle, Session, Backed, SomeBundle, SomeJob
<1> QED
  BY <1>1, <1>2, <1>3, <1>4, <1>5, <1>6, <1>7, <1>8, <1>9, <1>10, <1>11, <1>12
  DEF Next

\* What the bundles, the copies of the requests and the scan jobs say of each
\* other is inductive, for any number of requests and bundles.
THEOREM InvHolds == Spec => [](TypeOK /\ Inv)
<1>1. Init => TypeOK /\ Inv
  BY InitTypeOK, InitInv
<1>2. TypeOK /\ Inv /\ [Next]_vars => TypeOK' /\ Inv'
  BY NextTypeOK, NextInv
<1> QED
  BY <1>1, <1>2, PTL DEF Spec

\* From the first bundle on exactly one is ready.
THEOREM OneBundleIsReady == Spec => []OneReadyBundle
<1>1. Inv => OneReadyBundle
  BY DEF Inv
<1> QED
  BY <1>1, InvHolds, PTL

\* A review that has received its bundle has a ready one, and one that is being
\* scanned has a scan job.
THEOREM StatusIsBacked == Spec => []StatusHasBacking
<1>1. TypeOK /\ Inv => StatusHasBacking
  BY DEF Inv, Backed, SomeBundle, SomeJob, StatusHasBacking, OneReadyBundle
<1> QED
  BY <1>1, InvHolds, PTL

-----------------------------------------------------------------------------
(* The transition table.  A review of these operations visits a part of it *)
(* only, from every status of which its decision can be reached.           *)

Visited == {"created", "bundle_received", "scanning", "indexing", "completed"}

VisitInv ==
  /\ status \in Visited \union {"absent"}
  /\ \A h \in Handlers :
        pc[h] \notin {"idle", "insert"} => status # "absent" /\ copy[h] \in Visited

LEMMA DecisionReached ==
  ASSUME NEW s \in Visited
  PROVE  Reaches(s, "completed") /\ Reaches(s, s)
<1>1. /\ InTable("indexing", "deciding") /\ InTable("deciding", "completed")
      /\ InTable("created", "indexing") /\ InTable("bundle_received", "indexing")
      /\ InTable("scanning", "indexing")
      /\ \A t \in ReviewStatuses : InTable(t, t)
  BY DEF InTable, REVIEW_STATE_TRANSITIONS, AbortedRetryable, Aborted
<1>2. Visited \union {"deciding"} \subseteq ReviewStatuses
  BY DEF Visited, ReviewStatuses
<1> QED
  BY <1>1, <1>2 DEF Reaches, Visited

LEMMA ReachesOnce ==
  ASSUME NEW s, NEW t, Allowed(s, t) PROVE Reaches(s, t)
  BY DEF Allowed, Reaches, InTable

\* What a step of h does to the status, when it does anything.
LEMMA StatusStep ==
  ASSUME TypeOK, VisitInv, [Next]_vars, status' # status
  PROVE  \/ status = "absent" /\ status' = "created"
         \/ \E h \in Handlers :
               /\ pc[h] \notin {"idle", "insert"} /\ pc'[h] # pc[h]
               /\ status' \in Visited /\ copy[h] # status'
               /\ Reaches(copy[h], status')
<1>0. ASSUME NEW h \in Handlers, NEW t, Moved(h, t), pc[h] \in Pc,
             pc[h] \in {"store", "enqueue"}
      PROVE  pc'[h] # pc[h]
  BY <1>0 DEF Moved, StageNames, Stages
<1>1. ASSUME NEW h \in Handlers, Insert(h)
      PROVE  status = "absent" /\ status' = "created"
  BY <1>1 DEF Insert
<1>2. ASSUME NEW h \in Handlers, StoreBundle(h)
      PROVE  /\ pc[h] \notin {"idle", "insert"} /\ pc'[h] # pc[h]
             /\ status' \in Visited /\ copy[h] # status'
             /\ Reaches(copy[h], status')
  <2>1. /\ Allowed(copy[h], AfterBundle(h)) /\ Proceed(h, "bundle", AfterBundle(h))
        /\ status' = AfterBundle(h) /\ copy[h] # status' /\ pc[h] = "store"
    BY <1>2 DEF StoreBundle, Write
  <2>2. status' = "bundle_received"
    BY <2>1 DEF AfterBundle
  <2>3. pc'[h] # pc[h]
    BY <1>0, <2>1, ProceedMoves DEF TypeOK
  <2> QED
    BY <2>1, <2>2, <2>3, ReachesOnce DEF Visited
<1>3. ASSUME NEW h \in Handlers, EnqueueScan(h)
      PROVE  /\ pc[h] \notin {"idle", "insert"} /\ pc'[h] # pc[h]
             /\ status' \in Visited /\ copy[h] # status'
             /\ Reaches(copy[h], status')
  <2>1. /\ Allowed(copy[h], "scanning") /\ Proceed(h, "scan", "scanning")
        /\ status' = "scanning" /\ copy[h] # status' /\ pc[h] = "enqueue"
    BY <1>3 DEF EnqueueScan, Write
  <2>2. pc'[h] # pc[h]
    BY <1>0, <2>1, ProceedMoves DEF TypeOK
  <2> QED
    BY <2>1, <2>2, ReachesOnce DEF Visited
<1>4. ASSUME NEW h \in Handlers, Rebuild(h)
      PROVE  /\ pc[h] \notin {"idle", "insert"} /\ pc'[h] # pc[h]
             /\ status' \in Visited /\ copy[h] # status'
             /\ Reaches(copy[h], status')
  <2>1. /\ status' = "indexing" /\ copy[h] \in BeforeIndexing /\ copy[h] # status'
        /\ Proceed(h, "rebuild", "indexing") /\ pc[h] = "rebuild"
    BY <1>4 DEF Rebuild, Write
  <2>2. pc'[h] # pc[h]
    BY <2>1 DEF Proceed, Leave, Stages, TypeOK
  <2>3. Allowed(copy[h], "indexing")
    BY <2>1 DEF BeforeIndexing, Allowed, REVIEW_STATE_TRANSITIONS
  <2> QED
    BY <2>1, <2>2, <2>3, ReachesOnce DEF Visited
<1>5. ASSUME NEW h \in Handlers, Evaluate(h)
      PROVE  /\ pc[h] \notin {"idle", "insert"} /\ pc'[h] # pc[h]
             /\ status' \in Visited /\ copy[h] # status'
             /\ Reaches(copy[h], status')
  <2>1. status' = "completed" /\ copy[h] # status' /\ pc[h] = "evaluate"
    BY <1>5 DEF Evaluate, Write
  <2>2. pc'[h] # pc[h] /\ copy[h] \in Visited
    BY <1>5, <2>1 DEF Evaluate, Leave, TypeOK, VisitInv
  <2> QED
    BY <2>1, <2>2, DecisionReached DEF Visited
<1> QED
  BY <1>1, <1>2, <1>3, <1>4, <1>5
  DEF Next, Lookup, Begin, FindBundle, SelectReady, PlanScan, Crash, rowVars, vars

LEMMA NextVisitInv == TypeOK /\ VisitInv /\ [Next]_vars => VisitInv'
<1> SUFFICES ASSUME TypeOK, VisitInv, [Next]_vars PROVE VisitInv'
  OBVIOUS
<1>1. /\ status' \in Visited \union {"absent"}
      /\ status # "absent" => status' # "absent"
  BY StatusStep DEF VisitInv, Visited
<1>2. ASSUME NEW h \in Handlers, NEW t, t \in Visited, Moved(h, t),
             pc'[h] \in StageNames => copy'[h] = t /\ status' # "absent"
      PROVE  VisitInv'
  BY <1>1, <1>2 DEF VisitInv, Moved, Untouched
<1>3. ASSUME NEW h \in Handlers, Leave(h) PROVE VisitInv'
  <2>1. Moved(h, "created") /\ pc'[h] = "idle"
    BY <1>3, LeaveMoves DEF Leave, TypeOK
  <2> QED
    BY <1>2, <2>1 DEF Visited, StageNames, Stages
<1>4. ASSUME NEW h \in Handlers, NEW stage, NEW t, t \in Visited, Proceed(h, stage, t),
             pc[h] \notin {"idle", "insert"}
      PROVE  VisitInv'
  <2>1. CASE Leave(h)
    BY <1>3, <2>1
  <2>2. CASE ~Leave(h)
    <3>1. Moved(h, t) /\ copy'[h] = t /\ status # "absent"
      BY <1>4, <2>2, ProceedMoves DEF Proceed, TypeOK, VisitInv
    <3> QED
      BY <1>1, <1>2, <1>4, <3>1
  <2> QED
    BY <2>1, <2>2
<1>5. ASSUME NEW h \in Handlers, Lookup(h) \/ Begin(h) PROVE VisitInv'
  BY <1>1, <1>5 DEF Lookup, Begin, VisitInv, rowVars, TypeOK
<1>6. ASSUME NEW h \in Handlers, Insert(h) PROVE VisitInv'
  BY <1>1, <1>3, <1>6 DEF Insert, VisitInv, Visited, TypeOK
<1>7. ASSUME NEW h \in Handlers, FindBundle(h) \/ SelectReady(h) PROVE VisitInv'
  BY <1>1, <1>7 DEF FindBundle, SelectReady, VisitInv, TypeOK
<1>8. ASSUME NEW h \in Handlers, PlanScan(h) PROVE VisitInv'
  BY <1>1, <1>3, <1>8 DEF PlanScan, VisitInv, TypeOK
<1>9. ASSUME NEW h \in Handlers, StoreBundle(h) PROVE VisitInv'
  <2>1. AfterBundle(h) \in Visited /\ pc[h] = "store"
    BY <1>9 DEF StoreBundle, AfterBundle, VisitInv, Visited
  <2> QED
    BY <1>3, <1>4, <1>9, <2>1 DEF StoreBundle
<1>10. ASSUME NEW h \in Handlers, EnqueueScan(h) PROVE VisitInv'
  BY <1>3, <1>4, <1>10 DEF EnqueueScan, Visited
<1>11. ASSUME NEW h \in Handlers, Rebuild(h) PROVE VisitInv'
  <2>1. PICK t \in {"indexing", copy[h]} : Proceed(h, "rebuild", t)
    BY <1>11 DEF Rebuild
  <2>2. t \in Visited /\ pc[h] = "rebuild"
    BY <1>11 DEF Rebuild, VisitInv, Visited
  <2> QED
    BY <1>4, <2>1, <2>2
<1>12. ASSUME NEW h \in Handlers, Evaluate(h) \/ Crash(h) PROVE VisitInv'
  BY <1>3, <1>12 DEF Evaluate, Crash
<1>13. CASE UNCHANGED vars
  BY <1>13 DEF vars, VisitInv
<1> QED
  BY <1>5, <1>6, <1>7, <1>8, <1>9, <1>10, <1>11, <1>12, <1>13 DEF Next

\* A review leaves the transition table only where a request writes what the
\* table allows from a copy that another request has overtaken.
THEOREM TableIsKept == Spec => OnlyStaleCopiesLeaveTable
<1>1. TypeOK /\ VisitInv /\ [Next]_vars =>
        [status # "absent" /\ ~Reaches(status, status')
          => \E h \in Handlers :
                /\ pc[h] # "idle" /\ pc'[h] # pc[h]
                /\ copy[h] # status
                /\ Reaches(copy[h], status')]_vars
  <2> SUFFICES ASSUME TypeOK, VisitInv, [Next]_vars,
                      status # "absent", ~Reaches(status, status')
               PROVE  \E h \in Handlers :
                         /\ pc[h] # "idle" /\ pc'[h] # pc[h]
                         /\ copy[h] # status
                         /\ Reaches(copy[h], status')
    OBVIOUS
  <2>1. status \in Visited
    BY DEF VisitInv
  <2>2. status' # status
    BY <2>1, DecisionReached
  <2> QED
    BY <2>2, StatusStep
<1>2. Init => VisitInv
  BY DEF Init, VisitInv
<1> QED
  BY <1>1, <1>2, NextVisitInv, TypeCorrect, PTL DEF Spec, OnlyStaleCopiesLeaveTable

-----------------------------------------------------------------------------
(* One request at a time.  A sole request's copy is the row, so what only  *)
(* a stale copy can break is kept.                                         *)

Alone == \A g, h \in Handlers : g = h
Fresh == \A h \in Handlers : pc[h] \notin {"idle", "insert"} => copy[h] = status

LEMMA NextFresh == ASSUME Alone PROVE TypeOK /\ Fresh /\ [Next]_vars => Fresh'
<1> SUFFICES ASSUME TypeOK, Fresh, [Next]_vars PROVE Fresh'
  OBVIOUS
<1> USE DEF Fresh, TypeOK
<1>1. ASSUME NEW h \in Handlers, Leave(h) PROVE Fresh'
  BY <1>1, Alone DEF Alone, Leave
<1>2. ASSUME NEW h \in Handlers, NEW stage, NEW t,
             Write(h, t), Proceed(h, stage, t), pc[h] \notin {"idle", "insert"}
      PROVE  Fresh'
  <2>1. CASE Leave(h)
    BY <1>1, <2>1
  <2>2. CASE ~Leave(h)
    <3>1. status' = t /\ copy' = [copy EXCEPT ![h] = t]
      BY <1>2, <2>2 DEF Write, Proceed
    <3> QED
      BY <3>1, Alone DEF Alone
  <2> QED
    BY <2>1, <2>2
<1>3. ASSUME NEW h \in Handlers, Lookup(h) \/ Begin(h) PROVE Fresh'
  BY <1>3, Alone DEF Alone, Lookup, Begin, rowVars
<1>4. ASSUME NEW h \in Handlers, Insert(h) PROVE Fresh'
  BY <1>1, <1>4, Alone DEF Alone, Insert
<1>5. ASSUME NEW h \in Handlers, FindBundle(h) \/ SelectReady(h) PROVE Fresh'
  BY <1>5 DEF FindBundle, SelectReady, rowVars
<1>6. ASSUME NEW h \in Handlers, PlanScan(h) PROVE Fresh'
  BY <1>1, <1>6 DEF PlanScan, rowVars
<1>7. ASSUME NEW h \in Handlers, StoreBundle(h) PROVE Fresh'
  BY <1>1, <1>2, <1>7 DEF StoreBundle
<1>8. ASSUME NEW h \in Handlers, EnqueueScan(h) PROVE Fresh'
  BY <1>1, <1>2, <1>8 DEF EnqueueScan
<1>9. ASSUME NEW h \in Handlers, Rebuild(h) PROVE Fresh'
  BY <1>2, <1>9 DEF Rebuild
<1>10. ASSUME NEW h \in Handlers, Evaluate(h) \/ Crash(h) PROVE Fresh'
  BY <1>1, <1>10 DEF Evaluate, Crash
<1>11. CASE UNCHANGED vars
  BY <1>11 DEF vars
<1> QED
  BY <1>3, <1>4, <1>5, <1>6, <1>7, <1>8, <1>9, <1>10, <1>11 DEF Next

\* A review moves as the transition table says.
MovesByTable == [][status # "absent" => Reaches(status, status')]_vars

\* Requests that never overlap never leave the transition table.
THEOREM LoneRequestsKeepTable == ASSUME Alone PROVE Spec => MovesByTable
<1>1. Init => Fresh /\ VisitInv
  BY DEF Init, Fresh, VisitInv
<1>2. TypeOK /\ Fresh /\ [Next]_vars => Fresh'
  BY Alone, NextFresh
<1>3. TypeOK /\ VisitInv /\ Fresh /\ [Next]_vars =>
        [status # "absent" => Reaches(status, status')]_vars
  <2> SUFFICES ASSUME TypeOK, VisitInv, Fresh, [Next]_vars,
                      status # "absent", ~Reaches(status, status')
               PROVE  FALSE
    OBVIOUS
  <2>1. status' # status
    BY DecisionReached DEF VisitInv
  <2>2. PICK h \in Handlers :
           pc[h] \notin {"idle", "insert"} /\ Reaches(copy[h], status')
    BY <2>1, StatusStep
  <2> QED
    BY <2>2 DEF Fresh
<1> QED
  BY <1>1, <1>2, <1>3, NextVisitInv, TypeCorrect, PTL DEF Spec, MovesByTable
=============================================================================
