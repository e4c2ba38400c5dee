------------------------ MODULE ReviewDecisionProofs ------------------------
(***************************************************************************)
(* Theorems about ReviewDecision, for any number of requests and events.   *)
(*                                                                         *)
(* The invariant says of every request what its copies still tell of the   *)
(* rows, however old they are (Session), and what the claim of the         *)
(* dispatch row, held until the outcome is committed, guarantees to the    *)
(* request that holds it (Delivery).                                       *)
(***************************************************************************)
EXTENDS ReviewDecision, FiniteSetTheorems, TLAPS

Decided(r) == r.status = "completed" => r.decision # None /\ r.replay # None

\* The status that a rebuild leaves a review in.
Indexed(r) == IF r.status = "created" THEN "indexing" ELSE r.status

\* A request's copy is a review that was, or will be, the row; a review that
\* had its decision has one for good; a dispatch row it found is still there.
Session(h) ==
  /\ pc[h] # "idle" => /\ copy[h] \in Reviews
                       /\ Decided(copy[h])
                       /\ copy[h].decision # None => review.decision # None
  /\ pc[h] = "reindex" => /\ read[h] \in Reads
                          /\ read[h].entries.at = Indexed(copy[h])
  /\ pc[h] \in {"flush", "commit"} => draft[h] \in Drafts
  /\ pc[h] = "commit" /\ row[h] # None
       => /\ After(h).status = "completed"
          /\ row[h].seen # None => dispatch # None

\* A request that holds the claim is the only one; the row waits for its
\* outcome; what it has posted is what GitHub shows.
Delivery(h) ==
  Sending(h) =>
    /\ dispatch # None /\ dispatch.status \in Queued
    /\ \A g \in Handlers : Sending(g) => g = h
    /\ pc[h] = "state" => github.comment = copy[h].decision
    /\ pc[h] = "outcome" /\ row[h] = "dispatched"
         => github.comment = copy[h].decision /\ github.state = copy[h].decision

Sessions == \A h \in Handlers : Session(h)
Deliveries == \A h \in Handlers : Delivery(h)

Inv ==
  /\ TypeOK
  /\ CompletedIsDecided
  /\ DispatchedShowsOneDecision
  /\ Sessions
  /\ Deliveries

-----------------------------------------------------------------------------
(* What the operators of an evaluation return.                             *)

LEMMA SnapshotType ==
  ASSUME TypeOK
  PROVE  Snapshot \in Snapshots
<1>1. ASSUME NEW h \in Handlers
      PROVE  Cardinality({g \in Handlers : index[g] = index[h]}) \in Nat
  <2>1. IsFiniteSet({g \in Handlers : index[g] = index[h]})
    BY HandlersAssumption, FS_Subset
  <2> QED
    BY <2>1, FS_CardinalityType
<1>2. ASSUME NEW h \in Handlers, index[h] # None
      PROVE  index[h] \in Entries
  BY <1>2 DEF TypeOK
<1>3. ASSUME NEW h \in {g \in Handlers : index[g] # None}
      PROVE  [entries |-> index[h],
              count |-> Cardinality({g \in Handlers : index[g] = index[h]})]
                \in [entries : Entries, count : Nat]
  BY <1>1, <1>2
<1> QED
  BY <1>3, Zenon DEF Snapshot, Snapshots

LEMMA DecideType == ASSUME NEW snap PROVE Decide(snap) \in Decisions
  BY DEF Decide, Decisions

\* What a request that has evaluated holds is a review; a new one is decided.
LEMMA AfterReview ==
  ASSUME TypeOK, NEW h \in Handlers, Session(h), pc[h] \in {"flush", "commit"}
  PROVE  /\ After(h) \in Reviews
         /\ Decided(After(h))
         /\ draft[h].new => After(h).decision # None
<1>1. draft[h] \in Drafts /\ copy[h] \in Reviews /\ Decided(copy[h])
  BY DEF Session
<1>2. draft[h].new => draft[h].decision # None
  BY <1>1, NoneAssumption DEF Drafts
<1>3. CASE draft[h].new
  <2>1. [snap |-> draft[h].snap, decision |-> draft[h].decision] \in Replays
    BY <1>1 DEF Drafts, Replays
  <2> QED
    BY <1>1, <1>2, <1>3, <2>1, NoneAssumption DEF After, Reviews, Drafts, Decided
<1>4. CASE ~draft[h].new
  BY <1>1, <1>4 DEF After
<1> QED
  BY <1>3, <1>4

\* Whatever the row has become, the commit of an evaluation leaves a review
\* whose decision does not fall behind the copy's, or the row's.
LEMMA UpdateReview ==
  ASSUME TypeOK, CompletedIsDecided, NEW h \in Handlers, Session(h),
         pc[h] = "commit"
  PROVE  /\ Update(h) \in Reviews
         /\ Decided(Update(h))
         /\ After(h).decision # None => Update(h).decision # None
         /\ review.decision # None => Update(h).decision # None
<1>1. /\ After(h) \in Reviews /\ Decided(After(h))
      /\ draft[h].new => After(h).decision # None
  BY AfterReview
<1>2. copy[h] \in Reviews /\ (copy[h].decision # None => review.decision # None)
  BY DEF Session
<1>3. review \in Reviews /\ Decided(review)
  BY DEF TypeOK, CompletedIsDecided, Decided
<1>4. Update(h) \in Reviews
  BY <1>1, <1>3 DEF Update, Reviews
<1>5. CASE draft[h].new
  <2>1. Update(h).decision # None
    BY <1>1, <1>2, <1>5 DEF Update
  <2>2. Update(h).replay # None
    <3>1. After(h).replay = [snap |-> draft[h].snap, decision |-> draft[h].decision]
      BY <1>5 DEF After
    <3>2. After(h).replay \in Replays
      BY <3>1 DEF Session, Drafts, Replays
    <3> QED
      BY <1>5, <3>2, NoneAssumption DEF Update
  <2> QED
    BY <1>4, <2>1, <2>2 DEF Decided
<1>6. CASE ~draft[h].new
  <2>1. After(h) = copy[h]
    BY <1>6 DEF After
  <2>2. /\ Update(h).status = review.status
        /\ Update(h).decision = review.decision
        /\ Update(h).replay = review.replay
    BY <1>6, <2>1 DEF Update
  <2> QED
    BY <1>2, <1>3, <1>4, <2>1, <2>2 DEF Decided
<1> QED
  BY <1>5, <1>6

-----------------------------------------------------------------------------
(* Type correctness.                                                       *)

LEMMA InitInv == Init => Inv
<1> SUFFICES ASSUME Init PROVE Inv
  OBVIOUS
<1>1. review \in Reviews
  BY DEF Init, Reviews
<1>2. events \in 0..MaxEvents
  BY EventsAssumption DEF Init
<1>3. acceptance \in AcceptanceStatus /\ lapsed \in BOOLEAN
  BY DEF Init, LifeInit, AcceptanceStatus
<1>4. TypeOK
  BY <1>1, <1>2, <1>3 DEF Init, TypeOK, Pc
<1>5. CompletedIsDecided /\ DispatchedShowsOneDecision
  BY DEF Init, CompletedIsDecided, DispatchedShowsOneDecision, Dispatched
<1>6. Sessions /\ Deliveries
  BY DEF Init, Sessions, Session, Deliveries, Delivery, Sending
<1> QED
  BY <1>4, <1>5, <1>6 DEF Inv

LEMMA LeaveTypes ==
  ASSUME TypeOK, NEW h \in Handlers, Leave(h)
  PROVE  /\ pc' \in [Handlers -> Pc]
         /\ webhook' \in [Handlers -> BOOLEAN]
         /\ copy' \in [Handlers -> Reviews \union {None}]
         /\ read' \in [Handlers -> Reads \union {None}]
         /\ draft' \in [Handlers -> Drafts \union {None}]
         /\ DOMAIN row' = Handlers
         /\ \A g \in Handlers :
               IF pc'[g] = "outcome" THEN row'[g] \in Failures \union {"dispatched"}
               ELSE row'[g] \in Loaded \union {None}
  BY DEF TypeOK, Leave, Pc

LEMMA CountedType == ASSUME TypeOK, Counted PROVE events' \in 0..MaxEvents
  BY EventsAssumption DEF TypeOK, Counted

LEMMA DraftType ==
  ASSUME TypeOK, NEW h \in Handlers, Session(h), EvaluateRead(h)
  PROVE  draft'[h] \in Drafts
<1>1. Replayed(h, Snapshot) => copy[h].replay.decision \in Decisions
  BY DEF EvaluateRead, Session, Replayed, Reviews, Replays
<1> QED
  BY <1>1, SnapshotType, DecideType DEF EvaluateRead, TypeOK, Drafts, Replayed

\* An evaluation leaves the dispatch row as it is, or it is queued or keeps
\* its status, for a new decision.
LEMMA CommitDispatch ==
  ASSUME TypeOK, NEW h \in Handlers, Session(h), EvaluateCommit(h)
  PROVE  \/ UNCHANGED dispatch
         \/ dispatch = None /\ dispatch' \in Dispatches /\ dispatch'.status = "queued"
         \/ /\ DispatchFree
            /\ row[h] # None /\ row[h].seen # None
            /\ dispatch' = Requeued(h, row[h].seen)
            /\ dispatch' \in Dispatches
<1>1. row[h] # None => After(h).decision \in Decisions
  BY AfterReview DEF EvaluateCommit, Session, Reviews, Decided
<1>2. row[h] # None /\ row[h].seen # None => dispatch \in Dispatches
  BY DEF EvaluateCommit, Session, TypeOK
<1> QED
  BY <1>1, <1>2 DEF EvaluateCommit, Requeued, Dispatches

LEMMA NextTypeOK == Inv /\ [Next]_vars => TypeOK'
<1> SUFFICES ASSUME Inv, [Next]_vars PROVE TypeOK'
  OBVIOUS
<1>a. TypeOK /\ CompletedIsDecided /\ Sessions
  BY DEF Inv
<1>1. CASE World
  <2>1. events' \in 0..MaxEvents
    BY <1>1, <1>a, CountedType DEF World
  <2>2. /\ acceptance' \in AcceptanceStatus
        /\ lapsed' \in BOOLEAN /\ finding' \in BOOLEAN /\ link' \in BOOLEAN
    BY <1>1, <1>a
    DEF World, LifeNext, GrantAcceptance, EndAcceptance, Lapse, FindingRecorded,
        InstallationEvent, TypeOK, AcceptanceStatus, Ended
  <2> QED
    BY <1>1, <1>a, <2>1, <2>2 DEF World, TypeOK, sessVars
<1>2. ASSUME NEW h \in Handlers, Begin(h) PROVE TypeOK'
  <2>1. events' \in 0..MaxEvents
    BY <1>2, <1>a, CountedType DEF Begin
  <2> QED
    BY <1>2, <1>a, <2>1 DEF Begin, TypeOK, Pc, worldVars
<1>3. ASSUME NEW h \in Handlers, RebuildRead(h) PROVE TypeOK'
  <2>1. copy[h] \in Reviews
    BY <1>3, <1>a DEF RebuildRead, Sessions, Session
  <2>2. read'[h] \in Reads
    BY <1>3, <1>a, <2>1 DEF RebuildRead, TypeOK, Reads, Entries, Reviews
  <2> QED
    BY <1>3, <1>a, <2>2 DEF RebuildRead, TypeOK, Pc, worldVars
<1>4. ASSUME NEW h \in Handlers, RebuildCommit(h) PROVE TypeOK'
  <2>1. read[h] \in Reads /\ copy[h] \in Reviews
    BY <1>4, <1>a DEF RebuildCommit, Sessions, Session
  <2>2. index' \in [Handlers -> Entries \union {None}]
    BY <1>4, <1>a, <2>1 DEF RebuildCommit, TypeOK, Reads
  <2>3. review' \in Reviews
    BY <1>4, <1>a, <2>1 DEF RebuildCommit, TypeOK, Reads, Entries, Reviews
  <2>4. read' \in [Handlers -> Reads \union {None}]
    BY <1>4, <1>a DEF RebuildCommit, TypeOK, Reads
  <2>5. copy' \in [Handlers -> Reviews \union {None}]
    BY <1>4, <1>a, <2>1 DEF RebuildCommit, TypeOK, Reads, Entries, Reviews
  <2> QED
    BY <1>4, <1>a, <2>2, <2>3, <2>4, <2>5 DEF RebuildCommit, TypeOK, Pc, worldVars
<1>5. ASSUME NEW h \in Handlers, EvaluateRead(h) PROVE TypeOK'
  <2>1. draft'[h] \in Drafts
    BY <1>5, <1>a, DraftType DEF Sessions
  <2> QED
    BY <1>5, <1>a, <2>1 DEF EvaluateRead, TypeOK, Pc, worldVars
<1>6. ASSUME NEW h \in Handlers, EvaluateFlush(h) PROVE TypeOK'
  BY <1>6, <1>a DEF EvaluateFlush, TypeOK, Pc, Loaded, worldVars
<1>7. ASSUME NEW h \in Handlers, EvaluateCommit(h) PROVE TypeOK'
  <2>1. After(h) \in Reviews /\ Decided(After(h)) /\ Update(h) \in Reviews
    BY <1>7, <1>a, AfterReview, UpdateReview DEF EvaluateCommit, Sessions
  <2>2. review' \in Reviews
    BY <1>7, <1>a, <2>1 DEF EvaluateCommit, TypeOK
  <2>3. dispatch' \in Dispatches \union {None}
    BY <1>7, <1>a, CommitDispatch DEF Sessions, TypeOK
  <2>4. /\ pc' \in [Handlers -> Pc]
        /\ webhook' \in [Handlers -> BOOLEAN]
        /\ copy' \in [Handlers -> Reviews \union {None}]
        /\ read' \in [Handlers -> Reads \union {None}]
        /\ draft' \in [Handlers -> Drafts \union {None}]
        /\ DOMAIN row' = Handlers
        /\ \A g \in Handlers :
              IF pc'[g] = "outcome" THEN row'[g] \in Failures \union {"dispatched"}
              ELSE row'[g] \in Loaded \union {None}
    <3>1. CASE Leave(h)
      BY <1>a, <3>1, LeaveTypes
    <3>2. CASE ~Leave(h)
      BY <1>7, <1>a, <2>1, <3>2 DEF EvaluateCommit, TypeOK, Pc
    <3> QED
      BY <3>1, <3>2
  <2> QED
    BY <1>7, <1>a, <2>2, <2>3, <2>4 DEF EvaluateCommit, TypeOK, worldVars
<1>8. ASSUME NEW h \in Handlers, Claim(h) PROVE TypeOK'
  BY <1>8, <1>a, LeaveTypes DEF Claim, TypeOK, Pc, sessVars, worldVars
<1>9. ASSUME NEW h \in Handlers, Prepare(h) PROVE TypeOK'
  BY <1>9, <1>a DEF Prepare, Ends, Failures, TypeOK, Pc, worldVars
<1>10. ASSUME NEW h \in Handlers, Comment(h) PROVE TypeOK'
  <2>1. copy[h].decision \in Decisions \union {None}
    BY <1>10, <1>a DEF Comment, Sessions, Session, Reviews
  <2> QED
    BY <1>10, <1>a, <2>1 DEF Comment, Ends, Failures, TypeOK, Pc, worldVars
<1>11. ASSUME NEW h \in Handlers, Post(h) PROVE TypeOK'
  <2>1. copy[h].decision \in Decisions \union {None}
    BY <1>11, <1>a DEF Post, Sessions, Session, Reviews
  <2> QED
    BY <1>11, <1>a, <2>1 DEF Post, Ends, Failures, TypeOK, Pc, worldVars
<1>12. ASSUME NEW h \in Handlers, Outcome(h) PROVE TypeOK'
  <2>1. row[h] \in Failures \union {"dispatched"} /\ dispatch # None
    BY <1>12 DEF Outcome, Inv, TypeOK, Deliveries, Delivery, Sending
  <2>2. dispatch' \in Dispatches
    BY <1>12, <1>a, <2>1 DEF Outcome, TypeOK, Dispatches
  <2> QED
    BY <1>12, <1>a, <2>2, LeaveTypes DEF Outcome, TypeOK, worldVars
<1>13. ASSUME NEW h \in Handlers, Crash(h) PROVE TypeOK'
  BY <1>13, <1>a, LeaveTypes DEF Crash, TypeOK, worldVars
<1>14. CASE UNCHANGED vars
  BY <1>14, <1>a DEF vars, TypeOK
<1> QED
  BY <1>1, <1>2, <1>3, <1>4, <1>5, <1>6, <1>7, <1>8, <1>9, <1>10, <1>11,
     <1>12, <1>13, <1>14
  DEF Next

-----------------------------------------------------------------------------
(* What the requests know of the rows.                                     *)

\* Nothing happens to request g but what a rebuild does to its selection.
Kept(g) ==
  /\ pc'[g] = pc[g] /\ copy'[g] = copy[g] /\ draft'[g] = draft[g] /\ row'[g] = row[g]
  /\ read[g] \in Reads => read'[g] \in Reads /\ read'[g].entries = read[g].entries

\* What is known of the rows stays true: they are never emptied again.
RowsGrow ==
  /\ review.decision # None => review'.decision # None
  /\ dispatch # None => dispatch' # None

LEMMA KeptSession ==
  ASSUME NEW g \in Handlers, Session(g), Kept(g), RowsGrow
  PROVE  Session(g)'
  BY DEF Session, Kept, RowsGrow, After, Decided, Indexed

LEMMA LeftSession ==
  ASSUME TypeOK, NEW h \in Handlers, Leave(h)
  PROVE  Session(h)' /\ \A g \in Handlers \ {h} : Kept(g)
  BY DEF TypeOK, Leave, Session, Kept

LEMMA NextSessions == Inv /\ [Next]_vars => Sessions'
<1> SUFFICES ASSUME Inv, [Next]_vars PROVE Sessions'
  OBVIOUS
<1>a. TypeOK /\ CompletedIsDecided /\ Sessions
  BY DEF Inv
<1>b. ASSUME NEW h \in Handlers, RowsGrow, Session(h)',
             \A g \in Handlers \ {h} : Kept(g)
      PROVE  Sessions'
  BY <1>a, <1>b, KeptSession DEF Sessions
<1>c. ASSUME RowsGrow, \A g \in Handlers : Kept(g) PROVE Sessions'
  BY <1>a, <1>c, KeptSession DEF Sessions
<1>d. ASSUME NEW h \in Handlers, RowsGrow, Leave(h) PROVE Sessions'
  BY <1>a, <1>b, <1>d, LeftSession
<1>1. CASE World
  BY <1>1, <1>c DEF World, sessVars, Kept, RowsGrow
<1>2. ASSUME NEW h \in Handlers, Begin(h) PROVE Sessions'
  <2>1. RowsGrow /\ \A g \in Handlers \ {h} : Kept(g)
    BY <1>2, <1>a DEF Begin, TypeOK, Kept, RowsGrow
  <2>2. Session(h)'
    BY <1>2, <1>a DEF Begin, TypeOK, Session, CompletedIsDecided, Decided
  <2> QED
    BY <1>b, <2>1, <2>2
<1>3. ASSUME NEW h \in Handlers, RebuildRead(h) PROVE Sessions'
  <2>1. RowsGrow /\ \A g \in Handlers \ {h} : Kept(g)
    BY <1>3, <1>a DEF RebuildRead, TypeOK, Kept, RowsGrow
  <2>2. copy[h] \in Reviews /\ pc'[h] = "reindex" /\ copy'[h] = copy[h]
    BY <1>3, <1>a DEF RebuildRead, TypeOK, Sessions, Session
  <2>3. read'[h] \in Reads /\ read'[h].entries.at = Indexed(copy[h])
    BY <1>3, <1>a, <2>2
    DEF RebuildRead, TypeOK, Reads, Entries, Reviews, Indexed
  <2>4. Session(h)'
    BY <1>3, <1>a, <2>2, <2>3 DEF RebuildRead, Sessions, Session, Decided, Indexed
  <2> QED
    BY <1>b, <2>1, <2>4
<1>4. ASSUME NEW h \in Handlers, RebuildCommit(h) PROVE Sessions'
  <2>1. /\ read[h] \in Reads /\ read[h].entries.at = Indexed(copy[h])
        /\ copy[h] \in Reviews /\ Decided(copy[h])
        /\ copy[h].decision # None => review.decision # None
    BY <1>4, <1>a DEF RebuildCommit, Sessions, Session
  <2>2. review'.decision = review.decision
    BY <1>4, <1>a DEF RebuildCommit, TypeOK, Reviews
  <2>3. RowsGrow
    BY <1>4, <2>2 DEF RebuildCommit, RowsGrow
  <2>4. ASSUME NEW g \in Handlers \ {h} PROVE Kept(g)
    <3>1. read[g] \in Reads => read'[g] = [read[g] EXCEPT !.stale = @ \ {h}]
      BY <1>4, NoneAssumption DEF RebuildCommit
    <3>2. read[g] \in Reads => read'[g] \in Reads /\ read'[g].entries = read[g].entries
      BY <3>1 DEF Reads
    <3> QED
      BY <1>4, <1>a, <3>2 DEF RebuildCommit, TypeOK, Kept
  <2>5. CASE webhook[h]
    <3>1. /\ pc'[h] = "evaluate"
          /\ copy'[h] = [copy[h] EXCEPT !.status = Indexed(copy[h])]
      BY <1>4, <1>a, <2>1, <2>5 DEF RebuildCommit, TypeOK
    <3>2. /\ copy'[h] \in Reviews /\ Decided(copy'[h])
          /\ copy'[h].decision = copy[h].decision
      BY <2>1, <3>1 DEF Reviews, Indexed, Decided
    <3> QED
      BY <1>b, <2>1, <2>2, <2>3, <2>4, <3>1, <3>2 DEF Session, Decided
  <2>6. CASE ~webhook[h]
    <3>1. pc'[h] = "idle"
      BY <1>4, <1>a, <2>6 DEF RebuildCommit, TypeOK
    <3> QED
      BY <1>b, <2>3, <2>4, <3>1 DEF Session
  <2> QED
    BY <2>5, <2>6
<1>5. ASSUME NEW h \in Handlers, EvaluateRead(h) PROVE Sessions'
  <2>1. RowsGrow /\ \A g \in Handlers \ {h} : Kept(g)
    BY <1>5, <1>a DEF EvaluateRead, TypeOK, Kept, RowsGrow
  <2>2. draft'[h] \in Drafts
    BY <1>5, <1>a, DraftType DEF Sessions
  <2> QED
    BY <1>5, <1>a, <1>b, <2>1, <2>2
    DEF EvaluateRead, TypeOK, Sessions, Session, Decided
<1>6. ASSUME NEW h \in Handlers, EvaluateFlush(h) PROVE Sessions'
  <2>1. RowsGrow /\ \A g \in Handlers \ {h} : Kept(g)
    BY <1>6, <1>a DEF EvaluateFlush, TypeOK, Kept, RowsGrow
  <2>2. row'[h] # None => After(h).status = "completed" /\ row'[h].seen = dispatch
    BY <1>6, <1>a DEF EvaluateFlush, TypeOK
  <2>3. Session(h)'
    BY <1>6, <1>a, <2>2
    DEF EvaluateFlush, TypeOK, Sessions, Session, After, Decided
  <2> QED
    BY <1>b, <2>1, <2>3
<1>7. ASSUME NEW h \in Handlers, EvaluateCommit(h) PROVE Sessions'
  <2>1. /\ After(h) \in Reviews /\ Decided(After(h))
        /\ After(h).decision # None => Update(h).decision # None
        /\ review.decision # None => Update(h).decision # None
    BY <1>7, <1>a, AfterReview, UpdateReview DEF EvaluateCommit, Sessions
  <2>2. dispatch # None => dispatch' # None
    BY <1>7, <1>a, CommitDispatch, NoneAssumption DEF Sessions
  <2>3. RowsGrow
    BY <1>7, <2>1, <2>2 DEF EvaluateCommit, RowsGrow
  <2>4. CASE Leave(h)
    BY <1>d, <2>3, <2>4
  <2>5. CASE ~Leave(h)
    <3>1. /\ review' = Update(h)
          /\ pc' = [pc EXCEPT ![h] = "claim"]
          /\ copy' = [copy EXCEPT ![h] = After(h)]
          /\ draft' = [draft EXCEPT ![h] = None]
          /\ row' = [row EXCEPT ![h] = None]
          /\ read' = read
      BY <1>7, <2>5 DEF EvaluateCommit
    <3>2. \A g \in Handlers \ {h} : Kept(g)
      BY <1>a, <3>1 DEF TypeOK, Kept
    <3>3. Session(h)'
      BY <1>a, <2>1, <3>1 DEF TypeOK, Session, Decided
    <3> QED
      BY <1>b, <2>3, <3>2, <3>3
  <2> QED
    BY <2>4, <2>5
<1>8. ASSUME NEW h \in Handlers, Claim(h) PROVE Sessions'
  <2>1. RowsGrow
    BY <1>8 DEF Claim, RowsGrow
  <2>2. CASE Leave(h)
    BY <1>d, <2>1, <2>2
  <2>3. CASE ~Leave(h)
    BY <1>8, <1>a, <1>b, <2>1, <2>3
    DEF Claim, TypeOK, sessVars, Kept, Sessions, Session, Decided
  <2> QED
    BY <2>2, <2>3
<1>9. ASSUME NEW h \in Handlers, Prepare(h) PROVE Sessions'
  BY <1>9, <1>a, <1>b
  DEF Prepare, Ends, TypeOK, Kept, RowsGrow, Sessions, Session, Decided
<1>10. ASSUME NEW h \in Handlers, Comment(h) PROVE Sessions'
  BY <1>10, <1>a, <1>b
  DEF Comment, Ends, TypeOK, Kept, RowsGrow, Sessions, Session, Decided
<1>11. ASSUME NEW h \in Handlers, Post(h) PROVE Sessions'
  BY <1>11, <1>a, <1>b
  DEF Post, Ends, TypeOK, Kept, RowsGrow, Sessions, Session, Decided
<1>12. ASSUME NEW h \in Handlers, Outcome(h) PROVE Sessions'
  <2>1. dispatch # None => dispatch' # None
    <3>1. dispatch # None => dispatch' \in Dispatches
      BY <1>12 DEF Outcome, Inv, TypeOK, Dispatches
    <3> QED
      BY <3>1, NoneAssumption
  <2>2. RowsGrow
    BY <1>12, <2>1 DEF Outcome, RowsGrow
  <2> QED
    BY <1>12, <1>d, <2>2 DEF Outcome
<1>13. ASSUME NEW h \in Handlers, Crash(h) PROVE Sessions'
  <2>1. RowsGrow
    BY <1>13 DEF Crash, RowsGrow
  <2> QED
    BY <1>13, <1>d, <2>1 DEF Crash
<1>14. CASE UNCHANGED vars
  BY <1>14, <1>c DEF vars, Kept, RowsGrow
<1> QED
  BY <1>1, <1>2, <1>3, <1>4, <1>5, <1>6, <1>7, <1>8, <1>9, <1>10, <1>11,
     <1>12, <1>13, <1>14
  DEF Next

-----------------------------------------------------------------------------
(* The claim of the dispatch row and what it protects.                     *)

\* A step of request h that ends outside a delivery leaves the delivery of
\* another request alone if it leaves GitHub alone and its row waiting.
LEMMA OtherDeliveries ==
  ASSUME Deliveries, NEW h \in Handlers, ~Sending(h)', UNCHANGED github,
         \A g \in Handlers \ {h} : Kept(g),
         \A g \in Handlers \ {h} : Sending(g) => UNCHANGED dispatch
  PROVE  Deliveries'
<1> SUFFICES ASSUME NEW g \in Handlers, Sending(g)' PROVE Delivery(g)'
  BY DEF Deliveries, Delivery
<1>1. g # h /\ Kept(g) /\ Sending(g)
  BY DEF Kept, Sending
<1>2. UNCHANGED dispatch
  BY <1>1
<1>3. \A k \in Handlers : Sending(k)' => k = g
  BY <1>1 DEF Deliveries, Delivery, Kept, Sending
<1> QED
  BY <1>1, <1>2, <1>3 DEF Deliveries, Delivery, Kept

\* A step within a delivery, of the only request that is at it.
LEMMA OwnDelivery ==
  ASSUME Deliveries, NEW h \in Handlers, Sending(h), UNCHANGED dispatch,
         \A g \in Handlers \ {h} : Kept(g),
         pc'[h] = "state" => github'.comment = copy'[h].decision,
         pc'[h] = "outcome" /\ row'[h] = "dispatched"
           => github'.comment = copy'[h].decision /\ github'.state = copy'[h].decision
  PROVE  Deliveries'
<1>1. /\ dispatch' # None /\ dispatch'.status \in Queued
      /\ \A g \in Handlers : Sending(g)' => g = h
  BY DEF Deliveries, Delivery, Kept, Sending
<1> QED
  BY <1>1 DEF Deliveries, Delivery

LEMMA NextDeliveries == Inv /\ [Next]_vars => Deliveries'
<1> SUFFICES ASSUME Inv, [Next]_vars PROVE Deliveries'
  OBVIOUS
<1>a. TypeOK /\ Sessions /\ Deliveries
  BY DEF Inv
<1>b. ASSUME NEW h \in Handlers, Leave(h), UNCHANGED github,
             \A g \in Handlers \ {h} : Sending(g) => UNCHANGED dispatch
      PROVE  Deliveries'
  <2>1. ~Sending(h)'
    BY <1>a, <1>b DEF Leave, TypeOK, Sending
  <2> QED
    BY <1>a, <1>b, <2>1, LeftSession, OtherDeliveries
<1>1. CASE World
  BY <1>1, <1>a DEF World, sessVars, Deliveries, Delivery, Sending
<1>2. ASSUME NEW h \in Handlers, Begin(h) PROVE Deliveries'
  BY <1>2, <1>a, OtherDeliveries DEF Begin, TypeOK, Sending, Kept
<1>3. ASSUME NEW h \in Handlers, RebuildRead(h) PROVE Deliveries'
  BY <1>3, <1>a, OtherDeliveries DEF RebuildRead, TypeOK, Sending, Kept
<1>4. ASSUME NEW h \in Handlers, RebuildCommit(h) PROVE Deliveries'
  BY <1>4, <1>a DEF RebuildCommit, TypeOK, Deliveries, Delivery, Sending
<1>5. ASSUME NEW h \in Handlers, EvaluateRead(h) PROVE Deliveries'
  BY <1>5, <1>a, OtherDeliveries DEF EvaluateRead, TypeOK, Sending, Kept
<1>6. ASSUME NEW h \in Handlers, EvaluateFlush(h) PROVE Deliveries'
  BY <1>6, <1>a, OtherDeliveries DEF EvaluateFlush, TypeOK, Sending, Kept
<1>7. ASSUME NEW h \in Handlers, EvaluateCommit(h) PROVE Deliveries'
  <2>1. \A g \in Handlers : Sending(g) => UNCHANGED dispatch
    BY <1>7, <1>a, CommitDispatch
    DEF Sessions, DispatchFree, Deliveries, Delivery
  <2>2. UNCHANGED github
    BY <1>7 DEF EvaluateCommit
  <2>3. CASE Leave(h)
    BY <1>b, <2>1, <2>2, <2>3
  <2>4. CASE ~Leave(h)
    <3>1. /\ pc' = [pc EXCEPT ![h] = "claim"]
          /\ copy' = [copy EXCEPT ![h] = After(h)]
          /\ draft' = [draft EXCEPT ![h] = None]
          /\ row' = [row EXCEPT ![h] = None]
          /\ read' = read
      BY <1>7, <2>4 DEF EvaluateCommit
    <3>2. ~Sending(h)' /\ \A g \in Handlers \ {h} : Kept(g)
      BY <1>a, <3>1 DEF TypeOK, Sending, Kept
    <3> QED
      BY <1>a, <2>1, <2>2, <3>2, OtherDeliveries
  <2> QED
    BY <2>3, <2>4
<1>8. ASSUME NEW h \in Handlers, Claim(h) PROVE Deliveries'
  <2>1. UNCHANGED <<dispatch, github>>
    BY <1>8 DEF Claim
  <2>2. CASE Leave(h)
    BY <1>b, <2>1, <2>2
  <2>3. CASE ~Leave(h)
    <3>1. /\ dispatch # None /\ dispatch.status \in Queued /\ DispatchFree
          /\ pc' = [pc EXCEPT ![h] = "prepare"] /\ UNCHANGED sessVars
      BY <1>8, <2>3 DEF Claim
    <3>2. \A g \in Handlers : Sending(g)' => g = h
      BY <1>a, <3>1 DEF TypeOK, DispatchFree, Sending
    <3>3. pc'[h] = "prepare"
      BY <1>a, <3>1 DEF TypeOK
    <3> QED
      BY <2>1, <3>1, <3>2, <3>3 DEF Deliveries, Delivery
  <2> QED
    BY <2>2, <2>3
<1>9. ASSUME NEW h \in Handlers, Prepare(h) PROVE Deliveries'
  BY <1>9, <1>a, OwnDelivery
  DEF Prepare, Ends, Failures, TypeOK, Sending, Kept
<1>10. ASSUME NEW h \in Handlers, Comment(h) PROVE Deliveries'
  BY <1>10, <1>a, OwnDelivery
  DEF Comment, Ends, Failures, TypeOK, Sending, Kept
<1>11. ASSUME NEW h \in Handlers, Post(h) PROVE Deliveries'
  <2>1. github.comment = copy[h].decision
    BY <1>11, <1>a DEF Post, Deliveries, Delivery, Sending
  <2> QED
    BY <1>11, <1>a, <2>1, OwnDelivery
    DEF Post, Ends, Failures, TypeOK, Sending, Kept
<1>12. ASSUME NEW h \in Handlers, Outcome(h) PROVE Deliveries'
  <2>1. \A g \in Handlers \ {h} : ~Sending(g)
    BY <1>12, <1>a DEF Outcome, Deliveries, Delivery, Sending
  <2> QED
    BY <1>12, <1>b, <2>1 DEF Outcome
<1>13. ASSUME NEW h \in Handlers, Crash(h) PROVE Deliveries'
  BY <1>13, <1>b DEF Crash
<1>14. CASE UNCHANGED vars
  BY <1>14, <1>a DEF vars, Deliveries, Delivery, Sending
<1> QED
  BY <1>1, <1>2, <1>3, <1>4, <1>5, <1>6, <1>7, <1>8, <1>9, <1>10, <1>11,
     <1>12, <1>13, <1>14
  DEF Next

-----------------------------------------------------------------------------
(* The review, the dispatch row and what GitHub shows.                     *)

\* What a step may do to the review: a commit of a rebuild moves its status,
\* that of an evaluation writes what the evaluation changed.
LEMMA ReviewSteps ==
  ASSUME Inv, [Next]_vars
  PROVE  \/ UNCHANGED review
         \/ /\ review'.status = "indexing"
            /\ review'.decision = review.decision /\ review'.replay = review.replay
         \/ \E h \in Handlers : pc[h] = "commit" /\ review' = Update(h)
<1> DEFINE Goal == \/ UNCHANGED review
                   \/ /\ review'.status = "indexing"
                      /\ review'.decision = review.decision
                      /\ review'.replay = review.replay
                   \/ \E h \in Handlers : pc[h] = "commit" /\ review' = Update(h)
<1>1. ASSUME NEW h \in Handlers, RebuildCommit(h) PROVE Goal
  <2>1. /\ copy[h] \in Reviews /\ review \in Reviews
        /\ read[h].entries.at = Indexed(copy[h])
    BY <1>1 DEF RebuildCommit, Inv, TypeOK, Sessions, Session
  <2>2. review' = IF copy[h].status = Indexed(copy[h]) THEN review
                  ELSE [review EXCEPT !.status = Indexed(copy[h])]
    BY <1>1, <2>1 DEF RebuildCommit
  <2>3. CASE copy[h].status = "created"
    BY <2>1, <2>2, <2>3 DEF Reviews, Indexed
  <2>4. CASE copy[h].status # "created"
    BY <2>2, <2>4 DEF Indexed
  <2> QED
    BY <2>3, <2>4
<1>2. ASSUME NEW h \in Handlers, EvaluateCommit(h) PROVE Goal
  BY <1>2 DEF EvaluateCommit
<1>3. ASSUME NEW h \in Handlers,
             \/ Begin(h) \/ RebuildRead(h) \/ EvaluateRead(h) \/ EvaluateFlush(h)
             \/ Claim(h) \/ Prepare(h) \/ Comment(h) \/ Post(h) \/ Outcome(h)
             \/ Crash(h)
      PROVE  UNCHANGED review
  BY <1>3
  DEF Begin, RebuildRead, EvaluateRead, EvaluateFlush, Claim, Prepare, Comment,
      Post, Outcome, Crash
<1>4. CASE World \/ UNCHANGED vars
  BY <1>4 DEF World, vars
<1> QED
  BY <1>1, <1>2, <1>3, <1>4 DEF Next

LEMMA NextDecided == Inv /\ [Next]_vars => CompletedIsDecided'
<1> SUFFICES ASSUME Inv, [Next]_vars PROVE Decided(review')
  BY DEF CompletedIsDecided, Decided
<1>1. Decided(review)
  BY DEF Inv, CompletedIsDecided, Decided
<1>2. ASSUME NEW h \in Handlers, pc[h] = "commit", review' = Update(h)
      PROVE  Decided(review')
  BY <1>2, UpdateReview DEF Inv, Sessions
<1> QED
  BY <1>1, <1>2, ReviewSteps DEF Decided

\* What a step may do to the dispatch row and to GitHub.  A row that reads as
\* dispatched afterwards did so before, with GitHub as it was, or it is the
\* outcome of a delivery that has made both posts.
LEMMA DispatchSteps ==
  ASSUME Inv, [Next]_vars, Dispatched'
  PROVE  \/ Dispatched /\ UNCHANGED <<dispatch, github>>
         \/ /\ Dispatched /\ UNCHANGED github
            /\ \E h \in Handlers :
                  pc[h] = "commit" /\ row[h] # None /\ row[h].seen # dispatch
         \/ \E h \in Handlers :
               /\ pc[h] = "outcome" /\ dispatch'.decision = dispatch.decision
               /\ github'.comment = copy[h].decision
               /\ github'.state = copy[h].decision
<1> DEFINE Goal == \/ Dispatched /\ UNCHANGED <<dispatch, github>>
                   \/ /\ Dispatched /\ UNCHANGED github
                      /\ \E h \in Handlers :
                            pc[h] = "commit" /\ row[h] # None /\ row[h].seen # dispatch
                   \/ \E h \in Handlers :
                         /\ pc[h] = "outcome" /\ dispatch'.decision = dispatch.decision
                         /\ github'.comment = copy[h].decision
                         /\ github'.state = copy[h].decision
<1>1. ASSUME NEW h \in Handlers, EvaluateCommit(h) PROVE Goal
  <2>1. UNCHANGED github /\ pc[h] = "commit"
    BY <1>1 DEF EvaluateCommit
  <2>2. CASE UNCHANGED dispatch
    BY <2>1, <2>2 DEF Dispatched
  <2>3. CASE dispatch'.status = "queued"
    BY <2>3 DEF Dispatched
  <2>4. CASE /\ row[h] # None /\ row[h].seen # None
             /\ dispatch' = Requeued(h, row[h].seen)
    <3>1. dispatch # None /\ dispatch' .status = "dispatched"
      BY <1>1, <2>4 DEF EvaluateCommit, Inv, Sessions, Session, Dispatched
    <3>2. row[h].seen.status = "queued" /\ dispatch.status = "dispatched"
      BY <2>4, <3>1 DEF Requeued
    <3> QED
      BY <2>1, <2>4, <3>1, <3>2 DEF Dispatched
  <2> QED
    BY <1>1, <2>2, <2>3, <2>4, CommitDispatch DEF Inv, Sessions
<1>2. ASSUME NEW h \in Handlers, Comment(h) \/ Post(h) PROVE Goal
  <2>1. UNCHANGED dispatch /\ dispatch.status \in Queued
    BY <1>2 DEF Comment, Post, Inv, Deliveries, Delivery, Sending
  <2> QED
    BY <2>1 DEF Dispatched, Queued
<1>3. ASSUME NEW h \in Handlers, Outcome(h) PROVE Goal
  <2>1. dispatch \in Dispatches /\ pc[h] = "outcome" /\ UNCHANGED github
    BY <1>3 DEF Outcome, Inv, TypeOK, Deliveries, Delivery, Sending
  <2>2. dispatch' = [dispatch EXCEPT !.status = row[h]]
    BY <1>3 DEF Outcome
  <2>3. row[h] = "dispatched" /\ dispatch'.decision = dispatch.decision
    BY <2>1, <2>2 DEF Dispatches, Dispatched
  <2> QED
    BY <2>1, <2>3 DEF Inv, Deliveries, Delivery, Sending
<1>4. ASSUME NEW h \in Handlers,
             \/ Begin(h) \/ RebuildRead(h) \/ RebuildCommit(h) \/ EvaluateRead(h)
             \/ EvaluateFlush(h) \/ Claim(h) \/ Prepare(h) \/ Crash(h)
      PROVE  UNCHANGED <<dispatch, github>>
  BY <1>4
  DEF Begin, RebuildRead, RebuildCommit, EvaluateRead, EvaluateFlush, Claim,
      Prepare, Crash
<1>5. CASE World \/ UNCHANGED vars
  BY <1>5 DEF World, vars, Dispatched
<1> QED
  BY <1>1, <1>2, <1>3, <1>4, <1>5 DEF Next, Dispatched

LEMMA NextShows == Inv /\ [Next]_vars => DispatchedShowsOneDecision'
<1> SUFFICES ASSUME Inv, [Next]_vars, Dispatched'
             PROVE  github'.comment = github'.state
  BY DEF DispatchedShowsOneDecision
<1> QED
  BY DispatchSteps DEF Inv, DispatchedShowsOneDecision

\* What the rows, the requests' copies and GitHub say of each other, whatever
\* overlaps, crashes or is lost.
THEOREM InvHolds == Spec => []Inv
<1>1. Inv /\ [Next]_vars => Inv'
  BY NextTypeOK, NextDecided, NextShows, NextSessions, NextDeliveries DEF Inv
<1> QED
  BY InitInv, <1>1, PTL DEF Spec

\* Rows and copies have the shape the models and schemas give them, and a
\* request's row is one in every stage that uses it.
THEOREM TypeCorrect == Spec => []TypeOK
<1>1. Inv => TypeOK
  BY DEF Inv
<1> QED
  BY <1>1, InvHolds, PTL

\* A review that reads as completed has its decision and the evidence of it,
\* although evaluations write only what differs from an old copy.
THEOREM CompletedAreDecided == Spec => []CompletedIsDecided
<1>1. Inv => CompletedIsDecided
  BY DEF Inv
<1> QED
  BY <1>1, InvHolds, PTL

\* Two deliveries never overlap: the row lock of the claim is held until the
\* outcome is committed (process_github_review_dispatch and its caller).
OneDelivery == \A g, h \in Handlers : Sending(g) /\ Sending(h) => g = h

\* Whatever claims, crashes and outcomes interleave, one delivery is open.
THEOREM DeliveriesExclude == Spec => []OneDelivery
<1>1. Inv => OneDelivery
  BY DEF Inv, Deliveries, Delivery, OneDelivery
<1> QED
  BY <1>1, InvHolds, PTL

\* The comment and the commit status of a row that reads as dispatched show
\* the same decision, whatever failed, crashed or was sent before.
THEOREM OneDecisionIsShown == Spec => []DispatchedShowsOneDecision
<1>1. Inv => DispatchedShowsOneDecision
  BY DEF Inv
<1> QED
  BY <1>1, InvHolds, PTL

\* A row comes to read as dispatched without showing its decision only where a
\* delivery ends whose copy of the review has another decision than the row it
\* claimed, or an evaluation commits that has loaded an older dispatch row.
MisledByStaleCopyOnly ==
  [][DispatchedMeansShown /\ ~DispatchedMeansShown'
       => \E h \in Handlers :
             \/ pc[h] = "outcome" /\ copy[h].decision # dispatch.decision
             \/ pc[h] = "commit" /\ row[h] # None /\ row[h].seen # dispatch]_vars

\* There are two ways only in which a row that reads as dispatched comes to
\* name a decision that the commit does not show: a delivery sends the
\* decision of its copy while the row is queued for another one (the finding
\* about DispatchedMeansShown), or an evaluation that loaded the row as queued
\* changes its decision after it was dispatched.
THEOREM OnlyStaleCopiesMislead == Spec => MisledByStaleCopyOnly
<1> DEFINE Misled ==
      DispatchedMeansShown /\ ~DispatchedMeansShown'
       => \E h \in Handlers :
             \/ pc[h] = "outcome" /\ copy[h].decision # dispatch.decision
             \/ pc[h] = "commit" /\ row[h] # None /\ row[h].seen # dispatch
<1>1. Inv /\ [Next]_vars => Misled
  BY DispatchSteps DEF DispatchedMeansShown
<1>2. Inv /\ [Next]_vars => [Misled]_vars
  BY <1>1
<1>3. Spec => [][Misled]_vars
  BY <1>2, InvHolds, PTL DEF Spec
<1> QED
  BY <1>3 DEF MisledByStaleCopyOnly

-----------------------------------------------------------------------------
(* Decision and replay.                                                    *)

Split ==
  Agrees(review) /\ ~Agrees(review')
    => \E h \in Handlers : pc[h] = "commit" /\ copy[h].decision # review.decision

LEMMA NextSplit == Inv /\ [Next]_vars => Split
<1> SUFFICES ASSUME Inv, [Next]_vars, Agrees(review),
                    \A h \in Handlers :
                       pc[h] = "commit" => copy[h].decision = review.decision
             PROVE  Agrees(review')
  BY DEF Split
<1>1. ASSUME NEW h \in Handlers, pc[h] = "commit", review' = Update(h)
      PROVE  Agrees(review')
  <2>1. copy[h].decision = review.decision
    BY <1>1
  <2>2. CASE draft[h].new
    BY <1>1, <2>1, <2>2 DEF Update, After, Agrees
  <2>3. CASE ~draft[h].new
    BY <1>1, <2>1, <2>3 DEF Update, After, Agrees
  <2> QED
    BY <2>2, <2>3
<1> QED
  BY <1>1, ReviewSteps DEF Agrees

\* The decision of a review and the one it will replay part only at the
\* commit of an evaluation that another one has overtaken.
THEOREM OnlyStaleEvaluationsSplit == Spec => SplitByStaleEvaluation
<1>1. Inv /\ [Next]_vars => [Split]_vars
  BY NextSplit
<1>2. Spec => [][Split]_vars
  BY <1>1, InvHolds, PTL DEF Spec
<1> QED
  BY <1>2 DEF SplitByStaleEvaluation, Split

-----------------------------------------------------------------------------
(* Decision and evidence.  Whatever is stored, copied or drafted with a    *)
(* snapshot follows from that snapshot, at a time that has come.           *)

\* r.decision is what _decide says of r.snap; it blocks in spite of an
\* acceptance only if that has lapsed.
Follows(r, late) ==
  LET seen == {s.entries : s \in r.snap}
      found == \E e \in seen : e.finding
      accepted == \E e \in seen : e.acceptance = "active"
  IN  /\ r.decision \in Decisions
      /\ r.decision = "gather_evidence" <=> seen = {}
      /\ r.decision \in {"verify", "block"} <=> found
      /\ r.decision = "verify" => accepted
      /\ r.decision = "block" => late \/ ~accepted

\* A decision on record, if there is one, follows from the evidence on record.
Evidenced(replay, late) == replay # None => Follows(replay, late)

Grounds(h) ==
  /\ pc[h] # "idle" => Evidenced(copy[h].replay, lapsed)
  /\ pc[h] \in {"flush", "commit"} => Follows(draft[h], lapsed)

Grounded ==
  /\ Evidenced(review.replay, lapsed)
  /\ \A h \in Handlers : Grounds(h)

\* _decide itself.
LEMMA DecideFollows ==
  ASSUME TypeOK, NEW snap \in Snapshots, NEW r, r.snap = snap, r.decision = Decide(snap)
  PROVE  Follows(r, lapsed)
<1> DEFINE seen == {s.entries : s \in snap}
<1>1. lapsed \in BOOLEAN
  BY DEF TypeOK
<1>2. \A e \in seen : e.finding \in BOOLEAN
  BY DEF Snapshots, Entries
<1>3. Decide(snap) = IF seen = {} THEN "gather_evidence"
                     ELSE IF \A e \in seen : ~e.finding THEN "pass"
                     ELSE IF ~lapsed /\ \E e \in seen : e.acceptance = "active"
                     THEN "verify" ELSE "block"
  BY DEF Decide
<1> HIDE DEF seen
<1>4. /\ Decide(snap) \in Decisions
      /\ Decide(snap) = "gather_evidence" <=> seen = {}
      /\ Decide(snap) \in {"verify", "block"} <=> \E e \in seen : e.finding
      /\ Decide(snap) = "verify" => \E e \in seen : e.acceptance = "active"
      /\ Decide(snap) = "block" => lapsed \/ ~ \E e \in seen : e.acceptance = "active"
  BY <1>1, <1>2, <1>3 DEF Decisions
<1> QED
  BY <1>4 DEF Follows, seen

\* Time takes no decision back.
LEMMA FollowsLater ==
  ASSUME NEW r, NEW early, NEW late, early => late, Follows(r, early)
  PROVE  Follows(r, late)
  BY DEF Follows

LEMMA LapsedStays == ASSUME [Next]_vars PROVE lapsed => lapsed'
  BY DEF Next, World, LifeNext, GrantAcceptance, EndAcceptance, Lapse,
         FindingRecorded, InstallationEvent, Begin, RebuildRead, RebuildCommit,
         EvaluateRead, EvaluateFlush, EvaluateCommit, Claim, Prepare, Comment,
         Post, Outcome, Crash, worldVars, vars

\* What an evaluation has drawn up, from the index or from its copy.
LEMMA DraftFollows ==
  ASSUME TypeOK, NEW h \in Handlers, Evidenced(copy[h].replay, lapsed),
         EvaluateRead(h)
  PROVE  Follows(draft'[h], lapsed)
<1>1. draft'[h] = [snap |-> Snapshot,
                   decision |-> IF Replayed(h, Snapshot) THEN copy[h].replay.decision
                                ELSE Decide(Snapshot),
                   new |-> ~Replayed(h, Snapshot)]
  BY DEF EvaluateRead, TypeOK
<1>2. CASE Replayed(h, Snapshot)
  BY <1>1, <1>2 DEF Replayed, Evidenced, Follows
<1>3. CASE ~Replayed(h, Snapshot)
  BY <1>1, <1>3, SnapshotType, DecideFollows
<1> QED
  BY <1>2, <1>3

\* What a request that has evaluated holds, and what it leaves on the row.
LEMMA AfterEvidenced ==
  ASSUME NEW h \in Handlers, Grounds(h), pc[h] \in {"flush", "commit"}
  PROVE  Evidenced(After(h).replay, lapsed)
<1>1. CASE draft[h].new
  BY <1>1 DEF After, Evidenced, Grounds, Follows
<1>2. CASE ~draft[h].new
  BY <1>2 DEF After, Grounds
<1> QED
  BY <1>1, <1>2

\* A request that a step leaves alone, or that ends.
LEMMA KeptGrounds ==
  ASSUME NEW h \in Handlers, Grounds(h), lapsed => lapsed',
         UNCHANGED <<pc[h], copy[h], draft[h]>>
  PROVE  Grounds(h)'
  BY FollowsLater DEF Grounds, Evidenced

LEMMA OtherGrounds ==
  ASSUME TypeOK, Grounded, lapsed => lapsed', NEW h \in Handlers,
         \A g \in Handlers \ {h} : UNCHANGED <<pc[g], copy[g], draft[g]>>,
         Grounds(h)'
  PROVE  \A g \in Handlers : Grounds(g)'
<1>1. ASSUME NEW g \in Handlers \ {h} PROVE Grounds(g)'
  BY <1>1, KeptGrounds DEF Grounded
<1> QED
  BY <1>1

LEMMA LeftGrounds ==
  ASSUME TypeOK, Grounded, lapsed => lapsed', NEW h \in Handlers, Leave(h)
  PROVE  \A g \in Handlers : Grounds(g)'
<1>1. Grounds(h)'
  BY DEF Leave, TypeOK, Grounds
<1>2. \A g \in Handlers \ {h} : UNCHANGED <<pc[g], copy[g], draft[g]>>
  BY DEF Leave, TypeOK
<1> QED
  BY <1>1, <1>2, OtherGrounds

LEMMA NextGrounds ==
  ASSUME Inv, Grounded, [Next]_vars
  PROVE  \A g \in Handlers : Grounds(g)'
<1>0. TypeOK /\ (lapsed => lapsed')
  BY LapsedStays DEF Inv
<1> DEFINE Others(h) == \A g \in Handlers \ {h} : UNCHANGED <<pc[g], copy[g], draft[g]>>
           Goal == \A g \in Handlers : Grounds(g)'
<1>1. CASE UNCHANGED <<pc, copy, draft>>
  BY <1>0, <1>1, KeptGrounds DEF Grounded
<1>2. ASSUME NEW h \in Handlers, Begin(h) PROVE Goal
  <2>1. Others(h)
    BY <1>0, <1>2 DEF Begin, TypeOK
  <2>2. copy'[h] = review /\ pc'[h] \in {"rebuild", "evaluate"} /\ lapsed' = lapsed
    BY <1>0, <1>2 DEF Begin, TypeOK, worldVars
  <2>3. Grounds(h)'
    BY <2>2 DEF Grounds, Grounded
  <2> QED
    BY <1>0, <2>1, <2>3, OtherGrounds
<1>3. ASSUME NEW h \in Handlers, RebuildCommit(h) PROVE Goal
  <2>1. CASE webhook[h]
    <3>1. Others(h) /\ pc[h] = "reindex"
      BY <1>0, <1>3, <2>1 DEF RebuildCommit, TypeOK
    <3>2. copy[h] \in Reviews
      BY <1>3 DEF Inv, Sessions, Session, RebuildCommit
    <3>3. /\ copy'[h].replay = copy[h].replay /\ pc'[h] = "evaluate"
          /\ lapsed' = lapsed
      BY <1>0, <1>3, <2>1, <3>2 DEF RebuildCommit, TypeOK, Reviews, worldVars
    <3>4. Grounds(h)'
      BY <3>1, <3>3 DEF Grounds, Grounded
    <3> QED
      BY <1>0, <3>1, <3>4, OtherGrounds
  <2>2. CASE ~webhook[h]
    <3>1. Others(h) /\ pc'[h] = "idle"
      BY <1>0, <1>3, <2>2 DEF RebuildCommit, TypeOK
    <3>2. Grounds(h)'
      BY <3>1 DEF Grounds
    <3> QED
      BY <1>0, <3>1, <3>2, OtherGrounds
  <2> QED
    BY <2>1, <2>2
<1>4. ASSUME NEW h \in Handlers, EvaluateRead(h) PROVE Goal
  <2>1. Others(h) /\ copy' = copy /\ pc[h] = "evaluate" /\ lapsed' = lapsed
    BY <1>0, <1>4 DEF EvaluateRead, TypeOK, worldVars
  <2>2. Evidenced(copy[h].replay, lapsed)
    BY <2>1 DEF Grounded, Grounds
  <2>3. Follows(draft'[h], lapsed)
    BY <1>0, <1>4, <2>2, DraftFollows
  <2>4. Grounds(h)'
    BY <2>1, <2>2, <2>3 DEF Grounds
  <2> QED
    BY <1>0, <2>1, <2>4, OtherGrounds
<1>5. ASSUME NEW h \in Handlers, EvaluateCommit(h) PROVE Goal
  <2>1. CASE Leave(h)
    BY <1>0, <2>1, LeftGrounds
  <2>2. CASE ~Leave(h)
    <3>1. /\ copy' = [copy EXCEPT ![h] = After(h)]
          /\ pc' = [pc EXCEPT ![h] = "claim"]
          /\ draft' = [draft EXCEPT ![h] = None]
          /\ pc[h] = "commit" /\ lapsed' = lapsed
      BY <1>5, <2>2 DEF EvaluateCommit, worldVars
    <3>2. Others(h) /\ copy'[h] = After(h) /\ pc'[h] = "claim"
      BY <1>0, <3>1 DEF TypeOK
    <3>3. Evidenced(After(h).replay, lapsed)
      BY <3>1, AfterEvidenced DEF Grounded
    <3>4. Grounds(h)'
      BY <3>1, <3>2, <3>3 DEF Grounds
    <3> QED
      BY <1>0, <3>2, <3>4, OtherGrounds
  <2> QED
    BY <2>1, <2>2
<1>6. ASSUME NEW h \in Handlers, Leave(h) PROVE Goal
  BY <1>0, <1>6, LeftGrounds
\* Between two stages a request keeps its review, and its draft while it commits.
<1>7. ASSUME NEW h \in Handlers, pc[h] # "idle", UNCHANGED <<lapsed, copy, draft>>,
             NEW stage \in Pc \ {"flush"}, stage = "commit" => pc[h] = "flush",
             pc' = [pc EXCEPT ![h] = stage]
      PROVE  Goal
  <2>1. Others(h)
    BY <1>0, <1>7 DEF TypeOK
  <2>2. Grounds(h)'
    BY <1>0, <1>7 DEF Grounds, Grounded, TypeOK
  <2> QED
    BY <1>0, <2>1, <2>2, OtherGrounds
<1>8. ASSUME NEW h \in Handlers, RebuildRead(h) \/ EvaluateFlush(h) PROVE Goal
  BY <1>7, <1>8 DEF RebuildRead, EvaluateFlush, worldVars, Pc
<1>9. ASSUME NEW h \in Handlers, Claim(h) PROVE Goal
  BY <1>6, <1>7, <1>9 DEF Claim, worldVars, sessVars, Pc
<1>10. ASSUME NEW h \in Handlers, Prepare(h) \/ Comment(h) \/ Post(h) PROVE Goal
  BY <1>7, <1>10 DEF Prepare, Comment, Post, Ends, worldVars, Pc
<1>11. ASSUME NEW h \in Handlers, Outcome(h) \/ Crash(h) PROVE Goal
  BY <1>6, <1>11 DEF Outcome, Crash
<1>12. CASE World \/ UNCHANGED vars
  BY <1>1, <1>12 DEF World, sessVars, vars
<1> QED
  BY <1>2, <1>3, <1>4, <1>5, <1>8, <1>9, <1>10, <1>11, <1>12 DEF Next

LEMMA NextGrounded == Inv /\ Grounded /\ [Next]_vars => Grounded'
<1> SUFFICES ASSUME Inv, Grounded, [Next]_vars PROVE Grounded'
  OBVIOUS
<1>1. lapsed => lapsed'
  BY LapsedStays
<1>2. ASSUME NEW replay, Evidenced(replay, lapsed) PROVE Evidenced(replay, lapsed')
  BY <1>1, <1>2, FollowsLater DEF Evidenced
<1>3. Evidenced(review'.replay, lapsed')
  <2>1. ASSUME NEW h \in Handlers, pc[h] = "commit", review' = Update(h)
        PROVE  Evidenced(review'.replay, lapsed)
    <3>1. Evidenced(After(h).replay, lapsed)
      BY <2>1, AfterEvidenced DEF Grounded
    <3> QED
      BY <2>1, <3>1 DEF Update, Grounded
  <2>2. Evidenced(review'.replay, lapsed)
    BY <2>1, ReviewSteps DEF Grounded
  <2> QED
    BY <1>2, <2>2
<1> QED
  BY <1>3, NextGrounds DEF Grounded

\* The decision that is on record for a snapshot, and that evaluations replay,
\* follows from it: nobody passes a finding, verifies without an acceptance
\* that was active, or blocks an accepted finding before its acceptance lapsed.
DecisionsFollowEvidence == Evidenced(review.replay, lapsed)

\* Old copies, replays and merged rows never put a decision beside evidence
\* that _decide would not have decided so.
THEOREM DecisionsAreGrounded == Spec => []DecisionsFollowEvidence
<1>1. Init => Grounded
  BY DEF Init, Grounded, Grounds, Evidenced
<1>2. Grounded => DecisionsFollowEvidence
  BY DEF Grounded, DecisionsFollowEvidence
<1> QED
  BY <1>1, <1>2, NextGrounded, InvHolds, PTL DEF Spec

-----------------------------------------------------------------------------
(* One request at a time.  A sole request's copy has the row's decision.   *)

Alone == \A g, h \in Handlers : g = h
Fresh == \A h \in Handlers : pc[h] # "idle" => copy[h].decision = review.decision

LEMMA NextFresh == ASSUME Alone PROVE Inv /\ Fresh /\ [Next]_vars => Fresh'
<1> SUFFICES ASSUME Inv, Fresh, [Next]_vars PROVE Fresh'
  OBVIOUS
<1>0. TypeOK
  BY DEF Inv
<1> USE DEF Fresh, TypeOK
<1>1. ASSUME NEW h \in Handlers, Leave(h) PROVE Fresh'
  BY <1>0, <1>1, Alone DEF Alone, Leave
<1>2. ASSUME NEW h \in Handlers, Begin(h) PROVE Fresh'
  BY <1>0, <1>2 DEF Begin
<1>3. ASSUME NEW h \in Handlers, RebuildCommit(h) PROVE Fresh'
  <2>1. review'.decision = review.decision
    BY <1>0, <1>3 DEF RebuildCommit, Reviews
  <2>2. copy[h] \in Reviews /\ pc[h] = "reindex"
    BY <1>3 DEF Inv, Sessions, Session, RebuildCommit
  <2>3. pc'[h] # "idle" => copy'[h].decision = copy[h].decision
    BY <1>0, <1>3, <2>2 DEF RebuildCommit, Reviews
  <2> QED
    BY <2>1, <2>2, <2>3, Alone DEF Alone
<1>4. ASSUME NEW h \in Handlers, EvaluateCommit(h) PROVE Fresh'
  <2>1. CASE Leave(h)
    BY <1>1, <2>1
  <2>2. CASE ~Leave(h)
    <3>1. copy'[h] = After(h) /\ review' = Update(h) /\ pc[h] = "commit"
      BY <1>0, <1>4, <2>2 DEF EvaluateCommit
    <3>2. Update(h).decision = After(h).decision
      BY <3>1 DEF Update
    <3> QED
      BY <3>1, <3>2, Alone DEF Alone
  <2> QED
    BY <2>1, <2>2
<1>5. ASSUME NEW h \in Handlers, pc[h] # "idle", UNCHANGED <<review, copy>>,
             NEW stage, pc' = [pc EXCEPT ![h] = stage]
      PROVE  Fresh'
  BY <1>0, <1>5
<1>6. ASSUME NEW h \in Handlers,
             \/ RebuildRead(h) \/ EvaluateRead(h) \/ EvaluateFlush(h) \/ Claim(h)
             \/ Prepare(h) \/ Comment(h) \/ Post(h) \/ Outcome(h) \/ Crash(h)
      PROVE  Fresh'
  BY <1>1, <1>5, <1>6
  DEF RebuildRead, EvaluateRead, EvaluateFlush, Claim, Prepare, Comment, Post,
      Outcome, Crash, Ends, sessVars
<1>7. CASE World \/ UNCHANGED vars
  BY <1>7 DEF World, sessVars, vars
<1> QED
  BY <1>2, <1>3, <1>4, <1>6, <1>7 DEF Next

\* The decision that the row shows is the one it will replay.
ReplaysItsDecision == Agrees(review)

\* Requests that never overlap replay the decision that the row shows.
THEOREM LoneRequestsAgree == ASSUME Alone PROVE Spec => []ReplaysItsDecision
<1>1. Init => Fresh /\ Agrees(review)
  BY DEF Init, Fresh, Agrees
<1>2. Inv /\ Fresh /\ [Next]_vars => Fresh'
  BY Alone, NextFresh
<1>3. Inv /\ Fresh /\ Agrees(review) /\ [Next]_vars => Agrees(review)'
  <2> SUFFICES ASSUME Inv, Fresh, Agrees(review), [Next]_vars PROVE Agrees(review')
    BY DEF Agrees
  <2>1. \A h \in Handlers : pc[h] = "commit" => copy[h].decision = review.decision
    BY DEF Fresh
  <2> QED
    BY <2>1, NextSplit DEF Split
<1> QED
  BY <1>1, <1>2, <1>3, InvHolds, PTL DEF Spec, ReplaysItsDecision
=============================================================================
