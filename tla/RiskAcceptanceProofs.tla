------------------------ MODULE RiskAcceptanceProofs ------------------------
(***************************************************************************)
(* Theorems about RiskAcceptance, for any sets of acceptances and handlers.*)
(***************************************************************************)
EXTENDS RiskAcceptance, TLAPS

LEMMA AppendTypes ==
  ASSUME NEW copy \in Rows, NEW action \in Ended
  PROVE  /\ Ending(copy, action) \in Rows
         /\ Ending(copy, action).status = action
         /\ Ending(copy, action).revoked = copy.revoked
         /\ Ending(copy, action).trail = Append(copy.trail, action)
         /\ Ending(copy, action) # Absent
<1>1. Append(copy.trail, action) \in Seq(AuditActions)
  BY DEF Rows, AuditActions
<1> QED
  BY <1>1 DEF Ending, Rows, Status, Ended, Absent

\* What an appended event leaves of the trail before it.
LEMMA AppendKeeps ==
  ASSUME NEW t \in Seq(AuditActions), NEW e \in AuditActions
  PROVE  /\ Len(Append(t, e)) = Len(t) + 1
         /\ SubSeq(Append(t, e), 1, Len(t)) = t
         /\ t # <<>> => Append(t, e)[1] = t[1]
  OBVIOUS

LEMMA PrefixOfItself ==
  ASSUME NEW t \in Seq(AuditActions)
  PROVE  Len(t) >= Len(t) /\ SubSeq(t, 1, Len(t)) = t
  OBVIOUS

-----------------------------------------------------------------------------
(* Type correctness.                                                       *)

LEMMA InitTypeOK == Init => TypeOK
  BY DEF Init, TypeOK, NoCopies, Absent, Rows, Status, AuditActions

LEMMA NextTypeOK == TypeOK /\ [Next]_vars => TypeOK'
<1> SUFFICES ASSUME TypeOK, [Next]_vars PROVE TypeOK'
  OBVIOUS
<1> USE DEF TypeOK
<1>0. Absent \in Rows
  BY DEF Absent, Rows, Status, AuditActions
<1>1. ASSUME NEW h \in Handlers, Leave(h)
      PROVE  /\ loaded' \in [Handlers -> [Acceptances -> Rows]]
             /\ doing' \in [Handlers -> {"idle", "revoke", "expire"}]
  BY <1>0, <1>1 DEF Leave, NoCopies
<1>2. ASSUME NEW h \in Handlers, NEW rows, NEW job \in {"revoke", "expire"},
             Loads(h, rows, job)
      PROVE  TypeOK'
  BY <1>0, <1>2 DEF Loads
<1>3. ASSUME NEW a \in Acceptances, Grant(a) PROVE TypeOK'
  <2>1. <<"granted">> \in Seq(AuditActions)
    BY DEF AuditActions
  <2>2. [status |-> "active", revoked |-> FALSE, trail |-> <<"granted">>] \in Rows
    BY <2>1 DEF Rows, Status
  <2> QED
    BY <1>3, <2>2 DEF Grant
<1>4. ASSUME NEW a \in Acceptances, Lapse(a) PROVE TypeOK'
  BY <1>4 DEF Lapse
<1>5. ASSUME NEW h \in Handlers, NEW a \in Acceptances, RevokeLoad(h, a)
      PROVE  TypeOK'
  BY <1>2, <1>5 DEF RevokeLoad
<1>6. ASSUME NEW h \in Handlers, SweepLoad(h) PROVE TypeOK'
  BY <1>2, <1>6 DEF SweepLoad
<1>7. ASSUME NEW h \in Handlers, SweepWrite(h) PROVE TypeOK'
  <2>1. \A a \in Acceptances :
           [Ending(loaded[h][a], "expired") EXCEPT !.revoked = row[a].revoked] \in Rows
    <3> TAKE a \in Acceptances
    <3>1. loaded[h][a] \in Rows /\ row[a] \in Rows
      OBVIOUS
    <3>2. Ending(loaded[h][a], "expired") \in Rows
      BY <3>1, AppendTypes DEF Ended
    <3> QED
      BY <3>1, <3>2 DEF Rows
  <2>2. row' \in [Acceptances -> Rows]
    BY <1>7, <2>1 DEF SweepWrite
  <2> QED
    BY <1>1, <1>7, <2>2 DEF SweepWrite
<1>8. ASSUME NEW h \in Handlers, RevokeWrite(h) PROVE TypeOK'
  <2>1. \A a \in Acceptances :
           [Ending(loaded[h][a], "revoked") EXCEPT !.revoked = TRUE] \in Rows
    <3> TAKE a \in Acceptances
    <3>1. Ending(loaded[h][a], "revoked") \in Rows
      BY AppendTypes DEF Ended
    <3> QED
      BY <3>1 DEF Rows
  <2>2. row' \in [Acceptances -> Rows]
    BY <1>8, <2>1 DEF RevokeWrite
  <2> QED
    BY <1>1, <1>8, <2>2 DEF RevokeWrite
<1>9. ASSUME NEW h \in Handlers, Crash(h) PROVE TypeOK'
  BY <1>1, <1>9 DEF Crash
<1>10. CASE UNCHANGED vars
  BY <1>10 DEF vars
<1> QED
  BY <1>3, <1>4, <1>5, <1>6, <1>7, <1>8, <1>9, <1>10 DEF Next

\* Statuses, trails and the sessions' copies have their types.
THEOREM TypeCorrect == Spec => []TypeOK
  BY InitTypeOK, NextTypeOK, PTL DEF Spec

-----------------------------------------------------------------------------
(* What a step does to one row and to one copy of it.                      *)

Granted == [status |-> "active", revoked |-> FALSE, trail |-> <<"granted">>]

\* h commits the action it decided on when it loaded row a.
Wrote(h, a, action) ==
  /\ doing[h] # "idle" /\ doing'[h] = "idle"
  /\ doing[h] = IF action = "revoked" THEN "revoke" ELSE "expire"
  /\ Holds(h, a)
  /\ row'[a].status = action
  /\ row'[a].revoked = (action = "revoked" \/ row[a].revoked)
  /\ row'[a].trail = Append(loaded[h][a].trail, action)

LEMMA RowSteps ==
  ASSUME TypeOK, [Next]_vars, NEW a \in Acceptances
  PROVE  /\ lapsed[a] => lapsed'[a]
         /\ \/ row'[a] = row[a]
            \/ row[a] = Absent /\ row'[a] = Granted
            \/ \E h \in Handlers : Wrote(h, a, "expired") /\ lapsed' = lapsed
            \/ \E h \in Handlers : Wrote(h, a, "revoked") /\ lapsed' = lapsed
<1> USE DEF TypeOK
<1>1. ASSUME NEW b \in Acceptances, Grant(b)
      PROVE  lapsed' = lapsed /\ (row'[a] = row[a] \/ (row[a] = Absent /\ row'[a] = Granted))
  BY <1>1 DEF Grant, Granted
<1>2. ASSUME NEW b \in Acceptances, Lapse(b)
      PROVE  row'[a] = row[a] /\ (lapsed[a] => lapsed'[a])
  BY <1>2 DEF Lapse
<1>3. ASSUME NEW h \in Handlers, NEW b \in Acceptances, RevokeLoad(h, b)
      PROVE  row' = row /\ lapsed' = lapsed
  BY <1>3 DEF RevokeLoad, Loads
<1>4. ASSUME NEW h \in Handlers, SweepLoad(h) PROVE row' = row /\ lapsed' = lapsed
  BY <1>4 DEF SweepLoad, Loads
<1>5. ASSUME NEW h \in Handlers, SweepWrite(h)
      PROVE  lapsed' = lapsed /\ (row'[a] = row[a] \/ Wrote(h, a, "expired"))
  <2>1. doing[h] = "expire" /\ doing'[h] = "idle" /\ lapsed' = lapsed
    BY <1>5 DEF SweepWrite, Leave
  <2>2. CASE ~Holds(h, a)
    BY <1>5, <2>1, <2>2 DEF SweepWrite
  <2>3. CASE Holds(h, a)
    <3>1. row'[a] = [Ending(loaded[h][a], "expired") EXCEPT !.revoked = row[a].revoked]
      BY <1>5, <2>3 DEF SweepWrite
    <3>2. loaded[h][a] \in Rows /\ row[a] \in Rows
      OBVIOUS
    <3>3. Ending(loaded[h][a], "expired") \in Rows
      BY <3>2, AppendTypes DEF Ended
    <3>4. /\ Ending(loaded[h][a], "expired").status = "expired"
          /\ Ending(loaded[h][a], "expired").trail = Append(loaded[h][a].trail, "expired")
      BY <3>2, AppendTypes DEF Ended
    <3>5. /\ row'[a].status = "expired" /\ row'[a].revoked = row[a].revoked
          /\ row'[a].trail = Append(loaded[h][a].trail, "expired")
      BY <3>1, <3>2, <3>3, <3>4 DEF Rows
    <3> QED
      BY <2>1, <2>3, <3>2, <3>5 DEF Wrote, Rows
  <2> QED
    BY <2>2, <2>3
<1>6. ASSUME NEW h \in Handlers, RevokeWrite(h)
      PROVE  lapsed' = lapsed /\ (row'[a] = row[a] \/ Wrote(h, a, "revoked"))
  <2>1. doing[h] = "revoke" /\ doing'[h] = "idle" /\ lapsed' = lapsed
    BY <1>6 DEF RevokeWrite, Leave
  <2>2. CASE ~Holds(h, a)
    BY <1>6, <2>1, <2>2 DEF RevokeWrite
  <2>3. CASE Holds(h, a)
    <3>1. row'[a] = [Ending(loaded[h][a], "revoked") EXCEPT !.revoked = TRUE]
      BY <1>6, <2>3 DEF RevokeWrite
    <3>2. loaded[h][a] \in Rows
      OBVIOUS
    <3>3. /\ Ending(loaded[h][a], "revoked") \in Rows
          /\ Ending(loaded[h][a], "revoked").status = "revoked"
          /\ Ending(loaded[h][a], "revoked").trail = Append(loaded[h][a].trail, "revoked")
      BY <3>2, AppendTypes DEF Ended
    <3>4. /\ row'[a].status = "revoked" /\ row'[a].revoked = TRUE
          /\ row'[a].trail = Append(loaded[h][a].trail, "revoked")
      BY <3>1, <3>3 DEF Rows
    <3> QED
      BY <2>1, <2>3, <3>4 DEF Wrote
  <2> QED
    BY <2>2, <2>3
<1>7. ASSUME NEW h \in Handlers, Crash(h) PROVE row' = row /\ lapsed' = lapsed
  BY <1>7 DEF Crash
<1>8. CASE UNCHANGED vars
  BY <1>8 DEF vars
<1> QED
  BY <1>1, <1>2, <1>3, <1>4, <1>5, <1>6, <1>7, <1>8 DEF Next

\* A copy is kept, dropped, or just loaded from a row that its job selects.
LEMMA CopySteps ==
  ASSUME TypeOK, [Next]_vars, NEW h \in Handlers, NEW a \in Acceptances
  PROVE  \/ loaded'[h][a] = loaded[h][a] /\ doing'[h] = doing[h]
         \/ loaded'[h][a] = Absent
         \/ /\ loaded'[h][a] = row[a] /\ row'[a] = row[a] /\ lapsed' = lapsed
            /\ \/ doing'[h] = "revoke" /\ row[a].status # "absent"
               \/ doing'[h] = "expire" /\ row[a].status = "active" /\ lapsed[a]
<1> USE DEF TypeOK
<1>0. ASSUME NEW g \in Handlers, Leave(g)
      PROVE  \/ loaded'[h][a] = loaded[h][a] /\ doing'[h] = doing[h]
             \/ loaded'[h][a] = Absent
  BY <1>0 DEF Leave, NoCopies
<1>1. ASSUME NEW b \in Acceptances, Grant(b) \/ Lapse(b)
      PROVE  loaded' = loaded /\ doing' = doing
  BY <1>1 DEF Grant, Lapse
<1>3. ASSUME NEW g \in Handlers, NEW b \in Acceptances, RevokeLoad(g, b)
      PROVE  \/ loaded'[h][a] = loaded[h][a] /\ doing'[h] = doing[h]
             \/ loaded'[h][a] = Absent
             \/ /\ loaded'[h][a] = row[a] /\ row'[a] = row[a] /\ lapsed' = lapsed
                /\ doing'[h] = "revoke" /\ row[a].status # "absent"
  <2>1. CASE g = h
    BY <1>3, <2>1 DEF RevokeLoad, Loads
  <2>2. CASE g # h
    BY <1>3, <2>2 DEF RevokeLoad, Loads
  <2> QED
    BY <2>1, <2>2
<1>4. ASSUME NEW g \in Handlers, SweepLoad(g)
      PROVE  \/ loaded'[h][a] = loaded[h][a] /\ doing'[h] = doing[h]
             \/ loaded'[h][a] = Absent
             \/ /\ loaded'[h][a] = row[a] /\ row'[a] = row[a] /\ lapsed' = lapsed
                /\ doing'[h] = "expire" /\ row[a].status = "active" /\ lapsed[a]
  <2>1. CASE g = h
    BY <1>4, <2>1 DEF SweepLoad, Loads, Elapsed
  <2>2. CASE g # h
    BY <1>4, <2>2 DEF SweepLoad, Loads
  <2> QED
    BY <2>1, <2>2
<1>5. ASSUME NEW g \in Handlers, SweepWrite(g) \/ RevokeWrite(g) \/ Crash(g)
      PROVE  Leave(g)
  BY <1>5 DEF SweepWrite, RevokeWrite, Crash
<1>6. CASE UNCHANGED vars
  BY <1>6 DEF vars
<1> QED
  BY <1>0, <1>1, <1>3, <1>4, <1>5, <1>6 DEF Next

-----------------------------------------------------------------------------
(* The inductive invariant: a row that is there begins its trail with its  *)
(* grant, and what a session holds was, when it was loaded, a row that its *)
(* job could end.  Only the second part makes the first one inductive,     *)
(* because a writer writes what it holds.                                  *)

Rooted(r) == r.status # "absent" /\ r.trail # <<>> /\ r.trail[1] = "granted"

Inv ==
  /\ \A a \in Acceptances :
        row[a] # Absent =>
          /\ Rooted(row[a])
          /\ row[a].revoked => row[a].status \in Ended
          /\ row[a].status = "expired" => lapsed[a]
  /\ \A h \in Handlers, a \in Acceptances :
        Holds(h, a) =>
          /\ row[a] # Absent
          /\ doing[h] # "idle"
          /\ Rooted(loaded[h][a])
          /\ doing[h] = "expire" => loaded[h][a].status = "active" /\ lapsed[a]

LEMMA InitInv == Init => Inv
  BY DEF Init, Inv, Holds, NoCopies

LEMMA WriteRoots ==
  ASSUME TypeOK, Inv, NEW h \in Handlers, NEW a \in Acceptances,
         NEW action \in Ended, row' \in [Acceptances -> Rows], Wrote(h, a, action)
  PROVE  /\ row[a] # Absent /\ row'[a] # Absent
         /\ Rooted(row'[a]) /\ row'[a].status = action
<1>1. /\ loaded[h][a].trail \in Seq(AuditActions) /\ action \in AuditActions
      /\ loaded[h][a].trail # <<>> /\ loaded[h][a].trail[1] = "granted"
  BY DEF TypeOK, Rows, Inv, Wrote, Rooted, AuditActions
<1>2. /\ Append(loaded[h][a].trail, action)[1] = "granted"
      /\ Append(loaded[h][a].trail, action) # <<>>
  BY <1>1, AppendKeeps
<1> QED
  BY <1>2 DEF Wrote, Rooted, Inv, Ended, Absent

LEMMA NextInv == TypeOK /\ Inv /\ [Next]_vars => Inv'
<1> SUFFICES ASSUME TypeOK, Inv, [Next]_vars PROVE Inv'
  OBVIOUS
<1>0. TypeOK'
  BY NextTypeOK
<1>1. ASSUME NEW a \in Acceptances
      PROVE  /\ row[a] # Absent => row'[a] # Absent
             /\ row'[a] # Absent =>
                  /\ Rooted(row'[a])
                  /\ row'[a].revoked => row'[a].status \in Ended
                  /\ row'[a].status = "expired" => lapsed'[a]
  <2>1. lapsed[a] => lapsed'[a]
    BY RowSteps
  <2>2. CASE row'[a] = row[a]
    BY <2>1, <2>2 DEF Inv
  <2>3. CASE row[a] = Absent /\ row'[a] = Granted
    BY <2>3 DEF Granted, Rooted, Ended
  <2>4. ASSUME NEW h \in Handlers, NEW action \in Ended,
               Wrote(h, a, action) /\ lapsed' = lapsed
        PROVE  /\ row[a] # Absent /\ row'[a] # Absent
               /\ Rooted(row'[a]) /\ row'[a].status \in Ended
               /\ row'[a].status = "expired" => lapsed'[a]
    <3>1. row' \in [Acceptances -> Rows]
      BY <1>0 DEF TypeOK
    <3>2. /\ row[a] # Absent /\ row'[a] # Absent
          /\ Rooted(row'[a]) /\ row'[a].status = action
      BY <2>4, <3>1, WriteRoots
    <3>3. action = "expired" => lapsed[a]
      BY <2>4 DEF Wrote, Inv
    <3> QED
      BY <2>4, <3>2, <3>3
  <2> QED
    BY <2>2, <2>3, <2>4, RowSteps DEF Ended
<1>2. ASSUME NEW h \in Handlers, NEW a \in Acceptances, loaded'[h][a] # Absent
      PROVE  /\ row'[a] # Absent
             /\ doing'[h] # "idle"
             /\ Rooted(loaded'[h][a])
             /\ doing'[h] = "expire" => loaded'[h][a].status = "active" /\ lapsed'[a]
  <2>1. lapsed[a] => lapsed'[a]
    BY RowSteps
  <2>2. CASE loaded'[h][a] = loaded[h][a] /\ doing'[h] = doing[h]
    BY <1>1, <1>2, <2>1, <2>2 DEF Inv, Holds
  <2>3. CASE /\ loaded'[h][a] = row[a] /\ row'[a] = row[a] /\ lapsed' = lapsed
             /\ \/ doing'[h] = "revoke" /\ row[a].status # "absent"
                \/ doing'[h] = "expire" /\ row[a].status = "active" /\ lapsed[a]
    BY <1>2, <2>3 DEF Inv
  <2> QED
    BY <1>2, <2>2, <2>3, CopySteps
<1> QED
  BY <1>1, <1>2 DEF Inv, Holds

\* What rows, copies and audit trails say of each other is inductive, for any
\* number of requests and acceptances.
THEOREM InvHolds == Spec => [](TypeOK /\ Inv)
<1>1. Init => TypeOK /\ Inv
  BY InitTypeOK, InitInv
<1>2. TypeOK /\ Inv /\ [Next]_vars => TypeOK' /\ Inv'
  BY NextTypeOK, NextInv
<1> QED
  BY <1>1, <1>2, PTL DEF Spec

-----------------------------------------------------------------------------
(* The action properties, each from one step of the invariant.             *)

LEMMA RevocationStep ==
  ASSUME TypeOK, Inv, Inv', [Next]_vars, NEW a \in Acceptances, row[a].revoked
  PROVE  row'[a].revoked /\ row'[a].status \in Ended
<1>1. row[a] # Absent /\ row[a].status \in Ended
  BY DEF Inv, Absent
<1>2. CASE row'[a] = row[a]
  BY <1>1, <1>2
<1>3. ASSUME NEW h \in Handlers, NEW action \in Ended, Wrote(h, a, action)
      PROVE  row'[a].revoked /\ row'[a].status \in Ended
  BY <1>3 DEF Wrote
<1> QED
  BY <1>1, <1>2, <1>3, RowSteps DEF Ended

\* Whatever sweep or second revocation writes over a revocation, who revoked
\* and why stays, and the acceptance never counts again.
THEOREM RevocationIsKept == Spec => RevocationKept
<1>1. TypeOK /\ Inv /\ Inv' /\ [Next]_vars =>
        [\A a \in Acceptances :
            row[a].revoked => row'[a].revoked /\ row'[a].status \in Ended]_vars
  BY RevocationStep
<1> QED
  BY <1>1, InvHolds, PTL DEF Spec, RevocationKept

LEMMA UnrevokedStep ==
  ASSUME TypeOK, Inv, [Next]_vars, NEW a \in Acceptances,
         row[a].status = "revoked", row'[a].status # "revoked"
  PROVE  \E h \in Handlers :
            /\ doing[h] = "expire" /\ doing'[h] = "idle"
            /\ Holds(h, a)
            /\ loaded[h][a].status = "active"
<1>1. row[a] # Absent /\ row'[a] # row[a]
  BY DEF Absent
<1>2. PICK h \in Handlers : Wrote(h, a, "expired") \/ Wrote(h, a, "revoked")
  BY <1>1, RowSteps
<1>3. Wrote(h, a, "expired")
  BY <1>2 DEF Wrote
<1> QED
  BY <1>3 DEF Wrote, Inv

\* A revocation is turned into an expiry by a stale sweep and by nothing else.
THEOREM OnlyStaleSweepsUnrevoke == Spec => UnrevokedByStaleSweep
<1>1. TypeOK /\ Inv /\ [Next]_vars =>
        [\A a \in Acceptances :
          row[a].status = "revoked" /\ row'[a].status # "revoked"
             => \E h \in Handlers :
                   /\ doing[h] = "expire" /\ doing'[h] = "idle"
                   /\ Holds(h, a)
                   /\ loaded[h][a].status = "active"]_vars
  BY UnrevokedStep
<1> QED
  BY <1>1, InvHolds, PTL DEF Spec, UnrevokedByStaleSweep

LEMMA TrailStep ==
  ASSUME TypeOK, Inv, Inv', [Next]_vars, NEW a \in Acceptances, row[a] # Absent
  PROVE  /\ row'[a].trail[1] = "granted"
         /\ \/ /\ Len(row'[a].trail) >= Len(row[a].trail)
               /\ SubSeq(row'[a].trail, 1, Len(row[a].trail)) = row[a].trail
            \/ \E h \in Handlers :
                  /\ doing[h] # "idle" /\ doing'[h] = "idle"
                  /\ Holds(h, a)
                  /\ loaded[h][a].trail # row[a].trail
<1>1. row[a].trail \in Seq(AuditActions) /\ row[a].trail[1] = "granted"
  BY DEF TypeOK, Rows, Inv, Rooted
<1>2. CASE row'[a] = row[a]
  BY <1>1, <1>2, PrefixOfItself
<1>3. ASSUME NEW h \in Handlers, NEW action \in Ended, Wrote(h, a, action)
      PROVE  /\ row'[a].trail[1] = "granted"
             /\ \/ /\ Len(row'[a].trail) >= Len(row[a].trail)
                   /\ SubSeq(row'[a].trail, 1, Len(row[a].trail)) = row[a].trail
                \/ /\ doing[h] # "idle" /\ doing'[h] = "idle"
                   /\ Holds(h, a)
                   /\ loaded[h][a].trail # row[a].trail
  <2>1. /\ loaded[h][a].trail \in Seq(AuditActions)
        /\ loaded[h][a].trail # <<>> /\ loaded[h][a].trail[1] = "granted"
        /\ row'[a].trail = Append(loaded[h][a].trail, action)
        /\ action \in AuditActions
    BY <1>3 DEF TypeOK, Rows, Inv, Wrote, Rooted, AuditActions
  <2>2. row'[a].trail[1] = "granted"
    BY <2>1, AppendKeeps
  <2>3. CASE loaded[h][a].trail = row[a].trail
    <3>1. /\ Len(row'[a].trail) = Len(row[a].trail) + 1
          /\ SubSeq(row'[a].trail, 1, Len(row[a].trail)) = row[a].trail
      BY <2>1, <2>3, AppendKeeps
    <3>2. Len(row[a].trail) \in Nat
      BY <1>1
    <3> QED
      BY <2>2, <3>1, <3>2
  <2> QED
    BY <1>3, <2>2, <2>3 DEF Wrote
<1> QED
  BY <1>2, <1>3, RowSteps DEF Ended

\* An audit event is lost only to a writer whose copy lacks it; the grant never.
THEOREM OnlyStaleWritersLoseTrail == Spec => TrailLostByStaleWriter
<1>1. TypeOK /\ Inv /\ Inv' /\ [Next]_vars =>
        [\A a \in Acceptances :
          row[a] # Absent =>
             /\ row'[a].trail[1] = "granted"
             /\ \/ /\ Len(row'[a].trail) >= Len(row[a].trail)
                   /\ SubSeq(row'[a].trail, 1, Len(row[a].trail)) = row[a].trail
                \/ \E h \in Handlers :
                      /\ doing[h] # "idle" /\ doing'[h] = "idle"
                      /\ Holds(h, a)
                      /\ loaded[h][a].trail # row[a].trail]_vars
  BY TrailStep
<1> QED
  BY <1>1, InvHolds, PTL DEF Spec, TrailLostByStaleWriter

-----------------------------------------------------------------------------
(* Refinement: seen through its status, each row takes a step of           *)
(* AcceptanceLife or none.                                                 *)

LEMMA LifeInitial ==
  ASSUME Init, NEW a \in Acceptances PROVE Life(a)!LifeInit
  BY DEF Init, Absent, Life!LifeInit

LEMMA LifeStep ==
  ASSUME TypeOK, Inv, [Next]_vars, NEW a \in Acceptances
  PROVE  [Life(a)!LifeNext]_(Life(a)!lifeVars)
<1> USE DEF Life!LifeNext, Life!lifeVars, Life!GrantAcceptance, Life!EndAcceptance,
            Life!Lapse, Life!Ended, Ended
<1>1. ASSUME NEW b \in Acceptances, Lapse(b)
      PROVE  [Life(a)!LifeNext]_(Life(a)!lifeVars)
  BY <1>1 DEF Lapse, TypeOK, Inv, Rooted
<1>2. ASSUME lapsed' = lapsed PROVE [Life(a)!LifeNext]_(Life(a)!lifeVars)
  <2>1. CASE row'[a] = row[a]
    BY <1>2, <2>1
  <2>2. CASE row[a] = Absent /\ row'[a] = Granted
    BY <1>2, <2>2 DEF Absent, Granted
  <2>3. ASSUME NEW h \in Handlers, NEW action \in Ended, Wrote(h, a, action)
        PROVE  [Life(a)!LifeNext]_(Life(a)!lifeVars)
    <3>1. row[a] # Absent /\ row[a].status \in {"active", "expired", "revoked"}
      BY <2>3 DEF Wrote, Inv, Rooted, TypeOK, Rows, Status
    <3>2. action = "expired" => lapsed[a]
      BY <2>3 DEF Wrote, Inv
    <3> QED
      BY <1>2, <2>3, <3>1, <3>2 DEF Wrote
  <2> QED
    BY <2>1, <2>2, <2>3, RowSteps
<1>3. lapsed' = lapsed \/ \E b \in Acceptances : Lapse(b)
  BY DEF Next, Grant, RevokeLoad, SweepLoad, Loads, SweepWrite, RevokeWrite, Crash, vars
<1> QED
  BY <1>1, <1>2, <1>3

\* The rows of the table, with all their sessions, implement the abstract life
\* of an acceptance that ReviewDecision is built on.
THEOREM Refinement == Spec => ImplementsLife
<1>1. Init => \A a \in Acceptances : Life(a)!LifeInit
  BY LifeInitial
<1>2. TypeOK /\ Inv /\ [Next]_vars =>
        [\A a \in Acceptances : [Life(a)!LifeNext]_(Life(a)!lifeVars)]_vars
  BY LifeStep
<1> QED
  BY <1>1, <1>2, InvHolds, PTL DEF Spec, ImplementsLife

-----------------------------------------------------------------------------
(* One request at a time.  The copies of a sole request are the rows, so   *)
(* what only a stale copy can break is kept.                               *)

Alone == \A g, h \in Handlers : g = h
Fresh == \A h \in Handlers : \A a \in Acceptances : Holds(h, a) => loaded[h][a] = row[a]

LEMMA NextFresh == ASSUME Alone PROVE TypeOK /\ Fresh /\ [Next]_vars => Fresh'
<1> SUFFICES ASSUME TypeOK, Fresh, [Next]_vars PROVE Fresh'
  OBVIOUS
<1> USE DEF Fresh, Holds, TypeOK
<1>1. ASSUME NEW a \in Acceptances, Grant(a) PROVE Fresh'
  BY <1>1 DEF Grant
<1>2. ASSUME NEW a \in Acceptances, Lapse(a) PROVE Fresh'
  BY <1>2 DEF Lapse
<1>3. ASSUME NEW h \in Handlers, NEW rows, NEW job, Loads(h, rows, job) PROVE Fresh'
  BY <1>3 DEF Loads
<1>4. ASSUME NEW h \in Handlers, Leave(h) PROVE Fresh'
  BY <1>4, Alone DEF Alone, Leave, NoCopies
<1>5. CASE UNCHANGED vars
  BY <1>5 DEF vars
<1> QED
  BY <1>1, <1>2, <1>3, <1>4, <1>5
  DEF Next, RevokeLoad, SweepLoad, SweepWrite, RevokeWrite, Crash

\* What is revoked reads as revoked from then on, and an audit trail is only
\* ever appended to.
RecordsAreKept ==
  [][\A a \in Acceptances :
        /\ row[a].status = "revoked" => row'[a].status = "revoked"
        /\ row[a] # Absent =>
              /\ Len(row'[a].trail) >= Len(row[a].trail)
              /\ SubSeq(row'[a].trail, 1, Len(row[a].trail)) = row[a].trail]_vars

\* Requests that never overlap keep the records of every acceptance: what the
\* rows lose they lose to concurrency alone.
THEOREM LoneRequestsKeepRecords == ASSUME Alone PROVE Spec => RecordsAreKept
<1>1. Init => Fresh
  BY DEF Init, Fresh, Holds, NoCopies
<1>2. TypeOK /\ Fresh /\ [Next]_vars => Fresh'
  BY Alone, NextFresh
<1>3. TypeOK /\ Inv /\ Inv' /\ Fresh /\ [Next]_vars =>
        [\A a \in Acceptances :
          /\ row[a].status = "revoked" => row'[a].status = "revoked"
          /\ row[a] # Absent =>
                /\ Len(row'[a].trail) >= Len(row[a].trail)
                /\ SubSeq(row'[a].trail, 1, Len(row[a].trail)) = row[a].trail]_vars
  <2> SUFFICES ASSUME TypeOK, Inv, Inv', Fresh, [Next]_vars, NEW a \in Acceptances
               PROVE  /\ row[a].status = "revoked" => row'[a].status = "revoked"
                      /\ row[a] # Absent =>
                            /\ Len(row'[a].trail) >= Len(row[a].trail)
                            /\ SubSeq(row'[a].trail, 1, Len(row[a].trail)) = row[a].trail
    OBVIOUS
  <2>1. ASSUME NEW h \in Handlers, Holds(h, a) PROVE loaded[h][a] = row[a]
    BY <2>1 DEF Fresh
  <2>2. row[a].status = "revoked" => row'[a].status = "revoked"
    BY <2>1, UnrevokedStep
  <2>3. row[a] # Absent =>
           /\ Len(row'[a].trail) >= Len(row[a].trail)
           /\ SubSeq(row'[a].trail, 1, Len(row[a].trail)) = row[a].trail
    BY <2>1, TrailStep
  <2> QED
    BY <2>2, <2>3
<1> QED
  BY <1>1, <1>2, <1>3, InvHolds, PTL DEF Spec, RecordsAreKept
=============================================================================
