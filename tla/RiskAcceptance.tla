--------------------------- MODULE RiskAcceptance ---------------------------
(***************************************************************************)
(* The rows of application_risk_acceptances and the requests that change   *)
(* them: granting one, revoking one, and the sweep that marks the elapsed  *)
(* ones expired (backend/app/services/application_risk_acceptance.py, its  *)
(* endpoints in backend/app/api/application_reviews.py and the scheduled   *)
(* command backend/app/cli/expire_risk_acceptances.py).                    *)
(*                                                                         *)
(* Nothing is locked when it is read: a revocation and a sweep decide on   *)
(* the rows they have loaded and write status and audit trail back whole,  *)
(* so each is two steps, and the later writer wins.  The approver's role,  *)
(* the scope and the justification are left out.                           *)
(***************************************************************************)
EXTENDS Integers, Sequences

CONSTANTS
    Acceptances,  \* rows that may be granted
    Handlers      \* requests and scheduled commands that may run at once

VARIABLES
    row,     \* [status, revoked, trail] of each acceptance
    lapsed,  \* whether its expires_at has passed
    loaded,  \* the copies each handler's session holds, by acceptance
    doing    \* what the handler is doing with them

vars == <<row, lapsed, loaded, doing>>

Ended == {"expired", "revoked"}
Status == {"absent", "active"} \union Ended
AuditActions == {"granted"} \union Ended

\* revoked stands for revoked_at, revoked_by_id and revoked_reason.
Rows == [status : Status, revoked : BOOLEAN, trail : Seq(AuditActions)]
Absent == [status |-> "absent", revoked |-> FALSE, trail |-> <<>>]

\* A session holds copies of some of the rows.
NoCopies == [a \in Acceptances |-> Absent]

Init ==
    /\ row = [a \in Acceptances |-> Absent]
    /\ lapsed = [a \in Acceptances |-> FALSE]
    /\ loaded = [h \in Handlers |-> NoCopies]
    /\ doing = [h \in Handlers |-> "idle"]

-----------------------------------------------------------------------------

\* create_application_risk_acceptance refuses an expiry that has passed.
Grant(a) ==
    /\ row[a] = Absent
    /\ row' = [row EXCEPT ![a] = [status |-> "active", revoked |-> FALSE,
                                  trail |-> <<"granted">>]]
    /\ UNCHANGED <<lapsed, loaded, doing>>

\* Time passes the row's expires_at.
Lapse(a) ==
    /\ row[a] # Absent
    /\ ~lapsed[a]
    /\ lapsed' = [lapsed EXCEPT ![a] = TRUE]
    /\ UNCHANGED <<row, loaded, doing>>

Holds(h, a) == loaded[h][a] # Absent

Loads(h, rows, job) ==
    /\ doing[h] = "idle"
    /\ loaded' = [loaded EXCEPT ![h] = [a \in Acceptances |->
                                IF a \in rows THEN row[a] ELSE Absent]]
    /\ doing' = [doing EXCEPT ![h] = job]
    /\ UNCHANGED <<row, lapsed>>

\* revoke_application_risk_acceptance up to its check, which an acceptance
\* that is revoked already does not pass.
RevokeLoad(h, a) ==
    /\ row[a].status \notin {"absent", "revoked"}
    /\ Loads(h, {a}, "revoke")

\* Mutation: elapsed rows are selected whatever their status.
ElapsedOfAnyStatus == {a \in Acceptances : row[a] # Absent /\ lapsed[a]}

\* Mutation: rows are swept before they elapse.
ActiveOnly == {a \in Acceptances : row[a].status = "active"}

\* What expire_application_risk_acceptances selects.
Elapsed == {a \in Acceptances : row[a].status = "active" /\ lapsed[a]}

SweepLoad(h) ==
    /\ Elapsed # {}
    /\ Loads(h, Elapsed, "expire")

Leave(h) ==
    /\ loaded' = [loaded EXCEPT ![h] = NoCopies]
    /\ doing' = [doing EXCEPT ![h] = "idle"]

\* Mutation: both endings are written as one status, which the table refuses.
OneEnding(copy, action) == [copy EXCEPT !.status = "ended", !.trail = Append(@, action)]

\* Mutation: the event replaces the trail.
EventOnly(copy, action) == [copy EXCEPT !.status = action, !.trail = <<action>>]

\* A row's status and trail as the session writes them: from its own copy.
Ending(copy, action) == [copy EXCEPT !.status = action, !.trail = Append(@, action)]

\* Mutation: the sweep writes every column of its copies.
SweepWriteWhole(h) ==
    /\ doing[h] = "expire"
    /\ row' = [a \in Acceptances |->
                 IF Holds(h, a) THEN Ending(loaded[h][a], "expired")
                 ELSE row[a]]
    /\ Leave(h)
    /\ UNCHANGED lapsed

\* The sweep's flush and commit: all its rows or none; the fields of a
\* revocation committed in between are not in its UPDATE.
SweepWrite(h) ==
    /\ doing[h] = "expire"
    /\ row' = [a \in Acceptances |->
                 IF Holds(h, a)
                 THEN [Ending(loaded[h][a], "expired") EXCEPT !.revoked = row[a].revoked]
                 ELSE row[a]]
    /\ Leave(h)
    /\ UNCHANGED lapsed

\* The revocation's flush and commit.
RevokeWrite(h) ==
    /\ doing[h] = "revoke"
    /\ row' = [a \in Acceptances |->
                 IF Holds(h, a)
                 THEN [Ending(loaded[h][a], "revoked") EXCEPT !.revoked = TRUE]
                 ELSE row[a]]
    /\ Leave(h)
    /\ UNCHANGED lapsed

\* The request fails or its process dies before the commit.
Crash(h) ==
    /\ doing[h] # "idle"
    /\ Leave(h)
    /\ UNCHANGED <<row, lapsed>>

Next ==
    \/ \E a \in Acceptances : Grant(a) \/ Lapse(a)
    \/ \E h \in Handlers :
          \/ \E a \in Acceptances : RevokeLoad(h, a)
          \/ SweepLoad(h) \/ SweepWrite(h) \/ RevokeWrite(h) \/ Crash(h)

Spec == Init /\ [][Next]_vars

-----------------------------------------------------------------------------
TypeOK ==
    /\ row \in [Acceptances -> Rows]
    /\ lapsed \in [Acceptances -> BOOLEAN]
    /\ doing \in [Handlers -> {"idle", "revoke", "expire"}]
    /\ loaded \in [Handlers -> [Acceptances -> Rows]]

\* An acceptance counts or it has ended for good, and "expired" is said of
\* elapsed ones only: each row lives the life AcceptanceLife describes.
Life(a) == INSTANCE AcceptanceLife WITH acceptance <- row[a].status, lapsed <- lapsed[a]
ImplementsLife ==
    /\ \A a \in Acceptances : Life(a)!LifeInit
    /\ [][\A a \in Acceptances : [Life(a)!LifeNext]_(Life(a)!lifeVars)]_vars

\* Who revoked an acceptance and why is never lost, and it never counts again,
\* whichever sweep or second revocation writes over the first.
RevocationKept ==
    [][\A a \in Acceptances :
          row[a].revoked => row'[a].revoked /\ row'[a].status \in Ended]_vars

\* A revoked acceptance reads as expired again only when a sweep writes that
\* had selected it while it was active.
UnrevokedByStaleSweep ==
    [][\A a \in Acceptances :
          row[a].status = "revoked" /\ row'[a].status # "revoked"
             => \E h \in Handlers :
                   /\ doing[h] = "expire" /\ doing'[h] = "idle"
                   /\ Holds(h, a)
                   /\ loaded[h][a].status = "active"]_vars

\* No event is lost from a trail but by a writer whose copy lacks it, and the
\* grant never is.
TrailLostByStaleWriter ==
    [][\A a \in Acceptances :
          row[a] # Absent =>
             /\ row'[a].trail[1] = "granted"
             /\ \/ /\ Len(row'[a].trail) >= Len(row[a].trail)
                   /\ SubSeq(row'[a].trail, 1, Len(row[a].trail)) = row[a].trail
                \/ \E h \in Handlers :
                      /\ doing[h] # "idle" /\ doing'[h] = "idle"
                      /\ Holds(h, a)
                      /\ loaded[h][a].trail # row[a].trail]_vars
=============================================================================
