--------------------------- MODULE AcceptanceLife ---------------------------
(***************************************************************************)
(* What the rest of the system may rely on about the acceptance of a risk, *)
(* whatever its requests do to each other: it is granted once, time passes *)
(* its expires_at, and a status that has left "active" never returns there *)
(* although it may change between "expired" and "revoked".  RiskAcceptance *)
(* is shown to implement it, ReviewDecision is built on it.                *)
(***************************************************************************)

VARIABLES
    acceptance,  \* application_risk_acceptances.status, "absent" before it
    lapsed       \* whether expires_at has passed

lifeVars == <<acceptance, lapsed>>

Ended == {"expired", "revoked"}
AcceptanceStatus == {"absent", "active"} \union Ended

LifeInit == acceptance = "absent" /\ lapsed = FALSE

GrantAcceptance ==
    /\ acceptance = "absent"
    /\ acceptance' = "active"
    /\ UNCHANGED lapsed

\* Expiry is recorded by a job that runs after it, revocation at any time.
EndAcceptance ==
    /\ acceptance \in {"active"} \union Ended
    /\ \/ acceptance' = "revoked"
       \/ acceptance' = "expired" /\ lapsed
    /\ UNCHANGED lapsed

Lapse ==
    /\ acceptance # "absent"
    /\ ~lapsed
    /\ lapsed' = TRUE
    /\ UNCHANGED acceptance

LifeNext == GrantAcceptance \/ EndAcceptance \/ Lapse

LifeSpec == LifeInit /\ [][LifeNext]_lifeVars
=============================================================================
