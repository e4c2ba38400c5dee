------------------------- MODULE RemediationHandoff -------------------------
(***************************************************************************)
(* The hand-off of one drafted remediation to a ticket system: the row of  *)
(* threat_remediation_runs, the requests that confirm the hand-off or      *)
(* attach evidence, and the issues they open at the provider               *)
(* (backend/app/services/threat_agent_orchestration.py,                    *)
(* backend/app/api/threat_agent_orchestration.py; the provider, behind     *)
(* services/remediation_connectors.py, is external).                       *)
(*                                                                         *)
(* A request loads the row, calls the provider without a lock on it and    *)
(* writes the attributes it has changed at its commit.                     *)
(***************************************************************************)
EXTENDS Integers, Sequences

CONSTANTS
    Confirmers,  \* requests that may be in flight at once
    Keys,        \* idempotency keys of the hand-offs
    MaxIssues,   \* bound of the model
    MaxRefs,     \* bound of the model
    NoTicket     \* no ticket, no key

ASSUME BoundsAssumption == MaxIssues \in Nat /\ MaxRefs \in Nat
ASSUME NoTicketAssumption == NoTicket \notin Nat

VARIABLES
    remediation,  \* status, delivery, ticket, key and number of evidence refs
    issues,       \* the key each issue at the provider was opened for
    step,         \* what each request is doing
    mine,         \* the row each request has loaded
    sent          \* the key it was sent with and the issue it has opened

handoffVars == <<remediation, issues, step, mine, sent>>

Tickets == 1..MaxIssues
External == 0  \* the id of a ticket the user has opened elsewhere
RemediationStatus == {"absent", "awaiting_confirmation", "handoff_created"}

Nothing == [key |-> NoTicket, ticket |-> NoTicket]

HandoffInit ==
    /\ remediation = [status |-> "absent", delivery |-> "recorded",
                      ticket |-> NoTicket, key |-> NoTicket, refs |-> 0]
    /\ issues = <<>>
    /\ step = [c \in Confirmers |-> "idle"]
    /\ mine = [c \in Confirmers |-> NoTicket]
    /\ sent = [c \in Confirmers |-> Nothing]

-----------------------------------------------------------------------------

\* create_threat_remediation_run drafts the fix from the evidence there is.
DraftFix ==
    /\ remediation.status = "absent"
    /\ remediation' = [remediation EXCEPT !.status = "awaiting_confirmation"]
    /\ UNCHANGED <<issues, step, mine, sent>>

Enter(c, name, k) ==
    /\ step[c] = "idle"
    /\ remediation.status # "absent"
    /\ remediation.refs < MaxRefs
    /\ step' = [step EXCEPT ![c] = name]
    /\ mine' = [mine EXCEPT ![c] = remediation]
    /\ sent' = [sent EXCEPT ![c] = [key |-> k, ticket |-> NoTicket]]
    /\ UNCHANGED <<remediation, issues>>

\* Mutation: a hand-off is delivered again although it was.
NeverDelivered == FALSE

\* A delivered hand-off is answered from the row for the same key and refused
\* for another one: either way the request ends.
AlreadyDelivered ==
    remediation.delivery = "delivered" /\ remediation.ticket # NoTicket

\* confirm_remediation_handoff for an issue to be opened at GitHub.
Confirm(c) ==
    /\ ~AlreadyDelivered
    /\ \E k \in Keys : Enter(c, "deliver", k)

\* confirm_remediation_handoff for a ticket opened elsewhere.
Record(c) == \E k \in Keys : Enter(c, "recorded", k)

\* attach_remediation_evidence.
Attach(c) == Enter(c, "attached", NoTicket)

\* create_remediation_provider_ticket: an answer that is lost reads as failed.
Deliver(c) ==
    /\ step[c] = "deliver"
    /\ \/ /\ Len(issues) < MaxIssues
          /\ issues' = Append(issues, sent[c].key)
          /\ sent' = [sent EXCEPT ![c].ticket = Len(issues')]
          /\ \E s \in {"delivered", "failed"} : step' = [step EXCEPT ![c] = s]
       \/ /\ step' = [step EXCEPT ![c] = "failed"]
          /\ UNCHANGED <<issues, sent>>
    /\ UNCHANGED <<remediation, mine>>

\* Mutation: a ticket recorded by hand does not reset the delivery status.
RecordKeepsDelivery(c) ==
    CASE step[c] = "failed" ->
           [mine[c] EXCEPT !.status = "awaiting_confirmation",
                           !.delivery = "failed", !.key = sent[c].key]
      [] step[c] = "attached" -> [mine[c] EXCEPT !.refs = @ + 1]
      [] step[c] = "recorded" ->
           [mine[c] EXCEPT !.status = "handoff_created", !.key = sent[c].key,
                           !.ticket = External, !.refs = @ + 1]
      [] step[c] = "delivered" ->
           [status |-> "handoff_created", delivery |-> "delivered", key |-> sent[c].key,
            ticket |-> sent[c].ticket, refs |-> mine[c].refs + 1]

\* Mutation: what is attached counts as a hand-off.
AttachedIsHandedOff(c) ==
    IF step[c] = "failed"
    THEN [mine[c] EXCEPT !.status = "awaiting_confirmation",
                         !.delivery = "failed", !.key = sent[c].key]
    ELSE [status |-> "handoff_created", delivery |-> step[c], key |-> sent[c].key,
          ticket |-> IF step[c] = "recorded" THEN External ELSE sent[c].ticket,
          refs |-> mine[c].refs + 1]

\* Mutation: the list of evidence is begun anew.
OwnRefOnly(c) ==
    CASE step[c] = "failed" ->
           [mine[c] EXCEPT !.status = "awaiting_confirmation",
                           !.delivery = "failed", !.key = sent[c].key]
      [] step[c] = "attached" -> [mine[c] EXCEPT !.refs = 1]
      [] step[c] \in {"delivered", "recorded"} ->
           [status |-> "handoff_created", delivery |-> step[c], key |-> sent[c].key,
            ticket |-> IF step[c] = "recorded" THEN External ELSE sent[c].ticket,
            refs |-> 1]

\* The row as the request leaves its copy.
Handled(c) ==
    CASE step[c] = "failed" ->
           [mine[c] EXCEPT !.status = "awaiting_confirmation",
                           !.delivery = "failed", !.key = sent[c].key]
      [] step[c] = "attached" -> [mine[c] EXCEPT !.refs = @ + 1]
      [] step[c] \in {"delivered", "recorded"} ->
           [status |-> "handoff_created", delivery |-> step[c], key |-> sent[c].key,
            ticket |-> IF step[c] = "recorded" THEN External ELSE sent[c].ticket,
            refs |-> mine[c].refs + 1]

\* The unit of work writes the attributes that differ from the loaded ones.
Changed(now, loaded, new) ==
    [a \in DOMAIN new |-> IF new[a] = loaded[a] THEN now[a] ELSE new[a]]

EndRequest(c) ==
    /\ step' = [step EXCEPT ![c] = "idle"]
    /\ mine' = [mine EXCEPT ![c] = NoTicket]
    /\ sent' = [sent EXCEPT ![c] = Nothing]

\* Flush and commit.
Commit(c) ==
    /\ step[c] \in {"delivered", "recorded", "failed", "attached"}
    /\ remediation' = Changed(remediation, mine[c], Handled(c))
    /\ EndRequest(c)
    /\ UNCHANGED issues

\* The process dies, perhaps with an issue just opened.
Die(c) ==
    /\ step[c] # "idle"
    /\ EndRequest(c)
    /\ UNCHANGED <<remediation, issues>>

HandoffNext ==
    \/ DraftFix
    \/ \E c \in Confirmers :
          Confirm(c) \/ Record(c) \/ Attach(c) \/ Deliver(c) \/ Commit(c) \/ Die(c)

HandoffSpec == HandoffInit /\ [][HandoffNext]_handoffVars

-----------------------------------------------------------------------------
HandoffTypeOK ==
    /\ remediation.status \in RemediationStatus
    /\ remediation.delivery \in {"recorded", "delivered", "failed"}
    /\ remediation.ticket \in Tickets \union {External, NoTicket}
    /\ remediation.key \in Keys \union {NoTicket}
    /\ remediation.refs \in 0..MaxRefs
    /\ issues \in Seq(Keys) /\ Len(issues) <= MaxIssues
    /\ step \in [Confirmers -> {"idle", "deliver", "delivered", "recorded",
                                "failed", "attached"}]

\* A remediation that is handed off names its ticket, and one that reads as
\* delivered the issue that was opened for the key it carries.
TicketBacksStatus ==
    /\ remediation.status = "handoff_created" => remediation.ticket # NoTicket
    /\ remediation.delivery = "delivered" =>
          /\ remediation.ticket \in 1..Len(issues)
          /\ issues[remediation.ticket] = remediation.key

\* Status, ticket, key and delivery are parted only by a request whose copy of
\* the row was stale: its UPDATE carries what it changed and no more.
PartedByStaleCopyOnly ==
    [][TicketBacksStatus /\ ~TicketBacksStatus'
          => \E c \in Confirmers :
                step[c] # "idle" /\ step'[c] = "idle" /\ mine[c] # remediation]_handoffVars

\* An issue is opened for a row that reads as delivered only by a request that
\* had loaded the row before.
SecondIssueByStaleCopyOnly ==
    [][issues' # issues /\ remediation.delivery = "delivered"
          => \E c \in Confirmers :
                step[c] = "deliver" /\ step'[c] # "deliver" /\ mine[c] # remediation]_handoffVars

\* A request that adds a reference to the evidence adds it to all there is,
\* or another one has added to the row since it was loaded.
RefLostByStaleCopyOnly ==
    [][\A c \in Confirmers :
          Commit(c) /\ step[c] # "failed" =>
             remediation'.refs = remediation.refs + 1 \/ mine[c].refs # remediation.refs]_handoffVars
=============================================================================
