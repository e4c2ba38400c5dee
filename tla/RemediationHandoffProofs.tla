---------------------- MODULE RemediationHandoffProofs ----------------------
(***************************************************************************)
(* Theorems about RemediationHandoff, for any requests, keys and bounds.   *)
(***************************************************************************)
EXTENDS RemediationHandoff, TLAPS

-----------------------------------------------------------------------------
(* The inductive invariant types what each request holds, and ties what it *)
(* is going to write to what it has done: a request that reads its         *)
(* delivery as delivered has opened the issue it will name, for the key it *)
(* will write.                                                             *)

Remediation == [status : RemediationStatus, delivery : {"recorded", "delivered", "failed"},
                ticket : Tickets \union {External, NoTicket},
                key : Keys \union {NoTicket}, refs : 0..MaxRefs]

Steps == {"idle", "deliver", "delivered", "recorded", "failed", "attached"}

Sent == [key : Keys \union {NoTicket}, ticket : Tickets \union {NoTicket}]

\* What request c has in its session.
Holding(c) ==
  /\ step[c] # "idle" => mine[c] \in Remediation /\ mine[c].refs < MaxRefs
  /\ step[c] \in {"deliver", "delivered", "recorded", "failed"} => sent[c].key \in Keys
  /\ step[c] = "delivered" =>
        /\ sent[c].ticket \in 1..Len(issues)
        /\ issues[sent[c].ticket] = sent[c].key

Inv ==
  /\ remediation \in Remediation
  /\ issues \in Seq(Keys) /\ Len(issues) <= MaxIssues
  /\ step \in [Confirmers -> Steps]
  /\ sent \in [Confirmers -> Sent]
  /\ DOMAIN mine = Confirmers /\ mine = [c \in Confirmers |-> mine[c]]
  /\ \A c \in Confirmers : Holding(c)

LEMMA InitInv == HandoffInit => Inv
  BY BoundsAssumption
  DEF HandoffInit, Inv, Remediation, RemediationStatus, Steps, Sent, Nothing, Holding

LEMMA EndRequestInv ==
  ASSUME Inv, NEW c \in Confirmers, EndRequest(c), issues' = issues
  PROVE  /\ step' \in [Confirmers -> Steps]
         /\ sent' \in [Confirmers -> Sent]
         /\ DOMAIN mine' = Confirmers /\ mine' = [d \in Confirmers |-> mine'[d]]
         /\ \A d \in Confirmers : Holding(d)'
  BY DEF EndRequest, Inv, Holding, Steps, Sent, Nothing

\* The row that a request leaves behind has the row's type ...
LEMMA HandledTypes ==
  ASSUME Inv, NEW c \in Confirmers,
         step[c] \in {"delivered", "recorded", "failed", "attached"}
  PROVE  Handled(c) \in Remediation
<1>1. /\ mine[c] \in Remediation
      /\ mine[c].refs + 1 \in 0..MaxRefs
      /\ step[c] # "attached" => sent[c].key \in Keys
      /\ sent[c].ticket \in Tickets \union {NoTicket}
  BY BoundsAssumption DEF Inv, Holding, Remediation, Sent
<1>2. CASE step[c] = "failed"
  BY <1>1, <1>2 DEF Handled, Remediation, RemediationStatus
<1>3. CASE step[c] = "attached"
  BY <1>1, <1>3 DEF Handled, Remediation, RemediationStatus
<1>4. CASE step[c] \in {"delivered", "recorded"}
  BY <1>1, <1>4 DEF Handled, Remediation, RemediationStatus
<1> QED
  BY <1>2, <1>3, <1>4

\* ... and so has the merge of two rows.
LEMMA ChangedTypes ==
  ASSUME NEW now \in Remediation, NEW seen \in Remediation, NEW new \in Remediation
  PROVE  /\ Changed(now, seen, new) \in Remediation
         /\ now = seen => Changed(now, seen, new) = new
<1> DEFINE r == Changed(now, seen, new)
<1>1. DOMAIN new = {"status", "delivery", "ticket", "key", "refs"}
  BY DEF Remediation
<1>2. r = [a \in {"status", "delivery", "ticket", "key", "refs"} |->
             IF new[a] = seen[a] THEN now[a] ELSE new[a]]
  BY <1>1 DEF Changed
<1>3. /\ r.status \in {now.status, new.status}
      /\ r.delivery \in {now.delivery, new.delivery}
      /\ r.ticket \in {now.ticket, new.ticket}
      /\ r.key \in {now.key, new.key}
      /\ r.refs \in {now.refs, new.refs}
  BY <1>2
<1>4. r = [status |-> r.status, delivery |-> r.delivery, ticket |-> r.ticket,
           key |-> r.key, refs |-> r.refs]
  BY <1>2
<1>5. r \in Remediation
  BY <1>3, <1>4 DEF Remediation
<1>6. now = seen => \A a \in DOMAIN new : r[a] = new[a]
  BY <1>1, <1>2
<1>7. now = seen => r = new
  BY <1>1, <1>2, <1>6 DEF Remediation
<1> QED
  BY <1>5, <1>7

LEMMA CommitTypes ==
  ASSUME Inv, NEW c \in Confirmers, Commit(c)
  PROVE  /\ remediation' \in Remediation
         /\ remediation = mine[c] => remediation' = Handled(c)
<1>1. mine[c] \in Remediation /\ remediation \in Remediation
  BY DEF Inv, Holding, Commit
<1>2. Handled(c) \in Remediation
  BY HandledTypes DEF Commit
<1>3. remediation' = Changed(remediation, mine[c], Handled(c))
  BY DEF Commit
<1> QED
  BY <1>1, <1>2, <1>3, ChangedTypes

LEMMA NextInv == Inv /\ [HandoffNext]_handoffVars => Inv'
<1> SUFFICES ASSUME Inv, [HandoffNext]_handoffVars PROVE Inv'
  OBVIOUS
<1> USE BoundsAssumption
<1>1. CASE DraftFix
  BY <1>1 DEF DraftFix, Inv, Holding, Remediation, RemediationStatus
<1>2. ASSUME NEW c \in Confirmers, NEW name \in Steps \ {"idle", "delivered"},
             NEW k \in Keys \union {NoTicket}, name # "attached" => k \in Keys,
             Enter(c, name, k)
      PROVE  Inv'
  BY <1>2 DEF Enter, Inv, Holding, Steps, Sent
<1>3. ASSUME NEW c \in Confirmers, Confirm(c) \/ Record(c) \/ Attach(c) PROVE Inv'
  BY <1>2, <1>3 DEF Confirm, Record, Attach, Steps
<1>4. ASSUME NEW c \in Confirmers, Deliver(c) PROVE Inv'
  <2>1. CASE UNCHANGED <<issues, sent>>
    BY <1>4, <2>1 DEF Deliver, Inv, Holding, Steps
  <2>2. CASE /\ Len(issues) < MaxIssues
             /\ issues' = Append(issues, sent[c].key)
             /\ sent' = [sent EXCEPT ![c].ticket = Len(issues')]
             /\ \E s \in {"delivered", "failed"} : step' = [step EXCEPT ![c] = s]
    <3>1. sent[c].key \in Keys /\ issues \in Seq(Keys)
      BY <1>4 DEF Deliver, Inv, Holding
    <3>2. /\ issues' \in Seq(Keys) /\ Len(issues') = Len(issues) + 1
          /\ issues'[Len(issues')] = sent[c].key
          /\ \A i \in 1..Len(issues) : issues'[i] = issues[i]
      BY <2>2, <3>1
    <3>3. Len(issues') \in Tickets /\ Len(issues') <= MaxIssues
      BY <2>2, <3>1, <3>2 DEF Tickets
    <3>4. /\ sent' \in [Confirmers -> Sent]
          /\ sent'[c].key = sent[c].key /\ sent'[c].ticket = Len(issues')
          /\ \A d \in Confirmers \ {c} : sent'[d] = sent[d]
      BY <2>2, <3>3 DEF Inv, Sent
    <3>5. /\ step' \in [Confirmers -> Steps]
          /\ step'[c] \in {"delivered", "failed"}
          /\ \A d \in Confirmers \ {c} : step'[d] = step[d]
      BY <2>2 DEF Inv, Steps
    <3>6. remediation' = remediation /\ mine' = mine
      BY <1>4 DEF Deliver
    <3>7. ASSUME NEW d \in Confirmers PROVE Holding(d)'
      <4>1. CASE d = c
        <5>1. step[c] = "deliver"
          BY <1>4 DEF Deliver
        <5>2. mine[c] \in Remediation /\ mine[c].refs < MaxRefs
          BY <5>1 DEF Inv, Holding
        <5>3. Len(issues') \in 1..Len(issues')
          BY <3>1, <3>2
        <5> QED
          BY <3>1, <3>2, <3>4, <3>5, <3>6, <4>1, <5>2, <5>3 DEF Holding
      <4>2. CASE d # c
        <5>1. Holding(d)
          BY DEF Inv
        <5>2. 1..Len(issues) \subseteq 1..Len(issues')
          BY <3>1, <3>2
        <5> QED
          BY <3>2, <3>4, <3>5, <3>6, <4>2, <5>1, <5>2 DEF Holding
      <4> QED
        BY <4>1, <4>2
    <3> QED
      BY <3>2, <3>3, <3>4, <3>5, <3>6, <3>7 DEF Inv
  <2> QED
    BY <1>4, <2>1, <2>2 DEF Deliver
<1>5. ASSUME NEW c \in Confirmers, Commit(c) PROVE Inv'
  <2>1. EndRequest(c) /\ issues' = issues
    BY <1>5 DEF Commit
  <2>2. remediation' \in Remediation
    BY <1>5, CommitTypes
  <2>3. issues' \in Seq(Keys) /\ Len(issues') <= MaxIssues
    BY <2>1 DEF Inv
  <2> QED
    BY <2>1, <2>2, <2>3, EndRequestInv DEF Inv
<1>6. ASSUME NEW c \in Confirmers, Die(c) PROVE Inv'
  <2>1. EndRequest(c) /\ issues' = issues /\ remediation' = remediation
    BY <1>6 DEF Die
  <2>2. remediation' \in Remediation /\ issues' \in Seq(Keys) /\ Len(issues') <= MaxIssues
    BY <2>1 DEF Inv
  <2> QED
    BY <2>1, <2>2, EndRequestInv DEF Inv
<1>7. CASE UNCHANGED handoffVars
  BY <1>7 DEF handoffVars, Inv, Holding
<1> QED
  BY <1>1, <1>3, <1>4, <1>5, <1>6, <1>7 DEF HandoffNext

\* What the rows, the copies of requests in flight and the issues say of each
\* other is inductive, for any number of requests.
THEOREM InvHolds == HandoffSpec => []Inv
  BY InitInv, NextInv, PTL DEF HandoffSpec

\* The row, the issues and the requests have their types.
THEOREM TypeCorrect == HandoffSpec => []HandoffTypeOK
<1>1. Inv => HandoffTypeOK
  BY DEF Inv, HandoffTypeOK, Remediation, Steps
<1> QED
  BY <1>1, InvHolds, PTL

-----------------------------------------------------------------------------
(* The action properties.                                                  *)

\* A commit on a fresh copy leaves the row consistent.
LEMMA FreshCommitBacks ==
  ASSUME Inv, TicketBacksStatus, NEW c \in Confirmers, Commit(c), mine[c] = remediation
  PROVE  TicketBacksStatus'
<1> USE NoTicketAssumption, BoundsAssumption
<1>1. remediation' = Handled(c) /\ issues' = issues
  BY CommitTypes DEF Commit
<1>2. remediation \in Remediation
  BY DEF Inv
<1>3. CASE step[c] = "failed"
  BY <1>1, <1>2, <1>3 DEF Handled, TicketBacksStatus, Remediation
<1>4. CASE step[c] = "attached"
  BY <1>1, <1>2, <1>4 DEF Handled, TicketBacksStatus, Remediation
<1>5. CASE step[c] = "recorded"
  BY <1>1, <1>5 DEF Handled, TicketBacksStatus, External
<1>6. CASE step[c] = "delivered"
  <2>1. /\ sent[c].ticket \in 1..Len(issues) /\ issues[sent[c].ticket] = sent[c].key
        /\ Len(issues) \in Nat
    BY <1>6 DEF Inv, Holding
  <2>2. remediation'.ticket = sent[c].ticket /\ remediation'.key = sent[c].key
    BY <1>1, <1>6 DEF Handled
  <2>3. sent[c].ticket # NoTicket
    BY <2>1
  <2> QED
    BY <1>1, <2>1, <2>2, <2>3 DEF TicketBacksStatus
<1> QED
  BY <1>3, <1>4, <1>5, <1>6 DEF Commit

LEMMA PartedStep ==
  ASSUME Inv, [HandoffNext]_handoffVars, TicketBacksStatus, ~TicketBacksStatus'
  PROVE  \E c \in Confirmers :
            step[c] # "idle" /\ step'[c] = "idle" /\ mine[c] # remediation
<1>1. ASSUME DraftFix PROVE FALSE
  BY <1>1 DEF DraftFix, TicketBacksStatus, Inv, Remediation
<1>2. ASSUME NEW c \in Confirmers, Confirm(c) \/ Record(c) \/ Attach(c) \/ Die(c)
      PROVE  FALSE
  BY <1>2 DEF Confirm, Record, Attach, Enter, Die, TicketBacksStatus
<1>3. ASSUME NEW c \in Confirmers, Deliver(c) PROVE FALSE
  <2>1. remediation' = remediation /\ issues \in Seq(Keys)
    BY <1>3 DEF Deliver, Inv
  <2>2. CASE issues' = issues
    BY <2>1, <2>2 DEF TicketBacksStatus
  <2>3. CASE issues' = Append(issues, sent[c].key)
    <3>1. sent[c].key \in Keys
      BY <1>3 DEF Deliver, Inv, Holding
    <3>2. \A i \in 1..Len(issues) : i \in 1..Len(issues') /\ issues'[i] = issues[i]
      BY <2>1, <2>3, <3>1
    <3> QED
      BY <2>1, <3>2 DEF TicketBacksStatus
  <2> QED
    BY <1>3, <2>2, <2>3 DEF Deliver
<1>4. ASSUME NEW c \in Confirmers, Commit(c)
      PROVE  step[c] # "idle" /\ step'[c] = "idle" /\ mine[c] # remediation
  <2>1. mine[c] # remediation
    BY <1>4, FreshCommitBacks
  <2>2. step[c] # "idle" /\ step'[c] = "idle"
    BY <1>4 DEF Commit, EndRequest, Inv
  <2> QED
    BY <2>1, <2>2
<1>5. ASSUME UNCHANGED handoffVars PROVE FALSE
  BY <1>5 DEF handoffVars, TicketBacksStatus
<1> QED
  BY <1>1, <1>2, <1>3, <1>4, <1>5 DEF HandoffNext

\* Status, ticket, key and delivery are parted by stale copies only.
THEOREM OnlyStaleCopiesPart == HandoffSpec => PartedByStaleCopyOnly
<1>1. Inv /\ [HandoffNext]_handoffVars =>
        [TicketBacksStatus /\ ~TicketBacksStatus'
          => \E c \in Confirmers :
                step[c] # "idle" /\ step'[c] = "idle" /\ mine[c] # remediation]_handoffVars
  BY PartedStep
<1> QED
  BY <1>1, InvHolds, PTL DEF HandoffSpec, PartedByStaleCopyOnly

LEMMA RefStep ==
  ASSUME Inv, NEW c \in Confirmers, Commit(c), step[c] # "failed"
  PROVE  remediation'.refs = remediation.refs + 1 \/ mine[c].refs # remediation.refs
<1>1. mine[c] \in Remediation
  BY DEF Inv, Holding, Commit
<1>2. Handled(c).refs = mine[c].refs + 1 /\ "refs" \in DOMAIN Handled(c)
  BY <1>1 DEF Handled, Commit, Remediation
<1>3. mine[c].refs + 1 # mine[c].refs
  BY <1>1, BoundsAssumption DEF Remediation
<1>4. remediation'.refs = mine[c].refs + 1
  BY <1>2, <1>3 DEF Commit, Changed
<1> QED
  BY <1>4

\* A reference is lost only to a writer whose copy lacks it.
THEOREM OnlyStaleCopiesLoseRefs == HandoffSpec => RefLostByStaleCopyOnly
<1>1. Inv => [\A c \in Confirmers :
                Commit(c) /\ step[c] # "failed" =>
                   remediation'.refs = remediation.refs + 1 \/ mine[c].refs # remediation.refs]_handoffVars
  BY RefStep
<1> QED
  BY <1>1, InvHolds, PTL DEF HandoffSpec, RefLostByStaleCopyOnly

-----------------------------------------------------------------------------
(* Second issues.  Whatever the merges do, a ticket id is never cleared,   *)
(* so that a row that reads as delivered always has one and a request that *)
(* passes the check of confirm_remediation_handoff has not loaded it.      *)

Named(r) == r.delivery = "delivered" => r.ticket # NoTicket

TicketInv ==
  /\ Named(remediation)
  /\ \A c \in Confirmers :
        /\ step[c] # "idle" =>
              /\ Named(mine[c])
              /\ mine[c].ticket # NoTicket => remediation.ticket # NoTicket
        /\ step[c] = "deliver" => mine[c].delivery # "delivered"

LEMMA InitTicketInv == HandoffInit => TicketInv
  BY DEF HandoffInit, TicketInv, Named

LEMMA CommitNames ==
  ASSUME Inv, TicketInv, NEW c \in Confirmers, Commit(c)
  PROVE  /\ Named(remediation')
         /\ remediation.ticket # NoTicket => remediation'.ticket # NoTicket
<1> USE NoTicketAssumption, BoundsAssumption
<1> DEFINE new == Handled(c)
<1>1. mine[c] \in Remediation /\ new \in Remediation
  BY HandledTypes DEF Inv, Holding, Commit
<1>2. /\ new.ticket = NoTicket => mine[c].ticket = NoTicket
      /\ new.delivery = "delivered" =>
            new.delivery = mine[c].delivery \/ new.ticket # NoTicket
  <2>1. step[c] = "delivered" => sent[c].ticket # NoTicket
    BY DEF Inv, Holding
  <2> QED
    BY <1>1, <2>1 DEF Handled, Commit, Remediation, External
<1>3. /\ remediation'.ticket = IF new.ticket = mine[c].ticket THEN remediation.ticket
                               ELSE new.ticket
      /\ remediation'.delivery = IF new.delivery = mine[c].delivery
                                 THEN remediation.delivery ELSE new.delivery
  BY <1>1 DEF Commit, Changed, Remediation
<1>4. /\ Named(remediation)
      /\ mine[c].ticket # NoTicket => remediation.ticket # NoTicket
  BY DEF TicketInv, Commit
<1> QED
  BY <1>2, <1>3, <1>4 DEF Named

LEMMA NextTicketInv == Inv /\ TicketInv /\ [HandoffNext]_handoffVars => TicketInv'
<1> SUFFICES ASSUME Inv, TicketInv, [HandoffNext]_handoffVars PROVE TicketInv'
  OBVIOUS
<1>1. CASE DraftFix
  BY <1>1 DEF DraftFix, TicketInv, Named, Inv, Remediation
<1>2. ASSUME NEW c \in Confirmers, NEW name \in Steps \ {"idle"}, NEW k,
             name = "deliver" => remediation.delivery # "delivered",
             Enter(c, name, k)
      PROVE  TicketInv'
  BY <1>2 DEF Enter, TicketInv, Named, Inv, Holding
<1>3. ASSUME NEW c \in Confirmers, Confirm(c) PROVE TicketInv'
  <2>1. remediation.delivery # "delivered"
    BY <1>3 DEF Confirm, AlreadyDelivered, TicketInv, Named
  <2> QED
    BY <1>2, <1>3, <2>1 DEF Confirm, Steps
<1>4. ASSUME NEW c \in Confirmers, Record(c) \/ Attach(c) PROVE TicketInv'
  BY <1>2, <1>4 DEF Record, Attach, Steps
<1>5. ASSUME NEW c \in Confirmers, Deliver(c) PROVE TicketInv'
  BY <1>5 DEF Deliver, TicketInv, Named, Inv
<1>6. ASSUME NEW c \in Confirmers, EndRequest(c),
             Named(remediation'),
             remediation.ticket # NoTicket => remediation'.ticket # NoTicket
      PROVE  TicketInv'
  BY <1>6 DEF EndRequest, TicketInv, Named, Inv
<1>7. ASSUME NEW c \in Confirmers, Commit(c) PROVE TicketInv'
  BY <1>6, <1>7, CommitNames DEF Commit
<1>8. ASSUME NEW c \in Confirmers, Die(c) PROVE TicketInv'
  BY <1>6, <1>8 DEF Die, TicketInv
<1>9. CASE UNCHANGED handoffVars
  BY <1>9 DEF handoffVars, TicketInv, Named
<1> QED
  BY <1>1, <1>3, <1>4, <1>5, <1>7, <1>8, <1>9 DEF HandoffNext

LEMMA SecondIssueStep ==
  ASSUME Inv, TicketInv, [HandoffNext]_handoffVars,
         issues' # issues, remediation.delivery = "delivered"
  PROVE  \E c \in Confirmers :
            step[c] = "deliver" /\ step'[c] # "deliver" /\ mine[c] # remediation
<1>1. PICK c \in Confirmers : Deliver(c)
  BY DEF HandoffNext, DraftFix, Confirm, Record, Attach, Enter, Commit, Die, handoffVars
<1>2. step[c] = "deliver" /\ step'[c] # "deliver"
  BY <1>1 DEF Deliver, Inv
<1>3. mine[c] # remediation
  BY <1>2 DEF TicketInv
<1> QED
  BY <1>2, <1>3

\* A delivered hand-off is delivered again only by a request that had loaded
\* the row before.
THEOREM OnlyStaleCopiesOpenIssues == HandoffSpec => SecondIssueByStaleCopyOnly
<1>1. Inv /\ TicketInv /\ [HandoffNext]_handoffVars =>
        [issues' # issues /\ remediation.delivery = "delivered"
          => \E c \in Confirmers :
                step[c] = "deliver" /\ step'[c] # "deliver" /\ mine[c] # remediation]_handoffVars
  BY SecondIssueStep
<1> QED
  BY <1>1, InvHolds, InitTicketInv, NextTicketInv, PTL
  DEF HandoffSpec, SecondIssueByStaleCopyOnly

-----------------------------------------------------------------------------
(* One request at a time.  A sole request's copy is the row, so what only  *)
(* a stale copy can break is kept.                                         *)

Alone == \A b, c \in Confirmers : b = c
Fresh == \A c \in Confirmers :
            step[c] # "idle" => mine[c] = remediation /\ remediation.status # "absent"

LEMMA NextFresh == ASSUME Alone PROVE Inv /\ Fresh /\ [HandoffNext]_handoffVars => Fresh'
<1> SUFFICES ASSUME Inv, Fresh, [HandoffNext]_handoffVars PROVE Fresh'
  OBVIOUS
<1> USE DEF Fresh, Inv
<1>1. CASE DraftFix
  BY <1>1 DEF DraftFix
<1>2. ASSUME NEW c \in Confirmers, NEW name, NEW k, Enter(c, name, k) PROVE Fresh'
  BY <1>2 DEF Enter
<1>3. ASSUME NEW c \in Confirmers, Deliver(c) PROVE Fresh'
  BY <1>3 DEF Deliver
<1>4. ASSUME NEW c \in Confirmers, EndRequest(c) PROVE Fresh'
  BY <1>4, Alone DEF Alone, EndRequest
<1>5. CASE UNCHANGED handoffVars
  BY <1>5 DEF handoffVars
<1> QED
  BY <1>1, <1>2, <1>3, <1>4, <1>5
  DEF HandoffNext, Confirm, Record, Attach, Commit, Die

LEMMA FreshInvariant == ASSUME Alone PROVE HandoffSpec => [](Inv /\ Fresh)
<1>1. HandoffInit => Fresh
  BY DEF HandoffInit, Fresh
<1>2. Inv /\ Fresh /\ [HandoffNext]_handoffVars => Fresh'
  BY Alone, NextFresh
<1> QED
  BY <1>1, <1>2, InvHolds, PTL DEF HandoffSpec

\* Requests that never overlap, though their answers be lost, keep status,
\* ticket, key and delivery of the row together.
THEOREM LoneRequestsBackStatus == ASSUME Alone PROVE HandoffSpec => []TicketBacksStatus
<1>1. HandoffInit => TicketBacksStatus
  BY DEF HandoffInit, TicketBacksStatus
<1>2. /\ Inv /\ Fresh /\ TicketBacksStatus /\ [HandoffNext]_handoffVars
      => TicketBacksStatus'
  <2> SUFFICES ASSUME Inv, Fresh, TicketBacksStatus, [HandoffNext]_handoffVars,
                      ~TicketBacksStatus'
               PROVE  FALSE
    OBVIOUS
  <2>1. PICK c \in Confirmers : step[c] # "idle" /\ mine[c] # remediation
    BY PartedStep
  <2> QED
    BY <2>1 DEF Fresh
<1> QED
  BY <1>1, <1>2, FreshInvariant, PTL DEF HandoffSpec

\* A commit that attaches evidence adds its reference to all there are.
RefsAreKept ==
  [][\A c \in Confirmers :
        Commit(c) /\ step[c] # "failed" => remediation'.refs = remediation.refs + 1]_handoffVars

\* Requests that never overlap lose no reference to the evidence.
THEOREM LoneRequestsKeepRefs == ASSUME Alone PROVE HandoffSpec => RefsAreKept
<1>1. Inv /\ Fresh =>
        [\A c \in Confirmers :
           Commit(c) /\ step[c] # "failed" =>
              remediation'.refs = remediation.refs + 1]_handoffVars
  <2> SUFFICES ASSUME Inv, Fresh, NEW c \in Confirmers, Commit(c), step[c] # "failed"
               PROVE  remediation'.refs = remediation.refs + 1
    OBVIOUS
  <2>1. mine[c].refs = remediation.refs
    BY DEF Fresh, Commit
  <2> QED
    BY <2>1, RefStep
<1> QED
  BY <1>1, FreshInvariant, PTL DEF HandoffSpec, RefsAreKept
=============================================================================
