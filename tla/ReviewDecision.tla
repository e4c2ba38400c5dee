--------------------------- MODULE ReviewDecision ---------------------------
(***************************************************************************)
(* The decision of one pull-request review and its way to GitHub: the      *)
(* context index, the evaluation with its stored replay, the dispatch row  *)
(* and the two posts that deliver it                                       *)
(* (backend/app/services/application_review_context.py,                    *)
(* application_review_decision.py, github_pr_integration.py and            *)
(* backend/app/api/github_integration.py).                                 *)
(*                                                                         *)
(* Sessions run at READ COMMITTED with expire_on_commit off: a request     *)
(* decides on the copy of the review it loaded first.  Row locks are held  *)
(* from an UPDATE to the commit; the review is locked by the flush before  *)
(* a query, the dispatch row by its claim, which is committed together     *)
(* with the outcome of the delivery.                                       *)
(*                                                                         *)
(* Evidence is one high-severity finding that the code context supports    *)
(* and one acceptance of it; the other signals of _decide are left out.    *)
(* The bundle and scan stages, and the table of the statuses, are in       *)
(* ReviewIntake; a review is here before, at or after its index.           *)
(***************************************************************************)
EXTENDS Integers, FiniteSets, AcceptanceLife

CONSTANTS
    Handlers,   \* requests that may be in flight at once
    MaxEvents,  \* bound of the model: requests and outside events in all
    None        \* no value

VARIABLES
    review,    \* status, decision and deterministic_decision_replay of the row
    index,     \* the active context entries each handler's last rebuild left
    finding,   \* whether a scan has recorded the finding
    link,      \* whether the repository link is active
    dispatch,  \* the committed github_review_dispatches row
    github,    \* the decisions the comment and the commit status show
    pc,        \* stage of each request
    webhook,   \* whether the request is a delivery of a GitHub event
    copy,      \* the review in the request's session
    read,      \* rebuild: whose entries will be marked stale; and the new ones
    draft,     \* evaluation: the snapshot, the decision and whether it is new
    row,       \* the dispatch row the evaluation loaded, or the outcome to be set
    events     \* requests and outside events so far (bound of the model)

worldVars == <<acceptance, lapsed, finding, link>>
sessVars == <<webhook, copy, read, draft, row>>
vars == <<acceptance, lapsed, review, index, finding, link, dispatch, github,
          pc, webhook, copy, read, draft, row, events>>

Decisions == {"gather_evidence", "pass", "verify", "block"}
Failures == {"retryable_failed", "terminal_failed"}
Queued == {"queued", "retryable_failed"}

\* The entries of one rebuild, as far as decisions tell them apart: the status
\* in the review's profile, the finding, the acceptance as it was.
Entries == [at : {"indexing", "completed"}, finding : BOOLEAN,
            acceptance : AcceptanceStatus]

\* A snapshot of the evidence, the replay stored with a decision, the row of
\* the review and the one of its dispatch.
Snapshots == SUBSET [entries : Entries, count : Nat]
Replays == [snap : Snapshots, decision : Decisions]
Reviews == [status : {"created", "indexing", "completed"},
            decision : Decisions \union {None}, replay : Replays \union {None}]
Dispatches == [status : {"queued", "dispatched"} \union Failures,
               decision : Decisions]

\* What a rebuild has selected, what an evaluation has drawn up, the dispatch
\* row it loaded.
Reads == [stale : SUBSET Handlers, entries : Entries]
Drafts == [snap : Snapshots, decision : Decisions, new : BOOLEAN]
Loaded == [seen : Dispatches \union {None}]

ASSUME HandlersAssumption == IsFiniteSet(Handlers)
ASSUME EventsAssumption == MaxEvents \in Nat
ASSUME NoneAssumption ==
    None \notin Decisions \union Replays \union Dispatches \union Reads

Pc == {"idle", "rebuild", "reindex", "evaluate", "flush", "commit",
       "claim", "prepare", "comment", "state", "outcome"}

Init ==
    /\ LifeInit
    /\ review = [status |-> "created", decision |-> None, replay |-> None]
    /\ index = [h \in Handlers |-> None]
    /\ finding = FALSE
    /\ link = TRUE
    /\ dispatch = None
    /\ github = [comment |-> None, state |-> None]
    /\ pc = [h \in Handlers |-> "idle"]
    /\ webhook = [h \in Handlers |-> FALSE]
    /\ copy = [h \in Handlers |-> None]
    /\ read = [h \in Handlers |-> None]
    /\ draft = [h \in Handlers |-> None]
    /\ row = [h \in Handlers |-> None]
    /\ events = 0

-----------------------------------------------------------------------------
(* Sessions and locks.                                                     *)

\* The request ends, or its process does: what was not committed is undone.
Leave(h) ==
    /\ pc' = [pc EXCEPT ![h] = "idle"]
    /\ webhook' = [webhook EXCEPT ![h] = FALSE]
    /\ copy' = [copy EXCEPT ![h] = None]
    /\ read' = [read EXCEPT ![h] = None]
    /\ draft' = [draft EXCEPT ![h] = None]
    /\ row' = [row EXCEPT ![h] = None]

\* Transactions that have updated the review's row and not committed yet: a
\* rebuild that moved the status, an evaluation with a new decision.
HoldsReview(h) ==
    \/ pc[h] = "reindex" /\ copy[h].status = "created"
    \/ pc[h] = "commit" /\ draft[h].new
ReviewFree(h) == \A g \in Handlers \ {h} : ~HoldsReview(g)

\* The claim of the dispatch row lasts until its outcome is committed.
Sending(h) == pc[h] \in {"prepare", "comment", "state", "outcome"}
DispatchFree == \A h \in Handlers : ~Sending(h)

Counted == events < MaxEvents /\ events' = events + 1

\* A request begins: a rebuild or an evaluation on its own, or the delivery of
\* an event of the pull request, which does both and then dispatches.
Begin(h) ==
    /\ pc[h] = "idle"
    /\ Counted
    /\ copy' = [copy EXCEPT ![h] = review]
    /\ \/ /\ \E s \in {"rebuild", "evaluate"} : pc' = [pc EXCEPT ![h] = s]
          /\ UNCHANGED webhook
       \/ /\ link
          /\ pc' = [pc EXCEPT ![h] = "rebuild"]
          /\ webhook' = [webhook EXCEPT ![h] = TRUE]
    /\ UNCHANGED <<worldVars, review, index, dispatch, github, read, draft, row>>

-----------------------------------------------------------------------------
(* Context index.                                                          *)

\* rebuild_review_context_index: the status moves, then entries, acceptances
\* and findings are selected.
RebuildRead(h) ==
    /\ pc[h] = "rebuild"
    /\ copy[h].status = "created" => ReviewFree(h)
    /\ read' = [read EXCEPT ![h] =
          [stale |-> {g \in Handlers : index[g] # None},
           entries |-> [at |-> IF copy[h].status = "created" THEN "indexing"
                               ELSE copy[h].status,
                        finding |-> finding, acceptance |-> acceptance]]]
    /\ pc' = [pc EXCEPT ![h] = "reindex"]
    /\ UNCHANGED <<worldVars, review, index, dispatch, github, webhook, copy,
                   draft, row, events>>

\* The commit.  Entries inserted after the selection stay active beside it.
RebuildCommit(h) ==
    /\ pc[h] = "reindex"
    /\ LET new == read[h].entries
       IN  /\ index' = [g \in Handlers |-> IF g = h THEN new
                                           ELSE IF g \in read[h].stale THEN None
                                           ELSE index[g]]
           /\ review' = IF copy[h].status = new.at THEN review
                        ELSE [review EXCEPT !.status = new.at]
           /\ read' = [g \in Handlers |->
                         IF g = h \/ read[g] = None THEN None
                         ELSE [read[g] EXCEPT !.stale = @ \ {h}]]
           /\ pc' = [pc EXCEPT ![h] = IF webhook[h] THEN "evaluate" ELSE "idle"]
           /\ copy' = [copy EXCEPT ![h] = IF webhook[h] THEN [@ EXCEPT !.status = new.at]
                                          ELSE None]
           /\ UNCHANGED <<webhook, draft, row>>
    /\ UNCHANGED <<worldVars, dispatch, github, events>>

-----------------------------------------------------------------------------
(* Evaluation.                                                             *)

\* build_decision_evidence_snapshot: the active entries, with repetitions and
\* without their ids or times.
Snapshot ==
    {[entries |-> index[h], count |-> Cardinality({g \in Handlers : index[g] = index[h]})] :
        h \in {g \in Handlers : index[g] # None}}

\* _decide.  An acceptance counts if its entry says it is active and its
\* expires_at has not passed by now.
Decide(snap) ==
    LET seen == {s.entries : s \in snap}
    IN  CASE seen = {} -> "gather_evidence"
          [] seen # {} /\ \A e \in seen : ~e.finding -> "pass"
          [] OTHER -> IF ~lapsed /\ \E e \in seen : e.acceptance = "active"
                      THEN "verify" ELSE "block"

\* A decision stored for the same evidence is returned as it is.
Replayed(h, snap) == copy[h].replay # None /\ copy[h].replay.snap = snap

\* evaluate_application_review_decision up to its first UPDATE.
EvaluateRead(h) ==
    /\ pc[h] = "evaluate"
    /\ draft' = [draft EXCEPT ![h] =
          [snap |-> Snapshot,
           decision |-> IF Replayed(h, Snapshot) THEN copy[h].replay.decision
                        ELSE Decide(Snapshot),
           new |-> ~Replayed(h, Snapshot)]]
    /\ pc' = [pc EXCEPT ![h] = "flush"]
    /\ UNCHANGED <<worldVars, review, index, dispatch, github, webhook, copy,
                   read, row, events>>

\* What a request that has evaluated holds as the review.
After(h) ==
    IF draft[h].new
    THEN [status |-> "completed", decision |-> draft[h].decision,
          replay |-> [snap |-> draft[h].snap, decision |-> draft[h].decision]]
    ELSE copy[h]

\* enqueue_github_pr_review_dispatch: the query for the link flushes the new
\* decision, which waits for the row; then the dispatch row is loaded.
EvaluateFlush(h) ==
    /\ pc[h] = "flush"
    /\ draft[h].new => ReviewFree(h)
    /\ row' = [row EXCEPT ![h] =
          IF After(h).status = "completed" /\ link THEN [seen |-> dispatch] ELSE None]
    /\ pc' = [pc EXCEPT ![h] = "commit"]
    /\ UNCHANGED <<worldVars, review, index, dispatch, github, webhook, copy,
                   read, draft, events>>

\* Mutation: the first replay that was stored is kept.
UpdateOnce(h) ==
    [status   |-> After(h).status,
     decision |-> After(h).decision,
     replay   |-> IF review.replay = None THEN After(h).replay ELSE review.replay]

\* Mutation: the status and the replay are written, the decision is not.
UpdateUndecided(h) ==
    [review EXCEPT !.status = After(h).status, !.replay = After(h).replay]

\* The unit of work writes the attributes that differ from the loaded ones.
Update(h) ==
    [status   |-> IF After(h).status = copy[h].status THEN review.status
                  ELSE After(h).status,
     decision |-> IF After(h).decision = copy[h].decision THEN review.decision
                  ELSE After(h).decision,
     replay   |-> IF draft[h].new THEN After(h).replay ELSE review.replay]

\* An existing row is queued again for another decision; a row loaded as
\* queued keeps the status it has by now.
Requeued(h, seen) ==
    [status |-> IF seen.status = "queued" THEN dispatch.status ELSE "queued",
     decision |-> After(h).decision]

\* The rest of the evaluation and its commit.  A second row for the same head
\* violates the unique constraint and undoes everything.
EvaluateCommit(h) ==
    /\ pc[h] = "commit"
    /\ \/ /\ row[h] # None /\ row[h].seen = None /\ dispatch # None
          /\ Leave(h)
          /\ UNCHANGED <<review, dispatch>>
       \/ /\ \/ /\ row[h] = None
                /\ UNCHANGED dispatch
             \/ /\ row[h] # None /\ row[h].seen = None /\ dispatch = None
                /\ dispatch' = [status |-> "queued", decision |-> After(h).decision]
             \/ /\ row[h] # None /\ row[h].seen # None
                /\ IF row[h].seen.decision = After(h).decision
                   THEN UNCHANGED dispatch
                   ELSE DispatchFree /\ dispatch' = Requeued(h, row[h].seen)
          /\ review' = Update(h)
          /\ IF webhook[h]
             THEN /\ pc' = [pc EXCEPT ![h] = "claim"]
                  /\ copy' = [copy EXCEPT ![h] = After(h)]
                  /\ draft' = [draft EXCEPT ![h] = None]
                  /\ row' = [row EXCEPT ![h] = None]
                  /\ UNCHANGED <<webhook, read>>
             ELSE Leave(h)
    /\ UNCHANGED <<worldVars, index, github, events>>

-----------------------------------------------------------------------------
(* Delivery: process_github_review_dispatch, in the webhook's request only. *)

\* The claim: a conditional UPDATE that waits for a delivery in flight.
Claim(h) ==
    /\ pc[h] = "claim"
    /\ dispatch # None => DispatchFree
    /\ IF dispatch # None /\ dispatch.status \in Queued
       THEN /\ pc' = [pc EXCEPT ![h] = "prepare"]
            /\ UNCHANGED sessVars
       ELSE Leave(h)
    /\ UNCHANGED <<worldVars, review, index, dispatch, github, events>>

Ends(h, status) ==
    /\ row' = [row EXCEPT ![h] = status]
    /\ pc' = [pc EXCEPT ![h] = "outcome"]

\* The link is looked up again and an installation token minted.
Prepare(h) ==
    /\ pc[h] = "prepare"
    /\ \/ ~link /\ Ends(h, "terminal_failed")
       \/ link /\ \E s \in Failures : Ends(h, s)
       \/ link /\ pc' = [pc EXCEPT ![h] = "comment"] /\ UNCHANGED row
    /\ UNCHANGED <<worldVars, review, index, dispatch, github, webhook, copy,
                   read, draft, events>>

\* The comment is created or edited, with the decision of the session's copy;
\* a request that fails may have taken effect.
Comment(h) ==
    /\ pc[h] = "comment"
    /\ \/ /\ github' = [github EXCEPT !.comment = copy[h].decision]
          /\ \/ pc' = [pc EXCEPT ![h] = "state"] /\ UNCHANGED row
             \/ Ends(h, "retryable_failed")
       \/ UNCHANGED github /\ \E s \in Failures : Ends(h, s)
    /\ UNCHANGED <<worldVars, review, index, dispatch, webhook, copy, read,
                   draft, events>>

\* Mutation: the row is dispatched once the comment is there.
PostOptional(h) ==
    /\ pc[h] = "state"
    /\ \/ /\ github' = [github EXCEPT !.state = copy[h].decision]
          /\ Ends(h, "dispatched")
       \/ UNCHANGED github /\ Ends(h, "dispatched")
    /\ UNCHANGED <<worldVars, review, index, dispatch, webhook, copy, read,
                   draft, events>>

\* The commit status is posted.
Post(h) ==
    /\ pc[h] = "state"
    /\ \/ /\ github' = [github EXCEPT !.state = copy[h].decision]
          /\ \E s \in {"dispatched", "retryable_failed"} : Ends(h, s)
       \/ UNCHANGED github /\ \E s \in Failures : Ends(h, s)
    /\ UNCHANGED <<worldVars, review, index, dispatch, webhook, copy, read,
                   draft, events>>

\* Mutation: the claim is committed and the outcome is left to a later request.
OutcomeClaim(h) ==
    /\ pc[h] = "outcome"
    /\ dispatch' = [dispatch EXCEPT !.status = "dispatching"]
    /\ Leave(h)
    /\ UNCHANGED <<worldVars, review, index, github, events>>

\* The outcome is committed, and with it the claim.
Outcome(h) ==
    /\ pc[h] = "outcome"
    /\ dispatch' = [dispatch EXCEPT !.status = row[h]]
    /\ Leave(h)
    /\ UNCHANGED <<worldVars, review, index, github, events>>

Crash(h) ==
    /\ pc[h] # "idle"
    /\ Leave(h)
    /\ UNCHANGED <<worldVars, review, index, dispatch, github, events>>

-----------------------------------------------------------------------------
(* The world around it.                                                    *)

\* A scan's findings are committed.
FindingRecorded ==
    /\ ~finding
    /\ finding' = TRUE
    /\ UNCHANGED <<acceptance, lapsed, link>>

\* The app is suspended or uninstalled, or active again.
InstallationEvent ==
    /\ link' = ~link
    /\ UNCHANGED <<acceptance, lapsed, finding>>

World ==
    /\ Counted
    /\ \/ LifeNext /\ UNCHANGED <<finding, link>>
       \/ FindingRecorded
       \/ InstallationEvent
    /\ UNCHANGED <<review, index, dispatch, github, pc, sessVars>>

Next ==
    \/ World
    \/ \E h \in Handlers :
          \/ Begin(h) \/ RebuildRead(h) \/ RebuildCommit(h)
          \/ EvaluateRead(h) \/ EvaluateFlush(h) \/ EvaluateCommit(h)
          \/ Claim(h) \/ Prepare(h) \/ Comment(h) \/ Post(h) \/ Outcome(h)
          \/ Crash(h)

Spec == Init /\ [][Next]_vars

-----------------------------------------------------------------------------
TypeOK ==
    /\ acceptance \in AcceptanceStatus
    /\ lapsed \in BOOLEAN /\ finding \in BOOLEAN /\ link \in BOOLEAN
    /\ review \in Reviews
    /\ index \in [Handlers -> Entries \union {None}]
    /\ dispatch \in Dispatches \union {None}
    /\ github \in [comment : Decisions \union {None}, state : Decisions \union {None}]
    /\ pc \in [Handlers -> Pc]
    /\ webhook \in [Handlers -> BOOLEAN]
    /\ copy \in [Handlers -> Reviews \union {None}]
    /\ read \in [Handlers -> Reads \union {None}]
    /\ draft \in [Handlers -> Drafts \union {None}]
    /\ DOMAIN row = Handlers
    /\ \A h \in Handlers : IF pc[h] = "outcome" THEN row[h] \in Failures \union {"dispatched"}
                          ELSE row[h] \in Loaded \union {None}
    /\ events \in 0..MaxEvents

Dispatched == dispatch # None /\ dispatch.status = "dispatched"

\* A dispatch that reads as delivered has its comment and its commit status
\* on the same decision, whatever failed, crashed or was sent before.
DispatchedShowsOneDecision == Dispatched => github.comment = github.state

\* A completed review has its decision and the evidence it was made on.
CompletedIsDecided ==
    review.status = "completed" => review.decision # None /\ review.replay # None

\* The decision of the row and the one it will replay part only where a
\* request commits an evaluation whose copy has another decision than the row:
\* another evaluation has overtaken it.  (Its replay may be the row's again.)
Agrees(r) == r.replay # None => r.replay.decision = r.decision
SplitByStaleEvaluation ==
    [][Agrees(review) /\ ~Agrees(review')
         => \E h \in Handlers : pc[h] = "commit" /\ copy[h].decision # review.decision]_vars

\* A row that reads as dispatched shows its decision on the commit: "record
\* success or failure on the row" (process_github_review_dispatch).
DispatchedMeansShown == Dispatched => github.state = dispatch.decision
=============================================================================
