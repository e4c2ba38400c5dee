---------------------------- MODULE ReviewIntake ----------------------------
(***************************************************************************)
(* One application security review on its way to a decision: its creation  *)
(* under an idempotency key, its bundles, its scanner jobs and its status  *)
(* (backend/app/services/application_review.py,                            *)
(* application_review_bundles.py, review_scanner_enqueue.py and            *)
(* application_review_orchestration.py).                                   *)
(*                                                                         *)
(* Every request has a session of its own, loads the review once and       *)
(* decides on that copy to its end: sessions run at READ COMMITTED,        *)
(* nothing locks the review and expire_on_commit is off.  A request of the *)
(* orchestration endpoint goes through several stages, each ending in a    *)
(* commit, with the same copy.                                             *)
(*                                                                         *)
(* What the stages do to the context index and to the decision is in       *)
(* ReviewDecision.  Manifests are their content hash, a member of Bundles; *)
(* the bundle id is derived from it, so Bundles is ordered as the ids are. *)
(* The loop over the scanner tools treats each tool alike: one is left.    *)
(***************************************************************************)
EXTENDS Integers, FiniteSets, ReviewTransitions

CONSTANTS
    Handlers,  \* requests that may be in flight at once
    Bundles    \* content hashes of bundles, in the order of the bundle ids

ASSUME BundlesAssumption == Bundles \subseteq Nat /\ Bundles # {}

VARIABLES
    status,  \* application_security_reviews.status, "absent" before it exists
    bundle,  \* application_review_bundles.status of each content
    jobs,    \* scan jobs whose target is the bundle
    pc,      \* stage of each request
    flow,    \* whether further stages may follow
    copy,    \* the review's status in the request's session
    on,      \* the bundle the request names
    found,   \* what the request's lookup of the bundle or of its job returned
    seen     \* the ready bundles the request loaded

rowVars == <<status, bundle, jobs>>
sessVars == <<pc, flow, copy, on, found, seen>>
vars == <<status, bundle, jobs, pc, flow, copy, on, found, seen>>

Stages == <<"bundle", "scan", "rebuild", "evaluate">>
StageNames == {Stages[i] : i \in 1..4}
Pc == {"idle", "insert", "select", "store", "enqueue"} \union StageNames

BundleStatus == {"absent", "ready", "superseded"}
ReviewRow == ReviewStatuses \union {"absent"}

TypeOK ==
    /\ status \in ReviewRow
    /\ bundle \in [Bundles -> BundleStatus]
    /\ jobs \in [Bundles -> Nat]
    /\ pc \in [Handlers -> Pc]
    /\ flow \in [Handlers -> {"single", "orchestrated"}]
    /\ copy \in [Handlers -> ReviewRow]
    /\ on \in [Handlers -> Bundles]
    /\ found \in [Handlers -> BundleStatus]
    /\ seen \in [Handlers -> SUBSET Bundles]

NoBundle == CHOOSE b \in Bundles : TRUE

Init ==
    /\ status = "absent"
    /\ bundle = [b \in Bundles |-> "absent"]
    /\ jobs = [b \in Bundles |-> 0]
    /\ pc = [h \in Handlers |-> "idle"]
    /\ flow = [h \in Handlers |-> "single"]
    /\ copy = [h \in Handlers |-> "absent"]
    /\ on = [h \in Handlers |-> NoBundle]
    /\ found = [h \in Handlers |-> "absent"]
    /\ seen = [h \in Handlers |-> {}]

-----------------------------------------------------------------------------
(* Sessions.                                                               *)

\* The request h ends, by its answer, by an exception whose handler rolls the
\* session back, or with its process.
Leave(h) ==
    /\ pc' = [pc EXCEPT ![h] = "idle"]
    /\ flow' = [flow EXCEPT ![h] = "single"]
    /\ copy' = [copy EXCEPT ![h] = "absent"]
    /\ on' = [on EXCEPT ![h] = NoBundle]
    /\ found' = [found EXCEPT ![h] = "absent"]
    /\ seen' = [seen EXCEPT ![h] = {}]

\* The stage `stage' of h is committed with status t on its copy.  A request of
\* the orchestration endpoint may go on to any later stage it was asked for;
\* it scans the bundle it stored only.
Proceed(h, stage, t) ==
    \/ Leave(h)
    \/ /\ flow[h] = "orchestrated"
       /\ \E i, k \in 1..4 :
             /\ Stages[i] = stage
             /\ i < k
             /\ Stages[k] = "scan" => stage = "bundle"
             /\ pc' = [pc EXCEPT ![h] = Stages[k]]
       /\ copy' = [copy EXCEPT ![h] = t]
       /\ found' = [found EXCEPT ![h] = "absent"]
       /\ seen' = [seen EXCEPT ![h] = {}]
       /\ UNCHANGED <<flow, on>>

\* The unit of work emits no UPDATE for a status set to its loaded value.
Write(h, t) == status' = IF copy[h] = t THEN status ELSE t

-----------------------------------------------------------------------------
(* Creation.                                                               *)

\* create_application_review looks the idempotency key up.  POST /reviews ends
\* there if it is known; the orchestration goes on with the row it found.
Lookup(h) ==
    /\ pc[h] = "idle"
    /\ \E f \in {"single", "orchestrated"}, b \in Bundles :
          /\ flow' = [flow EXCEPT ![h] = f]
          /\ on' = [on EXCEPT ![h] = b]
          /\ IF status = "absent"
             THEN /\ pc' = [pc EXCEPT ![h] = "insert"]
                  /\ UNCHANGED copy
             ELSE /\ f = "orchestrated"
                  /\ copy' = [copy EXCEPT ![h] = status]
                  /\ \E s \in StageNames \ {"scan"} : pc' = [pc EXCEPT ![h] = s]
    /\ UNCHANGED <<rowVars, found, seen>>

\* Its INSERT: on a conflict with the unique key the session is rolled back
\* and the row of the request that was faster is loaded.
Insert(h) ==
    /\ pc[h] = "insert"
    /\ LET row == IF status = "absent" THEN "created" ELSE status
       IN  /\ status' = row
           /\ \/ /\ flow[h] = "orchestrated"
                 /\ copy' = [copy EXCEPT ![h] = row]
                 /\ \E s \in StageNames \ {"scan"} : pc' = [pc EXCEPT ![h] = s]
                 /\ UNCHANGED <<flow, on, found, seen>>
              \/ Leave(h)
    /\ UNCHANGED <<bundle, jobs>>

\* A request of its own for one stage: it loads the review.
Begin(h) ==
    /\ pc[h] = "idle"
    /\ status # "absent"
    /\ copy' = [copy EXCEPT ![h] = status]
    /\ \E s \in StageNames : pc' = [pc EXCEPT ![h] = s]
    /\ \E b \in Bundles : on' = [on EXCEPT ![h] = b]
    /\ UNCHANGED <<rowVars, flow, found, seen>>

-----------------------------------------------------------------------------
(* Bundles.                                                                *)

\* create_review_bundle: the lookup by content hash.
FindBundle(h) ==
    /\ pc[h] = "bundle"
    /\ found' = [found EXCEPT ![h] = bundle[on[h]]]
    /\ pc' = [pc EXCEPT ![h] = IF bundle[on[h]] = "ready" THEN "store" ELSE "select"]
    /\ UNCHANGED <<rowVars, flow, copy, on, seen>>

\* supersede_ready_review_bundles: the SELECT of the ready bundles but its own.
SelectReady(h) ==
    /\ pc[h] = "select"
    /\ seen' = [seen EXCEPT ![h] = {c \in Bundles \ {on[h]} : bundle[c] = "ready"}]
    /\ pc' = [pc EXCEPT ![h] = "store"]
    /\ UNCHANGED <<rowVars, flow, copy, on, found>>

\* Statuses from which a bundle that exists already moves the review on.
AwaitsBundle == {"created", "intake_required", "bundle_required"}

\* The status the stage gives its copy.
AfterBundle(h) ==
    IF found[h] = "absent" \/ copy[h] \in AwaitsBundle
    THEN "bundle_received" ELSE copy[h]

\* The flush runs into a unique index: the content was inserted meanwhile, or
\* at the moment its row turns ready another row still is.  Updates go out in
\* the order of the ids, before the insert, so a bundle that returns is ahead
\* of the one it supersedes when its id is the smaller.
BundleConflict(h) ==
    /\ found[h] # "ready"
    /\ \/ found[h] = "absent" /\ bundle[on[h]] # "absent"
       \/ \E c \in Bundles \ {on[h]} :
             /\ bundle[c] = "ready"
             /\ c \notin seen[h] \/ (found[h] = "superseded" /\ c > on[h])

\* Mutation: a bundle that is ready already is superseded with the others.
StoreSuperseding(h) ==
    /\ pc[h] = "store"
    /\ IF ~Allowed(copy[h], AfterBundle(h)) \/ BundleConflict(h)
       THEN Leave(h) /\ UNCHANGED <<status, bundle>>
       ELSE /\ bundle' = [c \in Bundles |->
                             IF c \in seen[h] \/ (c = on[h] /\ found[h] = "superseded")
                             THEN "superseded"
                             ELSE IF c = on[h] /\ found[h] = "absent" THEN "ready"
                             ELSE bundle[c]]
            /\ Write(h, AfterBundle(h))
            /\ Proceed(h, "bundle", AfterBundle(h))
    /\ UNCHANGED jobs

\* The end of create_review_bundle and its commit.  A new bundle is refused
\* by the transition table once the review is past its bundle.
StoreBundle(h) ==
    /\ pc[h] = "store"
    /\ IF ~Allowed(copy[h], AfterBundle(h)) \/ BundleConflict(h)
       THEN Leave(h) /\ UNCHANGED <<status, bundle>>
       ELSE /\ bundle' = [c \in Bundles |->
                             IF c \in seen[h] THEN "superseded"
                             ELSE IF c = on[h] /\ found[h] # "ready" THEN "ready"
                             ELSE bundle[c]]
            /\ Write(h, AfterBundle(h))
            /\ Proceed(h, "bundle", AfterBundle(h))
    /\ UNCHANGED jobs

-----------------------------------------------------------------------------
(* Scanner jobs.                                                           *)

\* enqueue_review_scanner_jobs reads the bundle, which has to be ready, and
\* looks for a job of the same tool and target.
PlanScan(h) ==
    /\ pc[h] = "scan"
    /\ IF bundle[on[h]] = "ready"
       THEN /\ found' = [found EXCEPT ![h] = IF jobs[on[h]] > 0 THEN "ready" ELSE "absent"]
            /\ pc' = [pc EXCEPT ![h] = "enqueue"]
            /\ UNCHANGED <<flow, copy, on, seen>>
       ELSE Leave(h)
    /\ UNCHANGED rowVars

\* Mutation: a review moves to scanning although its job was not inserted.
EnqueueNothing(h) ==
    /\ pc[h] = "enqueue"
    /\ IF Allowed(copy[h], "scanning")
       THEN Write(h, "scanning") /\ Proceed(h, "scan", "scanning")
       ELSE Leave(h) /\ UNCHANGED status
    /\ UNCHANGED <<bundle, jobs>>

\* The insert of the job that was not found and the transition, one commit.
EnqueueScan(h) ==
    /\ pc[h] = "enqueue"
    /\ IF Allowed(copy[h], "scanning")
       THEN /\ jobs' = [jobs EXCEPT ![on[h]] = IF found[h] = "absent" THEN @ + 1 ELSE @]
            /\ Write(h, "scanning")
            /\ Proceed(h, "scan", "scanning")
       ELSE Leave(h) /\ UNCHANGED <<status, jobs>>
    /\ UNCHANGED bundle

-----------------------------------------------------------------------------
(* Context index and decision.                                             *)

BeforeIndexing ==
    {"created", "intake_required", "bundle_required", "bundle_received", "scanning"}

\* Mutation: the status is assigned, not taken from the table.
RebuildUnlisted(h) ==
    /\ pc[h] = "rebuild"
    /\ Write(h, "reindexing") /\ Proceed(h, "rebuild", "reindexing")
    /\ UNCHANGED <<bundle, jobs>>

\* rebuild_review_context_index, as far as the status is concerned.
Rebuild(h) ==
    /\ pc[h] = "rebuild"
    /\ LET t == IF copy[h] \in BeforeIndexing THEN "indexing" ELSE copy[h]
       IN  Write(h, t) /\ Proceed(h, "rebuild", t)
    /\ UNCHANGED <<bundle, jobs>>

\* evaluate_application_review_decision: a decision replayed leaves the status
\* alone, a new one takes the review through indexing and deciding.
Evaluate(h) ==
    /\ pc[h] = "evaluate"
    /\ \E t \in {copy[h], "completed"} : Write(h, t)
    /\ Leave(h)
    /\ UNCHANGED <<bundle, jobs>>

\* The process is killed between two commits.
Crash(h) ==
    /\ pc[h] # "idle"
    /\ Leave(h)
    /\ UNCHANGED rowVars

-----------------------------------------------------------------------------
Next ==
    \E h \in Handlers :
        \/ Lookup(h) \/ Insert(h) \/ Begin(h)
        \/ FindBundle(h) \/ SelectReady(h) \/ StoreBundle(h)
        \/ PlanScan(h) \/ EnqueueScan(h)
        \/ Rebuild(h) \/ Evaluate(h)
        \/ Crash(h)

Spec == Init /\ [][Next]_vars

-----------------------------------------------------------------------------
(* Safety.                                                                 *)

\* From the first bundle on exactly one is ready, whatever requests submit,
\* return to or supersede side by side: the index in the database allows no
\* second one and no interleaving of create_review_bundle supersedes the last.
OneReadyBundle ==
    (\E b \in Bundles : bundle[b] # "absent")
        => \E b \in Bundles : \A c \in Bundles : bundle[c] = "ready" <=> c = b

\* What a status says is there: a review that has received its bundle has one
\* that is ready, a review that is being scanned has a scan job.
StatusHasBacking ==
    /\ status = "bundle_received" => \E b \in Bundles : bundle[b] = "ready"
    /\ status = "scanning" => \E b \in Bundles : jobs[b] > 0

\* A review moves as the transition table says, or a request that loaded it
\* before another one moved it writes what the table allows from its copy.
OnlyStaleCopiesLeaveTable ==
    [][status # "absent" /\ ~Reaches(status, status')
          => \E h \in Handlers :
                /\ pc[h] # "idle" /\ pc'[h] # pc[h]
                /\ copy[h] # status
                /\ Reaches(copy[h], status')]_vars
=============================================================================
