-------------------------- MODULE ReviewTransitions --------------------------
(***************************************************************************)
(* The statuses of an application security review and the table by which   *)
(* transition_application_review_status lets them change                   *)
(* (backend/app/services/application_review.py).                           *)
(***************************************************************************)

ReviewStatuses ==
    {"created", "intake_required", "bundle_required", "bundle_received",
     "scanning", "extracting_context", "indexing", "building_graph",
     "deciding", "explaining", "failed_retryable", "completed",
     "blocked_by_policy", "blocked_by_permission", "failed_terminal",
     "cancelled"}

AbortedRetryable == {"cancelled", "failed_retryable"}
Aborted == AbortedRetryable \union {"failed_terminal"}

\* Where a review may go from status s.
REVIEW_STATE_TRANSITIONS(s) ==
    CASE s = "created" ->
            {"intake_required", "bundle_required", "bundle_received",
             "indexing"} \union AbortedRetryable
      [] s = "intake_required" ->
            {"bundle_required", "bundle_received", "indexing"}
                \union AbortedRetryable
      [] s = "bundle_required" ->
            {"bundle_received", "indexing"} \union AbortedRetryable
      [] s = "bundle_received" ->
            {"scanning", "indexing", "extracting_context"}
                \union AbortedRetryable
      [] s = "scanning" ->
            {"extracting_context", "indexing", "blocked_by_permission"}
                \union Aborted
      [] s = "extracting_context" -> {"indexing"} \union Aborted
      [] s = "indexing" -> {"building_graph", "deciding"} \union Aborted
      [] s = "building_graph" -> {"deciding"} \union Aborted
      [] s = "deciding" ->
            {"explaining", "completed", "blocked_by_policy"} \union Aborted
      [] s = "explaining" ->
            {"completed", "failed_retryable", "failed_terminal"}
      [] s = "failed_retryable" ->
            {"bundle_received", "scanning", "extracting_context", "indexing",
             "deciding", "cancelled"}
      [] OTHER -> {}

\* Mutation: any status may follow any other.
AllowedAlways(s, t) == t \in ReviewStatuses

\* Whether transition_application_review_status accepts the change; a status
\* set to itself is no change and always accepted.
Allowed(s, t) == s = t \/ t \in REVIEW_STATE_TRANSITIONS(s)

\* In the table in at most three changes, what one transaction can make of it.
InTable(s, t) == s = t \/ t \in REVIEW_STATE_TRANSITIONS(s)
Reaches(s, t) ==
    \/ InTable(s, t)
    \/ \E u \in ReviewStatuses :
          InTable(s, u) /\ \E v \in ReviewStatuses : InTable(u, v) /\ InTable(v, t)
=============================================================================
