-------------------------- MODULE PlatformPostStatus --------------------------
(***************************************************************************)
(* The editorial and publishing status of a PlatformPost (one social       *)
(* account's copy of a post), its legal transitions, and the aggregate     *)
(* status a Post shows for its children.                                   *)
(***************************************************************************)
LOCAL INSTANCE Naturals
LOCAL INSTANCE Sequences

Statuses ==
    {"draft", "pending_review", "pending_client", "approved",
     "changes_requested", "rejected", "scheduled", "publishing",
     "published", "failed", "on_hold"}

\* Rows no accidental deletion or propagation may touch.
ProtectedStatuses == {"published", "publishing"}

ValidTransitions ==
    [draft             |-> {"pending_review", "scheduled", "publishing"},
     pending_review    |-> {"approved", "changes_requested", "rejected"},
     approved          |-> {"pending_client", "scheduled", "publishing",
                            "draft", "on_hold", "pending_review"},
     pending_client    |-> {"approved", "changes_requested", "rejected"},
     changes_requested |-> {"pending_review", "draft"},
     rejected          |-> {"draft", "pending_review"},
     scheduled         |-> {"publishing", "draft"},
     publishing        |-> {"published", "failed", "scheduled"},
     failed            |-> {"publishing", "draft", "scheduled"},
     on_hold           |-> {"approved", "draft", "changes_requested"},
     published         |-> {}]

CanTransition(from, to) == to \in ValidTransitions[from]

\* Can the composer bring a row from `from` to `to`, in one hop or through draft?
ReachesViaDraft(from, to) ==
    \/ CanTransition(from, to)
    \/ CanTransition(from, "draft") /\ to # "draft" /\ CanTransition("draft", to)

-------------------------------------------------------------------------------
\* The statuses a post can show, from least to most advanced.  "failed" has no
\* place in the order and ranks after every other one.
WorkflowOrder ==
    <<"draft", "changes_requested", "rejected", "on_hold", "pending_review",
      "pending_client", "approved", "scheduled", "publishing",
      "partially_published", "published">>

Rank(s) ==
    IF \E i \in DOMAIN WorkflowOrder : WorkflowOrder[i] = s
    THEN CHOOSE i \in DOMAIN WorkflowOrder : WorkflowOrder[i] = s
    ELSE Len(WorkflowOrder) + 1

Lowest(S) == CHOOSE s \in S : \A u \in S : Rank(s) <= Rank(u)

\* The aggregate over the set of the children's statuses.
DerivePostStatus(S) ==
    CASE S = {} -> "draft"
      [] \E s \in S : S = {s} -> Lowest(S)
      [] S = {"published", "failed"} -> "partially_published"
      [] OTHER -> IF Lowest(S) = "on_hold" /\ "published" \in S
                  THEN "partially_published"
                  ELSE Lowest(S)

EditablePostStatuses ==
    {"draft", "changes_requested", "rejected", "approved", "scheduled"}
===============================================================================
