------------------------------- MODULE Editorial -------------------------------
(***************************************************************************)
(* The approval workflow of one post: submit, approve in one or two        *)
(* stages, reject, hold, resume, resubmit, the composer's saves, and the    *)
(* paths that take a row to scheduled.  What matters is which version of   *)
(* the content was approved, and by whom, when a row may go out.           *)
(*                                                                         *)
(* A request reads the rows, decides in memory and later writes statuses;   *)
(* a composer save writes the content first and looks at statuses after.   *)
(***************************************************************************)
EXTENDS Integers, FiniteSets, PlatformPostStatus

CONSTANTS
    Rows,          \* the post's children, one per social account
    Threads,       \* web threads that may serve a request at the same time
    Modes,         \* approval modes a workspace may run
    StartStatuses, \* statuses rows may start in
    ChipTargets,   \* statuses people pick in the chip menu
    MaxEdits,      \* bound on saves that change content
    MaxRequests    \* bound on the number of requests

AllModes == {"optional", "required_internal", "required_internal_and_client"}

ASSUME EditorialConstants ==
    /\ Modes \subseteq AllModes
    /\ StartStatuses \subseteq {"draft", "pending_review", "pending_client", "approved", "scheduled"}
    /\ ChipTargets \subseteq Statuses
    /\ MaxEdits \in Nat /\ MaxRequests \in Nat

VARIABLES
    mode,     \* workspace.approval_workflow_mode
    status,   \* PlatformPost.status
    content,  \* version of what the row would publish
    vetted,   \* version a reviewer approved since the row last entered review
    signed,   \* version the client approved since then
    lapse,    \* history: how unapproved content may have got past the workflow
    req,      \* the request a thread is in the middle of, or NoRequest
    edits, begun

rowVars == <<status, content, vetted, signed, lapse>>
editorialVars == <<mode, rowVars, req, edits, begun>>

NoVersion == -1
Versions == 0..MaxEdits

\* Modes in which _require_approval_gate_passes refuses.
Gated == mode \in {"required_internal", "required_internal_and_client"}
TwoStage == mode = "required_internal_and_client"

Lapses == {"ungated",        \* scheduled from a status no approval led to
           "silent_edit",    \* edited in a status the edit does not leave
           "unseen_edit",    \* approved after an edit the reviewer had not read
           "stale_write",    \* a status written over one that had changed
           "other_signer",   \* one stage decided by the other stage's people
           "crash"}          \* a save died between its content and its statuses

Move == [row: Rows, from: Statuses, to: Statuses, seen: Versions]
People == {"author", "reviewer", "client"}
Targets == {"none", "scheduled", "queue", "submit", "resubmit"}

Request ==
    [step: {"idle", "commit", "revert", "move"}, by: People, moves: SUBSET Move,
     changed: BOOLEAN, target: Targets, scope: SUBSET Rows]

NoRequest == [step |-> "idle", by |-> "author", moves |-> {}, changed |-> FALSE,
              target |-> "none", scope |-> {}]

\* Statuses that stand for a finished approval, and those that stand for any.
Settled == {"approved", "scheduled", "publishing", "failed", "on_hold"}
Decided == Settled \cup {"pending_client"}

In(S) == {p \in Rows : status[p] \in S}

\* The rows that may take the edge to `to`, with the status and content read.
MovesTo(rows, to) ==
    {[row |-> p, from |-> status[p], to |-> to, seen |-> content[p]] :
        p \in {q \in rows : CanTransition(status[q], to)}}

Starts(t) == req[t] = NoRequest /\ begun < MaxRequests /\ begun' = begun + 1

\* A request has read what it needs; the writes come with Commit.
Decide(t, who, moves) ==
    /\ Starts(t)
    /\ moves # {}
    /\ req' = [req EXCEPT ![t] = [NoRequest EXCEPT !.step = "commit", !.by = who,
                                                   !.moves = moves]]
    /\ UNCHANGED <<mode, rowVars, edits>>

-------------------------------------------------------------------------------
(* approvals/services.py: each moves every eligible child of the post *)

SubmitMoves == MovesTo(In({"draft", "changes_requested", "rejected"}), "pending_review")
ResubmitMoves == MovesTo(In({"changes_requested", "rejected", "approved"}), "pending_review")

SubmitForReview(t) == Decide(t, "author", SubmitMoves)
ResubmitPost(t) == Decide(t, "author", ResubmitMoves)

\* Mutant: every eligible status is approved, the edge is not asked for.
ApproveEligible ==
    {[row |-> p, from |-> status[p], to |-> "approved", seen |-> content[p]] :
        p \in In({"pending_review", "pending_client", "draft", "rejected",
                  "changes_requested"})}

\* With two stages an internal approval goes on to the client in the same
\* transaction.
ApproveMoves ==
    LET onward == IF TwoStage THEN "pending_client" ELSE "approved"
    IN  {[m EXCEPT !.to = onward] : m \in MovesTo(In({"pending_review"}), "approved")}
        \cup MovesTo(In({"pending_client"}), "approved")

\* The client portal asks only that some child waits for the client.
MayDecide(who) == who = "reviewer" \/ (who = "client" /\ In({"pending_client"}) # {})

ApprovePost(t, who) == MayDecide(who) /\ Decide(t, who, ApproveMoves)

RequestChanges(t, who) ==
    MayDecide(who) /\ Decide(t, who, MovesTo(In({"pending_review", "pending_client"}),
                                             "changes_requested"))

RejectPost(t, who) ==
    MayDecide(who) /\ Decide(t, who, MovesTo(In({"pending_review", "pending_client"}),
                                             "rejected"))

RequestHold(t) == Decide(t, "client", MovesTo(In({"approved"}), "on_hold"))

ResumeHold(t) == Decide(t, "reviewer", MovesTo(In({"on_hold"}), "approved"))

-------------------------------------------------------------------------------
(* Other paths to a status *)

\* The chip menu: one row, any legal target, no gate.
Chip(t, p, target) == Decide(t, "reviewer", MovesTo({p}, target))

\* REST /schedule and MCP schedule_draft, which pass the gate.
ScheduleDrafts(t) == ~Gated /\ Decide(t, "author", MovesTo(In({"draft"}), "scheduled"))

\* Calendar drag-and-drop schedules a draft without the gate and writes the
\* status of an approved or scheduled row back as it read it.
Reschedule(t, p) ==
    LET to == IF status[p] = "draft" THEN "scheduled" ELSE status[p]
    IN  /\ status[p] \in {"draft", "approved", "scheduled"}
        /\ Decide(t, "author", {[row |-> p, from |-> status[p], to |-> to,
                                 seen |-> content[p]]})

\* The engine sends a scheduled row (its steps are in Publisher).
Publish(p, outcome) ==
    /\ status[p] = "scheduled"
    /\ status' = [status EXCEPT ![p] = outcome]
    /\ UNCHANGED <<mode, content, vetted, signed, lapse, req, edits, begun>>

-------------------------------------------------------------------------------
(* Edits *)

Flag(rows, kind) ==
    [p \in Rows |-> IF p \in rows THEN lapse[p] \cup {kind} ELSE lapse[p]]

Edited(rows) == [p \in Rows |-> IF p \in rows THEN content[p] + 1 ELSE content[p]]

\* A save through the composer: the post's own content (base) reaches every row,
\* overrides reach their row.  It commits before any status is looked at.  Saves
\* that queue or submit never come to the revert; overrides never cause one.
SaveContent(t, base, overrides, target, scope) ==
    LET edited == IF base THEN Rows ELSE overrides
        silent == IF target \in {"none", "scheduled"} /\ base THEN {}
                  ELSE edited \cap In(Decided)
    IN  /\ Starts(t)
        /\ scope = Rows \/ \E p \in Rows : scope = {p}
        /\ overrides \subseteq scope /\ (base => overrides = {})
        /\ edited = {} \/ edits < MaxEdits
        /\ edits' = IF edited = {} THEN edits ELSE edits + 1
        /\ content' = Edited(edited)
        /\ lapse' = Flag(silent, "silent_edit")
        /\ req' = [req EXCEPT ![t] =
                     [NoRequest EXCEPT
                        !.step = IF target \in {"none", "scheduled"} THEN "revert" ELSE "move",
                        !.changed = base, !.target = target,
                        !.scope = IF target \in {"scheduled", "queue"} THEN scope ELSE {}]]
        /\ UNCHANGED <<mode, status, vetted, signed>>

\* PATCH of a post's fields: only while the derived status is editable.
PatchContent ==
    /\ DerivePostStatus({status[p] : p \in Rows}) \in EditablePostStatuses
    /\ edits < MaxEdits /\ edits' = edits + 1
    /\ content' = Edited(Rows)
    /\ lapse' = Flag(In(Decided), "silent_edit")
    /\ UNCHANGED <<mode, status, vetted, signed, req, begun>>

\* Mutant: only the rows the form was opened for are sent back.
RevertedInScope(t) == IF req[t].changed THEN In({"approved"}) \cap req[t].scope ELSE {}

\* Rows that an edit sends back for review.
Reverted(t) == IF req[t].changed THEN In({"approved"}) ELSE {}

\* The composer's move to scheduled: direct, or through draft.
ScheduleMoves(rows) ==
    {[row |-> p, from |-> status[p], to |-> "scheduled", seen |-> content[p]] :
        p \in {q \in rows : ReachesViaDraft(status[q], "scheduled")}}

\* After the save: changed content takes approved rows back to review, whatever
\* the scope, and a schedule action moves the others.
RevertAndMove(t) ==
    LET back == Reverted(t)
        moves == IF req[t].target = "scheduled" THEN ScheduleMoves(req[t].scope \ back) ELSE {}
    IN  /\ req[t].step = "revert"
        /\ status' = [p \in Rows |-> IF p \in back THEN "pending_review" ELSE status[p]]
        /\ vetted' = [p \in Rows |-> IF p \in back THEN NoVersion ELSE vetted[p]]
        /\ signed' = [p \in Rows |-> IF p \in back THEN NoVersion ELSE signed[p]]
        /\ lapse' = [p \in Rows |->
                       IF p \in back THEN {}
                       ELSE IF req[t].changed THEN Flag(In(Decided \ {"approved"}), "silent_edit")[p]
                       ELSE lapse[p]]
        /\ req' = [req EXCEPT ![t] =
                     IF moves = {} THEN NoRequest
                     ELSE [NoRequest EXCEPT !.step = "commit", !.moves = moves]]
        /\ UNCHANGED <<mode, content, edits, begun>>

\* After a save that queues or submits: the rows are read again and moved.
QueueOrSubmit(t) ==
    LET moves == CASE req[t].target = "queue"    -> ScheduleMoves(req[t].scope)
                   [] req[t].target = "submit"   -> SubmitMoves
                   [] req[t].target = "resubmit" -> ResubmitMoves
    IN  /\ req[t].step = "move"
        /\ req' = [req EXCEPT ![t] =
                     IF moves = {} THEN NoRequest
                     ELSE [NoRequest EXCEPT !.step = "commit", !.moves = moves]]
        /\ UNCHANGED <<mode, rowVars, edits, begun>>

-------------------------------------------------------------------------------
(* Writes *)

Approves(m) == m.from \in {"pending_review", "pending_client"}
               /\ m.to \in {"pending_client", "approved"}

\* What a written move adds to the history of its row.
LapsesOf(who, m) ==
    {k \in Lapses :
        \/ k = "ungated" /\ Gated /\ m.to \in {"scheduled", "publishing"}
                         /\ m.from \notin Settled
        \/ k = "unseen_edit" /\ Approves(m) /\ m.seen # content[m.row]
        \/ k = "stale_write" /\ m.from # status[m.row]
        \/ k = "other_signer" /\ Approves(m)
             /\ \/ m.from = "pending_review"
                   /\ (who = "client" \/ (TwoStage /\ m.to = "approved"))
                \/ m.from = "pending_client" /\ who = "reviewer"}

\* The row after the move: entering review starts its approvals afresh.
Commit(t) ==
    LET moved == {m.row : m \in req[t].moves}
        move(p) == CHOOSE m \in req[t].moves : m.row = p
        enters(p) == p \in moved /\ move(p).to = "pending_review"
        approval(p, from, who) == /\ p \in moved /\ Approves(move(p))
                                  /\ move(p).from = from /\ req[t].by = who
    IN  /\ req[t].step = "commit"
        /\ status' = [p \in Rows |-> IF p \in moved THEN move(p).to ELSE status[p]]
        /\ vetted' = [p \in Rows |->
                        IF enters(p) THEN NoVersion
                        ELSE IF approval(p, "pending_review", "reviewer") THEN move(p).seen
                        ELSE vetted[p]]
        /\ signed' = [p \in Rows |->
                        IF enters(p) THEN NoVersion
                        ELSE IF approval(p, "pending_client", "client") THEN move(p).seen
                        ELSE signed[p]]
        /\ lapse' = [p \in Rows |->
                       IF enters(p) THEN {}
                       ELSE IF p \in moved THEN lapse[p] \cup LapsesOf(req[t].by, move(p))
                       ELSE lapse[p]]
        /\ req' = [req EXCEPT ![t] = NoRequest]
        /\ UNCHANGED <<mode, content, edits, begun>>

\* The thread's process dies: what it has committed stays, the rest is not done.
Die(t) ==
    /\ req[t] # NoRequest
    /\ req' = [req EXCEPT ![t] = NoRequest]
    /\ lapse' = IF req[t].step = "revert" /\ req[t].changed
                THEN Flag(In(Decided), "crash") ELSE lapse
    /\ UNCHANGED <<mode, status, content, vetted, signed, edits, begun>>

-------------------------------------------------------------------------------

EditorialInit ==
    /\ mode \in Modes
    /\ status \in [Rows -> StartStatuses]
    /\ content = [p \in Rows |-> 0]
    /\ vetted = [p \in Rows |-> IF status[p] \in {"draft", "pending_review"} THEN NoVersion ELSE 0]
    /\ signed = [p \in Rows |-> IF status[p] = "pending_client" THEN NoVersion ELSE vetted[p]]
    /\ lapse = [p \in Rows |-> {}]
    /\ req = [t \in Threads |-> NoRequest]
    /\ edits = 0 /\ begun = 0

Review(t) ==
    \/ SubmitForReview(t) \/ ResubmitPost(t) \/ RequestHold(t) \/ ResumeHold(t)
    \/ \E who \in {"reviewer", "client"} :
          ApprovePost(t, who) \/ RequestChanges(t, who) \/ RejectPost(t, who)

EditorialNext ==
    \/ \E t \in Threads :
          \/ Review(t)
          \/ \E p \in Rows, target \in ChipTargets : Chip(t, p, target)
          \/ ScheduleDrafts(t)
          \/ \E p \in Rows : Reschedule(t, p)
          \/ \E base \in BOOLEAN, overrides, scope \in SUBSET Rows, target \in Targets :
                SaveContent(t, base, overrides, target, scope)
          \/ RevertAndMove(t)
          \/ QueueOrSubmit(t)
          \/ Commit(t)
          \/ Die(t)
    \/ PatchContent
    \/ \E p \in Rows, outcome \in {"published", "failed"} : Publish(p, outcome)

EditorialSpec == EditorialInit /\ [][EditorialNext]_editorialVars

-------------------------------------------------------------------------------

EditorialTypeOK ==
    /\ mode \in Modes
    /\ status \in [Rows -> Statuses]
    /\ content \in [Rows -> Versions]
    /\ vetted \in [Rows -> Versions \cup {NoVersion}]
    /\ signed \in [Rows -> Versions \cup {NoVersion}]
    /\ lapse \in [Rows -> SUBSET Lapses]
    /\ req \in [Threads -> Request]
    /\ edits \in 0..MaxEdits
    /\ begun \in 0..MaxRequests

\* "edited content can't publish without a fresh review": where approval is
\* required, an approved or scheduled row has its present content approved, by
\* the reviewer and in two-stage mode by the client too, unless one of the named
\* lapses happened since it last entered review.  Between a save's content and
\* its revert the row is on its way back.
SignOffIsCurrent ==
    Gated /\ (\A t \in Threads : req[t].step = "revert" => ~req[t].changed) =>
        \A p \in In({"approved", "scheduled"}) :
            lapse[p] = {} =>
                /\ vetted[p] = content[p]
                /\ TwoStage => signed[p] = content[p]

\* A rejection or a request for changes stands until the author sends the row to
\* review again: only an answer given to the row's earlier status overturns it.
DecisionKept ==
    \A p \in In({"rejected", "changes_requested"}) :
       status'[p] \in {"approved", "pending_client"} =>
           \E t \in Threads : \E m \in req[t].moves : m.row = p /\ m.from # status[p]

\* "The gate belongs here so EVERY path that promotes a draft to scheduled ... is
\* covered": where approval is required no draft becomes scheduled.
DraftsPassTheGate ==
    [][Gated => \A p \in In({"draft"}) : status'[p] # "scheduled"]_editorialVars
===============================================================================
