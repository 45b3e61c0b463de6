---------------------------- MODULE EditorialProofs ----------------------------
(***************************************************************************)
(* Theorems about a row on its way to being sent: what was approved of it   *)
(* (Editorial), when it is to go out (QueueSlots), how a client gets to     *)
(* decide on it (Portal) and what is said of it (Discussion).               *)
(***************************************************************************)
EXTENDS Editorial, QueueSlots, Portal, Discussion, SequenceTheorems, WellFoundedInduction,
        FiniteSetTheorems, TLAPS

-------------------------------------------------------------------------------
(* Editorial: what a request may have decided *)

\* The edges the approval workflow can take into the statuses that stand for an
\* approval.
Legal(m) ==
    /\ m.row \in Rows /\ m.from \in Statuses /\ m.to \in Statuses
    /\ m.to = "approved" => m.from \in {"pending_review", "pending_client", "on_hold", "approved"}
    /\ m.to = "pending_client" => m.from \in {"pending_review", "approved"}
    /\ m.to = "on_hold" => m.from = "approved"
    /\ m.to = "failed" => m.from = "publishing"

\* Nobody approves in the author's name.
Decidable(moves, who) == \A m \in moves : Legal(m) /\ (Approves(m) => who # "author")

RequestsLegal ==
    \A t \in Threads :
        /\ Decidable(req[t].moves, req[t].by)
        /\ req[t].by \in People /\ req[t].scope \subseteq Rows
        /\ req[t].step = "move" => req[t].target \in {"queue", "submit", "resubmit"}

\* A save of the post's content has committed and has not yet looked at the statuses.
RevertPending == \E t \in Threads : req[t].step = "revert" /\ req[t].changed

\* What has been approved of a row is its present content.
SignedOff(p) ==
    lapse[p] = {} =>
        /\ status[p] \in Settled =>
              vetted[p] = content[p] /\ (TwoStage => signed[p] = content[p])
        /\ status[p] = "pending_client" => vetted[p] = content[p]

RowsSignedOff == Gated /\ ~RevertPending => \A p \in Rows : SignedOff(p)

EditorialTypes == status \in [Rows -> Statuses] /\ req = [t \in Threads |-> req[t]]

EditorialInv == EditorialTypes /\ RequestsLegal /\ RowsSignedOff

LEMMA LegalEdges ==
    ASSUME NEW m, m.row \in Rows, m.from \in Statuses, m.to \in Statuses,
           CanTransition(m.from, m.to)
    PROVE  Legal(m)
BY DEF Legal, CanTransition, ValidTransitions, Statuses

\* Scheduling, directly or through draft, is one of them.
LEMMA LegalSchedule ==
    ASSUME NEW m, m.row \in Rows, m.from \in Statuses, m.to = "scheduled"
    PROVE  Legal(m) /\ ~Approves(m)
BY DEF Legal, Statuses, Approves

LEMMA LegalMoves ==
    ASSUME EditorialTypes, NEW rows \in SUBSET Rows, NEW to \in Statuses, NEW m \in MovesTo(rows, to)
    PROVE  Legal(m) /\ m.to = to /\ m.from = status[m.row] /\ m.row \in rows
<1>1. PICK p \in rows : /\ CanTransition(status[p], to)
                        /\ m = [row |-> p, from |-> status[p], to |-> to, seen |-> content[p]]
    BY DEF MovesTo
<1>2. status[p] \in Statuses
    BY <1>1 DEF EditorialTypes
<1> QED BY <1>1, <1>2, LegalEdges

LEMMA EditorialInvInit == EditorialInit => EditorialInv
<1> SUFFICES ASSUME EditorialInit PROVE EditorialInv
    OBVIOUS
<1>1. EditorialTypes
    BY EditorialConstants DEF EditorialInit, EditorialTypes, Statuses
<1>2. RequestsLegal
    BY DEF EditorialInit, RequestsLegal, Decidable, NoRequest, People
<1>3. RowsSignedOff
    <2> SUFFICES ASSUME NEW p \in Rows PROVE SignedOff(p)
        BY DEF RowsSignedOff
    <2>1. status[p] \in StartStatuses /\ content[p] = 0
        BY DEF EditorialInit
    <2>2. vetted[p] = (IF status[p] \in {"draft", "pending_review"} THEN NoVersion ELSE 0)
        BY DEF EditorialInit
    <2>3. signed[p] = (IF status[p] = "pending_client" THEN NoVersion ELSE vetted[p])
        BY DEF EditorialInit
    <2> QED BY <2>1, <2>2, <2>3, EditorialConstants DEF SignedOff, Settled
<1> QED BY <1>1, <1>2, <1>3 DEF EditorialInv

\* A request that has decided, and one that is over.
Deciding(who, moves) == [NoRequest EXCEPT !.step = "commit", !.by = who, !.moves = moves]

LEMMA DecidingFields ==
    ASSUME NEW who, NEW moves
    PROVE  /\ Deciding(who, moves).step = "commit" /\ Deciding(who, moves).by = who
           /\ Deciding(who, moves).moves = moves /\ Deciding(who, moves).scope = {}
BY DEF Deciding, NoRequest

LEMMA NoRequestFields ==
    /\ NoRequest.step = "idle" /\ NoRequest.by = "author"
    /\ NoRequest.moves = {} /\ NoRequest.scope = {}
BY DEF NoRequest

\* The invariant of the requests when one of them becomes r.
LEMMA RequestBecomes ==
    ASSUME EditorialInv, NEW t \in Threads, NEW r, req' = [req EXCEPT ![t] = r],
           Decidable(r.moves, r.by), r.by \in People, r.scope \subseteq Rows,
           r.step = "move" => r.target \in {"queue", "submit", "resubmit"}
    PROVE  /\ RequestsLegal' /\ req' = [x \in Threads |-> req'[x]]
           /\ req'[t] = r /\ \A x \in Threads \ {t} : req'[x] = req[x]
<1>1. req'[t] = r /\ \A x \in Threads \ {t} : req'[x] = req[x]
    BY DEF EditorialInv, EditorialTypes
<1>2. req' = [x \in Threads |-> req'[x]]
    BY DEF EditorialInv, EditorialTypes
<1>3. RequestsLegal'
    BY <1>1 DEF EditorialInv, RequestsLegal, Decidable, Legal
<1> QED BY <1>1, <1>2, <1>3

LEMMA RequestEnds ==
    ASSUME EditorialInv, NEW t \in Threads, req' = [req EXCEPT ![t] = NoRequest]
    PROVE  /\ RequestsLegal' /\ req' = [x \in Threads |-> req'[x]]
           /\ req'[t].step = "idle" /\ \A x \in Threads \ {t} : req'[x] = req[x]
<1>1. Decidable(NoRequest.moves, NoRequest.by) /\ NoRequest.by \in People
    BY NoRequestFields DEF Decidable, People
<1> QED BY <1>1, NoRequestFields, RequestBecomes

\* A request that has only read.
LEMMA DecideKeeps ==
    ASSUME EditorialInv, NEW t \in Threads, NEW who \in People, NEW moves, Decidable(moves, who),
           Decide(t, who, moves)
    PROVE  EditorialInv'
<1>1. /\ req[t] = NoRequest /\ req' = [req EXCEPT ![t] = Deciding(who, moves)]
      /\ UNCHANGED <<mode, status, content, vetted, signed, lapse>>
    <2>1. req[t] = NoRequest /\ UNCHANGED <<mode, status, content, vetted, signed, lapse>>
        BY DEF Decide, Starts, rowVars
    <2>2. req' = [req EXCEPT ![t] = Deciding(who, moves)]
        BY Zenon DEF Decide, Deciding
    <2> QED BY <2>1, <2>2
<1>2. /\ RequestsLegal' /\ req' = [x \in Threads |-> req'[x]]
      /\ req'[t].step = "commit" /\ \A x \in Threads \ {t} : req'[x] = req[x]
    <2> DEFINE r == Deciding(who, moves)
    <2>1. /\ r.step = "commit" /\ Decidable(r.moves, r.by) /\ r.by \in People
          /\ r.scope \subseteq Rows
        BY DecidingFields
    <2> HIDE DEF r
    <2>2. req' = [req EXCEPT ![t] = r]
        BY <1>1 DEF r
    <2> QED BY <2>1, <2>2, RequestBecomes
<1>3. RevertPending' <=> RevertPending
    BY <1>1, <1>2, NoRequestFields DEF RevertPending
<1> QED BY <1>1, <1>2, <1>3
        DEF EditorialInv, EditorialTypes, RowsSignedOff, SignedOff, Gated, TwoStage

\* Whatever an operation decides takes a legal edge.
LEMMA AnyEdgeDecidable ==
    ASSUME EditorialTypes, NEW rows \in SUBSET Rows, NEW to \in Statuses, NEW who,
           who # "author" \/ to \notin {"approved", "pending_client"}
    PROVE  Decidable(MovesTo(rows, to), who)
BY LegalMoves DEF Decidable, Approves

LEMMA ApproveDecidable ==
    ASSUME EditorialTypes, NEW who, who # "author"
    PROVE  Decidable(ApproveMoves, who)
<1> SUFFICES ASSUME NEW m \in ApproveMoves PROVE Legal(m)
    BY DEF Decidable
<1>0. In({"pending_review"}) \subseteq Rows /\ In({"pending_client"}) \subseteq Rows
    BY DEF In
<1>1. CASE m \in MovesTo(In({"pending_client"}), "approved")
    BY <1>0, <1>1, LegalMoves DEF Statuses
<1>2. CASE m \notin MovesTo(In({"pending_client"}), "approved")
    <2>1. PICK to \in {"pending_client", "approved"},
               n \in MovesTo(In({"pending_review"}), "approved") : m = [n EXCEPT !.to = to]
        BY <1>2 DEF ApproveMoves
    <2>2. PICK p \in In({"pending_review"}) :
              n = [row |-> p, from |-> status[p], to |-> "approved", seen |-> content[p]]
        BY <2>1 DEF MovesTo
    <2>3. p \in Rows /\ status[p] = "pending_review"
        BY <2>2 DEF In
    <2>4. m.row = p /\ m.from = "pending_review" /\ m.to = to
        BY <2>1, <2>2, <2>3
    <2> QED BY <2>3, <2>4 DEF Legal, Statuses
<1> QED BY <1>1, <1>2

LEMMA SubmitDecidable ==
    ASSUME EditorialTypes
    PROVE  Decidable(SubmitMoves, "author") /\ Decidable(ResubmitMoves, "author")
<1>1. "pending_review" \in Statuses
    BY DEF Statuses
<1>2. \A S : In(S) \in SUBSET Rows
    BY DEF In
<1> QED BY <1>1, <1>2, AnyEdgeDecidable DEF SubmitMoves, ResubmitMoves

LEMMA ScheduleDecidable ==
    ASSUME EditorialTypes, NEW rows \in SUBSET Rows
    PROVE  Decidable(ScheduleMoves(rows), "author")
<1> SUFFICES ASSUME NEW m \in ScheduleMoves(rows) PROVE Legal(m) /\ ~Approves(m)
    BY DEF Decidable
<1>1. PICK p \in rows : m = [row |-> p, from |-> status[p], to |-> "scheduled", seen |-> content[p]]
    BY DEF ScheduleMoves
<1>2. m.row \in Rows /\ m.from \in Statuses /\ m.to = "scheduled"
    BY <1>1 DEF EditorialTypes
<1> QED BY <1>2, LegalSchedule

LEMMA RescheduleDecidable ==
    ASSUME EditorialTypes, NEW p \in Rows, status[p] \in {"draft", "approved", "scheduled"},
           NEW to, to = IF status[p] = "draft" THEN "scheduled" ELSE status[p]
    PROVE  Decidable({[row |-> p, from |-> status[p], to |-> to, seen |-> content[p]]}, "author")
BY DEF Decidable, Legal, Approves, Statuses, EditorialTypes

\* Each operation of the workflow only reads.
LEMMA OperationsKeep ==
    ASSUME EditorialInv, NEW t \in Threads,
           \/ Review(t)
           \/ \E p \in Rows, target \in ChipTargets : Chip(t, p, target)
           \/ ScheduleDrafts(t)
           \/ \E p \in Rows : Reschedule(t, p)
    PROVE  EditorialInv'
<1> DEFINE Reads == \E who \in People : \E moves : Decidable(moves, who) /\ Decide(t, who, moves)
<1>0. /\ EditorialTypes /\ (\A S : In(S) \in SUBSET Rows)
      /\ "author" \in People /\ "reviewer" \in People /\ "client" \in People
    BY DEF EditorialInv, In, People
<1>1. SubmitForReview(t) \/ ResubmitPost(t) => Reads
    BY <1>0, SubmitDecidable DEF SubmitForReview, ResubmitPost
<1>2. RequestHold(t) => Reads
    <2>1. Decidable(MovesTo(In({"approved"}), "on_hold"), "client")
        BY <1>0, AnyEdgeDecidable DEF Statuses
    <2> QED BY <1>0, <2>1 DEF RequestHold
<1>3. ResumeHold(t) => Reads
    <2>1. Decidable(MovesTo(In({"on_hold"}), "approved"), "reviewer")
        BY <1>0, AnyEdgeDecidable DEF Statuses
    <2> QED BY <1>0, <2>1 DEF ResumeHold
<1>4. ASSUME NEW who \in {"reviewer", "client"},
             ApprovePost(t, who) \/ RequestChanges(t, who) \/ RejectPost(t, who)
      PROVE  Reads
    <2>1. Decidable(ApproveMoves, who)
        BY <1>0, ApproveDecidable
    <2>2. /\ Decidable(MovesTo(In({"pending_review", "pending_client"}), "changes_requested"), who)
          /\ Decidable(MovesTo(In({"pending_review", "pending_client"}), "rejected"), who)
        BY <1>0, AnyEdgeDecidable DEF Statuses
    <2> QED BY <1>0, <1>4, <2>1, <2>2 DEF ApprovePost, RequestChanges, RejectPost
<1>5. ASSUME NEW p \in Rows, NEW target \in ChipTargets, Chip(t, p, target) PROVE Reads
    <2>1. Decidable(MovesTo({p}, target), "reviewer")
        BY <1>0, AnyEdgeDecidable, EditorialConstants
    <2> QED BY <1>0, <1>5, <2>1 DEF Chip
<1>6. ScheduleDrafts(t) => Reads
    <2>1. Decidable(MovesTo(In({"draft"}), "scheduled"), "author")
        BY <1>0, AnyEdgeDecidable DEF Statuses
    <2> QED BY <1>0, <2>1 DEF ScheduleDrafts
<1>7. ASSUME NEW p \in Rows, Reschedule(t, p) PROVE Reads
    <2> DEFINE to == IF status[p] = "draft" THEN "scheduled" ELSE status[p]
    <2>1. /\ status[p] \in {"draft", "approved", "scheduled"}
          /\ Decide(t, "author", {[row |-> p, from |-> status[p], to |-> to,
                                   seen |-> content[p]]})
        BY <1>7 DEF Reschedule
    <2>2. Decidable({[row |-> p, from |-> status[p], to |-> to, seen |-> content[p]]}, "author")
        BY <1>0, <2>1, RescheduleDecidable
    <2> QED BY <1>0, <2>1, <2>2
<1>8. Reads
    BY <1>1, <1>2, <1>3, <1>4, <1>5, <1>6, <1>7 DEF Review
<1> QED BY <1>8, DecideKeeps

\* What a save commits: rows with an approval are flagged, or a revert is to come.
LEMMA SaveKeeps ==
    ASSUME EditorialInv, NEW t \in Threads, NEW base \in BOOLEAN, NEW overrides \in SUBSET Rows,
           NEW target \in Targets, NEW scope \in SUBSET Rows,
           SaveContent(t, base, overrides, target, scope)
    PROVE  EditorialInv'
<1> DEFINE edited == IF base THEN Rows ELSE overrides
           silent == IF target \in {"none", "scheduled"} /\ base THEN {}
                     ELSE edited \cap In(Decided)
           now == [NoRequest EXCEPT
                     !.step = IF target \in {"none", "scheduled"} THEN "revert" ELSE "move",
                     !.changed = base, !.target = target,
                     !.scope = IF target \in {"scheduled", "queue"} THEN scope ELSE {}]
<1>1. /\ req[t].step # "revert" /\ req' = [req EXCEPT ![t] = now]
      /\ content' = Edited(edited) /\ lapse' = Flag(silent, "silent_edit")
      /\ UNCHANGED <<mode, status, vetted, signed>>
    BY DEF SaveContent, Starts, NoRequest
<1>2. req'[t] = now /\ \A x \in Threads \ {t} : req'[x] = req[x]
    BY <1>1 DEF EditorialInv, EditorialTypes
<1>3. /\ now.moves = {} /\ now.changed = base /\ now.scope \subseteq Rows
      /\ now.by \in People
      /\ now.step = "move" => now.target \in {"queue", "submit", "resubmit"}
      /\ now.step = "revert" <=> target \in {"none", "scheduled"}
    BY DEF NoRequest, Targets, People
<1>4. EditorialTypes'
    BY <1>1 DEF EditorialInv, EditorialTypes
<1>5. RequestsLegal'
    BY <1>2, <1>3 DEF EditorialInv, RequestsLegal, Decidable
<1>6. RowsSignedOff'
    <2> SUFFICES ASSUME Gated', ~RevertPending', NEW p \in Rows, lapse'[p] = {}
                 PROVE  SignedOff(p)'
        BY DEF RowsSignedOff, SignedOff
    <2>1. ~(target \in {"none", "scheduled"} /\ base)
        BY <1>2, <1>3 DEF RevertPending
    <2>2. ~RevertPending
        BY <1>1, <1>2 DEF RevertPending
    <2>3. SignedOff(p)
        BY <1>1, <2>2 DEF EditorialInv, RowsSignedOff, Gated
    <2>4. lapse[p] = {} /\ p \notin edited \cap In(Decided)
        BY <1>1, <2>1 DEF Flag
    <2>5. CASE p \in edited
        BY <1>1, <2>4, <2>5 DEF SignedOff, In, Decided
    <2>6. CASE p \notin edited
        BY <1>1, <2>3, <2>4, <2>6 DEF SignedOff, Edited, TwoStage
    <2> QED BY <2>5, <2>6
<1> QED BY <1>4, <1>5, <1>6 DEF EditorialInv

LEMMA PatchKeeps == EditorialInv /\ PatchContent => EditorialInv'
<1> SUFFICES ASSUME EditorialInv, PatchContent PROVE EditorialInv'
    OBVIOUS
<1>1. /\ content' = Edited(Rows) /\ lapse' = Flag(In(Decided), "silent_edit")
      /\ UNCHANGED <<mode, status, vetted, signed, req>>
    BY DEF PatchContent
<1>2. RowsSignedOff'
    <2> SUFFICES ASSUME NEW p \in Rows, lapse'[p] = {} PROVE SignedOff(p)'
        BY DEF RowsSignedOff, SignedOff
    <2>1. p \notin In(Decided)
        BY <1>1 DEF Flag
    <2> QED BY <1>1, <2>1 DEF SignedOff, In, Decided
<1> QED BY <1>1, <1>2 DEF EditorialInv, EditorialTypes, RequestsLegal

\* A request that goes on to write its moves, or has none to write.
LEMMA MovesOrEnd ==
    ASSUME EditorialInv, NEW t \in Threads, NEW moves, Decidable(moves, "author"),
           req' = [req EXCEPT ![t] =
                     IF moves = {} THEN NoRequest
                     ELSE [NoRequest EXCEPT !.step = "commit", !.moves = moves]]
    PROVE  /\ RequestsLegal' /\ req' = [x \in Threads |-> req'[x]]
           /\ req'[t].step # "revert" /\ \A x \in Threads \ {t} : req'[x] = req[x]
<1>1. CASE moves = {}
    <2>1. req' = [req EXCEPT ![t] = NoRequest]
        BY <1>1
    <2> QED BY <2>1, RequestEnds
<1>2. CASE moves # {}
    <2> DEFINE r == [NoRequest EXCEPT !.step = "commit", !.moves = moves]
    <2>1. req' = [req EXCEPT ![t] = r]
        BY <1>2
    <2>2. r.step = "commit" /\ r.by = "author" /\ r.moves = moves /\ r.scope = {}
        BY DEF NoRequest
    <2> HIDE DEF r
    <2>3. "author" \in People
        BY DEF People
    <2> QED BY ZenonT(30), <2>1, <2>2, <2>3, RequestBecomes
<1> QED BY <1>1, <1>2

\* The revert takes approved rows back and flags the others an edit reached.
LEMMA RevertKeeps ==
    ASSUME EditorialInv, NEW t \in Threads, RevertAndMove(t)
    PROVE  EditorialInv'
<1> DEFINE back == Reverted(t)
           moves == IF req[t].target = "scheduled" THEN ScheduleMoves(req[t].scope \ back) ELSE {}
<1>1. /\ req[t].step = "revert"
      /\ status' = [p \in Rows |-> IF p \in back THEN "pending_review" ELSE status[p]]
      /\ vetted' = [p \in Rows |-> IF p \in back THEN NoVersion ELSE vetted[p]]
      /\ signed' = [p \in Rows |-> IF p \in back THEN NoVersion ELSE signed[p]]
      /\ lapse' = [p \in Rows |->
                     IF p \in back THEN {}
                     ELSE IF req[t].changed THEN Flag(In(Decided \ {"approved"}), "silent_edit")[p]
                     ELSE lapse[p]]
      /\ UNCHANGED <<mode, content>>
    BY DEF RevertAndMove
<1>2. /\ req' = [req EXCEPT ![t] =
                   IF moves = {} THEN NoRequest
                   ELSE [NoRequest EXCEPT !.step = "commit", !.moves = moves]]
    BY DEF RevertAndMove
<1>3. Decidable(moves, "author")
    <2>1. Decidable({}, "author") /\ req[t].scope \ back \subseteq Rows
        BY DEF Decidable, EditorialInv, RequestsLegal
    <2> QED BY <2>1, ScheduleDecidable DEF EditorialInv
<1> HIDE DEF moves
<1>4. /\ RequestsLegal' /\ req' = [x \in Threads |-> req'[x]]
      /\ req'[t].step # "revert" /\ \A x \in Threads \ {t} : req'[x] = req[x]
    BY <1>2, <1>3, MovesOrEnd
<1>5. back \subseteq In({"approved"}) /\ (req[t].changed => back = In({"approved"}))
      /\ (~req[t].changed => back = {})
    BY DEF Reverted
<1> HIDE DEF back
<1>6. EditorialTypes'
    BY <1>1, <1>4 DEF EditorialInv, EditorialTypes, Statuses
<1>7. ASSUME Gated', ~RevertPending', NEW p \in Rows, lapse'[p] = {} PROVE SignedOff(p)'
    <2>1. CASE req[t].changed
        <3>1. status'[p] \notin Decided
            BY <1>1, <1>5, <1>7, <2>1 DEF Flag, In, Decided, Settled
        <3> QED BY <3>1 DEF SignedOff, Decided
    <2>2. CASE ~req[t].changed
        <3>1. ~RevertPending
            BY <1>4, <1>7, <2>2 DEF RevertPending
        <3>2. SignedOff(p)
            BY <1>1, <1>7, <3>1 DEF EditorialInv, RowsSignedOff, Gated
        <3> QED BY <1>1, <1>5, <1>7, <2>2, <3>2 DEF SignedOff, TwoStage
    <2> QED BY <2>1, <2>2
<1> QED BY <1>4, <1>6, <1>7 DEF EditorialInv, RowsSignedOff, SignedOff

LEMMA QueueOrSubmitKeeps ==
    ASSUME EditorialInv, NEW t \in Threads, QueueOrSubmit(t)
    PROVE  EditorialInv'
<1> DEFINE moves == CASE req[t].target = "queue"    -> ScheduleMoves(req[t].scope)
                      [] req[t].target = "submit"   -> SubmitMoves
                      [] req[t].target = "resubmit" -> ResubmitMoves
<1>1. /\ req[t].step = "move"
      /\ req' = [req EXCEPT ![t] =
                   IF moves = {} THEN NoRequest
                   ELSE [NoRequest EXCEPT !.step = "commit", !.moves = moves]]
      /\ UNCHANGED <<mode, status, content, vetted, signed, lapse>>
    BY DEF QueueOrSubmit, rowVars
<1>2. Decidable(moves, "author")
    <2>1. req[t].target \in {"queue", "submit", "resubmit"} /\ req[t].scope \subseteq Rows
        BY <1>1 DEF EditorialInv, RequestsLegal
    <2> QED BY <2>1, ScheduleDecidable, SubmitDecidable DEF EditorialInv
<1> HIDE DEF moves
<1>3. /\ RequestsLegal' /\ req' = [x \in Threads |-> req'[x]]
      /\ req'[t].step # "revert" /\ \A x \in Threads \ {t} : req'[x] = req[x]
    BY <1>1, <1>2, MovesOrEnd
<1>4. RevertPending' <=> RevertPending
    BY <1>1, <1>3 DEF RevertPending
<1> QED BY <1>1, <1>3, <1>4
        DEF EditorialInv, EditorialTypes, RowsSignedOff, SignedOff, Gated, TwoStage

\* What a commit does to a row: nothing, or one of the moves decided for it.
Taken(t, p, m) ==
    /\ m \in req[t].moves /\ m.row = p
    /\ status'[p] = m.to
    /\ IF m.to = "pending_review" THEN lapse'[p] = {}
       ELSE /\ lapse'[p] = lapse[p] \cup LapsesOf(req[t].by, m)
            /\ vetted'[p] = IF Approves(m) /\ m.from = "pending_review" /\ req[t].by = "reviewer"
                            THEN m.seen ELSE vetted[p]
            /\ signed'[p] = IF Approves(m) /\ m.from = "pending_client" /\ req[t].by = "client"
                            THEN m.seen ELSE signed[p]

Left(p) == /\ status'[p] = status[p] /\ lapse'[p] = lapse[p]
           /\ vetted'[p] = vetted[p] /\ signed'[p] = signed[p]

LEMMA CommitRow ==
    ASSUME NEW t \in Threads, Commit(t), NEW p \in Rows
    PROVE  Left(p) \/ \E m : Taken(t, p, m)
<1> DEFINE moved == {m.row : m \in req[t].moves}
           mine == CHOOSE m \in req[t].moves : m.row = p
<1>1. CASE p \notin moved
    BY <1>1 DEF Commit, Left
<1>2. CASE p \in moved
    <2>1. mine \in req[t].moves /\ mine.row = p
        BY <1>2
    <2>2. status'[p] = mine.to
        BY <1>2 DEF Commit
    <2>3. lapse'[p] = IF mine.to = "pending_review" THEN {}
                      ELSE lapse[p] \cup LapsesOf(req[t].by, mine)
        BY <1>2 DEF Commit
    <2>4. /\ vetted'[p] = IF mine.to = "pending_review" THEN NoVersion
                          ELSE IF Approves(mine) /\ mine.from = "pending_review"
                                  /\ req[t].by = "reviewer" THEN mine.seen ELSE vetted[p]
        BY <1>2 DEF Commit
    <2>5. /\ signed'[p] = IF mine.to = "pending_review" THEN NoVersion
                          ELSE IF Approves(mine) /\ mine.from = "pending_client"
                                  /\ req[t].by = "client" THEN mine.seen ELSE signed[p]
        BY <1>2 DEF Commit
    <2> HIDE DEF mine
    <2> QED BY <2>1, <2>2, <2>3, <2>4, <2>5 DEF Taken
<1> QED BY <1>1, <1>2

LEMMA CommitKeeps ==
    ASSUME EditorialInv, NEW t \in Threads, Commit(t)
    PROVE  EditorialInv'
<1>1. /\ req[t].step = "commit" /\ req' = [req EXCEPT ![t] = NoRequest]
      /\ UNCHANGED <<mode, content>>
      /\ status' = [p \in Rows |-> status'[p]]
    BY DEF Commit
<1>2. /\ RequestsLegal' /\ req' = [x \in Threads |-> req'[x]]
      /\ req'[t].step = "idle" /\ \A x \in Threads \ {t} : req'[x] = req[x]
    BY <1>1, RequestEnds
<1>3. RevertPending' <=> RevertPending
    BY <1>1, <1>2 DEF RevertPending
<1>4. ASSUME NEW p \in Rows
      PROVE  /\ status'[p] \in Statuses
             /\ Gated /\ ~RevertPending => SignedOff(p)'
    <2>1. CASE Left(p)
        BY <1>1, <2>1
           DEF Left, EditorialInv, EditorialTypes, RowsSignedOff, SignedOff, TwoStage
    <2>2. ASSUME NEW m, Taken(t, p, m)
          PROVE  /\ status'[p] \in Statuses
                 /\ Gated /\ ~RevertPending => SignedOff(p)'
        <3>1. Legal(m) /\ (Approves(m) => req[t].by # "author")
            BY <2>2 DEF Taken, EditorialInv, RequestsLegal, Decidable
        <3>2. status'[p] = m.to /\ m.row = p
            BY <2>2 DEF Taken
        <3>3. ASSUME Gated, ~RevertPending, m.to # "pending_review", lapse'[p] = {}
              PROVE  SignedOff(p)'
            <4>1. lapse[p] = {} /\ LapsesOf(req[t].by, m) = {}
                BY <2>2, <3>3 DEF Taken
            <4>2. /\ m.to \in {"scheduled", "publishing"} => m.from \in Settled
                  /\ Approves(m) => m.seen = content[p]
                  /\ m.from = status[p]
                  /\ Approves(m) /\ m.from = "pending_review" =>
                        req[t].by # "client" /\ ~(TwoStage /\ m.to = "approved")
                  /\ Approves(m) /\ m.from = "pending_client" => req[t].by # "reviewer"
                BY <3>2, <3>3, <4>1 DEF LapsesOf, Lapses
            <4>3. SignedOff(p)
                BY <3>3 DEF EditorialInv, RowsSignedOff
            <4>4. /\ vetted'[p] = IF Approves(m) /\ m.from = "pending_review"
                                     /\ req[t].by = "reviewer" THEN m.seen ELSE vetted[p]
                  /\ signed'[p] = IF Approves(m) /\ m.from = "pending_client"
                                     /\ req[t].by = "client" THEN m.seen ELSE signed[p]
                BY <2>2, <3>3 DEF Taken
            <4>5. CASE Approves(m)
                <5>1. req[t].by \in People
                    BY DEF EditorialInv, RequestsLegal
                <5>2. CASE m.from = "pending_review"
                    BY <1>1, <3>1, <3>2, <4>2, <4>4, <4>5, <5>1, <5>2
                       DEF SignedOff, Settled, Approves, TwoStage, People
                <5>3. CASE m.from = "pending_client"
                    <6>1. m.to = "approved" /\ vetted[p] = content[p]
                        BY <3>1, <4>1, <4>2, <4>3, <4>5, <5>3 DEF SignedOff, Legal, Approves
                    <6> QED BY <1>1, <3>1, <3>2, <4>2, <4>4, <4>5, <5>1, <5>3, <6>1
                            DEF SignedOff, Settled, TwoStage, People
                <5> QED BY <4>5, <5>2, <5>3 DEF Approves
            <4>6. CASE ~Approves(m)
                <5>1. vetted'[p] = vetted[p] /\ signed'[p] = signed[p]
                    BY <4>4, <4>6
                <5>2. m.to \in Decided => m.from \in Settled
                    BY <3>1, <4>2, <4>6 DEF Legal, Approves, Decided, Settled
                <5> QED BY <1>1, <3>2, <4>1, <4>2, <4>3, <5>1, <5>2
                        DEF SignedOff, Decided, TwoStage
            <4> QED BY <4>5, <4>6
        <3>4. m.to = "pending_review" => SignedOff(p)'
            BY <3>2 DEF SignedOff, Settled
        <3> QED BY <3>1, <3>2, <3>3, <3>4 DEF Legal, SignedOff
    <2> QED BY <2>1, <2>2, CommitRow
<1>5. EditorialTypes'
    BY <1>1, <1>2, <1>4 DEF EditorialTypes
<1>6. RowsSignedOff'
    BY <1>1, <1>3, <1>4 DEF RowsSignedOff, Gated
<1> QED BY <1>2, <1>5, <1>6 DEF EditorialInv

\* A death inside a save leaves every row that had an approval flagged.
LEMMA DieKeeps ==
    ASSUME EditorialInv, NEW t \in Threads, Die(t)
    PROVE  EditorialInv'
<1>1. /\ req' = [req EXCEPT ![t] = NoRequest]
      /\ lapse' = IF req[t].step = "revert" /\ req[t].changed
                  THEN Flag(In(Decided), "crash") ELSE lapse
      /\ UNCHANGED <<mode, status, content, vetted, signed>>
    BY DEF Die
<1>2. /\ RequestsLegal' /\ req' = [x \in Threads |-> req'[x]]
      /\ req'[t].step = "idle" /\ \A x \in Threads \ {t} : req'[x] = req[x]
    BY <1>1, RequestEnds
<1>3. CASE req[t].step = "revert" /\ req[t].changed
    <2>1. \A p \in Rows : SignedOff(p)'
        BY <1>1, <1>3 DEF SignedOff, Flag, In, Decided
    <2> QED BY <1>1, <1>2, <2>1 DEF EditorialInv, EditorialTypes, RowsSignedOff
<1>4. CASE ~(req[t].step = "revert" /\ req[t].changed)
    <2>1. RevertPending' <=> RevertPending
        BY <1>2, <1>4 DEF RevertPending
    <2> QED BY <1>1, <1>2, <1>4, <2>1
            DEF EditorialInv, EditorialTypes, RowsSignedOff, SignedOff, Gated, TwoStage
<1> QED BY <1>3, <1>4

LEMMA PublishKeeps ==
    ASSUME EditorialInv, NEW p \in Rows, NEW outcome \in {"published", "failed"},
           Publish(p, outcome)
    PROVE  EditorialInv'
<1>1. /\ status[p] = "scheduled" /\ status' = [status EXCEPT ![p] = outcome]
      /\ UNCHANGED <<mode, content, vetted, signed, lapse, req>>
    BY DEF Publish
<1>2. \A x \in Rows : SignedOff(x) => SignedOff(x)'
    BY <1>1 DEF EditorialInv, EditorialTypes, SignedOff, Settled, TwoStage
<1>3. EditorialTypes'
    BY <1>1 DEF EditorialInv, EditorialTypes, Statuses
<1> QED BY <1>1, <1>2, <1>3
        DEF EditorialInv, RequestsLegal, RowsSignedOff, RevertPending, Gated

LEMMA EditorialNextKeeps == EditorialInv /\ [EditorialNext]_editorialVars => EditorialInv'
<1> SUFFICES ASSUME EditorialInv, [EditorialNext]_editorialVars PROVE EditorialInv'
    OBVIOUS
<1>1. CASE UNCHANGED editorialVars
    BY <1>1 DEF editorialVars, rowVars, EditorialInv, EditorialTypes, RequestsLegal,
                RowsSignedOff, RevertPending, SignedOff, Gated, TwoStage
<1>2. CASE EditorialNext
    BY <1>2, OperationsKeep, SaveKeeps, PatchKeeps, RevertKeeps, QueueOrSubmitKeeps,
       CommitKeeps, DieKeeps, PublishKeeps DEF EditorialNext
<1> QED BY <1>1, <1>2

LEMMA EditorialInvSignsOff == EditorialInv => SignOffIsCurrent
BY DEF EditorialInv, RowsSignedOff, RevertPending, SignOffIsCurrent, SignedOff, In, Settled

\* "edited content can't publish without a fresh review": an approved or scheduled row
\* has its present content approved by everybody the mode asks, whatever the requests,
\* their interleaving and the rows, unless one of the named lapses happened to it.
THEOREM SignOffStaysCurrent == EditorialSpec => []SignOffIsCurrent
BY EditorialInvInit, EditorialNextKeeps, EditorialInvSignsOff, PTL DEF EditorialSpec

\* Rejected rows and rows sent back are approved only by an answer to what they were.
LEMMA EditorialStepKeepsDecisions ==
    ASSUME EditorialInv, [EditorialNext]_editorialVars
    PROVE  DecisionKept
<1> SUFFICES ASSUME NEW p \in Rows, status[p] \in {"rejected", "changes_requested"},
                    status'[p] \in {"approved", "pending_client"}
             PROVE  \E t \in Threads : \E m \in req[t].moves : m.row = p /\ m.from # status[p]
    BY DEF DecisionKept, In
<1>1. ASSUME NEW t \in Threads, Commit(t)
      PROVE  \E m \in req[t].moves : m.row = p /\ m.from # status[p]
    <2>1. ~Left(p)
        BY DEF Left
    <2>2. PICK m : Taken(t, p, m)
        BY <1>1, <2>1, CommitRow
    <2>3. m \in req[t].moves /\ m.row = p /\ status'[p] = m.to
        BY <2>2 DEF Taken
    <2>4. Legal(m)
        BY <2>3 DEF EditorialInv, RequestsLegal, Decidable
    <2> QED BY <2>3, <2>4 DEF Legal
<1>2. ASSUME NEW t \in Threads, RevertAndMove(t) PROVE status'[p] \in {status[p], "pending_review"}
    BY <1>2 DEF RevertAndMove
<1>3. ASSUME NEW x \in Rows, NEW outcome \in {"published", "failed"}, Publish(x, outcome)
      PROVE  status'[p] = status[p]
    BY <1>3 DEF Publish, EditorialInv, EditorialTypes
<1>4. ASSUME NEW t \in Threads, NEW who, NEW moves, Decide(t, who, moves)
      PROVE  status' = status
    BY <1>4 DEF Decide, rowVars
<1>5. ASSUME NEW t \in Threads,
             \/ Review(t) \/ ScheduleDrafts(t)
             \/ \E x \in Rows, target \in ChipTargets : Chip(t, x, target)
             \/ \E x \in Rows : Reschedule(t, x)
      PROVE  status' = status
    BY <1>4, <1>5 DEF Review, SubmitForReview, ResubmitPost, RequestHold, ResumeHold, ApprovePost,
                      RequestChanges, RejectPost, Chip, ScheduleDrafts, Reschedule
<1>6. ASSUME NEW t \in Threads,
             \/ \E base \in BOOLEAN, overrides, scope \in SUBSET Rows, target \in Targets :
                   SaveContent(t, base, overrides, target, scope)
             \/ QueueOrSubmit(t) \/ Die(t)
      PROVE  status' = status
    BY <1>6 DEF SaveContent, QueueOrSubmit, Die, rowVars
<1>7. CASE PatchContent \/ UNCHANGED editorialVars
    BY <1>7 DEF PatchContent, editorialVars, rowVars
<1> QED BY <1>1, <1>2, <1>3, <1>5, <1>6, <1>7 DEF EditorialNext

\* A rejection or a request for changes stands until the author sends the row to review
\* again; only an answer to the row's earlier status overturns it.
THEOREM DecisionsStay == EditorialSpec => [][DecisionKept]_editorialVars
<1>1. EditorialInv /\ [EditorialNext]_editorialVars => [DecisionKept]_editorialVars
    BY EditorialStepKeepsDecisions
<1> QED BY <1>1, EditorialInvInit, EditorialNextKeeps, PTL DEF EditorialSpec

-------------------------------------------------------------------------------
(* QueueSlots: when the writes of a slot operation were decided *)

\* Rows are records, so that writing a field of one leaves the other.
SlotRows ==
    /\ qrow = [p \in QueuedPosts |-> qrow[p]]
    /\ \A p \in QueuedPosts : qrow[p] = [status |-> qrow[p].status, at |-> qrow[p].at]
    /\ slotOp = [t \in SlotThreads |-> slotOp[t]]

\* What an operation is about to write it decided when the row was neither sent nor
\* being sent, or it is the post that is prioritized.
DecidedUnsent(op) ==
    \A p \in DOMAIN op.times :
        op.read[p] \notin ProtectedStatuses \/ (op.kind = "prioritize" /\ op.post = p)

OperationsUnsent ==
    \A t \in SlotThreads :
        /\ DecidedUnsent(slotOp[t])
        /\ slotOp[t].kind = "drag" => slotOp[t].post \in DOMAIN slotOp[t].times

SlotInv == SlotRows /\ OperationsUnsent

LEMMA NoOpUnsent == DecidedUnsent(NoOp) /\ NoOp.kind # "drag"
BY DEF DecidedUnsent, NoOp

LEMMA SlotInvInit == SlotInit => SlotInv
<1> SUFFICES ASSUME SlotInit PROVE SlotInv
    OBVIOUS
<1>1. SlotRows
    BY DEF SlotInit, SlotRows
<1>2. OperationsUnsent
    BY NoOpUnsent DEF SlotInit, OperationsUnsent
<1> QED BY <1>1, <1>2 DEF SlotInv

LEMMA OperationBecomes ==
    ASSUME SlotInv, NEW t \in SlotThreads, NEW op, slotOp' = [slotOp EXCEPT ![t] = op],
           DecidedUnsent(op), op.kind = "drag" => op.post \in DOMAIN op.times
    PROVE  OperationsUnsent' /\ slotOp' = [x \in SlotThreads |-> slotOp'[x]]
<1>1. slotOp'[t] = op /\ \A x \in SlotThreads \ {t} : slotOp'[x] = slotOp[x]
    BY DEF SlotInv, SlotRows
<1>2. slotOp' = [x \in SlotThreads |-> slotOp'[x]]
    BY DEF SlotInv, SlotRows
<1> QED BY <1>1, <1>2 DEF SlotInv, OperationsUnsent, DecidedUnsent

\* Taking the lock with a decision about unsent rows.
LEMMA TakeKeeps ==
    ASSUME SlotInv, NEW t \in SlotThreads, NEW kind, NEW q, NEW urgent, NEW times,
           Take(t, kind, q, urgent, times), kind # "drag",
           \A p \in DOMAIN times : ~Protected(p) \/ (kind = "prioritize" /\ urgent = p)
    PROVE  SlotInv'
<1> DEFINE op == [kind |-> kind, queue |-> q, post |-> urgent, times |-> times,
                  read |-> [p \in DOMAIN times |-> qrow[p].status],
                  had |-> [p \in DOMAIN times |-> qrow[p].at]]
<1>1. slotOp' = [slotOp EXCEPT ![t] = op] /\ UNCHANGED qrow
    BY DEF Take
<1>2. DecidedUnsent(op) /\ op.kind # "drag"
    BY DEF DecidedUnsent, Protected
<1> HIDE DEF op
<1>3. OperationsUnsent' /\ slotOp' = [x \in SlotThreads |-> slotOp'[x]]
    BY <1>1, <1>2, OperationBecomes
<1> QED BY <1>1, <1>3 DEF SlotInv, SlotRows

\* A ladder moves unsent posts, and the post it makes room for.
LEMMA LadderMovesUnsent ==
    ASSUME NEW q, NEW urgent, NEW rank, NEW p \in DOMAIN Prioritized(q, urgent, rank)
    PROVE  p = urgent \/ ~Protected(p)
<1>1. CASE First(Upcoming) \in {qrow[x].at : x \in Movable(q, urgent)}
    <2>1. Prioritized(q, urgent, rank) = Climb(q, urgent, rank)
        BY <1>1 DEF Prioritized
    <2>2. DOMAIN Climb(q, urgent, rank) = Movers(q, urgent) \cup {urgent}
        BY DEF Climb
    <2> QED BY <2>1, <2>2 DEF Movers, Movable
<1>2. CASE ~(First(Upcoming) \in {qrow[x].at : x \in Movable(q, urgent)})
    <2>1. Prioritized(q, urgent, rank) = [x \in {urgent} |-> First(Free({urgent}))]
        BY <1>2 DEF Prioritized
    <2> QED BY <2>1
<1> QED BY <1>1, <1>2

LEMMA SlotRequestsKeep ==
    ASSUME SlotInv, NEW t \in SlotThreads,
           \/ \E q \in Queues, p \in QueuedPosts : AddNextAvailable(t, q, p) \/ Prioritize(t, q, p)
           \/ \E q \in Queues, p, r \in QueuedPosts : Reorder(t, q, p, r)
    PROVE  SlotInv' /\ UNCHANGED qrow
<1>1. ASSUME NEW q \in Queues, NEW p \in QueuedPosts, AddNextAvailable(t, q, p)
      PROVE  SlotInv' /\ UNCHANGED qrow
    <2> DEFINE times == [x \in {p} |-> First(Free({p}))]
    <2>1. Take(t, "add", q, p, times) /\ ~Protected(p) /\ DOMAIN times = {p}
        BY <1>1 DEF AddNextAvailable
    <2> HIDE DEF times
    <2>2. UNCHANGED qrow
        BY <2>1 DEF Take
    <2> QED BY <2>1, <2>2, TakeKeeps
<1>2. ASSUME NEW q \in Queues, NEW p \in QueuedPosts, Prioritize(t, q, p)
      PROVE  SlotInv' /\ UNCHANGED qrow
    <2>1. PICK rank \in Rankings : Take(t, "prioritize", q, p, Prioritized(q, p, rank))
        BY <1>2 DEF Prioritize
    <2>2. \A x \in DOMAIN Prioritized(q, p, rank) : ~Protected(x) \/ p = x
        BY LadderMovesUnsent
    <2>3. UNCHANGED qrow
        BY <2>1 DEF Take
    <2> QED BY <2>1, <2>2, <2>3, TakeKeeps
<1>3. ASSUME NEW q \in Queues, NEW p \in QueuedPosts, NEW r \in QueuedPosts, Reorder(t, q, p, r)
      PROVE  SlotInv' /\ UNCHANGED qrow
    <2>1. PICK early, late :
              Take(t, "reorder", q, p, [x \in {p, r} |-> IF x = p THEN early ELSE late])
        BY <1>3 DEF Reorder
    <2> DEFINE times == [x \in {p, r} |-> IF x = p THEN early ELSE late]
    <2>2. \A x \in DOMAIN times : ~Protected(x)
        BY <1>3 DEF Reorder
    <2> HIDE DEF times
    <2>3. Take(t, "reorder", q, p, times) /\ UNCHANGED qrow
        BY <2>1 DEF Take, times
    <2> QED BY <2>2, <2>3, TakeKeeps
<1> QED BY <1>1, <1>2, <1>3

LEMMA DragKeeps ==
    ASSUME SlotInv, NEW t \in SlotThreads, NEW p \in QueuedPosts, NEW at \in Instants,
           Drag(t, p, at)
    PROVE  SlotInv' /\ UNCHANGED qrow
<1> DEFINE op == [NoOp EXCEPT !.kind = "drag", !.post = p,
                              !.times = [x \in {p} |-> at],
                              !.read = [x \in {p} |-> qrow[p].status]]
<1>1. /\ slotOp' = [slotOp EXCEPT ![t] = op] /\ UNCHANGED qrow
      /\ qrow[p].status \in {"draft", "approved", "scheduled"}
    BY DEF Drag
<1>2. op.post = p /\ DOMAIN op.times = {p} /\ op.read[p] = qrow[p].status
    BY DEF NoOp
<1> HIDE DEF op
<1>3. DecidedUnsent(op) /\ op.post \in DOMAIN op.times
    BY <1>1, <1>2 DEF DecidedUnsent, ProtectedStatuses
<1> QED BY <1>1, <1>3, OperationBecomes DEF SlotInv, SlotRows

\* What a written row may have become.
Rewritten(p, t) ==
    /\ p \in DOMAIN slotOp[t].times
    /\ qrow'[p] = [status |-> qrow'[p].status, at |-> qrow'[p].at]

LEMMA WritesKeep ==
    ASSUME SlotInv, NEW t \in SlotThreads, WriteSlots(t) \/ WriteDrag(t)
    PROVE  SlotInv' /\ \A p \in QueuedPosts : qrow'[p] = qrow[p] \/ Rewritten(p, t)
<1>1. slotOp' = [slotOp EXCEPT ![t] = NoOp]
    BY DEF WriteSlots, WriteDrag
<1>2. OperationsUnsent' /\ slotOp' = [x \in SlotThreads |-> slotOp'[x]]
    BY <1>1, NoOpUnsent, OperationBecomes
<1>3. ASSUME WriteSlots(t)
      PROVE  /\ qrow' = [p \in QueuedPosts |-> qrow'[p]]
             /\ \A p \in QueuedPosts : qrow'[p] = qrow[p] \/ Rewritten(p, t)
    <2>1. qrow' = [p \in QueuedPosts |->
                     IF p \in DOMAIN slotOp[t].times THEN AfterWrite(t, p) ELSE qrow[p]]
        BY <1>3 DEF WriteSlots
    <2>2. \A p : AfterWrite(t, p) = [status |-> AfterWrite(t, p).status, at |-> AfterWrite(t, p).at]
        BY DEF AfterWrite
    <2> QED BY <2>1, <2>2 DEF Rewritten
<1>4. ASSUME WriteDrag(t)
      PROVE  /\ qrow' = [p \in QueuedPosts |-> qrow'[p]]
             /\ \A p \in QueuedPosts : qrow'[p] = qrow[p] \/ Rewritten(p, t)
    <2>1. PICK status1, at1 :
              qrow' = [qrow EXCEPT ![slotOp[t].post] = [status |-> status1, at |-> at1]]
        BY <1>4 DEF WriteDrag
    <2>2. slotOp[t].post \in DOMAIN slotOp[t].times
        BY <1>4 DEF WriteDrag, SlotInv, OperationsUnsent
    <2> QED BY <2>1, <2>2 DEF Rewritten, SlotInv, SlotRows
<1>5. /\ qrow' = [p \in QueuedPosts |-> qrow'[p]]
      /\ \A p \in QueuedPosts : qrow'[p] = qrow[p] \/ Rewritten(p, t)
    BY <1>3, <1>4
<1>6. SlotRows'
    BY <1>2, <1>5 DEF SlotInv, SlotRows, Rewritten
<1> QED BY <1>2, <1>5, <1>6 DEF SlotInv

\* What takes no lock and writes at once: the time of a sent row stays.
UnsentOnly ==
    \A p \in QueuedPosts :
        /\ qrow'[p] = [status |-> qrow'[p].status, at |-> qrow'[p].at]
        /\ Protected(p) => qrow'[p].at = qrow[p].at

LEMMA RestKeeps ==
    ASSUME SlotInv,
           \/ \E q \in Queues, p \in QueuedPosts : RemoveFromQueue(q, p)
           \/ \E p \in QueuedPosts :
                 \/ \E at \in Instants : Schedule(p, at)
                 \/ Fire(p)
                 \/ \E outcome \in {"published", "failed", "scheduled"} : Settle(p, outcome)
           \/ \E q \in Queues : DeleteQueue(q)
           \/ \E s \in Instants : EditSlot(s)
           \/ SlotTick \/ UNCHANGED slotVars
    PROVE  SlotInv' /\ UnsentOnly
<1>1. UNCHANGED slotOp
    BY DEF RemoveFromQueue, Schedule, Fire, Settle, DeleteQueue, EditSlot, SlotTick, slotVars
<1>2. CASE UNCHANGED qrow
    BY <1>1, <1>2
       DEF SlotInv, SlotRows, OperationsUnsent, DecidedUnsent, UnsentOnly
<1>3. ASSUME NEW p \in QueuedPosts, NEW s, NEW at,
             ~Protected(p) \/ at = qrow[p].at,
             qrow' = [qrow EXCEPT ![p] = [status |-> s, at |-> at]]
      PROVE  SlotInv' /\ UnsentOnly
    <2>1. qrow' = [x \in QueuedPosts |-> qrow'[x]]
        BY <1>3 DEF SlotInv, SlotRows
    <2>2. /\ qrow'[p] = [status |-> s, at |-> at]
          /\ \A x \in QueuedPosts \ {p} : qrow'[x] = qrow[x]
        BY <1>3 DEF SlotInv, SlotRows
    <2>3. UnsentOnly
        BY <1>3, <2>2 DEF UnsentOnly, SlotInv, SlotRows
    <2> QED BY <1>1, <2>1, <2>3
            DEF SlotInv, SlotRows, OperationsUnsent, DecidedUnsent, UnsentOnly
<1>4. ASSUME NEW q \in Queues, NEW p \in QueuedPosts, RemoveFromQueue(q, p)
      PROVE  \/ UNCHANGED qrow
             \/ /\ ~Protected(p)
                /\ qrow' = [qrow EXCEPT ![p] = [status |-> "draft", at |-> NoTime]]
    BY <1>4 DEF RemoveFromQueue
<1>5. ASSUME NEW p \in QueuedPosts, NEW at \in Instants, Schedule(p, at)
      PROVE  /\ ~Protected(p)
             /\ qrow' = [qrow EXCEPT ![p] = [status |-> "scheduled", at |-> at]]
    BY <1>5 DEF Schedule
<1>6. ASSUME NEW p \in QueuedPosts, NEW s, qrow' = [qrow EXCEPT ![p].status = s]
      PROVE  qrow' = [qrow EXCEPT ![p] = [status |-> s, at |-> qrow[p].at]]
    <2>1. qrow[p] = [status |-> qrow[p].status, at |-> qrow[p].at]
        BY DEF SlotInv, SlotRows
    <2>2. [qrow[p] EXCEPT !.status = s] = [status |-> s, at |-> qrow[p].at]
        BY <2>1
    <2> QED BY <1>6, <2>2
<1>7. ASSUME NEW p \in QueuedPosts,
             Fire(p) \/ \E outcome \in {"published", "failed", "scheduled"} : Settle(p, outcome)
      PROVE  \E s : qrow' = [qrow EXCEPT ![p].status = s]
    BY <1>7 DEF Fire, Settle
<1>8. (\E q \in Queues : DeleteQueue(q)) \/ (\E s \in Instants : EditSlot(s)) \/ SlotTick
         \/ UNCHANGED slotVars => UNCHANGED qrow
    BY DEF DeleteQueue, EditSlot, SlotTick, slotVars
<1> QED BY <1>2, <1>3, <1>4, <1>5, <1>6, <1>7, <1>8

LEMMA SlotNextKeeps ==
    ASSUME SlotInv, [SlotNext]_slotVars
    PROVE  SlotInv' /\ SentTimeKept
<1>1. ASSUME NEW t \in SlotThreads, \A p \in QueuedPosts : qrow'[p] = qrow[p] \/ Rewritten(p, t)
      PROVE  SentTimeKept
    BY <1>1 DEF SentTimeKept, Rewritten, SlotInv, OperationsUnsent, DecidedUnsent
<1>2. UNCHANGED qrow \/ UnsentOnly => SentTimeKept
    BY DEF SentTimeKept, UnsentOnly
<1> QED BY <1>1, <1>2, SlotRequestsKeep, DragKeeps, WritesKeep, RestKeeps DEF SlotNext

\* "A published/publishing post's schedule is history": whatever the queues, slots and
\* threads, the time of such a row moves only by a write that was decided before, or
\* when the post itself is prioritized.
THEOREM SentTimesStay == SlotSpec => [][SentTimeKept]_slotVars
<1>1. SlotInv /\ [SlotNext]_slotVars => SlotInv' /\ [SentTimeKept]_slotVars
    BY SlotNextKeeps
<1> QED BY <1>1, SlotInvInit, PTL DEF SlotSpec

-------------------------------------------------------------------------------
(* QueueSlots: no double booking *)

\* A non-empty set of naturals has a least element.
LEMMA LeastOne ==
    ASSUME NEW S \in SUBSET Nat, S # {}
    PROVE  \E i \in S : \A j \in S : i <= j
<1>1. PICK i \in S : \A j \in S : ~(<<j, i>> \in OpToRel(<, Nat))
    BY NatLessThanWellFounded, WFMin
<1>2. \A j \in S : ~(j < i)
    BY <1>1 DEF OpToRel
<1> QED BY <1>2

LEMMA FirstIsLeast ==
    ASSUME NEW S \in SUBSET Instants, First(S) # Full
    PROVE  First(S) \in S /\ \A x \in S : First(S) <= x
<1>1. S # {} /\ First(S) = Min(S)
    BY DEF First
<1>2. S \in SUBSET Nat
    BY QueueConstants DEF Instants
<1> QED BY <1>1, <1>2, LeastOne DEF Min

\* Each member of M, after those before it, takes the first of what is open to it that
\* none of them took.
TurnsTaken(f, M, before, open) ==
    f = [p \in M |-> First(open[p] \ {f[x] : x \in before[p]})]

\* What takes a first choice each, in an order that some measure bounds, can be computed:
\* the recursion of the climb has a solution.
LEMMA TurnsCanBeTaken ==
    ASSUME NEW M, NEW bound \in Nat, NEW m \in [M -> 0..bound],
           NEW before \in [M -> SUBSET M], NEW open,
           \A p \in M : \A x \in before[p] : m[x] < m[p]
    PROVE  \E f : TurnsTaken(f, M, before, open)
<1> DEFINE Upto(n) == {p \in M : m[p] < n}
           Turn(f, p) == First(open[p] \ {f[x] : x \in before[p]})
           Done(n) == \E f : f = [p \in Upto(n) |-> Turn(f, p)]
           Bad == {n \in Nat : ~Done(n)}
<1>1. Done(0)
    <2>1. Upto(0) = {}
        OBVIOUS
    <2> DEFINE f == [p \in {} |-> 0]
    <2>2. f = [p \in Upto(0) |-> Turn(f, p)]
        BY <2>1
    <2> QED BY <2>2
<1>2. ASSUME NEW k \in Nat, Done(k) PROVE Done(k + 1)
    <2>1. PICK f : f = [p \in Upto(k) |-> Turn(f, p)]
        BY <1>2
    <2> DEFINE g == [p \in Upto(k + 1) |-> IF p \in Upto(k) THEN f[p] ELSE Turn(f, p)]
    <2>2. ASSUME NEW p \in Upto(k + 1) PROVE g[p] = Turn(g, p)
        <3>1. p \in M /\ m[p] \in Nat /\ m[p] < k + 1
            OBVIOUS
        <3>2. \A x \in before[p] : x \in M /\ m[x] \in Nat /\ m[x] < m[p]
            BY <3>1
        <3>3. \A x \in before[p] : x \in Upto(k) /\ x \in Upto(k + 1)
            BY <3>1, <3>2
        <3>4. \A x \in before[p] : f[x] = g[x]
            BY <3>3
        <3>5. {f[x] : x \in before[p]} = {g[x] : x \in before[p]}
            BY <3>4
        <3>6. Turn(f, p) = Turn(g, p)
            BY <3>5
        <3>7. p \in Upto(k) => f[p] = Turn(f, p)
            BY <2>1
        <3>8. g[p] = IF p \in Upto(k) THEN f[p] ELSE Turn(f, p)
            OBVIOUS
        <3> QED BY <3>6, <3>7, <3>8
    <2>3. g = [p \in Upto(k + 1) |-> g[p]]
        OBVIOUS
    <2> HIDE DEF g
    <2>4. g = [p \in Upto(k + 1) |-> Turn(g, p)]
        BY <2>2, <2>3
    <2> QED BY <2>4
<1>3. Bad = {}
    <2> HIDE DEF Done
    <2> SUFFICES ASSUME Bad # {} PROVE FALSE
        OBVIOUS
    <2>1. PICK n \in Bad : \A j \in Bad : n <= j
        BY LeastOne
    <2>2. n # 0
        BY <1>1, <2>1
    <2>3. n - 1 \in Nat /\ n - 1 \notin Bad /\ (n - 1) + 1 = n
        BY <2>1, <2>2
    <2> QED BY <1>2, <2>1, <2>3
<1>4. Done(bound + 1)
    <2> HIDE DEF Done
    <2> QED BY <1>3
<1>5. Upto(bound + 1) = M
    OBVIOUS
<1> QED BY <1>4, <1>5 DEF TurnsTaken

LEMMA FirstOfNone == First({}) = Full
BY DEF First

\* Products of naturals, one of the factors common.
LEMMA HigherRow ==
    ASSUME NEW a \in Nat, NEW b \in Nat, NEW c \in Nat, a < b
    PROVE  a * c \in Nat /\ b * c \in Nat /\ a * c + c <= b * c
<1>1. PICK k \in Nat : b = a + 1 + k
    <2>1. b - a - 1 \in Nat /\ b = a + 1 + (b - a - 1)
        OBVIOUS
    <2> QED BY <2>1
<1>2. b * c = a * c + c + k * c /\ k * c \in Nat /\ a * c \in Nat
    BY <1>1
<1> QED BY <1>2

\* What is known of the instants.
SlotTypes ==
    /\ \A p \in QueuedPosts : qrow[p].at \in Int
    /\ slots \subseteq Instants
    /\ qnow \in Nat

Before(M, rank, p) ==
    {x \in M : qrow[x].at > qrow[p].at \/ (qrow[x].at = qrow[p].at /\ rank[x] < rank[p])}

LEMMA MoversAreOnSlots ==
    ASSUME SlotTypes, NEW q, NEW urgent, NEW p \in Movers(q, urgent)
    PROVE  /\ p \in QueuedPosts \ {urgent} /\ ~Protected(p) /\ Future(p)
           /\ qrow[p].at \in Upcoming /\ qrow[p].at \in Nat
           /\ qrow[p].at <= Horizon
<1>1. p \in Movable(q, urgent) /\ qrow[p].at \in Upcoming
    BY DEF Movers, Ladder
<1>2. qrow[p].at \in Instants
    BY <1>1 DEF SlotTypes, Upcoming
<1> QED BY <1>1, <1>2, QueueConstants DEF Movable, Instants

\* A climb by turns, each mover taking the first rung after its own slot.
ClimbsTo(q, urgent, rank, to) ==
    LET M == Movers(q, urgent)
    IN  /\ Climb(q, urgent, rank) =
              [p \in M \cup {urgent} |-> IF p = urgent THEN First(Upcoming) ELSE to[p]]
        /\ to = [p \in M |-> First({s \in Rungs(q, urgent) : s > qrow[p].at}
                                      \ {to[x] : x \in Before(M, rank, p)})]

\* Each post that climbs gets a slot after its own, that nobody before it got and that no
\* post which stays holds.
LEMMA ClimbTakesTurns ==
    ASSUME SlotTypes, NEW q, NEW urgent, NEW rank \in Rankings
    PROVE  \E to : ClimbsTo(q, urgent, rank, to)
<1> DEFINE M == Movers(q, urgent)
           n == Cardinality(QueuedPosts)
           before == [p \in M |-> Before(M, rank, p)]
           open == [p \in M |-> {s \in Rungs(q, urgent) : s > qrow[p].at}]
           m == [p \in M |-> (Horizon - qrow[p].at) * n + rank[p]]
           bound == Horizon * n + n
           TT(f) == [p \in M |-> First({s \in Rungs(q, urgent) : s > qrow[p].at}
                                               \ {f[x] : x \in Before(M, rank, p)})]
<1>1. n \in Nat /\ Horizon \in Nat
    BY QueueConstants, FS_CardinalityType
<1>2. \A p \in M : rank[p] \in 1..n
    BY MoversAreOnSlots DEF Rankings, Bijection, Injection, Surjection, IsInjective
<1>3. \A p \in M : Horizon - qrow[p].at \in Nat /\ Horizon - qrow[p].at <= Horizon
    BY <1>1, MoversAreOnSlots
<1> HIDE DEF M, n
<1>4. ASSUME NEW p \in M PROVE (Horizon - qrow[p].at) * n \in Nat /\ m[p] \in 0..bound
    <2>1. (Horizon - qrow[p].at) * n \in Nat /\ Horizon * n \in Nat
        BY <1>1, <1>3
    <2>2. (Horizon - qrow[p].at) * n <= Horizon * n
        BY <1>1, <1>3, HigherRow
    <2>3. m[p] = (Horizon - qrow[p].at) * n + rank[p]
        OBVIOUS
    <2> QED BY <1>1, <1>2, <2>1, <2>2, <2>3
<1>5. ASSUME NEW p \in M, NEW x \in before[p] PROVE m[x] < m[p]
    <2>1. x \in M
        BY DEF Before
    <2>2. qrow[x].at > qrow[p].at \/ (qrow[x].at = qrow[p].at /\ rank[x] < rank[p])
        BY DEF Before
    <2>3. /\ m[x] = (Horizon - qrow[x].at) * n + rank[x] /\ m[p] = (Horizon - qrow[p].at) * n + rank[p]
          /\ qrow[p].at \in Nat /\ qrow[x].at \in Nat
          /\ rank[x] \in 1..n /\ rank[p] \in 1..n
        BY <2>1, <1>2, MoversAreOnSlots DEF M
    <2>4. CASE qrow[x].at > qrow[p].at
        <3>1. Horizon - qrow[x].at < Horizon - qrow[p].at
            BY <2>3, <2>4, <1>1
        <3>2. (Horizon - qrow[x].at) * n + n <= (Horizon - qrow[p].at) * n
            BY <3>1, <2>1, <1>1, <1>3, HigherRow
        <3> DEFINE a == (Horizon - qrow[x].at) * n
                   b == (Horizon - qrow[p].at) * n
        <3>3. a \in Nat /\ b \in Nat
            BY <1>4, <2>1
        <3>4. m[x] = a + rank[x] /\ m[p] = b + rank[p] /\ a + n <= b
            BY <2>3, <3>2
        <3> HIDE DEF a, b, m
        <3> QED BY <3>3, <3>4, <2>3, <1>1
    <2>5. CASE qrow[x].at = qrow[p].at /\ rank[x] < rank[p]
        <3> DEFINE a == (Horizon - qrow[x].at) * n
        <3>1. a \in Nat /\ m[x] = a + rank[x] /\ m[p] = a + rank[p]
            BY <2>3, <2>5, <1>4, <2>1
        <3> HIDE DEF a, m
        <3> QED BY <3>1, <2>5, <2>3, <1>1
    <2> QED BY <2>2, <2>4, <2>5
<1>6. bound \in Nat /\ m \in [M -> 0..bound] /\ before \in [M -> SUBSET M]
    BY <1>1, <1>4 DEF Before
<1> HIDE DEF m, bound, before, open
<1>7. \E f : TurnsTaken(f, M, before, open)
    <2>1. \A p \in M : \A x \in before[p] : m[x] < m[p]
        BY <1>5
    <2> QED BY <1>6, <2>1, TurnsCanBeTaken
<1>8. \E f : f = TT(f)
    BY <1>7 DEF before, open, TurnsTaken
<1> DEFINE to == CHOOSE f : f = TT(f)
<1>9. to = TT(to)
    BY <1>8
<1>10. Climb(q, urgent, rank) = [p \in M \cup {urgent} |-> IF p = urgent THEN First(Upcoming) ELSE to[p]]
    BY DEF Climb, M, Before
<1>11. ClimbsTo(q, urgent, rank, to)
    BY <1>9, <1>10 DEF M, ClimbsTo
<1> QED BY <1>11

-------------------------------------------------------------------------------

DueLater(p) == ~Protected(p) /\ Future(p)

\* Somebody holds the lock on the channel, and nobody else.
LockHeld ==
    \A t, u \in SlotThreads : slotOp[t].queue # "none" /\ slotOp[u].queue # "none" => t = u

\* An instant that one of the posts of an operation got by hand.
GivenByHand(op, at) == \E x \in DOMAIN op.times \cap loose : op.had[x] = at

\* Where an operation is about to put a post nobody waits, and it puts no other there,
\* except on an instant given by hand.
Placed(op) ==
    /\ \A p \in DOMAIN op.times : op.times[p] \in Int
    /\ \A p \in DOMAIN op.times : \A z \in QueuedPosts \ DOMAIN op.times :
          DueLater(z) /\ qrow[z].at = op.times[p] => z \in loose \/ GivenByHand(op, op.times[p])
    /\ \A p, r \in DOMAIN op.times :
          p # r /\ op.times[p] = op.times[r] /\ op.times[p] > qnow
             => GivenByHand(op, op.times[p])

OperationsPlaced ==
    /\ \A t \in SlotThreads : slotOp[t].queue # "none" => Placed(slotOp[t])
    /\ \A t \in SlotThreads : \A p \in DOMAIN slotOp[t].times : slotOp[t].times[p] \in Int

SlotIInv == SlotInv /\ SlotTypes /\ NoDoubleBooking /\ LockHeld /\ OperationsPlaced

LEMMA SlotIInvInit == SlotInit => SlotIInv
<1> SUFFICES ASSUME SlotInit PROVE SlotIInv
    OBVIOUS
<1>1. SlotInv
    BY SlotInvInit
<1>2. \A p \in QueuedPosts : qrow[p].at # NoTime =>
         \E x \in Booked : x[2] = p /\ x[3] = qrow[p].at
    BY DEF SlotInit
<1>3. \A x \in Booked : x[3] \in 1..Horizon
    BY QueueConstants
<1>4. SlotTypes
    <2>1. \A p \in QueuedPosts : qrow[p].at \in Int
        BY <1>2, <1>3 DEF NoTime
    <2> QED BY <2>1 DEF SlotInit, SlotTypes
<1>5. NoDoubleBooking
    <2> SUFFICES ASSUME NEW p \in QueuedPosts, NEW r \in QueuedPosts, p # r,
                        qrow[p].at = qrow[r].at, Future(p), Future(r)
                 PROVE  FALSE
        BY DEF NoDoubleBooking
    <2>1. qrow[p].at # NoTime
        BY DEF Future, SlotInit, NoTime
    <2>2. PICK x \in Booked : x[2] = p /\ x[3] = qrow[p].at
        BY <1>2, <2>1
    <2>3. PICK y \in Booked : y[2] = r /\ y[3] = qrow[r].at
        BY <1>2, <2>1
    <2>4. x = y
        BY <2>2, <2>3, QueueConstants
    <2> QED BY <2>2, <2>3, <2>4
<1>6. LockHeld /\ OperationsPlaced
    BY DEF SlotInit, LockHeld, OperationsPlaced, NoOp
<1> QED BY <1>1, <1>4, <1>5, <1>6 DEF SlotIInv

-------------------------------------------------------------------------------
(* Decisions *)

SlotDecision(kind, q, urgent, times) ==
    [kind |-> kind, queue |-> q, post |-> urgent, times |-> times,
     read |-> [p \in DOMAIN times |-> qrow[p].status],
     had |-> [p \in DOMAIN times |-> qrow[p].at]]

\* A decision that is well placed when the lock is taken keeps the rest.
LEMMA TakePlaces ==
    ASSUME SlotIInv, NEW t \in SlotThreads, NEW kind, NEW q, NEW urgent, NEW times,
           Take(t, kind, q, urgent, times), Placed(SlotDecision(kind, q, urgent, times))
    PROVE  SlotTypes' /\ NoDoubleBooking' /\ LockHeld' /\ OperationsPlaced'
<1> DEFINE op == SlotDecision(kind, q, urgent, times)
<1>1. /\ \A x \in SlotThreads : slotOp[x].queue = "none"
      /\ UNCHANGED <<qrow, slots, qnow, loose>>
      /\ slotOp' = [slotOp EXCEPT ![t] = op]
    BY DEF Take, SlotDecision, ChannelUnlocked
<1>2. slotOp'[t] = op /\ \A x \in SlotThreads \ {t} : slotOp'[x] = slotOp[x]
    BY <1>1 DEF SlotIInv, SlotInv, SlotRows
<1>3. op.times = times /\ Placed(op)
    BY DEF SlotDecision
<1>4. \A p \in DOMAIN op.times : op.times[p] \in Int
    BY <1>3 DEF Placed
<1> HIDE DEF op
<1>5. SlotTypes' /\ NoDoubleBooking'
    BY <1>1 DEF SlotIInv, SlotTypes, NoDoubleBooking, Protected, Future
<1>6. LockHeld'
    BY <1>1, <1>2 DEF LockHeld
<1>7. \A p \in QueuedPosts : DueLater(p)' <=> DueLater(p)
    BY <1>1 DEF DueLater, Protected, Future
<1>8. \A x \in SlotThreads : slotOp'[x].queue # "none" => x = t
    BY <1>1, <1>2
<1>9. Placed(slotOp[t])'
    BY <1>1, <1>2, <1>3, <1>7 DEF Placed, GivenByHand
<1>10. \A x \in SlotThreads : \A p \in DOMAIN slotOp'[x].times : slotOp'[x].times[p] \in Int
    BY <1>2, <1>4 DEF SlotIInv, OperationsPlaced
<1> QED BY <1>5, <1>6, <1>8, <1>9, <1>10 DEF OperationsPlaced

LEMMA UpcomingInstants ==
    ASSUME SlotTypes
    PROVE  /\ Upcoming \in SUBSET Instants
           /\ \A without : Free(without) \in SUBSET Instants
           /\ \A x \in Instants : x \in Int
<1>1. Upcoming \in SUBSET Instants
    BY DEF SlotTypes, Upcoming
<1>2. \A without : Free(without) \in SUBSET Instants
    BY <1>1 DEF Free
<1>3. \A x \in Instants : x \in Int
    BY QueueConstants DEF Instants
<1> QED BY <1>1, <1>2, <1>3

\* The next available slot is one that no other post waits for.
LEMMA NextAvailablePlaced ==
    ASSUME SlotIInv, NEW kind, NEW q, NEW p, First(Free({p})) # Full
    PROVE  Placed(SlotDecision(kind, q, p, [x \in {p} |-> First(Free({p}))]))
<1> DEFINE at == First(Free({p}))
           times == [x \in {p} |-> at]
           op == SlotDecision(kind, q, p, times)
<1>1. at \in Free({p}) /\ at \in Int
    BY UpcomingInstants, FirstIsLeast DEF SlotIInv
<1>2. at \notin Occupied({p})
    BY <1>1 DEF Free
<1>3. \A z \in QueuedPosts \ {p} : DueLater(z) => qrow[z].at # at
    BY <1>2 DEF Occupied, DueLater
<1> HIDE DEF at
<1>4. op.times = times /\ DOMAIN times = {p} /\ times[p] = at
    BY DEF SlotDecision
<1> HIDE DEF op, times
<1>5. Placed(op)
    BY <1>1, <1>3, <1>4 DEF Placed
<1> QED BY <1>5 DEF op, times, at

\* A post that is put on the instant another holds waits there by hand, or the other does.
LEMMA SharedByHand ==
    ASSUME SlotIInv, NEW kind, NEW q, NEW urgent, NEW times,
           NEW r \in DOMAIN times, NEW z \in QueuedPosts, r \in QueuedPosts, z # r,
           DueLater(r), DueLater(z), qrow[z].at = qrow[r].at
    PROVE  z \in loose \/ GivenByHand(SlotDecision(kind, q, urgent, times), qrow[z].at)
<1>1. loose \cap {z, r} # {}
    BY DEF SlotIInv, NoDoubleBooking, DueLater
<1>2. SlotDecision(kind, q, urgent, times).had[r] = qrow[r].at
      /\ r \in DOMAIN SlotDecision(kind, q, urgent, times).times
    BY DEF SlotDecision
<1> QED BY <1>1, <1>2 DEF GivenByHand

LEMMA ReorderPlaced ==
    ASSUME SlotIInv, NEW t \in SlotThreads, NEW q, NEW p \in QueuedPosts, NEW r \in QueuedPosts,
           Reorder(t, q, p, r)
    PROVE  \E times : Take(t, "reorder", q, p, times) /\ Placed(SlotDecision("reorder", q, p, times))
<1> DEFINE early == Min({qrow[p].at, qrow[r].at})
           late == Max({qrow[p].at, qrow[r].at})
           times == [x \in {p, r} |-> IF x = p THEN early ELSE late]
           op == SlotDecision("reorder", q, p, times)
<1>1. /\ p # r /\ Take(t, "reorder", q, p, times) /\ ~Protected(p) /\ ~Protected(r)
    BY DEF Reorder
<1>2. qrow[p].at \in Int /\ qrow[r].at \in Int
    BY DEF SlotIInv, SlotTypes
<1>3. \/ early = qrow[p].at /\ late = qrow[r].at
      \/ early = qrow[r].at /\ late = qrow[p].at
    BY <1>2 DEF Min, Max
<1>4. op.times = times /\ DOMAIN times = {p, r} /\ times[p] = early /\ times[r] = late
    BY <1>1 DEF SlotDecision
<1> HIDE DEF early, late
<1>5. ASSUME NEW x \in {p, r}, NEW z \in QueuedPosts \ {p, r}, DueLater(z), qrow[z].at = times[x]
      PROVE  z \in loose \/ GivenByHand(op, times[x])
    <2>1. PICK y \in {p, r} : times[x] = qrow[y].at
        BY <1>3, <1>4
    <2>2. DueLater(y) /\ y \in DOMAIN times /\ y # z
        BY <1>1, <1>4, <1>5, <2>1 DEF DueLater, Future
    <2> QED BY <1>5, <2>1, <2>2, SharedByHand
<1>6. ASSUME times[p] = times[r], times[p] > qnow PROVE GivenByHand(op, times[p])
    <2>1. qrow[p].at = qrow[r].at /\ times[p] = qrow[p].at
        BY <1>3, <1>4, <1>6
    <2>2. DueLater(p) /\ DueLater(r)
        BY <1>1, <1>6, <2>1 DEF DueLater, Future
    <2>3. p \in loose \/ GivenByHand(op, times[p])
        BY <1>1, <1>4, <2>1, <2>2, SharedByHand
    <2>4. p \in loose => GivenByHand(op, times[p])
        BY <1>4, <2>1 DEF GivenByHand, SlotDecision
    <2> QED BY <2>3, <2>4
<1> HIDE DEF op, times
<1>7. Placed(op)
    BY <1>2, <1>3, <1>4, <1>5, <1>6 DEF Placed
<1> QED BY <1>1, <1>7 DEF op

\* The climb puts no two posts on one slot, and none on the slot of a post that stays,
\* unless that slot was shared by hand.
LEMMA ClimbPlaced ==
    ASSUME SlotIInv, NEW q, NEW urgent \in QueuedPosts, NEW rank \in Rankings,
           First(Upcoming) \in {qrow[p].at : p \in Movable(q, urgent)},
           \A p \in DOMAIN Climb(q, urgent, rank) : Climb(q, urgent, rank)[p] # Full
    PROVE  Placed(SlotDecision("prioritize", q, urgent, Climb(q, urgent, rank)))
<1> DEFINE M == Movers(q, urgent)
           times == Climb(q, urgent, rank)
           op == SlotDecision("prioritize", q, urgent, times)
           Open(p) == {s \in Rungs(q, urgent) : s > qrow[p].at}
           first == First(Upcoming)
<1>0. SlotTypes
    BY DEF SlotIInv
<1>a. PICK to : ClimbsTo(q, urgent, rank, to)
    BY <1>0, ClimbTakesTurns
<1>1. /\ times = [p \in M \cup {urgent} |-> IF p = urgent THEN first ELSE to[p]]
      /\ to = [p \in M |-> First(Open(p) \ {to[x] : x \in Before(M, rank, p)})]
    BY <1>a DEF ClimbsTo
<1>2. /\ DOMAIN times = M \cup {urgent} /\ urgent \notin M
      /\ times[urgent] = first /\ \A p \in M : times[p] = to[p]
    BY <1>1, <1>0, MoversAreOnSlots
<1>3. first \in Upcoming /\ first \in Int /\ \A s \in Upcoming : first <= s
    BY <1>0, <1>2, UpcomingInstants, FirstIsLeast
<1>4. \A p \in M : /\ to[p] \in Rungs(q, urgent) /\ to[p] > qrow[p].at /\ to[p] \in Int
                   /\ \A x \in Before(M, rank, p) : to[p] # to[x]
    <2> SUFFICES ASSUME NEW p \in M
                 PROVE  /\ to[p] \in Rungs(q, urgent) /\ to[p] > qrow[p].at /\ to[p] \in Int
                        /\ \A x \in Before(M, rank, p) : to[p] # to[x]
        OBVIOUS
    <2> DEFINE open == Open(p) \ {to[x] : x \in Before(M, rank, p)}
    <2>1. to[p] = First(open) /\ to[p] # Full
        BY <1>1, <1>2
    <2>2. open \in SUBSET Instants
        BY <1>0, UpcomingInstants DEF Rungs
    <2>3. to[p] \in open
        BY <2>1, <2>2, FirstIsLeast
    <2> QED BY <2>2, <2>3, <1>0, UpcomingInstants
<1>5. \A p \in M : /\ p \in QueuedPosts /\ DueLater(p) /\ qrow[p].at \in Upcoming /\ qrow[p].at \in Nat
    BY <1>0, MoversAreOnSlots DEF DueLater
<1>6. \A p \in M : \A r \in M : p # r => r \in Before(M, rank, p) \/ p \in Before(M, rank, r)
    <2>1. \A p \in M : \A r \in M : p # r => rank[p] # rank[r] /\ rank[p] \in Int /\ rank[r] \in Int
        <3>1. \A p, r \in QueuedPosts : p # r => rank[p] # rank[r]
            BY DEF Rankings, Bijection, Injection, IsInjective
        <3>2. Cardinality(QueuedPosts) \in Nat
            BY QueueConstants, FS_CardinalityType
        <3>3. \A p \in QueuedPosts : rank[p] \in Int
            BY <3>2 DEF Rankings, Bijection, Injection
        <3> QED BY <3>1, <3>3, <1>5
    <2> QED BY <2>1, <1>5 DEF Before
<1> HIDE DEF times
<1>7. \A p \in M : \A r \in M : p # r => times[p] # times[r]
    BY <1>2, <1>4, <1>6
<1>8. \A p \in M : times[p] # times[urgent]
    BY <1>2, <1>3, <1>4, <1>5
<1>9. ASSUME NEW p \in M, NEW z \in QueuedPosts \ (M \cup {urgent}), DueLater(z), qrow[z].at = times[p]
      PROVE  z \in loose \/ GivenByHand(op, times[p])
    <2>1. qrow[z].at \in Occupied({urgent})
        BY <1>9 DEF Occupied, DueLater
    <2>2. qrow[z].at \in {qrow[r].at : r \in M}
        BY <1>2, <1>4, <1>9, <2>1 DEF Rungs
    <2>3. PICK r \in M : qrow[r].at = qrow[z].at
        BY <2>2
    <2> QED BY <1>2, <1>5, <1>9, <2>3, SharedByHand
<1>10. ASSUME NEW z \in QueuedPosts \ (M \cup {urgent}), DueLater(z), qrow[z].at = times[urgent]
       PROVE  z \in loose \/ GivenByHand(op, times[urgent])
    <2>1. PICK r \in Movable(q, urgent) : qrow[r].at = first
        OBVIOUS
    <2>2. first \in Ladder(q, urgent)
        <3>1. {x \in Upcoming : x < first} = {}
            <4>1. \A x \in Upcoming : x \in Int /\ first <= x
                BY <1>0, <1>3, UpcomingInstants
            <4> QED BY <1>3, <4>1
        <3>2. Cardinality({}) = 0
            BY FS_EmptySet
        <3>3. Cardinality(Movable(q, urgent)) \in Nat
            <4>1. Movable(q, urgent) \subseteq QueuedPosts
                BY DEF Movable
            <4> QED BY <4>1, QueueConstants, FS_Subset, FS_CardinalityType
        <3>4. 0 < Cardinality(Movable(q, urgent)) + 2
            BY <3>3
        <3> QED BY <1>3, <3>1, <3>2, <3>4 DEF Ladder
    <2>3. r \in M
        BY <2>1, <2>2 DEF Movers
    <2>4. r \in DOMAIN times /\ r \in QueuedPosts /\ z # r /\ DueLater(r) /\ qrow[z].at = qrow[r].at
        BY <1>2, <1>5, <1>10, <2>1, <2>3
    <2>5. qrow[z].at = times[urgent]
        BY <1>10
    <2> QED BY <1>10, <2>4, <2>5, SharedByHand
<1>11. op.times = times
    BY DEF SlotDecision
<1> HIDE DEF op, M
<1> QED BY <1>2, <1>3, <1>4, <1>7, <1>8, <1>9, <1>10, <1>11 DEF Placed, op, times

-------------------------------------------------------------------------------
(* Steps *)

\* Nothing is decided under the lock, and whoever comes to wait for an instant does so by
\* hand.
Gentle ==
    /\ qnow' \in Nat /\ qnow <= qnow' /\ slots' \subseteq Instants /\ loose \subseteq loose'
    /\ \A p \in QueuedPosts :
          /\ qrow'[p].at \in Int
          /\ DueLater(p)' => p \in loose' \/ (DueLater(p) /\ qrow'[p].at = qrow[p].at)
    /\ \A t \in SlotThreads :
          \/ slotOp'[t] = slotOp[t]
          \/ /\ slotOp'[t].queue = "none"
             /\ \A p \in DOMAIN slotOp'[t].times : slotOp'[t].times[p] \in Int

LEMMA GentleKeeps ==
    ASSUME SlotIInv, Gentle
    PROVE  SlotTypes' /\ NoDoubleBooking' /\ LockHeld' /\ OperationsPlaced'
<1>1. SlotTypes'
    BY DEF Gentle, SlotTypes
<1>2. NoDoubleBooking'
    <2> SUFFICES ASSUME NEW p \in QueuedPosts, NEW r \in QueuedPosts, p # r,
                        qrow'[p].at = qrow'[r].at, DueLater(p)', DueLater(r)',
                        loose' \cap {p, r} = {}
                 PROVE  FALSE
        BY DEF NoDoubleBooking, DueLater
    <2>1. DueLater(p) /\ DueLater(r) /\ qrow[p].at = qrow[r].at
        BY DEF Gentle
    <2>2. loose \cap {p, r} # {}
        BY <2>1 DEF SlotIInv, NoDoubleBooking, DueLater
    <2> QED BY <2>2 DEF Gentle
<1>3. LockHeld'
    BY DEF Gentle, SlotIInv, LockHeld
<1>4. ASSUME NEW t \in SlotThreads, slotOp'[t].queue # "none" PROVE Placed(slotOp[t])'
    <2>1. slotOp'[t] = slotOp[t] /\ Placed(slotOp[t])
        BY <1>4 DEF Gentle, SlotIInv, OperationsPlaced
    <2> DEFINE op == slotOp[t]
    <2>2. \A at : GivenByHand(op, at) => GivenByHand(op, at)'
        BY <2>1 DEF GivenByHand, Gentle
    <2>3. \A p \in DOMAIN op.times : op.times[p] \in Int
        BY <2>1 DEF Placed
    <2>4. ASSUME NEW p \in DOMAIN op.times, NEW z \in QueuedPosts \ DOMAIN op.times,
                 DueLater(z)', qrow'[z].at = op.times[p]
          PROVE  z \in loose' \/ GivenByHand(op, op.times[p])'
        <3>1. z \in loose' \/ (DueLater(z) /\ qrow[z].at = op.times[p])
            BY <2>4 DEF Gentle
        <3>2. CASE DueLater(z) /\ qrow[z].at = op.times[p]
            <4>1. z \in loose \/ GivenByHand(op, op.times[p])
                BY <2>1, <3>2 DEF Placed
            <4>2. GivenByHand(op, op.times[p]) => GivenByHand(op, op.times[p])'
                BY <2>1 DEF GivenByHand, Gentle
            <4> QED BY <4>1, <4>2 DEF Gentle
        <3> QED BY <3>1, <3>2
    <2>5. ASSUME NEW p \in DOMAIN op.times, NEW r \in DOMAIN op.times,
                 p # r, op.times[p] = op.times[r], op.times[p] > qnow'
          PROVE  GivenByHand(op, op.times[p])'
        <3>1. op.times[p] > qnow
            BY <2>3, <2>5 DEF Gentle, SlotIInv, SlotTypes
        <3>2. GivenByHand(op, op.times[p])
            BY <2>1, <2>5, <3>1 DEF Placed
        <3> QED BY <3>2, <2>1 DEF GivenByHand, Gentle
    <2> QED BY <2>1, <2>3, <2>4, <2>5 DEF Placed
<1>5. OperationsPlaced'
    BY <1>4 DEF OperationsPlaced, Gentle, SlotIInv
<1> QED BY <1>1, <1>2, <1>3, <1>5

\* The lock holder writes what it decided.
LEMMA WritePlaces ==
    ASSUME SlotIInv, NEW t \in SlotThreads, WriteSlots(t)
    PROVE  SlotTypes' /\ NoDoubleBooking' /\ LockHeld' /\ OperationsPlaced'
<1> DEFINE op == slotOp[t]
           posts == DOMAIN op.times
<1>1. PICK times, had : times = op.times /\ had = op.had
    OBVIOUS
<1>2. /\ slotOp[t].queue # "none" /\ Placed(op)
      /\ \A p \in DOMAIN times : times[p] \in Int
      /\ UNCHANGED <<slots, qnow>>
    BY <1>1 DEF WriteSlots, SlotIInv, OperationsPlaced, Placed
<1>3. \A p \in QueuedPosts :
         /\ p \in DOMAIN times => qrow'[p].at = times[p]
         /\ p \notin DOMAIN times => qrow'[p] = qrow[p]
    BY <1>1 DEF WriteSlots, AfterWrite
<1>4. /\ \A p : p \in loose /\ p \notin DOMAIN times => p \in loose'
      /\ \A p \in DOMAIN times : GivenByHand(op, times[p]) => p \in loose'
    BY <1>1 DEF WriteSlots, GivenByHand
<1>5. slotOp'[t] = NoOp /\ \A x \in SlotThreads \ {t} : slotOp'[x] = slotOp[x]
    BY DEF WriteSlots, SlotIInv, SlotInv, SlotRows
<1>6. SlotTypes'
    BY <1>2, <1>3 DEF SlotIInv, SlotTypes
<1>7. NoDoubleBooking'
    <2>1. ASSUME NEW p \in QueuedPosts, NEW r \in QueuedPosts, p # r,
                 qrow'[p].at = qrow'[r].at, DueLater(p)', DueLater(r)', p \in DOMAIN times
          PROVE  loose' \cap {p, r} # {}
        <3>1. qrow'[p].at = times[p] /\ times[p] > qnow
            BY <1>2, <1>3, <2>1 DEF DueLater, Future
        <3>2. CASE r \in DOMAIN times
            <4>1. times[r] = times[p]
                BY <1>3, <2>1, <3>1, <3>2
            <4>2. GivenByHand(op, times[p])
                BY <1>1, <1>2, <2>1, <3>1, <3>2, <4>1 DEF Placed
            <4> QED BY <1>4, <2>1, <4>2
        <3>3. CASE r \notin DOMAIN times
            <4>1. DueLater(r) /\ qrow[r].at = times[p]
                BY <1>2, <1>3, <2>1, <3>1, <3>3 DEF DueLater, Protected, Future
            <4>2. r \in loose \/ GivenByHand(op, times[p])
                BY <1>1, <1>2, <2>1, <3>3, <4>1 DEF Placed
            <4> QED BY <1>4, <2>1, <3>3, <4>2
        <3> QED BY <3>2, <3>3
    <2>2. ASSUME NEW p \in QueuedPosts, NEW r \in QueuedPosts, p # r,
                 qrow'[p].at = qrow'[r].at, DueLater(p)', DueLater(r)',
                 p \notin DOMAIN times, r \notin DOMAIN times
          PROVE  loose' \cap {p, r} # {}
        <3>1. DueLater(p) /\ DueLater(r) /\ qrow[p].at = qrow[r].at
            BY <1>2, <1>3, <2>2 DEF DueLater, Protected, Future
        <3>2. loose \cap {p, r} # {}
            BY <2>2, <3>1 DEF SlotIInv, NoDoubleBooking, DueLater
        <3> QED BY <1>4, <2>2, <3>2
    <2>3. \A p, r \in QueuedPosts :
             p # r /\ qrow'[p].at = qrow'[r].at /\ DueLater(p)' /\ DueLater(r)' => loose' \cap {p, r} # {}
        BY <2>1, <2>2
    <2> QED BY <2>3 DEF NoDoubleBooking, DueLater
<1>8. \A x \in SlotThreads : slotOp'[x].queue = "none"
    BY <1>2, <1>5 DEF SlotIInv, LockHeld, NoOp
<1>9. LockHeld' /\ OperationsPlaced'
    <2>1. \A x \in SlotThreads : \A p \in DOMAIN slotOp'[x].times : slotOp'[x].times[p] \in Int
        BY <1>5 DEF SlotIInv, OperationsPlaced, NoOp
    <2> QED BY <1>8, <2>1 DEF LockHeld, OperationsPlaced
<1> QED BY <1>6, <1>7, <1>9

LEMMA DragsAreGentle ==
    ASSUME SlotIInv, NEW t \in SlotThreads,
           WriteDrag(t) \/ \E p \in QueuedPosts, at \in Instants : Drag(t, p, at)
    PROVE  Gentle
<1>1. /\ \A p \in QueuedPosts : qrow[p].at \in Int
      /\ qnow \in Nat /\ slots \subseteq Instants
    BY DEF SlotIInv, SlotTypes
<1>2. ASSUME NEW p \in QueuedPosts, NEW at \in Instants, Drag(t, p, at) PROVE Gentle
    <2> DEFINE op == [NoOp EXCEPT !.kind = "drag", !.post = p, !.times = [x \in {p} |-> at],
                                  !.read = [x \in {p} |-> qrow[p].status]]
    <2>1. /\ slotOp' = [slotOp EXCEPT ![t] = op]
          /\ op.queue = "none" /\ op.times = [x \in {p} |-> at]
        BY <1>2 DEF Drag, NoOp
    <2> HIDE DEF op
    <2>2. slotOp'[t] = op /\ \A x \in SlotThreads \ {t} : slotOp'[x] = slotOp[x]
        BY <2>1 DEF SlotIInv, SlotInv, SlotRows
    <2>3. UNCHANGED <<qrow, slots, qnow, loose>>
        BY <1>2 DEF Drag
    <2>4. \A x \in DOMAIN op.times : op.times[x] \in Int
        BY <2>1, UpcomingInstants DEF SlotIInv
    <2> QED BY <1>1, <2>1, <2>2, <2>3, <2>4 DEF Gentle, DueLater, Protected, Future
<1>3. ASSUME WriteDrag(t) PROVE Gentle
    <2>1. PICK p, s, at :
              /\ p = slotOp[t].post /\ at = slotOp[t].times[p]
              /\ qrow' = [qrow EXCEPT ![p] = [status |-> s, at |-> at]]
        BY <1>3 DEF WriteDrag
    <2>2. at \in Int
        BY <1>3, <2>1 DEF WriteDrag, SlotIInv, SlotInv, OperationsUnsent, OperationsPlaced
    <2>3. loose' = loose \cup {p} /\ UNCHANGED <<slots, qnow>>
        BY <1>3, <2>1 DEF WriteDrag
    <2>4. slotOp'[t] = NoOp /\ \A x \in SlotThreads \ {t} : slotOp'[x] = slotOp[x]
        BY <1>3 DEF WriteDrag, SlotIInv, SlotInv, SlotRows
    <2>5. /\ \A x \in QueuedPosts \ {p} : qrow'[x] = qrow[x]
          /\ p \in QueuedPosts => qrow'[p].at = at
        BY <2>1 DEF SlotIInv, SlotInv, SlotRows
    <2>6. \A x \in QueuedPosts :
             /\ qrow'[x].at \in Int
             /\ DueLater(x)' => x \in loose' \/ (DueLater(x) /\ qrow'[x].at = qrow[x].at)
        <3> SUFFICES ASSUME NEW x \in QueuedPosts
                     PROVE  /\ qrow'[x].at \in Int
                            /\ x \in loose' \/ (qrow'[x] = qrow[x] /\ (DueLater(x)' => DueLater(x)))
            BY <2>5
        <3>1. CASE x = p
            <4>1. qrow'[x].at = at
                BY <2>5, <3>1
            <4>2. x \in loose'
                BY <2>3, <3>1
            <4> QED BY <2>2, <4>1, <4>2
        <3>2. CASE x # p
            <4>1. qrow'[x] = qrow[x]
                BY <2>5, <3>2
            <4>2. qnow' = qnow
                BY <2>3
            <4>3. DueLater(x)' => DueLater(x)
                BY <4>1, <4>2 DEF DueLater, Protected, Future
            <4>4. qrow'[x].at \in Int
                BY <1>1, <4>1
            <4> QED BY <4>1, <4>3, <4>4
        <3> QED BY <3>1, <3>2
    <2>7. NoOp.queue = "none" /\ DOMAIN NoOp.times = {}
        BY DEF NoOp
    <2> QED BY <1>1, <2>3, <2>4, <2>6, <2>7 DEF Gentle
<1> QED BY <1>2, <1>3

LEMMA RestIsGentle ==
    ASSUME SlotIInv,
           \/ \E q \in Queues, p \in QueuedPosts : RemoveFromQueue(q, p)
           \/ \E p \in QueuedPosts :
                 \/ \E at \in Instants : Schedule(p, at)
                 \/ Fire(p)
                 \/ \E outcome \in {"published", "failed", "scheduled"} : Settle(p, outcome)
           \/ \E q \in Queues : DeleteQueue(q)
           \/ \E s \in Instants : EditSlot(s)
           \/ SlotTick \/ UNCHANGED slotVars
    PROVE  Gentle
<1>0. /\ \A p \in QueuedPosts : qrow[p].at \in Int
      /\ qnow \in Nat /\ slots \subseteq Instants /\ UNCHANGED slotOp
    BY DEF SlotIInv, SlotTypes, RemoveFromQueue, Schedule, Fire, Settle, DeleteQueue, EditSlot,
           SlotTick, slotVars
\* One row changes at most, and unless it is by hand it waits for nothing new.
<1>1. ASSUME NEW p \in QueuedPosts, NEW s, NEW at \in Int,
             qrow' = [qrow EXCEPT ![p] = [status |-> s, at |-> at]],
             UNCHANGED <<slots, qnow>>, loose \subseteq loose',
             \/ p \in loose'
             \/ ~(at > qnow) \/ s \in ProtectedStatuses
      PROVE  Gentle
    <2>1. \A x \in QueuedPosts :
             /\ x # p => qrow'[x] = qrow[x]
             /\ x = p => qrow'[x].at = at /\ qrow'[x].status = s
        BY <1>1 DEF SlotIInv, SlotInv, SlotRows
    <2>2. \A x \in QueuedPosts :
             /\ qrow'[x].at \in Int
             /\ DueLater(x)' => x \in loose' \/ (DueLater(x) /\ qrow'[x].at = qrow[x].at)
        BY <1>0, <1>1, <2>1 DEF DueLater, Protected, Future
    <2> QED BY <1>0, <1>1, <2>2 DEF Gentle
<1>2. ASSUME UNCHANGED <<qrow, loose>>, qnow' \in Nat, qnow <= qnow', slots' \subseteq Instants
      PROVE  Gentle
    <2>1. \A x \in QueuedPosts : DueLater(x)' => DueLater(x)
        BY <1>0, <1>2 DEF DueLater, Protected, Future
    <2> QED BY <1>0, <1>2, <2>1 DEF Gentle
<1>3. ASSUME NEW q \in Queues, NEW p \in QueuedPosts, RemoveFromQueue(q, p) PROVE Gentle
    <2>1. UNCHANGED <<slots, qnow, loose>> /\
          (UNCHANGED qrow \/ qrow' = [qrow EXCEPT ![p] = [status |-> "draft", at |-> NoTime]])
        BY <1>3 DEF RemoveFromQueue
    <2>2. NoTime \in Int /\ ~(NoTime > qnow)
        BY <1>0 DEF NoTime
    <2> QED BY <1>0, <1>1, <1>2, <2>1, <2>2
<1>4. ASSUME NEW p \in QueuedPosts, NEW at \in Instants, Schedule(p, at) PROVE Gentle
    <2>1. at \in Int
        BY UpcomingInstants DEF SlotIInv
    <2> QED BY <1>1, <1>4, <2>1 DEF Schedule
<1>5. ASSUME NEW p \in QueuedPosts, NEW s, qrow' = [qrow EXCEPT ![p].status = s]
      PROVE  qrow' = [qrow EXCEPT ![p] = [status |-> s, at |-> qrow[p].at]]
    <2>1. qrow[p] = [status |-> qrow[p].status, at |-> qrow[p].at]
        BY DEF SlotIInv, SlotInv, SlotRows
    <2>2. [qrow[p] EXCEPT !.status = s] = [status |-> s, at |-> qrow[p].at]
        BY <2>1
    <2> QED BY <1>5, <2>2
<1>6. ASSUME NEW p \in QueuedPosts, Fire(p) PROVE Gentle
    <2>1. /\ UNCHANGED <<slots, qnow, loose>>
          /\ qrow' = [qrow EXCEPT ![p] = [status |-> "publishing", at |-> qrow[p].at]]
        BY <1>5, <1>6 DEF Fire
    <2> QED BY <1>0, <1>1, <2>1 DEF ProtectedStatuses
<1>7. ASSUME NEW p \in QueuedPosts, NEW s \in {"published", "failed", "scheduled"}, Settle(p, s)
      PROVE  Gentle
    <2>1. /\ UNCHANGED <<slots, qnow>>
          /\ qrow' = [qrow EXCEPT ![p] = [status |-> s, at |-> qrow[p].at]]
          /\ loose' = IF s # "published" /\ Future(p) THEN loose \cup {p} ELSE loose
        BY <1>5, <1>7 DEF Settle
    <2> QED BY <1>0, <1>1, <2>1 DEF ProtectedStatuses, Future
<1>8. ASSUME NEW s \in Instants, EditSlot(s) PROVE Gentle
    BY <1>0, <1>2, <1>8 DEF EditSlot
<1>9. CASE SlotTick \/ UNCHANGED slotVars \/ \E q \in Queues : DeleteQueue(q)
    BY <1>0, <1>2, <1>9 DEF SlotTick, slotVars, DeleteQueue
<1> QED BY <1>3, <1>4, <1>6, <1>7, <1>8, <1>9

LEMMA RequestsPlace ==
    ASSUME SlotIInv, NEW t \in SlotThreads,
           \/ \E q \in Queues, p \in QueuedPosts : AddNextAvailable(t, q, p) \/ Prioritize(t, q, p)
           \/ \E q \in Queues, p, r \in QueuedPosts : Reorder(t, q, p, r)
    PROVE  SlotTypes' /\ NoDoubleBooking' /\ LockHeld' /\ OperationsPlaced'
<1> DEFINE Goal == SlotTypes' /\ NoDoubleBooking' /\ LockHeld' /\ OperationsPlaced'
<1>1. ASSUME NEW q \in Queues, NEW p \in QueuedPosts, AddNextAvailable(t, q, p) PROVE Goal
    <2>1. PICK times : times = [x \in {p} |-> First(Free({p}))]
        OBVIOUS
    <2>2. Take(t, "add", q, p, times) /\ times[p] = First(Free({p})) /\ p \in DOMAIN times
        BY <1>1, <2>1 DEF AddNextAvailable
    <2>3. First(Free({p})) # Full
        BY <2>2 DEF Take
    <2> QED BY <2>1, <2>2, <2>3, NextAvailablePlaced, TakePlaces
<1>2. ASSUME NEW q \in Queues, NEW p \in QueuedPosts, Prioritize(t, q, p) PROVE Goal
    <2>1. PICK rank \in Rankings : Take(t, "prioritize", q, p, Prioritized(q, p, rank))
        BY <1>2 DEF Prioritize
    <2>2. PICK times : times = Prioritized(q, p, rank)
        OBVIOUS
    <2>3. \A x \in DOMAIN times : times[x] # Full
        BY <2>1, <2>2 DEF Take
    <2>4. Placed(SlotDecision("prioritize", q, p, times))
        <3>1. ASSUME First(Upcoming) \in {qrow[x].at : x \in Movable(q, p)}
              PROVE  Placed(SlotDecision("prioritize", q, p, times))
            <4>1. times = Climb(q, p, rank)
                BY <2>2, <3>1 DEF Prioritized
            <4> QED BY <2>3, <3>1, <4>1, ClimbPlaced
        <3>2. ASSUME ~(First(Upcoming) \in {qrow[x].at : x \in Movable(q, p)})
              PROVE  Placed(SlotDecision("prioritize", q, p, times))
            <4>1. times = [x \in {p} |-> First(Free({p}))]
                BY <2>2, <3>2 DEF Prioritized
            <4>2. First(Free({p})) # Full
                BY <2>3, <4>1
            <4> QED BY <4>1, <4>2, NextAvailablePlaced
        <3> QED BY <3>1, <3>2
    <2> QED BY <2>1, <2>2, <2>4, TakePlaces
<1>3. ASSUME NEW q \in Queues, NEW p \in QueuedPosts, NEW r \in QueuedPosts, Reorder(t, q, p, r)
      PROVE  Goal
    <2>1. PICK times : Take(t, "reorder", q, p, times) /\ Placed(SlotDecision("reorder", q, p, times))
        BY <1>3, ReorderPlaced
    <2> QED BY <2>1, TakePlaces
<1> QED BY <1>1, <1>2, <1>3

LEMMA SlotIInvKept ==
    ASSUME SlotIInv, [SlotNext]_slotVars
    PROVE  SlotIInv'
<1>1. SlotInv'
    BY SlotNextKeeps DEF SlotIInv
<1>2. SlotTypes' /\ NoDoubleBooking' /\ LockHeld' /\ OperationsPlaced'
    BY RequestsPlace, WritePlaces, DragsAreGentle, RestIsGentle, GentleKeeps DEF SlotNext
<1> QED BY <1>1, <1>2 DEF SlotIInv

\* "no double-booking": whatever the queues, slots and threads, of two posts that wait for
\* one future instant of a channel one was put there by hand.
THEOREM SlotsAreNotShared == SlotSpec => []NoDoubleBooking
<1>1. SlotIInv => NoDoubleBooking
    BY DEF SlotIInv
<1> QED BY <1>1, SlotIInvInit, SlotIInvKept, PTL DEF SlotSpec

-------------------------------------------------------------------------------
(* Portal: what the state is made of *)

MagicLinks == [ws : Workspaces, live : BOOLEAN, is_consumed : BOOLEAN, opened : Nat,
               crossed : BOOLEAN]
PortalSteps == {"idle", "expire", "create", "delete", "consume", "decide"}
PortalTasks == [step : PortalSteps, ws : Workspaces \cup {Nowhere}, link : Nat,
                decision : Decisions, crossed : BOOLEAN]

PortalTypes ==
    /\ belongs \subseteq Workspaces /\ links \in Seq(MagicLinks)
    /\ post \in [Workspaces -> Statuses] /\ task \in [PortalThreads -> PortalTasks]
    /\ linkPage \in Nat /\ (linkPage # NoLink => linkPage \in DOMAIN links)
    /\ \A t \in PortalThreads :
          /\ task[t].step \in {"expire", "create", "delete", "decide"} => task[t].ws \in Workspaces
          /\ task[t].step = "consume" => task[t].link \in DOMAIN links

\* A link that was used opened one session, one that was not none.
LinksOpenOnce ==
    \A l \in DOMAIN links :
        links[l].opened <= 1 /\ (~links[l].is_consumed => links[l].opened = 0)

\* Who asks to decide belonged to the workspace, and nothing moves what left review.
DecisionsFit ==
    /\ DecidedByMember
    /\ \A t \in PortalThreads : task[t].step = "decide" => ~task[t].crossed

\* A thread about to make a link has ended those it replaces, unless another made one
\* since; one about to end a membership has ended its links, unless one was being made;
\* and where the membership has ended, whatever is still open or on its way was crossed.
LinksFit ==
    /\ LatestLinkOnly
    /\ \A t \in PortalThreads :
          /\ task[t].step = "create" /\ ~task[t].crossed =>
                \A l \in DOMAIN links : Opens(l) => links[l].ws # task[t].ws
          /\ task[t].step = "delete" =>
                \A l \in DOMAIN links : Opens(l) /\ links[l].ws = task[t].ws => links[l].crossed
    /\ \A w \in Workspaces \ belongs :
          /\ \A l \in DOMAIN links : Opens(l) /\ links[l].ws = w => links[l].crossed
          /\ \A t \in PortalThreads :
                task[t].step \in {"expire", "create"} /\ task[t].ws = w => task[t].crossed

\* The inductive invariant of the portal.
PortalInv == PortalTypes /\ LinksOpenOnce /\ DecisionsFit /\ LinksFit

LEMMA NoTaskType == NoTask \in PortalTasks /\ NoTask.step = "idle" /\ ~NoTask.crossed
BY DEF NoTask, PortalTasks, PortalSteps, Decisions, NoLink

LEMMA DecisionsAreStatuses ==
    ASSUME NEW s \in Statuses, NEW d \in Decisions
    PROVE  /\ DecidedAs(d, s) \in Statuses
           /\ DecidedAs(d, s) # s => s \in IF d = "hold" THEN {"approved"}
                                          ELSE {"pending_review", "pending_client"}
BY DEF DecidedAs, Statuses, Decisions

LEMMA LinkRecords ==
    ASSUME PortalTypes
    PROVE  /\ DOMAIN links = 1..Len(links) /\ Len(links) \in Nat
           /\ \A l \in DOMAIN links : links[l] \in MagicLinks
BY ElementOfSeq, LenProperties DEF PortalTypes

LEMMA TaskRecords ==
    ASSUME PortalTypes
    PROVE  \A t \in PortalThreads : task[t] \in PortalTasks
BY DEF PortalTypes

\* Links that change in place are still a sequence of links.
LEMMA LinksInPlace ==
    ASSUME PortalTypes, NEW f, DOMAIN f = DOMAIN links, f = [l \in DOMAIN f |-> f[l]],
           \A l \in DOMAIN links : f[l] \in MagicLinks
    PROVE  f \in Seq(MagicLinks)
BY LinkRecords, SeqDef

LEMMA PortalInvInit == PortalInit => PortalInv
<1> SUFFICES ASSUME PortalInit PROVE PortalInv
    OBVIOUS
<1>1. /\ belongs = Workspaces /\ links = <<>> /\ portalSession = Nowhere /\ linkPage = NoLink
      /\ post = [w \in Workspaces |-> "pending_client"]
      /\ task = [t \in PortalThreads |-> NoTask] /\ answers = {}
    BY DEF PortalInit
<1>2. DOMAIN links = {} /\ links \in Seq(MagicLinks)
    BY <1>1, EmptySeq
<1>3. \A t \in PortalThreads : task[t].step = "idle"
    BY <1>1, NoTaskType
<1>4. PortalTypes
    BY <1>1, <1>2, <1>3, NoTaskType DEF PortalTypes, Statuses, NoLink
<1>5. LinksOpenOnce /\ DecisionsFit /\ LinksFit
    BY <1>1, <1>2, <1>3 DEF LinksOpenOnce, DecisionsFit, LinksFit, DecidedByMember, LatestLinkOnly
<1> QED BY <1>4, <1>5 DEF PortalInv

-------------------------------------------------------------------------------
(* Portal: the steps *)

\* What a step does to links that are open, and to the requests about them, when it
\* makes no link and ends no membership.
LinksEnd ==
    /\ DOMAIN links' = DOMAIN links
    /\ \A l \in DOMAIN links :
          /\ links'[l].ws = links[l].ws /\ links'[l].crossed = links[l].crossed
          /\ Opens(l)' => Opens(l)

LEMMA LinksEndKeeps ==
    ASSUME LinksFit, LinksEnd, belongs \subseteq belongs',
           \A t \in PortalThreads :
              task'[t] = task[t] \/ task'[t].step \notin {"expire", "create", "delete"}
    PROVE  LinksFit'
<1>1. LatestLinkOnly'
    <2> SUFFICES ASSUME NEW l \in DOMAIN links', NEW m \in DOMAIN links', l < m,
                        links'[l].ws = links'[m].ws, Opens(l)', Opens(m)'
                 PROVE  links'[l].crossed \/ links'[m].crossed
        BY DEF LatestLinkOnly
    <2> QED BY DEF LinksEnd, LinksFit, LatestLinkOnly
<1>2. ASSUME NEW t \in PortalThreads
      PROVE  /\ task'[t].step = "create" /\ ~task'[t].crossed =>
                   \A l \in DOMAIN links' : Opens(l)' => links'[l].ws # task'[t].ws
             /\ task'[t].step = "delete" =>
                   \A l \in DOMAIN links' : Opens(l)' /\ links'[l].ws = task'[t].ws => links'[l].crossed
    <2>1. CASE task'[t] = task[t]
        BY <2>1 DEF LinksEnd, LinksFit
    <2>2. CASE task'[t].step \notin {"expire", "create", "delete"}
        BY <2>2
    <2> QED BY <2>1, <2>2
<1>3. ASSUME NEW w \in Workspaces \ belongs'
      PROVE  /\ \A l \in DOMAIN links' : Opens(l)' /\ links'[l].ws = w => links'[l].crossed
             /\ \A t \in PortalThreads :
                   task'[t].step \in {"expire", "create"} /\ task'[t].ws = w => task'[t].crossed
    <2>1. w \in Workspaces \ belongs
        BY <1>3
    <2>2. \A l \in DOMAIN links' : Opens(l)' /\ links'[l].ws = w => links'[l].crossed
        BY <2>1 DEF LinksEnd, LinksFit
    <2>3. \A t \in PortalThreads :
             task'[t].step \in {"expire", "create"} /\ task'[t].ws = w => task'[t].crossed
        BY <2>1 DEF LinksFit
    <2> QED BY <2>2, <2>3
<1> QED BY <1>1, <1>2, <1>3 DEF LinksFit

LEMMA LinksUnchanged == ASSUME links' = links PROVE LinksEnd
BY DEF LinksEnd, Opens

\* A request begins, or ends.
LEMMA TaskBecomes ==
    ASSUME PortalTypes, NEW t \in PortalThreads, NEW r \in PortalTasks, task' = [task EXCEPT ![t] = r]
    PROVE  /\ task' \in [PortalThreads -> PortalTasks]
           /\ \A u \in PortalThreads : task'[u] = IF u = t THEN r ELSE task[u]
BY DEF PortalTypes

\* A manager sends a link, to a client who belongs to the workspace.
LEMMA GenerateKeeps ==
    ASSUME PortalInv, NEW t \in PortalThreads, NEW w \in Workspaces, GenerateMagicLink(t, w)
    PROVE  PortalInv'
<1> DEFINE r == [NoTask EXCEPT !.step = "expire", !.ws = w]
<1>1. /\ w \in belongs /\ task' = [task EXCEPT ![t] = r]
      /\ UNCHANGED <<belongs, links, portalSession, linkPage, post, answers>>
    BY DEF GenerateMagicLink
<1>2. r \in PortalTasks /\ r.step = "expire" /\ r.ws = w
    BY NoTaskType DEF PortalTasks, PortalSteps
<1> HIDE DEF r
<1>3. /\ task' \in [PortalThreads -> PortalTasks]
      /\ \A u \in PortalThreads : task'[u] = IF u = t THEN r ELSE task[u]
    BY <1>1, <1>2, TaskBecomes DEF PortalInv
<1>4. PortalTypes'
    BY <1>1, <1>2, <1>3 DEF PortalInv, PortalTypes
<1>5. LinksOpenOnce'
    BY <1>1 DEF PortalInv, LinksOpenOnce
<1>6. DecisionsFit'
    BY <1>1, <1>2, <1>3 DEF PortalInv, DecisionsFit, DecidedByMember
<1>7. LinksFit'
    <2>1. LatestLinkOnly'
        BY <1>1 DEF PortalInv, LinksFit, LatestLinkOnly, Opens
    <2> QED BY <1>1, <1>2, <1>3, <2>1 DEF PortalInv, LinksFit, Opens
<1> QED BY <1>4, <1>5, <1>6, <1>7 DEF PortalInv

\* What the links that end are made of.
LEMMA ExpiredLinks ==
    ASSUME PortalTypes, LinksOpenOnce, NEW w \in Workspaces, NEW S \in SUBSET BOOLEAN,
           FALSE \in S, links' = ExpiredIn(w, S)
    PROVE  /\ links' \in Seq(MagicLinks) /\ LinksEnd /\ LinksOpenOnce'
           /\ \A l \in DOMAIN links' : Opens(l)' => links'[l].ws # w
<1>1. DOMAIN links' = DOMAIN links /\ links' = [l \in DOMAIN links' |-> links'[l]]
    BY DEF ExpiredIn
<1>2. ASSUME NEW l \in DOMAIN links
      PROVE  /\ links'[l] \in MagicLinks
             /\ links'[l].ws = links[l].ws /\ links'[l].crossed = links[l].crossed
             /\ links'[l].is_consumed = links[l].is_consumed /\ links'[l].opened = links[l].opened
             /\ Opens(l)' => Opens(l) /\ links[l].ws # w
    <2>1. links[l] \in MagicLinks
        BY LinkRecords
    <2>2. CASE links[l].ws = w /\ links[l].is_consumed \in S
        <3>1. links'[l] = [links[l] EXCEPT !.live = FALSE]
            BY <2>2 DEF ExpiredIn
        <3> QED BY <2>1, <3>1 DEF MagicLinks, Opens
    <2>3. CASE ~(links[l].ws = w /\ links[l].is_consumed \in S)
        <3>1. links'[l] = links[l]
            BY <2>3 DEF ExpiredIn
        <3>2. links[l].is_consumed \in BOOLEAN
            BY <2>1 DEF MagicLinks
        <3> QED BY <2>1, <2>3, <3>1, <3>2 DEF Opens
    <2> QED BY <2>2, <2>3
<1>3. links' \in Seq(MagicLinks)
    BY <1>1, <1>2, LinksInPlace
<1>4. LinksEnd
    BY <1>1, <1>2 DEF LinksEnd
<1>5. LinksOpenOnce'
    BY <1>1, <1>2 DEF LinksOpenOnce
<1> QED BY <1>1, <1>2, <1>3, <1>4, <1>5

\* The links sent before end.
LEMMA ExpireKeeps ==
    ASSUME PortalInv, NEW t \in PortalThreads, ExpireOlder(t)
    PROVE  PortalInv'
<1> DEFINE r == [task[t] EXCEPT !.step = "create"]
<1>1. /\ task[t].step = "expire" /\ links' = ExpiredIn(task[t].ws, {FALSE})
      /\ task' = [task EXCEPT ![t] = r]
      /\ UNCHANGED <<belongs, portalSession, linkPage, post, answers>>
    BY DEF ExpireOlder
<1>2. PICK w \in Workspaces : w = task[t].ws
    BY <1>1 DEF PortalInv, PortalTypes
<1>3. /\ r \in PortalTasks /\ r.step = "create" /\ r.ws = w /\ r.crossed = task[t].crossed
    <2>1. task[t] \in PortalTasks
        BY TaskRecords DEF PortalInv
    <2> QED BY <1>2, <2>1 DEF PortalTasks, PortalSteps
<1> HIDE DEF r
<1>4. /\ task' \in [PortalThreads -> PortalTasks]
      /\ \A u \in PortalThreads : task'[u] = IF u = t THEN r ELSE task[u]
    BY <1>1, <1>3, TaskBecomes DEF PortalInv
<1>5. /\ links' \in Seq(MagicLinks) /\ LinksEnd /\ LinksOpenOnce'
      /\ \A l \in DOMAIN links' : Opens(l)' => links'[l].ws # w
    BY <1>1, <1>2, ExpiredLinks DEF PortalInv
<1>6. PortalTypes'
    BY <1>1, <1>3, <1>4, <1>5 DEF PortalInv, PortalTypes, LinksEnd
<1>7. DecisionsFit'
    BY <1>1, <1>3, <1>4 DEF PortalInv, DecisionsFit, DecidedByMember
<1>8. LinksFit'
    <2>1. LatestLinkOnly'
        <3> SUFFICES ASSUME NEW l \in DOMAIN links', NEW m \in DOMAIN links', l < m,
                            links'[l].ws = links'[m].ws, Opens(l)', Opens(m)'
                     PROVE  links'[l].crossed \/ links'[m].crossed
            BY DEF LatestLinkOnly
        <3> QED BY <1>5 DEF LinksEnd, PortalInv, LinksFit, LatestLinkOnly
    <2>2. ASSUME NEW u \in PortalThreads
          PROVE  /\ task'[u].step = "create" /\ ~task'[u].crossed =>
                       \A l \in DOMAIN links' : Opens(l)' => links'[l].ws # task'[u].ws
                 /\ task'[u].step = "delete" =>
                       \A l \in DOMAIN links' : Opens(l)' /\ links'[l].ws = task'[u].ws => links'[l].crossed
        <3>1. CASE u = t
            BY <1>3, <1>4, <1>5, <3>1
        <3>2. CASE u # t
            <4>1. task'[u] = task[u]
                BY <1>4, <3>2
            <4> QED BY <1>5, <4>1 DEF LinksEnd, PortalInv, LinksFit
        <3> QED BY <3>1, <3>2
    <2>3. ASSUME NEW v \in Workspaces \ belongs'
          PROVE  /\ \A l \in DOMAIN links' : Opens(l)' /\ links'[l].ws = v => links'[l].crossed
                 /\ \A u \in PortalThreads :
                       task'[u].step \in {"expire", "create"} /\ task'[u].ws = v => task'[u].crossed
        <3>1. v \in Workspaces \ belongs
            BY <1>1, <2>3
        <3>2. \A l \in DOMAIN links' : Opens(l)' /\ links'[l].ws = v => links'[l].crossed
            BY <1>5, <3>1 DEF LinksEnd, PortalInv, LinksFit
        <3>3. \A u \in PortalThreads :
                 task[u].step \in {"expire", "create"} /\ task[u].ws = v => task[u].crossed
            BY <3>1 DEF PortalInv, LinksFit
        <3>4. \A u \in PortalThreads :
                 task'[u].step \in {"expire", "create"} /\ task'[u].ws = v => task'[u].crossed
            BY <1>1, <1>2, <1>3, <1>4, <3>3
        <3> QED BY <3>2, <3>4
    <2> QED BY <2>1, <2>2, <2>3 DEF LinksFit
<1> QED BY <1>5, <1>6, <1>7, <1>8 DEF PortalInv

\* A request that is marked, or not, is otherwise as it was.
LEMMA CrossedTask ==
    ASSUME NEW r \in PortalTasks
    PROVE  /\ [r EXCEPT !.crossed = TRUE] \in PortalTasks
           /\ [r EXCEPT !.crossed = TRUE].step = r.step /\ [r EXCEPT !.crossed = TRUE].ws = r.ws
           /\ [r EXCEPT !.crossed = TRUE].link = r.link
           /\ [r EXCEPT !.crossed = TRUE].crossed = TRUE
BY DEF PortalTasks

\* The requests for a workspace that learn of another one.
LEMMA CrossingMarks ==
    ASSUME PortalTypes, NEW t \in PortalThreads, NEW w \in Workspaces, NEW S \in SUBSET PortalSteps,
           task' = [Crossing(t, w, S) EXCEPT ![t] = NoTask]
    PROVE  /\ task' \in [PortalThreads -> PortalTasks] /\ task'[t] = NoTask
           /\ \A u \in PortalThreads \ {t} :
                 /\ task'[u].step = task[u].step /\ task'[u].ws = task[u].ws
                 /\ task'[u].link = task[u].link
                 /\ task[u].crossed => task'[u].crossed
                 /\ task[u].ws = w /\ task[u].step \in S => task'[u].crossed
                 /\ task[u].step \notin S => task'[u] = task[u]
<1>1. \A u \in PortalThreads \ {t} :
         task'[u] = IF task[u].ws = w /\ task[u].step \in S
                    THEN [task[u] EXCEPT !.crossed = TRUE] ELSE task[u]
    BY DEF Crossing
<1>2. task'[t] = NoTask /\ task' = [u \in PortalThreads |-> task'[u]]
    BY DEF Crossing
<1>3. ASSUME NEW u \in PortalThreads \ {t}
      PROVE  /\ task'[u] \in PortalTasks
             /\ task'[u].step = task[u].step /\ task'[u].ws = task[u].ws
             /\ task'[u].link = task[u].link
             /\ task[u].crossed => task'[u].crossed
             /\ task[u].ws = w /\ task[u].step \in S => task'[u].crossed
             /\ task[u].step \notin S => task'[u] = task[u]
    <2>1. task[u] \in PortalTasks
        BY TaskRecords
    <2>2. CASE task[u].ws = w /\ task[u].step \in S
        <3>1. task'[u] = [task[u] EXCEPT !.crossed = TRUE]
            BY <1>1, <2>2
        <3> QED BY <2>1, <2>2, <3>1, CrossedTask
    <2>3. CASE ~(task[u].ws = w /\ task[u].step \in S)
        <3>1. task'[u] = task[u]
            BY <1>1, <2>3
        <3> QED BY <2>1, <2>3, <3>1
    <2> QED BY <2>2, <2>3
<1>4. \A u \in PortalThreads : task'[u] \in PortalTasks
    BY <1>2, <1>3, NoTaskType
<1>5. task' \in [PortalThreads -> PortalTasks]
    BY <1>2, <1>4
<1> QED BY <1>2, <1>3, <1>5

\* A link is made.
LEMMA CreateKeeps ==
    ASSUME PortalInv, NEW t \in PortalThreads, CreateLink(t)
    PROVE  PortalInv'
<1>1. task[t].step = "create"
    BY DEF CreateLink
<1>2. PICK w \in Workspaces : w = task[t].ws
    BY <1>1 DEF PortalInv, PortalTypes
<1> DEFINE beside == \E u \in PortalThreads \ {t} :
                        task[u].ws = w /\ task[u].step \in {"create", "delete"}
           crossed == beside \/ task[t].crossed
           made == [ws |-> w, live |-> TRUE, is_consumed |-> FALSE, opened |-> 0, crossed |-> crossed]
           n == Len(links)
<1>3. /\ links' = Append(links, made)
      /\ task' = [Crossing(t, w, {"create"}) EXCEPT ![t] = NoTask]
      /\ UNCHANGED <<belongs, portalSession, linkPage, post, answers>>
    BY <1>2 DEF CreateLink
<1>4. /\ DOMAIN links = 1..n /\ n \in Nat /\ \A l \in DOMAIN links : links[l] \in MagicLinks
      /\ links \in Seq(MagicLinks)
    BY LinkRecords DEF PortalInv, PortalTypes
<1>5. crossed \in BOOLEAN /\ (task[t].crossed => crossed) /\ (beside => crossed)
    BY TaskRecords DEF PortalInv, PortalTasks
<1>6. made \in MagicLinks /\ made.ws = w /\ made.crossed = crossed /\ made.opened = 0
    <2> HIDE DEF crossed
    <2> QED BY <1>5 DEF MagicLinks
<1> HIDE DEF made, crossed
<1>7. /\ links' \in Seq(MagicLinks) /\ Len(links') = n + 1
      /\ \A l \in 1..n : links'[l] = links[l]
      /\ links'[n + 1] = made
    BY <1>3, <1>4, <1>6, AppendProperties
<1>8. DOMAIN links' = 1..(n + 1)
    BY <1>7, LenProperties
<1> HIDE DEF n
<1>9. \A l \in DOMAIN links' : l = n + 1 \/ l \in DOMAIN links
    BY <1>4, <1>8
<1>10. \A l \in DOMAIN links : l \in DOMAIN links' /\ links'[l] = links[l] /\ l # n + 1 /\ l < n + 1
    BY <1>4, <1>7, <1>8
<1>11. \A l \in DOMAIN links : Opens(l)' <=> Opens(l)
    BY <1>10 DEF Opens
<1>12. {"create"} \in SUBSET PortalSteps
    BY DEF PortalSteps
<1>13. /\ task' \in [PortalThreads -> PortalTasks] /\ task'[t] = NoTask
       /\ \A u \in PortalThreads \ {t} :
             /\ task'[u].step = task[u].step /\ task'[u].ws = task[u].ws
             /\ task'[u].link = task[u].link
             /\ task[u].crossed => task'[u].crossed
             /\ task[u].ws = w /\ task[u].step \in {"create"} => task'[u].crossed
             /\ task[u].step \notin {"create"} => task'[u] = task[u]
    <2>1. PortalTypes
        BY DEF PortalInv
    <2> QED BY <1>3, <1>12, <2>1, CrossingMarks
<1>14. PortalTypes'
    <2>1. \A u \in PortalThreads :
             /\ task'[u].step \in {"expire", "create", "delete", "decide"} => task'[u].ws \in Workspaces
             /\ task'[u].step = "consume" => task'[u].link \in DOMAIN links'
        BY <1>10, <1>13, NoTaskType DEF PortalInv, PortalTypes
    <2>2. linkPage' \in Nat /\ (linkPage' # NoLink => linkPage' \in DOMAIN links')
        BY <1>3, <1>10 DEF PortalInv, PortalTypes
    <2> QED BY <1>3, <1>7, <1>13, <2>1, <2>2 DEF PortalInv, PortalTypes
<1>15. LinksOpenOnce'
    BY <1>6, <1>7, <1>9, <1>10 DEF PortalInv, LinksOpenOnce
<1>16. DecisionsFit'
    BY <1>3, <1>13, NoTaskType DEF PortalInv, DecisionsFit, DecidedByMember
<1>17. LinksFit'
    <2>1. LatestLinkOnly'
        <3> SUFFICES ASSUME NEW l \in DOMAIN links', NEW m \in DOMAIN links', l < m,
                            links'[l].ws = links'[m].ws, Opens(l)', Opens(m)'
                     PROVE  links'[l].crossed \/ links'[m].crossed
            BY DEF LatestLinkOnly
        <3>1. CASE l \in DOMAIN links /\ m \in DOMAIN links
            BY <1>10, <1>11, <3>1 DEF PortalInv, LinksFit, LatestLinkOnly
        <3>2. CASE l = n + 1
            <4>1. m <= n + 1
                BY <1>4, <1>8 DEF n
            <4> QED BY <1>4, <1>8, <3>2, <4>1 DEF n
        <3>3. CASE l \in DOMAIN links /\ m = n + 1
            <4>1. links'[m] = made /\ links'[l] = links[l] /\ Opens(l)
                BY <1>7, <1>10, <1>11, <3>3
            <4>2. links[l].ws = task[t].ws
                BY <1>2, <1>6, <4>1
            <4>3. task[t].crossed
                BY <1>1, <3>3, <4>1, <4>2 DEF PortalInv, LinksFit
            <4> QED BY <1>5, <1>6, <4>1, <4>3
        <3> QED BY <1>9, <3>1, <3>2, <3>3
    <2>2. ASSUME NEW u \in PortalThreads
          PROVE  /\ task'[u].step = "create" /\ ~task'[u].crossed =>
                       \A l \in DOMAIN links' : Opens(l)' => links'[l].ws # task'[u].ws
                 /\ task'[u].step = "delete" =>
                       \A l \in DOMAIN links' : Opens(l)' /\ links'[l].ws = task'[u].ws => links'[l].crossed
        <3>1. CASE u = t
            BY <1>13, <3>1, NoTaskType
        <3>2. ASSUME u # t, task'[u].step = "create", ~task'[u].crossed,
                     NEW l \in DOMAIN links', Opens(l)'
              PROVE  links'[l].ws # task'[u].ws
            <4>1. task[u].step = "create" /\ ~task[u].crossed /\ task'[u].ws = task[u].ws /\ task[u].ws # w
                BY <1>13, <3>2
            <4>2. CASE l = n + 1
                BY <1>6, <1>7, <4>1, <4>2
            <4>3. CASE l \in DOMAIN links
                BY <1>10, <1>11, <3>2, <4>1, <4>3 DEF PortalInv, LinksFit
            <4> QED BY <1>9, <4>2, <4>3
        <3>3. ASSUME u # t, task'[u].step = "delete", NEW l \in DOMAIN links', Opens(l)',
                     links'[l].ws = task'[u].ws
              PROVE  links'[l].crossed
            <4>1. task[u].step = "delete" /\ task'[u].ws = task[u].ws
                BY <1>13, <3>3
            <4>2. CASE l = n + 1
                <5>1. task[u].ws = w
                    BY <1>6, <1>7, <3>3, <4>1, <4>2
                <5>2. beside
                    BY <3>3, <4>1, <5>1
                <5> QED BY <1>5, <1>6, <1>7, <4>2, <5>2
            <4>3. CASE l \in DOMAIN links
                BY <1>10, <1>11, <3>3, <4>1, <4>3 DEF PortalInv, LinksFit
            <4> QED BY <1>9, <4>2, <4>3
        <3> QED BY <3>1, <3>2, <3>3
    <2>3. ASSUME NEW v \in Workspaces \ belongs'
          PROVE  /\ \A l \in DOMAIN links' : Opens(l)' /\ links'[l].ws = v => links'[l].crossed
                 /\ \A u \in PortalThreads :
                       task'[u].step \in {"expire", "create"} /\ task'[u].ws = v => task'[u].crossed
        <3>1. v \in Workspaces \ belongs
            BY <1>3, <2>3
        <3>2. \A u \in PortalThreads :
                 task[u].step \in {"expire", "create"} /\ task[u].ws = v => task[u].crossed
            BY <3>1 DEF PortalInv, LinksFit
        <3>3. ASSUME NEW l \in DOMAIN links', Opens(l)', links'[l].ws = v PROVE links'[l].crossed
            <4>1. CASE l = n + 1
                <5>1. w = v
                    BY <1>6, <1>7, <3>3, <4>1
                <5>2. task[t].crossed
                    BY <1>1, <1>2, <3>2, <5>1
                <5> QED BY <1>5, <1>6, <1>7, <4>1, <5>2
            <4>2. CASE l \in DOMAIN links
                BY <1>10, <1>11, <3>1, <3>3, <4>2 DEF PortalInv, LinksFit
            <4> QED BY <1>9, <4>1, <4>2
        <3>4. \A u \in PortalThreads :
                 task'[u].step \in {"expire", "create"} /\ task'[u].ws = v => task'[u].crossed
            BY <1>13, <3>2, NoTaskType
        <3> QED BY <3>3, <3>4
    <2> QED BY <2>1, <2>2, <2>3 DEF LinksFit
<1> QED BY <1>14, <1>15, <1>16, <1>17 DEF PortalInv

\* A manager removes the client: the links end.
LEMMA RemoveKeeps ==
    ASSUME PortalInv, NEW t \in PortalThreads, NEW w \in Workspaces, RemoveClient(t, w)
    PROVE  PortalInv'
<1> DEFINE r == [NoTask EXCEPT !.step = "delete", !.ws = w]
<1>1. /\ links' = ExpiredIn(w, BOOLEAN) /\ task' = [task EXCEPT ![t] = r]
      /\ UNCHANGED <<belongs, portalSession, linkPage, post, answers>>
    BY DEF RemoveClient
<1>2. r \in PortalTasks /\ r.step = "delete" /\ r.ws = w
    BY NoTaskType DEF PortalTasks, PortalSteps
<1> HIDE DEF r
<1>3. /\ task' \in [PortalThreads -> PortalTasks]
      /\ \A u \in PortalThreads : task'[u] = IF u = t THEN r ELSE task[u]
    BY <1>1, <1>2, TaskBecomes DEF PortalInv
<1>4. /\ links' \in Seq(MagicLinks) /\ LinksEnd /\ LinksOpenOnce'
      /\ \A l \in DOMAIN links' : Opens(l)' => links'[l].ws # w
    BY <1>1, ExpiredLinks DEF PortalInv
<1>5. PortalTypes'
    BY <1>1, <1>2, <1>3, <1>4 DEF PortalInv, PortalTypes, LinksEnd
<1>6. DecisionsFit'
    BY <1>1, <1>2, <1>3 DEF PortalInv, DecisionsFit, DecidedByMember
<1>7. LinksFit'
    <2>1. LatestLinkOnly'
        <3> SUFFICES ASSUME NEW l \in DOMAIN links', NEW m \in DOMAIN links', l < m,
                            links'[l].ws = links'[m].ws, Opens(l)', Opens(m)'
                     PROVE  links'[l].crossed \/ links'[m].crossed
            BY DEF LatestLinkOnly
        <3> QED BY <1>4 DEF LinksEnd, PortalInv, LinksFit, LatestLinkOnly
    <2>2. ASSUME NEW u \in PortalThreads
          PROVE  /\ task'[u].step = "create" /\ ~task'[u].crossed =>
                       \A l \in DOMAIN links' : Opens(l)' => links'[l].ws # task'[u].ws
                 /\ task'[u].step = "delete" =>
                       \A l \in DOMAIN links' : Opens(l)' /\ links'[l].ws = task'[u].ws => links'[l].crossed
        <3>1. CASE u = t
            BY <1>2, <1>3, <1>4, <3>1
        <3>2. CASE u # t
            <4>1. task'[u] = task[u]
                BY <1>3, <3>2
            <4> QED BY <1>4, <4>1 DEF LinksEnd, PortalInv, LinksFit
        <3> QED BY <3>1, <3>2
    <2>3. ASSUME NEW v \in Workspaces \ belongs'
          PROVE  /\ \A l \in DOMAIN links' : Opens(l)' /\ links'[l].ws = v => links'[l].crossed
                 /\ \A u \in PortalThreads :
                       task'[u].step \in {"expire", "create"} /\ task'[u].ws = v => task'[u].crossed
        <3>1. v \in Workspaces \ belongs
            BY <1>1, <2>3
        <3>2. \A l \in DOMAIN links' : Opens(l)' /\ links'[l].ws = v => links'[l].crossed
            BY <1>4, <3>1 DEF LinksEnd, PortalInv, LinksFit
        <3>3. \A u \in PortalThreads :
                 task'[u].step \in {"expire", "create"} /\ task'[u].ws = v => task'[u].crossed
            BY <1>2, <1>3, <3>1 DEF PortalInv, LinksFit
        <3> QED BY <3>2, <3>3
    <2> QED BY <2>1, <2>2, <2>3 DEF LinksFit
<1> QED BY <1>4, <1>5, <1>6, <1>7 DEF PortalInv

\* The membership ends.
LEMMA DeleteKeeps ==
    ASSUME PortalInv, NEW t \in PortalThreads, DeleteMembership(t)
    PROVE  PortalInv'
<1>1. task[t].step = "delete"
    BY DEF DeleteMembership
<1>2. PICK w \in Workspaces : w = task[t].ws
    BY <1>1 DEF PortalInv, PortalTypes
<1>3. /\ belongs' = belongs \ {w}
      /\ task' = [Crossing(t, w, {"expire", "create"}) EXCEPT ![t] = NoTask]
      /\ UNCHANGED <<links, portalSession, linkPage, post, answers>>
    BY <1>2 DEF DeleteMembership
<1>4. {"expire", "create"} \in SUBSET PortalSteps
    BY DEF PortalSteps
<1>5. /\ task' \in [PortalThreads -> PortalTasks] /\ task'[t] = NoTask
      /\ \A u \in PortalThreads \ {t} :
            /\ task'[u].step = task[u].step /\ task'[u].ws = task[u].ws
            /\ task'[u].link = task[u].link
            /\ task[u].crossed => task'[u].crossed
            /\ task[u].ws = w /\ task[u].step \in {"expire", "create"} => task'[u].crossed
            /\ task[u].step \notin {"expire", "create"} => task'[u] = task[u]
    <2>1. PortalTypes
        BY DEF PortalInv
    <2> QED BY <1>3, <1>4, <2>1, CrossingMarks
<1>6. \A l \in DOMAIN links : Opens(l)' <=> Opens(l)
    BY <1>3 DEF Opens
<1>7. PortalTypes'
    <2>1. \A u \in PortalThreads :
             /\ task'[u].step \in {"expire", "create", "delete", "decide"} => task'[u].ws \in Workspaces
             /\ task'[u].step = "consume" => task'[u].link \in DOMAIN links'
        BY <1>3, <1>5, NoTaskType DEF PortalInv, PortalTypes
    <2> QED BY <1>3, <1>5, <2>1 DEF PortalInv, PortalTypes
<1>8. LinksOpenOnce' /\ DecisionsFit'
    BY <1>3, <1>5, NoTaskType DEF PortalInv, LinksOpenOnce, DecisionsFit, DecidedByMember
<1>9. LinksFit'
    <2>1. LatestLinkOnly'
        BY <1>3, <1>6 DEF PortalInv, LinksFit, LatestLinkOnly
    <2>2. ASSUME NEW u \in PortalThreads
          PROVE  /\ task'[u].step = "create" /\ ~task'[u].crossed =>
                       \A l \in DOMAIN links' : Opens(l)' => links'[l].ws # task'[u].ws
                 /\ task'[u].step = "delete" =>
                       \A l \in DOMAIN links' : Opens(l)' /\ links'[l].ws = task'[u].ws => links'[l].crossed
        <3>1. CASE u = t
            BY <1>5, <3>1, NoTaskType
        <3>2. CASE u # t
            BY <1>3, <1>5, <1>6, <3>2 DEF PortalInv, LinksFit
        <3> QED BY <3>1, <3>2
    <2>3. ASSUME NEW v \in Workspaces \ belongs'
          PROVE  /\ \A l \in DOMAIN links' : Opens(l)' /\ links'[l].ws = v => links'[l].crossed
                 /\ \A u \in PortalThreads :
                       task'[u].step \in {"expire", "create"} /\ task'[u].ws = v => task'[u].crossed
        <3>1. CASE v = w
            <4>1. \A l \in DOMAIN links : Opens(l) /\ links[l].ws = v => links[l].crossed
                BY <1>1, <1>2, <3>1 DEF PortalInv, LinksFit
            <4>2. \A u \in PortalThreads :
                     task'[u].step \in {"expire", "create"} /\ task'[u].ws = v => task'[u].crossed
                BY <1>5, <3>1, NoTaskType
            <4> QED BY <1>3, <1>6, <4>1, <4>2
        <3>2. CASE v # w
            <4>1. v \in Workspaces \ belongs
                BY <1>3, <2>3, <3>2
            <4>2. \A l \in DOMAIN links : Opens(l) /\ links[l].ws = v => links[l].crossed
                BY <4>1 DEF PortalInv, LinksFit
            <4>3. \A u \in PortalThreads :
                     task'[u].step \in {"expire", "create"} /\ task'[u].ws = v => task'[u].crossed
                BY <1>5, <4>1, NoTaskType DEF PortalInv, LinksFit
            <4> QED BY <1>3, <1>6, <4>2, <4>3
        <3> QED BY <3>1, <3>2
    <2> QED BY <2>1, <2>2, <2>3 DEF LinksFit
<1> QED BY <1>7, <1>8, <1>9 DEF PortalInv

\* The client joins, the team moves the post, a confirmation page is opened.
LEMMA PortalRestKeeps ==
    ASSUME PortalInv,
           \/ \E w \in Workspaces : ClientJoins(w) \/ \E to \in Statuses : TeamMoves(w, to)
           \/ \E l \in DOMAIN links : PeekMagicLink(l)
    PROVE  PortalInv'
<1>1. /\ UNCHANGED <<links, task, answers>> /\ belongs \subseteq belongs'
      /\ belongs' \subseteq Workspaces
      /\ linkPage' \in {linkPage} \cup DOMAIN links
      /\ post' \in [Workspaces -> Statuses]
    <2>1. ASSUME NEW w \in Workspaces, NEW to \in Statuses, TeamMoves(w, to)
          PROVE  post' \in [Workspaces -> Statuses]
        BY <2>1 DEF TeamMoves, PortalInv, PortalTypes
    <2> QED BY <2>1 DEF ClientJoins, TeamMoves, PeekMagicLink, PortalInv, PortalTypes
<1>2. PortalTypes'
    <2>1. linkPage' \in Nat /\ (linkPage' # NoLink => linkPage' \in DOMAIN links')
        BY <1>1, LinkRecords DEF PortalInv, PortalTypes
    <2> QED BY <1>1, <2>1 DEF PortalInv, PortalTypes
<1>3. LinksOpenOnce' /\ DecisionsFit'
    BY <1>1 DEF PortalInv, LinksOpenOnce, DecisionsFit, DecidedByMember
<1>4. LinksFit'
    BY <1>1, LinksUnchanged, LinksEndKeeps DEF PortalInv
<1> QED BY <1>2, <1>3, <1>4 DEF PortalInv

\* A link that changes in place: it ends, or is used.
LEMMA LinkBecomes ==
    ASSUME PortalTypes, NEW l \in DOMAIN links, NEW r \in MagicLinks, links' = [links EXCEPT ![l] = r]
    PROVE  /\ links' \in Seq(MagicLinks) /\ DOMAIN links' = DOMAIN links
           /\ \A m \in DOMAIN links : links'[m] = IF m = l THEN r ELSE links[m]
<1>1. /\ DOMAIN links' = DOMAIN links
      /\ \A m \in DOMAIN links : links'[m] = IF m = l THEN r ELSE links[m]
      /\ links' = [m \in DOMAIN links' |-> links'[m]]
    OBVIOUS
<1>2. \A m \in DOMAIN links : links'[m] \in MagicLinks
    BY <1>1, LinkRecords
<1> QED BY <1>1, <1>2, LinksInPlace

LEMMA EndedLink ==
    ASSUME NEW r \in MagicLinks, NEW s, s = [r EXCEPT !.live = FALSE]
    PROVE  /\ s \in MagicLinks /\ s.ws = r.ws /\ s.crossed = r.crossed /\ ~s.live
           /\ s.is_consumed = r.is_consumed /\ s.opened = r.opened
BY DEF MagicLinks

LEMMA LinkExpiresKeeps ==
    ASSUME PortalInv, NEW l \in DOMAIN links, LinkExpires(l)
    PROVE  PortalInv'
<1> DEFINE r == [links[l] EXCEPT !.live = FALSE]
<1>1. /\ links' = [links EXCEPT ![l] = r]
      /\ UNCHANGED <<belongs, portalSession, linkPage, post, task, answers>>
    BY DEF LinkExpires
<1>2. links[l] \in MagicLinks
    BY LinkRecords DEF PortalInv
<1>3. /\ r \in MagicLinks /\ r.ws = links[l].ws /\ r.crossed = links[l].crossed /\ ~r.live
      /\ r.is_consumed = links[l].is_consumed /\ r.opened = links[l].opened
    BY <1>2, EndedLink
<1> HIDE DEF r
<1>4. /\ links' \in Seq(MagicLinks) /\ DOMAIN links' = DOMAIN links
      /\ \A m \in DOMAIN links : links'[m] = IF m = l THEN r ELSE links[m]
    BY <1>1, <1>3, LinkBecomes DEF PortalInv
<1>5. LinksEnd
    BY <1>3, <1>4 DEF LinksEnd, Opens
<1>6. PortalTypes'
    BY <1>1, <1>4 DEF PortalInv, PortalTypes
<1>7. LinksOpenOnce'
    BY <1>3, <1>4 DEF PortalInv, LinksOpenOnce
<1>8. DecisionsFit'
    BY <1>1 DEF PortalInv, DecisionsFit, DecidedByMember
<1>9. LinksFit'
    BY <1>1, <1>5, LinksEndKeeps DEF PortalInv
<1> QED BY <1>6, <1>7, <1>8, <1>9 DEF PortalInv

\* The page is sent; the client asks to decide.
LEMMA PortalBeginningsKeep ==
    ASSUME PortalInv, NEW t \in PortalThreads,
           EnterPortal(t) \/ \E w \in Workspaces, d \in Decisions : PortalDecide(t, w, d)
    PROVE  PortalInv'
<1>1. UNCHANGED <<belongs, links, portalSession, linkPage, post, answers>>
    BY DEF EnterPortal, PortalDecide
<1>2. PICK r \in PortalTasks :
         /\ task' = [task EXCEPT ![t] = r]
         /\ \/ r.step = "consume" /\ r.link \in DOMAIN links
            \/ r.step = "decide" /\ r.ws \in Workspaces /\ ~r.crossed
    <2>1. CASE EnterPortal(t)
        <3> DEFINE r == [NoTask EXCEPT !.step = "consume", !.link = linkPage]
        <3>1. task' = [task EXCEPT ![t] = r] /\ linkPage # NoLink
            BY <2>1 DEF EnterPortal
        <3>2. linkPage \in Nat /\ linkPage \in DOMAIN links
            BY <3>1 DEF PortalInv, PortalTypes
        <3>3. r \in PortalTasks /\ r.step = "consume" /\ r.link = linkPage
            BY <3>2, NoTaskType DEF PortalTasks, PortalSteps
        <3> HIDE DEF r
        <3> QED BY <3>1, <3>2, <3>3
    <2>2. CASE \E w \in Workspaces, d \in Decisions : PortalDecide(t, w, d)
        <3>1. PICK w \in Workspaces, d \in Decisions : PortalDecide(t, w, d)
            BY <2>2
        <3> DEFINE c == w \notin belongs
                   r == [NoTask EXCEPT !.step = "decide", !.ws = w, !.decision = d, !.crossed = c]
        <3>2. task' = [task EXCEPT ![t] = r] /\ ~c
            BY <3>1 DEF PortalDecide, PortalAuth
        <3>3. c \in BOOLEAN
            OBVIOUS
        <3> HIDE DEF c
        <3>4. r \in PortalTasks /\ r.step = "decide" /\ r.ws = w
            BY <3>3, NoTaskType DEF PortalTasks, PortalSteps
        <3>5. r.crossed = c
            BY <3>3, NoTaskType DEF PortalTasks
        <3> HIDE DEF r
        <3> QED BY <3>2, <3>4, <3>5
    <2> QED BY <2>1, <2>2
<1>3. /\ task' \in [PortalThreads -> PortalTasks]
      /\ \A u \in PortalThreads : task'[u] = IF u = t THEN r ELSE task[u]
    BY <1>2, TaskBecomes DEF PortalInv
<1>4. PortalTypes'
    BY <1>1, <1>2, <1>3 DEF PortalInv, PortalTypes
<1>5. LinksOpenOnce'
    BY <1>1 DEF PortalInv, LinksOpenOnce
<1>6. DecisionsFit'
    BY <1>1, <1>2, <1>3 DEF PortalInv, DecisionsFit, DecidedByMember
<1>7. LinksFit'
    <2>1. \A u \in PortalThreads :
             task'[u] = task[u] \/ task'[u].step \notin {"expire", "create", "delete"}
        BY <1>2, <1>3
    <2> QED BY <1>1, <2>1, LinksUnchanged, LinksEndKeeps DEF PortalInv
<1> QED BY <1>4, <1>5, <1>6, <1>7 DEF PortalInv

\* A link is used.
LEMMA ConsumeKeeps ==
    ASSUME PortalInv, NEW t \in PortalThreads, ConsumeMagicLink(t)
    PROVE  PortalInv'
<1>1. /\ task[t].step = "consume" /\ task' = [task EXCEPT ![t] = NoTask]
      /\ UNCHANGED <<belongs, linkPage, post, answers>>
    BY DEF ConsumeMagicLink
<1>2. PICK l \in DOMAIN links : l = task[t].link
    BY <1>1 DEF PortalInv, PortalTypes
<1>3. links[l] \in MagicLinks
    BY LinkRecords DEF PortalInv
<1>n. PICK n \in Nat : n = links[l].opened + 1
    BY <1>3 DEF MagicLinks
<1> DEFINE r == [links[l] EXCEPT !.is_consumed = TRUE, !.opened = n]
<1>4. \/ links' = links
      \/ ~links[l].is_consumed /\ links' = [links EXCEPT ![l] = r]
    BY <1>2, <1>n DEF ConsumeMagicLink
<1>5. /\ r \in MagicLinks /\ r.ws = links[l].ws /\ r.crossed = links[l].crossed
      /\ r.is_consumed /\ r.opened = links[l].opened + 1
    <2>1. PICK x \in MagicLinks : x = links[l]
        BY <1>3
    <2>2. /\ r \in MagicLinks /\ r.ws = x.ws /\ r.crossed = x.crossed
          /\ r.is_consumed /\ r.opened = n
        <3>1. r = [x EXCEPT !.is_consumed = TRUE, !.opened = n]
            BY <2>1
        <3> HIDE DEF r
        <3> QED BY <3>1 DEF MagicLinks
    <2> QED BY <1>n, <2>1, <2>2
<1> HIDE DEF r
<1>6. /\ links' \in Seq(MagicLinks) /\ LinksEnd /\ LinksOpenOnce'
    <2>1. CASE links' = links
        BY <2>1, LinksUnchanged DEF PortalInv, PortalTypes, LinksOpenOnce
    <2>2. CASE ~links[l].is_consumed /\ links' = [links EXCEPT ![l] = r]
        <3>1. /\ links' \in Seq(MagicLinks) /\ DOMAIN links' = DOMAIN links
              /\ \A m \in DOMAIN links : links'[m] = IF m = l THEN r ELSE links[m]
            BY <1>5, <2>2, LinkBecomes DEF PortalInv
        <3>2. LinksEnd
            BY <1>5, <3>1 DEF LinksEnd, Opens
        <3>3. r.opened <= 1
            BY <1>5, <2>2 DEF PortalInv, LinksOpenOnce
        <3>4. LinksOpenOnce'
            BY <1>5, <3>1, <3>3 DEF PortalInv, LinksOpenOnce
        <3> QED BY <3>1, <3>2, <3>4
    <2> QED BY <1>4, <2>1, <2>2
<1>7. /\ task' \in [PortalThreads -> PortalTasks]
      /\ \A u \in PortalThreads : task'[u] = IF u = t THEN NoTask ELSE task[u]
    BY <1>1, NoTaskType, TaskBecomes DEF PortalInv
<1>8. PortalTypes'
    BY <1>1, <1>6, <1>7, NoTaskType DEF PortalInv, PortalTypes, LinksEnd
<1>9. DecisionsFit'
    BY <1>1, <1>7, NoTaskType DEF PortalInv, DecisionsFit, DecidedByMember
<1>10. LinksFit'
    <2>1. \A u \in PortalThreads :
             task'[u] = task[u] \/ task'[u].step \notin {"expire", "create", "delete"}
        BY <1>7, NoTaskType
    <2> QED BY <1>1, <1>6, <2>1, LinksEndKeeps DEF PortalInv
<1> QED BY <1>6, <1>8, <1>9, <1>10 DEF PortalInv

\* The client's decision is taken.
LEMMA PortalDecidesKeeps ==
    ASSUME PortalInv, NEW t \in PortalThreads, PortalDecides(t)
    PROVE  PortalInv'
<1>1. task[t].step = "decide"
    BY DEF PortalDecides
<1>2. PICK w \in Workspaces : w = task[t].ws
    BY <1>1 DEF PortalInv, PortalTypes
<1>3. PICK d \in Decisions : d = task[t].decision
    BY TaskRecords DEF PortalInv, PortalTasks
<1> DEFINE outcome == DecidedAs(d, post[w])
           told == [ws |-> w, decision |-> d, from |-> post[w], to |-> outcome,
                    stranger |-> task[t].crossed]
<1>4. /\ post' = [post EXCEPT ![w] = outcome] /\ answers' = answers \cup {told}
      /\ task' = [task EXCEPT ![t] = NoTask] /\ UNCHANGED <<belongs, links, linkPage>>
    BY <1>2, <1>3 DEF PortalDecides
<1>5. /\ outcome \in Statuses
      /\ outcome # post[w] => post[w] \in IF d = "hold" THEN {"approved"}
                                          ELSE {"pending_review", "pending_client"}
    <2>1. post[w] \in Statuses
        BY DEF PortalInv, PortalTypes
    <2> QED BY <2>1, DecisionsAreStatuses
<1>6. ~task[t].crossed
    BY <1>1 DEF PortalInv, DecisionsFit
<1>7. /\ told.to = outcome /\ told.from = post[w] /\ told.decision = d /\ ~told.stranger
    BY <1>6
<1> HIDE DEF told, outcome
<1>8. /\ task' \in [PortalThreads -> PortalTasks]
      /\ \A u \in PortalThreads : task'[u] = IF u = t THEN NoTask ELSE task[u]
    BY <1>4, NoTaskType, TaskBecomes DEF PortalInv
<1>9. PortalTypes'
    <2>1. post' \in [Workspaces -> Statuses]
        BY <1>4, <1>5 DEF PortalInv, PortalTypes
    <2> QED BY <1>4, <1>8, <2>1, NoTaskType DEF PortalInv, PortalTypes
<1>10. LinksOpenOnce'
    BY <1>4 DEF PortalInv, LinksOpenOnce
<1>11. DecisionsFit'
    <2>1. DecidedByMember'
        BY <1>4, <1>5, <1>7 DEF PortalInv, DecisionsFit, DecidedByMember
    <2> QED BY <1>8, <2>1, NoTaskType DEF PortalInv, DecisionsFit
<1>12. LinksFit'
    <2>1. \A u \in PortalThreads :
             task'[u] = task[u] \/ task'[u].step \notin {"expire", "create", "delete"}
        BY <1>8, NoTaskType
    <2> QED BY <1>4, <2>1, LinksUnchanged, LinksEndKeeps DEF PortalInv
<1> QED BY <1>9, <1>10, <1>11, <1>12 DEF PortalInv

LEMMA PortalNextKeeps == PortalInv /\ [PortalNext]_portalVars => PortalInv'
<1> SUFFICES ASSUME PortalInv, [PortalNext]_portalVars PROVE PortalInv'
    OBVIOUS
<1>1. CASE UNCHANGED portalVars
    <2>1. UNCHANGED <<belongs, links, linkPage, post, task, answers>>
        BY <1>1 DEF portalVars
    <2>2. PortalTypes' /\ LinksOpenOnce' /\ DecisionsFit'
        BY <2>1 DEF PortalInv, PortalTypes, LinksOpenOnce, DecisionsFit, DecidedByMember
    <2>3. LinksFit'
        BY <2>1, LinksUnchanged, LinksEndKeeps DEF PortalInv
    <2> QED BY <2>2, <2>3 DEF PortalInv
<1>2. ASSUME PortalNext PROVE PortalInv'
    BY <1>2, GenerateKeeps, ExpireKeeps, CreateKeeps, RemoveKeeps, DeleteKeeps, PortalRestKeeps,
       LinkExpiresKeeps, PortalBeginningsKeep, ConsumeKeeps, PortalDecidesKeeps DEF PortalNext
<1> QED BY <1>1, <1>2

LEMMA PortalInvHolds == PortalInv => PortalIsSound
<1> SUFFICES ASSUME PortalInv PROVE PortalIsSound
    OBVIOUS
<1>1. ASSUME NEW l \in DOMAIN links, Opens(l), links[l].ws \notin belongs PROVE links[l].crossed
    <2>1. links[l].ws \in Workspaces
        BY LinkRecords DEF PortalInv, MagicLinks
    <2> QED BY <1>1, <2>1 DEF PortalInv, LinksFit
<1> QED BY <1>1 DEF PortalInv, LinksOpenOnce, DecisionsFit, LinksFit, PortalIsSound, OpensOnce,
                   RemovedHoldsNoLink

\* A link opens one session, only the last one sent opens, a client who was removed
\* holds none, and what is decided is decided by a client who belongs.
THEOREM PortalStaysSound == PortalSpec => []PortalIsSound
<1>1. PortalSpec => []PortalInv
    BY PortalInvInit, PortalNextKeeps, PTL DEF PortalSpec
<1> QED BY <1>1, PortalInvHolds, PTL

-------------------------------------------------------------------------------
(* Discussion *)

Visibilities == {"internal", "external"}
CommentRows == [author : Talkers, visibility : Visibilities, parent : Nat, deleted : BOOLEAN,
                body : Nat, was_deleted : BOOLEAN]
TalkRequests == [step : {"idle", "create", "mention", "edit", "delete"},
                 who : Talkers \cup {"nobody"}, id : Nat, row : Seq(Visibilities \cup CommentRows),
                 named : SUBSET Talkers]

\* Whoever is to be notified of a comment is notified of the author's own.
TalkFits(t) ==
    /\ talk[t].step = "create" => talk[t].who \in Talkers /\ talk[t].row[1] \in Visibilities
    /\ talk[t].step \in {"mention", "edit", "delete"} => talk[t].id \in DOMAIN comments
    /\ talk[t].step = "mention" => comments[talk[t].id].author = talk[t].who

\* The inductive invariant of the discussion.
TalkInv ==
    /\ comments \in Seq(CommentRows) /\ talk \in [TalkThreads -> TalkRequests] /\ talkOps \in Nat
    /\ \A t \in TalkThreads : TalkFits(t)
    /\ DeletedIsGone
    /\ \A m \in mentions : m[1] \in DOMAIN comments /\ comments[m[1]].author # m[2]

LEMMA QuietType == Quiet \in TalkRequests /\ Quiet.step = "idle"
BY EmptySeq DEF Quiet, TalkRequests

LEMMA CommentsKept ==
    ASSUME TalkInv
    PROVE  /\ DOMAIN comments = 1..Len(comments) /\ Len(comments) \in Nat
           /\ \A c \in DOMAIN comments : comments[c] \in CommentRows
BY ElementOfSeq, LenProperties DEF TalkInv

LEMMA TalkInvInit == TalkInit => TalkInv
<1> SUFFICES ASSUME TalkInit PROVE TalkInv
    OBVIOUS
<1>1. /\ comments = <<>> /\ talk = [t \in TalkThreads |-> Quiet] /\ mentions = {} /\ talkOps = 0
    BY DEF TalkInit
<1>2. DOMAIN comments = {} /\ comments \in Seq(CommentRows)
    BY <1>1, EmptySeq
<1> QED BY <1>1, <1>2, QuietType DEF TalkInv, TalkFits, DeletedIsGone

\* A request begins, goes on or ends.
LEMMA TalkBecomes ==
    ASSUME TalkInv, NEW t \in TalkThreads, NEW r \in TalkRequests, talk' = [talk EXCEPT ![t] = r]
    PROVE  /\ talk' \in [TalkThreads -> TalkRequests]
           /\ \A u \in TalkThreads : talk'[u] = IF u = t THEN r ELSE talk[u]
BY DEF TalkInv

\* What a request reads, and finds again.
LEMMA TalkBegins ==
    ASSUME TalkInv, NEW t \in TalkThreads, NEW r \in TalkRequests, talk' = [talk EXCEPT ![t] = r],
           UNCHANGED <<comments, mentions>>, talkOps' \in Nat,
           \/ r.step = "create" /\ r.who \in Talkers /\ r.row[1] \in Visibilities
           \/ r.step \in {"edit", "delete"} /\ r.id \in DOMAIN comments
    PROVE  TalkInv'
<1>1. /\ talk' \in [TalkThreads -> TalkRequests]
      /\ \A u \in TalkThreads : talk'[u] = IF u = t THEN r ELSE talk[u]
    BY TalkBecomes
<1>2. \A u \in TalkThreads : TalkFits(u)'
    BY <1>1 DEF TalkInv, TalkFits
<1> QED BY <1>1, <1>2 DEF TalkInv, DeletedIsGone

LEMMA StartCommentKeeps ==
    ASSUME TalkInv, NEW t \in TalkThreads, NEW who \in Talkers, NEW v \in {"internal", "external"},
           NEW parent \in 0..MaxComments, NEW named \in SUBSET Talkers,
           StartComment(t, who, v, parent, named)
    PROVE  TalkInv'
<1> DEFINE found == parent \in DOMAIN comments /\ ~comments[parent].deleted
           above == IF found THEN parent ELSE NoParent
           row == <<v>>
           r == [step |-> "create", who |-> who, id |-> above, row |-> row, named |-> named]
<1>1. talk' = [talk EXCEPT ![t] = r] /\ UNCHANGED <<comments, mentions>> /\ talkOps' = talkOps + 1
    BY DEF StartComment, Begins
<1>2. above \in Nat
    BY DEF NoParent
<1>3. row \in Seq(Visibilities \cup CommentRows) /\ row[1] = v
    BY DEF Visibilities
<1> HIDE DEF above, row
<1>4. r \in TalkRequests /\ r.step = "create" /\ r.who = who /\ r.row = row
    BY <1>2, <1>3 DEF TalkRequests
<1> HIDE DEF r
<1>5. talkOps' \in Nat
    BY <1>1 DEF TalkInv
<1> QED BY <1>1, <1>3, <1>4, <1>5, TalkBegins DEF Visibilities

LEMMA TakesKeeps ==
    ASSUME TalkInv, NEW t \in TalkThreads, NEW who \in Talkers, NEW id \in DOMAIN comments,
           NEW step \in {"edit", "delete"}, Takes(t, who, id, step)
    PROVE  TalkInv'
<1> DEFINE row == <<comments[id]>>
           r == [Quiet EXCEPT !.step = step, !.who = who, !.id = id, !.row = row]
<1>1. talk' = [talk EXCEPT ![t] = r] /\ UNCHANGED <<comments, mentions>> /\ talkOps' = talkOps + 1
    BY DEF Takes, Begins
<1>2. comments[id] \in CommentRows /\ id \in Nat
    BY CommentsKept
<1>3. row \in Seq(Visibilities \cup CommentRows)
    BY <1>2
<1> HIDE DEF row
<1>4. r \in TalkRequests /\ r.step = step /\ r.id = id
    BY <1>2, <1>3, QuietType DEF TalkRequests
<1> HIDE DEF r
<1>5. talkOps' \in Nat
    BY <1>1 DEF TalkInv
<1> QED BY <1>1, <1>4, <1>5, TalkBegins

\* A comment that changes in place keeps its author.
LEMMA CommentBecomes ==
    ASSUME TalkInv, NEW t \in TalkThreads, NEW id \in DOMAIN comments, NEW row \in CommentRows,
           comments' = [comments EXCEPT ![id] = row], talk' = [talk EXCEPT ![t] = Quiet],
           UNCHANGED <<mentions, talkOps>>,
           row.author = comments[id].author, row.was_deleted => row.deleted
    PROVE  TalkInv'
<1>1. /\ talk' \in [TalkThreads -> TalkRequests]
      /\ \A u \in TalkThreads : talk'[u] = IF u = t THEN Quiet ELSE talk[u]
    BY QuietType, TalkBecomes
<1>2. /\ DOMAIN comments' = DOMAIN comments
      /\ \A c \in DOMAIN comments : comments'[c] = IF c = id THEN row ELSE comments[c]
    OBVIOUS
<1>3. comments' \in Seq(CommentRows)
    BY CommentsKept, ExceptSeq DEF TalkInv
<1>4. \A c \in DOMAIN comments : comments'[c].author = comments[c].author
    BY <1>2
<1>5. \A u \in TalkThreads : TalkFits(u)'
    BY <1>1, <1>2, <1>4, QuietType DEF TalkInv, TalkFits
<1>6. DeletedIsGone'
    BY <1>2 DEF TalkInv, DeletedIsGone
<1> QED BY <1>1, <1>2, <1>3, <1>4, <1>5, <1>6 DEF TalkInv

LEMMA SavesKeep ==
    ASSUME TalkInv, NEW t \in TalkThreads, SaveBody(t) \/ SaveDeleted(t)
    PROVE  TalkInv'
<1>1. PICK id \in DOMAIN comments : id = talk[t].id
    BY DEF SaveBody, SaveDeleted, TalkInv, TalkFits
<1>2. PICK x \in CommentRows : x = comments[id]
    BY CommentsKept
<1>3. talk' = [talk EXCEPT ![t] = Quiet] /\ UNCHANGED <<mentions, talkOps>>
    BY DEF SaveBody, SaveDeleted
<1>4. CASE SaveBody(t)
    <2> DEFINE row == [x EXCEPT !.body = talkOps]
    <2>1. comments' = [comments EXCEPT ![id] = row]
        BY <1>1, <1>2, <1>4 DEF SaveBody
    <2>2. talkOps \in Nat /\ (x.was_deleted => x.deleted)
        BY <1>2 DEF TalkInv, DeletedIsGone
    <2>3. /\ row \in CommentRows /\ row.author = x.author
          /\ row.was_deleted = x.was_deleted /\ row.deleted = x.deleted
        BY <2>2 DEF CommentRows
    <2> HIDE DEF row
    <2> QED BY <1>2, <1>3, <2>1, <2>2, <2>3, CommentBecomes
<1>5. CASE SaveDeleted(t)
    <2> DEFINE row == [x EXCEPT !.deleted = TRUE, !.was_deleted = TRUE]
    <2>1. comments' = [comments EXCEPT ![id] = row]
        BY <1>1, <1>2, <1>5 DEF SaveDeleted
    <2>2. row \in CommentRows /\ row.author = x.author /\ row.deleted
        BY DEF CommentRows
    <2> HIDE DEF row
    <2> QED BY <1>2, <1>3, <2>1, <2>2, CommentBecomes
<1> QED BY <1>4, <1>5

LEMMA StoreCommentKeeps ==
    ASSUME TalkInv, NEW t \in TalkThreads, StoreComment(t)
    PROVE  TalkInv'
<1>1. PICK n \in Nat : n = Len(comments) + 1 /\ DOMAIN comments = 1..Len(comments)
    BY CommentsKept
<1>2. PICK x \in TalkRequests : x = talk[t] /\ x.step = "create" /\ x.who \in Talkers /\ x.row[1] \in Visibilities
    BY DEF StoreComment, TalkInv, TalkFits
<1> DEFINE v == x.row[1]
           row == [author |-> x.who, visibility |-> v, parent |-> x.id, deleted |-> FALSE,
                   body |-> 0, was_deleted |-> FALSE]
           r == [x EXCEPT !.step = "mention", !.id = n]
<1>3. /\ comments' = Append(comments, row) /\ talk' = [talk EXCEPT ![t] = r]
      /\ UNCHANGED <<mentions, talkOps>>
    BY <1>1, <1>2 DEF StoreComment, TalkInv
<1>4. v \in Visibilities
    BY <1>2
<1> HIDE DEF v
<1>5. row \in CommentRows /\ row.author = x.who /\ ~row.was_deleted
    BY <1>2, <1>4 DEF CommentRows, TalkRequests
<1>6. r \in TalkRequests /\ r.step = "mention" /\ r.id = n /\ r.who = x.who
    BY DEF TalkRequests
<1> HIDE DEF row, r
<1>7. /\ comments' \in Seq(CommentRows) /\ Len(comments') = n
      /\ \A c \in 1..Len(comments) : comments'[c] = comments[c]
      /\ comments'[n] = row
    BY <1>1, <1>3, <1>5, AppendProperties DEF TalkInv
<1>8. DOMAIN comments' = 1..n
    BY <1>7, LenProperties
<1>9. /\ n \in DOMAIN comments' /\ \A c \in DOMAIN comments' : c = n \/ c \in DOMAIN comments
      /\ \A c \in DOMAIN comments : c \in DOMAIN comments' /\ comments'[c] = comments[c]
    BY <1>1, <1>7, <1>8, CommentsKept
<1>10. /\ talk' \in [TalkThreads -> TalkRequests]
       /\ \A u \in TalkThreads : talk'[u] = IF u = t THEN r ELSE talk[u]
    BY <1>3, <1>6, TalkBecomes
<1>11. \A u \in TalkThreads : TalkFits(u)'
    BY <1>5, <1>6, <1>7, <1>9, <1>10 DEF TalkInv, TalkFits
<1>12. DeletedIsGone'
    BY <1>5, <1>7, <1>9 DEF TalkInv, DeletedIsGone
<1> QED BY <1>3, <1>7, <1>9, <1>10, <1>11, <1>12 DEF TalkInv

LEMMA NotifyMentionsKeeps ==
    ASSUME TalkInv, NEW t \in TalkThreads, NotifyMentions(t)
    PROVE  TalkInv'
<1>1. /\ talk[t].step = "mention" /\ talk' = [talk EXCEPT ![t] = Quiet]
      /\ mentions' = mentions \cup {<<talk[t].id, u>> : u \in talk[t].named \ {talk[t].who}}
      /\ UNCHANGED <<comments, talkOps>>
    BY DEF NotifyMentions
<1>2. /\ talk' \in [TalkThreads -> TalkRequests]
      /\ \A u \in TalkThreads : talk'[u] = IF u = t THEN Quiet ELSE talk[u]
    BY <1>1, QuietType, TalkBecomes
<1>3. talk[t].id \in DOMAIN comments /\ comments[talk[t].id].author = talk[t].who
    BY <1>1 DEF TalkInv, TalkFits
<1>4. \A m \in mentions' : m[1] \in DOMAIN comments' /\ comments'[m[1]].author # m[2]
    BY <1>1, <1>3 DEF TalkInv
<1>5. \A u \in TalkThreads : TalkFits(u)'
    BY <1>1, <1>2, QuietType DEF TalkInv, TalkFits
<1> QED BY <1>1, <1>2, <1>4, <1>5 DEF TalkInv, DeletedIsGone

LEMMA TalkNextKeeps == TalkInv /\ [TalkNext]_talkVars => TalkInv'
<1> SUFFICES ASSUME TalkInv, [TalkNext]_talkVars PROVE TalkInv'
    OBVIOUS
<1>1. CASE UNCHANGED talkVars
    BY <1>1 DEF talkVars, TalkInv, TalkFits, DeletedIsGone
<1>2. ASSUME TalkNext PROVE TalkInv'
    <2>1. PICK t \in TalkThreads :
             \/ StoreComment(t) \/ NotifyMentions(t) \/ SaveBody(t) \/ SaveDeleted(t)
             \/ \E who \in Talkers :
                   \/ \E v \in {"internal", "external"}, parent \in 0..MaxComments,
                         named \in SUBSET Talkers : StartComment(t, who, v, parent, named)
                   \/ \E id \in DOMAIN comments, step \in {"edit", "delete"} : Takes(t, who, id, step)
        BY <1>2 DEF TalkNext, UpdateComment, DeleteComment
    <2> QED BY <2>1, StoreCommentKeeps, NotifyMentionsKeeps, SavesKeep, StartCommentKeeps, TakesKeeps
<1> QED BY <1>1, <1>2

LEMMA TalkInvHolds == TalkInv => DiscussionIsSound
<1> SUFFICES ASSUME TalkInv PROVE DiscussionIsSound
    OBVIOUS
<1>1. ASSUME NEW c \in ShownToClient
      PROVE  \/ comments[c].visibility = "external"
             \/ comments[c].parent # NoParent /\ comments[comments[c].parent].visibility = "external"
    <2>1. CASE comments[c].visibility = "external"
        BY <2>1
    <2>2. CASE comments[c].visibility # "external"
        <3>1. PICK p \in DOMAIN comments : c \in Replies(p) /\ comments[p].visibility = "external"
            BY <1>1, <2>2 DEF ShownToClient, WithReplies, TopLevel
        <3>2. p # NoParent
            BY CommentsKept DEF NoParent
        <3> QED BY <3>1, <3>2 DEF Replies
    <2> QED BY <2>1, <2>2
<1> QED BY <1>1 DEF TalkInv, DiscussionIsSound, InternalStaysInside, MentionedByAnother

\* What was deleted stays deleted, what is internal stays inside, and nobody is told
\* of a mention of their own.
THEOREM DiscussionStaysSound == TalkSpec => []DiscussionIsSound
<1>1. TalkSpec => []TalkInv
    BY TalkInvInit, TalkNextKeeps, PTL DEF TalkSpec
<1> QED BY <1>1, TalkInvHolds, PTL

-------------------------------------------------------------------------------
(* What an editor and an approver leave behind has its type *)

\* Types of the workflow, and what keeps a version within its bound: no row was edited
\* more often than the post.
EditorialShapes ==
    /\ EditorialTypeOK
    /\ \A p \in Rows : content[p] <= edits
    /\ \A t \in Threads : req[t].step = "move" => req[t].target \in {"queue", "submit", "resubmit"}

LEMMA EditorialShapesInit == EditorialInit => EditorialShapes
<1> SUFFICES ASSUME EditorialInit PROVE EditorialShapes
    OBVIOUS
<1>1. 0 \in Versions /\ MaxEdits \in Nat /\ MaxRequests \in Nat
    BY EditorialConstants DEF Versions
<1>2. status \in [Rows -> Statuses]
    BY EditorialConstants DEF EditorialInit, Statuses
<1>3. NoRequest \in Request /\ NoRequest.step = "idle"
    BY DEF NoRequest, Request, People, Targets
<1>4. vetted \in [Rows -> Versions \cup {NoVersion}]
    BY <1>1 DEF EditorialInit
<1>5. signed \in [Rows -> Versions \cup {NoVersion}]
    BY <1>1, <1>4 DEF EditorialInit
<1> QED BY <1>1, <1>2, <1>3, <1>4, <1>5 DEF EditorialInit, EditorialShapes, EditorialTypeOK

LEMMA MovesAreMoves ==
    ASSUME EditorialTypeOK, NEW rows \in SUBSET Rows, NEW to \in Statuses
    PROVE  MovesTo(rows, to) \in SUBSET Move
BY DEF EditorialTypeOK, MovesTo, Move

LEMMA DecidingTyped ==
    ASSUME NEW who \in People, NEW moves \in SUBSET Move
    PROVE  /\ [NoRequest EXCEPT !.step = "commit", !.by = who, !.moves = moves] \in Request
           /\ [NoRequest EXCEPT !.step = "commit", !.by = who, !.moves = moves].step = "commit"
BY DEF NoRequest, Request, Targets, People

LEMMA IdleTyped == NoRequest \in Request /\ NoRequest.step = "idle"
BY DEF NoRequest, Request, People, Targets

LEMMA DecideTyped ==
    ASSUME EditorialShapes, NEW t \in Threads, NEW who \in People, NEW moves \in SUBSET Move,
           Decide(t, who, moves)
    PROVE  EditorialShapes'
<1> DEFINE r == [NoRequest EXCEPT !.step = "commit", !.by = who, !.moves = moves]
<1>1. r \in Request /\ r.step = "commit" BY DecidingTyped
<1>2. /\ req' = [req EXCEPT ![t] = r] /\ begun < MaxRequests /\ begun' = begun + 1
      /\ mode' = mode /\ status' = status /\ content' = content /\ vetted' = vetted
      /\ signed' = signed /\ lapse' = lapse /\ edits' = edits
    BY DEF Decide, Starts, rowVars
<1> HIDE DEF r
<1>3. req' \in [Threads -> Request] BY <1>1, <1>2 DEF EditorialShapes, EditorialTypeOK
<1>4. \A x \in Threads : req'[x].step = "move" => req'[x].target \in {"queue", "submit", "resubmit"}
    BY <1>1, <1>2 DEF EditorialShapes, EditorialTypeOK
<1>5. begun' \in 0..MaxRequests BY <1>2, EditorialConstants DEF EditorialShapes, EditorialTypeOK
<1> QED BY <1>2, <1>3, <1>4, <1>5 DEF EditorialShapes, EditorialTypeOK

\* A thread's request gives way to another.
LEMMA RequestTyped ==
    ASSUME EditorialShapes, NEW t \in Threads, NEW r \in Request, r.step # "move",
           req' = [req EXCEPT ![t] = r]
    PROVE  /\ req' \in [Threads -> Request]
           /\ \A x \in Threads :
                 req'[x].step = "move" => req'[x].target \in {"queue", "submit", "resubmit"}
BY DEF EditorialShapes, EditorialTypeOK

LEMMA ReviewTyped ==
    ASSUME EditorialShapes, NEW t \in Threads, Review(t)
    PROVE  EditorialShapes'
<1> DEFINE P == {"pending_review", "approved", "changes_requested", "rejected", "on_hold"}
<1>1. EditorialTypeOK /\ P \subseteq Statuses BY DEF EditorialShapes, Statuses
<1>2. \A S : In(S) \in SUBSET Rows BY DEF In
<1>3. \A S, to : to \in P => MovesTo(In(S), to) \in SUBSET Move
    BY <1>1, <1>2, MovesAreMoves
<1>4. SubmitMoves \in SUBSET Move /\ ResubmitMoves \in SUBSET Move
    BY <1>3 DEF SubmitMoves, ResubmitMoves
<1>5. ApproveMoves \in SUBSET Move
    <2>1. \A m \in Move, to \in {"pending_client", "approved"} : [m EXCEPT !.to = to] \in Move
        BY DEF Move, Statuses
    <2> QED BY <1>3, <2>1 DEF ApproveMoves
<1>6. {"author", "reviewer", "client"} \subseteq People BY DEF People
<1>7. CASE SubmitForReview(t) BY <1>4, <1>6, <1>7, DecideTyped DEF SubmitForReview
<1>8. CASE ResubmitPost(t) BY <1>4, <1>6, <1>8, DecideTyped DEF ResubmitPost
<1>9. CASE RequestHold(t) BY <1>3, <1>6, <1>9, DecideTyped DEF RequestHold
<1>10. CASE ResumeHold(t) BY <1>3, <1>6, <1>10, DecideTyped DEF ResumeHold
<1>11. ASSUME NEW who \in {"reviewer", "client"},
              ApprovePost(t, who) \/ RequestChanges(t, who) \/ RejectPost(t, who)
       PROVE  EditorialShapes'
    <2>1. CASE ApprovePost(t, who) BY <1>5, <1>6, <2>1, DecideTyped DEF ApprovePost
    <2>2. CASE RequestChanges(t, who) BY <1>3, <1>6, <2>2, DecideTyped DEF RequestChanges
    <2>3. CASE RejectPost(t, who) BY <1>3, <1>6, <2>3, DecideTyped DEF RejectPost
    <2> QED BY <1>11, <2>1, <2>2, <2>3
<1> QED BY <1>7, <1>8, <1>9, <1>10, <1>11 DEF Review

LEMMA OtherMovesTyped ==
    ASSUME EditorialShapes, NEW t \in Threads,
           \/ \E p \in Rows, target \in ChipTargets : Chip(t, p, target)
           \/ ScheduleDrafts(t)
           \/ \E p \in Rows : Reschedule(t, p)
    PROVE  EditorialShapes'
<1>1. EditorialTypeOK BY DEF EditorialShapes
<1>2. {"author", "reviewer"} \subseteq People BY DEF People
<1>3. ASSUME NEW p \in Rows, NEW target \in ChipTargets, Chip(t, p, target)
      PROVE  EditorialShapes'
    <2>1. target \in Statuses BY EditorialConstants
    <2>2. MovesTo({p}, target) \in SUBSET Move BY <1>1, <2>1, MovesAreMoves
    <2> QED BY <1>2, <1>3, <2>2, DecideTyped DEF Chip
<1>4. CASE ScheduleDrafts(t)
    <2>1. MovesTo(In({"draft"}), "scheduled") \in SUBSET Move
        BY <1>1, MovesAreMoves DEF In, Statuses
    <2> QED BY <1>2, <1>4, <2>1, DecideTyped DEF ScheduleDrafts
<1>5. ASSUME NEW p \in Rows, Reschedule(t, p) PROVE EditorialShapes'
    <2> DEFINE to == IF status[p] = "draft" THEN "scheduled" ELSE status[p]
    <2>1. to \in Statuses /\ status[p] \in Statuses /\ content[p] \in Versions
        BY <1>1 DEF EditorialTypeOK, Statuses
    <2>2. Decide(t, "author", {[row |-> p, from |-> status[p], to |-> to, seen |-> content[p]]})
        BY <1>5 DEF Reschedule
    <2> HIDE DEF to
    <2>3. {[row |-> p, from |-> status[p], to |-> to, seen |-> content[p]]} \in SUBSET Move
        BY <2>1 DEF Move
    <2> QED BY <1>2, <2>2, <2>3, DecideTyped
<1> QED BY <1>3, <1>4, <1>5

LEMMA EditedTyped ==
    ASSUME EditorialShapes, NEW rows \in SUBSET Rows, rows # {} => edits < MaxEdits,
           edits' = (IF rows = {} THEN edits ELSE edits + 1), content' = Edited(rows)
    PROVE  /\ content' \in [Rows -> Versions] /\ edits' \in 0..MaxEdits
           /\ \A p \in Rows : content'[p] <= edits'
<1>1. edits \in Nat /\ MaxEdits \in Nat /\ edits <= MaxEdits
    BY EditorialConstants DEF EditorialShapes, EditorialTypeOK
<1>2. \A p \in Rows : content[p] \in Nat /\ content[p] <= edits
    BY EditorialConstants DEF EditorialShapes, EditorialTypeOK, Versions
<1>3. \A p \in Rows : content'[p] = IF p \in rows THEN content[p] + 1 ELSE content[p]
    BY DEF Edited
<1>4. edits' \in 0..MaxEdits BY <1>1
<1>5. \A p \in Rows : content'[p] \in Nat /\ content'[p] <= edits'
    BY <1>1, <1>2, <1>3
<1>6. \A p \in Rows : content'[p] \in Versions
    BY <1>1, <1>4, <1>5 DEF Versions
<1> QED BY <1>4, <1>5, <1>6 DEF Edited

LEMMA FlagTyped ==
    ASSUME EditorialTypeOK, NEW rows, NEW kind \in Lapses
    PROVE  Flag(rows, kind) \in [Rows -> SUBSET Lapses]
BY DEF EditorialTypeOK, Flag

LEMMA SaveContentTyped ==
    ASSUME EditorialShapes, NEW t \in Threads, NEW base \in BOOLEAN, NEW overrides \in SUBSET Rows,
           NEW scope \in SUBSET Rows, NEW target \in Targets,
           SaveContent(t, base, overrides, target, scope)
    PROVE  EditorialShapes'
<1> DEFINE edited == IF base THEN Rows ELSE overrides
           silent == IF target \in {"none", "scheduled"} /\ base THEN {}
                     ELSE edited \cap In(Decided)
           kept == IF target \in {"scheduled", "queue"} THEN scope ELSE {}
           stepTo == IF target \in {"none", "scheduled"} THEN "revert" ELSE "move"
           r == [NoRequest EXCEPT !.step = stepTo, !.changed = base, !.target = target,
                                  !.scope = kept]
<1>1. /\ begun < MaxRequests /\ begun' = begun + 1
      /\ edited = {} \/ edits < MaxEdits
      /\ edits' = (IF edited = {} THEN edits ELSE edits + 1)
      /\ content' = Edited(edited) /\ lapse' = Flag(silent, "silent_edit")
      /\ req' = [req EXCEPT ![t] = r]
      /\ mode' = mode /\ status' = status /\ vetted' = vetted /\ signed' = signed
    BY DEF SaveContent, Starts
<1>2. edited \in SUBSET Rows OBVIOUS
<1>3. /\ content' \in [Rows -> Versions] /\ edits' \in 0..MaxEdits
      /\ \A p \in Rows : content'[p] <= edits'
    <2> HIDE DEF edited
    <2> QED BY <1>1, <1>2, EditedTyped
<1>4. lapse' \in [Rows -> SUBSET Lapses]
    BY <1>1, FlagTyped DEF EditorialShapes, Lapses
<1>5. r \in Request /\ (r.step = "move" => r.target \in {"queue", "submit", "resubmit"})
    <2>1. kept \in SUBSET Rows OBVIOUS
    <2>2. stepTo \in {"revert", "move"} OBVIOUS
    <2>3. stepTo = "move" => target \in {"queue", "submit", "resubmit"} BY DEF Targets
    <2> HIDE DEF kept, stepTo
    <2> QED BY <2>1, <2>2, <2>3 DEF NoRequest, Request, People
<1> HIDE DEF r
<1>6. req' \in [Threads -> Request]
      /\ \A x \in Threads : req'[x].step = "move" => req'[x].target \in {"queue", "submit", "resubmit"}
    BY <1>1, <1>5 DEF EditorialShapes, EditorialTypeOK
<1>7. begun' \in 0..MaxRequests
    BY <1>1, EditorialConstants DEF EditorialShapes, EditorialTypeOK
<1> QED BY <1>1, <1>3, <1>4, <1>6, <1>7 DEF EditorialShapes, EditorialTypeOK

LEMMA PatchTyped ==
    ASSUME EditorialShapes, PatchContent
    PROVE  EditorialShapes'
<1>1. /\ edits < MaxEdits /\ edits' = edits + 1 /\ content' = Edited(Rows)
      /\ lapse' = Flag(In(Decided), "silent_edit")
      /\ mode' = mode /\ status' = status /\ vetted' = vetted /\ signed' = signed
      /\ req' = req /\ begun' = begun
    BY DEF PatchContent
<1>2. edits \in Nat /\ MaxEdits \in Nat
    BY EditorialConstants DEF EditorialShapes, EditorialTypeOK
<1>3. \A p \in Rows : content[p] \in Nat /\ content[p] <= edits
    BY EditorialConstants DEF EditorialShapes, EditorialTypeOK, Versions
<1>4. content' \in [Rows -> Versions] /\ \A p \in Rows : content'[p] <= edits'
    BY <1>1, <1>2, <1>3 DEF Edited, Versions
<1>5. edits' \in 0..MaxEdits BY <1>1, <1>2
<1>6. lapse' \in [Rows -> SUBSET Lapses]
    BY <1>1, FlagTyped DEF EditorialShapes, Lapses
<1> QED BY <1>1, <1>4, <1>5, <1>6 DEF EditorialShapes, EditorialTypeOK

LEMMA ScheduleMovesTyped ==
    ASSUME EditorialTypeOK, NEW rows \in SUBSET Rows
    PROVE  ScheduleMoves(rows) \in SUBSET Move
BY DEF EditorialTypeOK, ScheduleMoves, Move, Statuses

LEMMA CommittingTyped ==
    ASSUME NEW moves \in SUBSET Move
    PROVE  /\ [NoRequest EXCEPT !.step = "commit", !.moves = moves] \in Request
           /\ [NoRequest EXCEPT !.step = "commit", !.moves = moves].step = "commit"
BY DEF NoRequest, Request, Targets, People

LEMMA RevertTyped ==
    ASSUME EditorialShapes, NEW t \in Threads, RevertAndMove(t)
    PROVE  EditorialShapes'
<1> DEFINE back == Reverted(t)
           moves == IF req[t].target = "scheduled" THEN ScheduleMoves(req[t].scope \ back) ELSE {}
           r == IF moves = {} THEN NoRequest ELSE [NoRequest EXCEPT !.step = "commit", !.moves = moves]
<1>1. /\ status' = [p \in Rows |-> IF p \in back THEN "pending_review" ELSE status[p]]
      /\ vetted' = [p \in Rows |-> IF p \in back THEN NoVersion ELSE vetted[p]]
      /\ signed' = [p \in Rows |-> IF p \in back THEN NoVersion ELSE signed[p]]
      /\ lapse' = [p \in Rows |->
                       IF p \in back THEN {}
                       ELSE IF req[t].changed THEN Flag(In(Decided \ {"approved"}), "silent_edit")[p]
                       ELSE lapse[p]]
      /\ req' = [req EXCEPT ![t] = r]
      /\ mode' = mode /\ content' = content /\ edits' = edits /\ begun' = begun
    BY DEF RevertAndMove
<1>2. EditorialTypeOK /\ req[t] \in Request BY DEF EditorialShapes, EditorialTypeOK
<1>3. r \in Request /\ r.step # "move"
    <2>1. req[t].scope \ back \in SUBSET Rows BY <1>2 DEF Request
    <2>2. moves \in SUBSET Move BY <1>2, <2>1, ScheduleMovesTyped
    <2> HIDE DEF moves
    <2> QED BY <2>2, CommittingTyped, IdleTyped
<1> HIDE DEF r, back, moves
<1>4. /\ req' \in [Threads -> Request]
      /\ \A x \in Threads : req'[x].step = "move" => req'[x].target \in {"queue", "submit", "resubmit"}
    BY <1>1, <1>3, RequestTyped
<1>5. status' \in [Rows -> Statuses] BY <1>1, <1>2 DEF EditorialTypeOK, Statuses
<1>6. /\ vetted' \in [Rows -> Versions \cup {NoVersion}]
      /\ signed' \in [Rows -> Versions \cup {NoVersion}]
    BY <1>1, <1>2 DEF EditorialTypeOK
<1>7. lapse' \in [Rows -> SUBSET Lapses]
    <2>1. Flag(In(Decided \ {"approved"}), "silent_edit") \in [Rows -> SUBSET Lapses]
        BY <1>2, FlagTyped DEF Lapses
    <2> QED BY <1>1, <1>2, <2>1 DEF EditorialTypeOK
<1> QED BY <1>1, <1>4, <1>5, <1>6, <1>7 DEF EditorialShapes, EditorialTypeOK

LEMMA QueueOrSubmitTyped ==
    ASSUME EditorialShapes, NEW t \in Threads, QueueOrSubmit(t)
    PROVE  EditorialShapes'
<1> DEFINE moves == CASE req[t].target = "queue"    -> ScheduleMoves(req[t].scope)
                      [] req[t].target = "submit"   -> SubmitMoves
                      [] req[t].target = "resubmit" -> ResubmitMoves
           r == IF moves = {} THEN NoRequest ELSE [NoRequest EXCEPT !.step = "commit", !.moves = moves]
<1>1. /\ req[t].step = "move" /\ req' = [req EXCEPT ![t] = r]
      /\ mode' = mode /\ status' = status /\ content' = content /\ vetted' = vetted
      /\ signed' = signed /\ lapse' = lapse /\ edits' = edits /\ begun' = begun
    BY DEF QueueOrSubmit, rowVars
<1>2. EditorialTypeOK /\ req[t] \in Request BY DEF EditorialShapes, EditorialTypeOK
<1>3. req[t].target \in {"queue", "submit", "resubmit"} BY <1>1 DEF EditorialShapes
<1>4. ScheduleMoves(req[t].scope) \in SUBSET Move BY <1>2, ScheduleMovesTyped DEF Request
<1>5. SubmitMoves \in SUBSET Move /\ ResubmitMoves \in SUBSET Move
    BY <1>2, MovesAreMoves DEF SubmitMoves, ResubmitMoves, In, Statuses
<1>6. moves \in SUBSET Move BY <1>3, <1>4, <1>5
<1>7. r \in Request /\ r.step # "move"
    <2> HIDE DEF moves
    <2> QED BY <1>6, CommittingTyped, IdleTyped
<1> HIDE DEF r, moves
<1>8. /\ req' \in [Threads -> Request]
      /\ \A x \in Threads : req'[x].step = "move" => req'[x].target \in {"queue", "submit", "resubmit"}
    BY <1>1, <1>7, RequestTyped
<1> QED BY <1>1, <1>8 DEF EditorialShapes, EditorialTypeOK

LEMMA CommitTyped ==
    ASSUME EditorialShapes, NEW t \in Threads, Commit(t)
    PROVE  EditorialShapes'
<1> DEFINE moved == {m.row : m \in req[t].moves}
           move(p) == CHOOSE m \in req[t].moves : m.row = p
           enters(p) == p \in moved /\ move(p).to = "pending_review"
           approval(p, from, who) == /\ p \in moved /\ Approves(move(p))
                                     /\ move(p).from = from /\ req[t].by = who
<1>1. /\ status' = [p \in Rows |-> IF p \in moved THEN move(p).to ELSE status[p]]
      /\ vetted' = [p \in Rows |->
                        IF enters(p) THEN NoVersion
                        ELSE IF approval(p, "pending_review", "reviewer") THEN move(p).seen
                        ELSE vetted[p]]
      /\ signed' = [p \in Rows |->
                        IF enters(p) THEN NoVersion
                        ELSE IF approval(p, "pending_client", "client") THEN move(p).seen
                        ELSE signed[p]]
      /\ lapse' = [p \in Rows |->
                       IF enters(p) THEN {}
                       ELSE IF p \in moved THEN lapse[p] \cup LapsesOf(req[t].by, move(p))
                       ELSE lapse[p]]
      /\ req' = [req EXCEPT ![t] = NoRequest]
      /\ mode' = mode /\ content' = content /\ edits' = edits /\ begun' = begun
    BY DEF Commit
<1>2. EditorialTypeOK /\ req[t] \in Request BY DEF EditorialShapes, EditorialTypeOK
<1>3. \A p \in moved : move(p) \in Move
    BY <1>2 DEF Request
<1>4. \A p \in moved : move(p).to \in Statuses /\ move(p).seen \in Versions
    BY <1>3 DEF Move
<1>5. \A p : approval(p, "pending_review", "reviewer") \/ approval(p, "pending_client", "client")
             => p \in moved
    OBVIOUS
<1>6. \A w, m : LapsesOf(w, m) \in SUBSET Lapses BY DEF LapsesOf
<1> HIDE DEF moved, move, enters, approval
<1>7. status' \in [Rows -> Statuses] BY <1>1, <1>2, <1>4 DEF EditorialTypeOK
<1>8. vetted' \in [Rows -> Versions \cup {NoVersion}]
    BY <1>1, <1>2, <1>4, <1>5 DEF EditorialTypeOK
<1>9. signed' \in [Rows -> Versions \cup {NoVersion}]
    BY <1>1, <1>2, <1>4, <1>5 DEF EditorialTypeOK
<1>10. lapse' \in [Rows -> SUBSET Lapses]
    <2>1. ASSUME NEW p \in Rows PROVE lapse'[p] \in SUBSET Lapses
        BY <1>1, <1>2, <1>6 DEF EditorialTypeOK
    <2>2. lapse' = [p \in Rows |-> lapse'[p]] BY <1>1
    <2> QED BY <2>1, <2>2
<1>11. /\ req' \in [Threads -> Request]
       /\ \A x \in Threads : req'[x].step = "move" => req'[x].target \in {"queue", "submit", "resubmit"}
    BY <1>1, IdleTyped, RequestTyped
<1> QED BY <1>1, <1>7, <1>8, <1>9, <1>10, <1>11 DEF EditorialShapes, EditorialTypeOK

LEMMA EndsTyped ==
    ASSUME EditorialShapes,
           \/ \E t \in Threads : Die(t)
           \/ \E p \in Rows, outcome \in {"published", "failed"} : Publish(p, outcome)
    PROVE  EditorialShapes'
<1>1. EditorialTypeOK BY DEF EditorialShapes
<1>2. ASSUME NEW t \in Threads, Die(t) PROVE EditorialShapes'
    <2>1. lapse' \in [Rows -> SUBSET Lapses]
        <3>1. Flag(In(Decided), "crash") \in [Rows -> SUBSET Lapses]
            BY <1>1, FlagTyped DEF Lapses
        <3> QED BY <1>1, <1>2, <3>1 DEF Die, EditorialTypeOK
    <2>2. /\ req' \in [Threads -> Request]
          /\ \A x \in Threads : req'[x].step = "move" => req'[x].target \in {"queue", "submit", "resubmit"}
        BY <1>2, IdleTyped, RequestTyped DEF Die
    <2> QED BY <1>2, <2>1, <2>2 DEF Die, EditorialShapes, EditorialTypeOK
<1>3. ASSUME NEW p \in Rows, NEW outcome \in {"published", "failed"}, Publish(p, outcome)
      PROVE  EditorialShapes'
    BY <1>3 DEF Publish, EditorialShapes, EditorialTypeOK, Statuses
<1> QED BY <1>2, <1>3

LEMMA EditorialShapesKept == EditorialShapes /\ [EditorialNext]_editorialVars => EditorialShapes'
<1> SUFFICES ASSUME EditorialShapes, [EditorialNext]_editorialVars PROVE EditorialShapes'
    OBVIOUS
<1>1. CASE UNCHANGED editorialVars
    BY <1>1 DEF editorialVars, rowVars, EditorialShapes, EditorialTypeOK
<1>2. CASE EditorialNext
    BY <1>2, ReviewTyped, OtherMovesTyped, SaveContentTyped, RevertTyped, QueueOrSubmitTyped,
       CommitTyped, PatchTyped, EndsTyped DEF EditorialNext
<1> QED BY <1>1, <1>2

-------------------------------------------------------------------------------
(* The queue: what an operation writes has its type *)

\* An operation writes times on the channel over statuses it has read.
OperationTyped(op) ==
    /\ op.times \in PartialFunctions(QueuedPosts, Instants)
    /\ op.read \in PartialFunctions(QueuedPosts, QueueStatuses)
    /\ DOMAIN op.read = DOMAIN op.times
    /\ op.kind = "drag" => op.queue = "none" /\ op.post \in DOMAIN op.times
    /\ op.queue # "none" => op.queue \in Queues /\ op.post \in QueuedPosts

SlotShapes ==
    /\ SlotTypeOK
    /\ slotOp = [t \in SlotThreads |-> slotOp[t]]
    /\ \A t \in SlotThreads : OperationTyped(slotOp[t])

LEMMA PartialFunctionIs ==
    ASSUME NEW D, NEW R, NEW f
    PROVE  f \in PartialFunctions(D, R) <=> (DOMAIN f \in SUBSET D /\ f \in [DOMAIN f -> R])
BY DEF PartialFunctions

LEMMA NoOpTyped == OperationTyped(NoOp)
<1>1. DOMAIN NoOp.times = {} /\ DOMAIN NoOp.read = {} /\ NoOp.kind = "none" /\ NoOp.queue = "none"
    BY DEF NoOp
<1>2. NoOp.times \in [DOMAIN NoOp.times -> Instants] /\ NoOp.read \in [DOMAIN NoOp.read -> QueueStatuses]
    BY DEF NoOp
<1> QED BY <1>1, <1>2, PartialFunctionIs DEF OperationTyped

LEMMA SlotShapesInit == SlotInit => SlotShapes
<1> SUFFICES ASSUME SlotInit PROVE SlotShapes
    OBVIOUS
<1>1. \A x \in Booked : x[1] \in Queues /\ x[2] \in QueuedPosts /\ x[3] \in Instants
    BY QueueConstants DEF Instants
<1>2. ASSUME NEW p \in QueuedPosts PROVE qrow[p] \in [status: QueueStatuses, at: Instants \cup {NoTime}]
    <2>1. CASE \E x \in Booked : x[2] = p
        <3>1. (CHOOSE x \in Booked : x[2] = p) \in Booked BY <2>1
        <3>2. qrow[p] = [status |-> "scheduled", at |-> (CHOOSE x \in Booked : x[2] = p)[3]]
            BY <2>1 DEF SlotInit
        <3> QED BY <1>1, <3>1, <3>2 DEF QueueStatuses
    <2>2. CASE ~\E x \in Booked : x[2] = p
        BY <2>2 DEF SlotInit, QueueStatuses
    <2> QED BY <2>1, <2>2
<1>3. qrow \in [QueuedPosts -> [status: QueueStatuses, at: Instants \cup {NoTime}]]
    BY <1>2 DEF SlotInit
<1>4. entries \subseteq Queues \X QueuedPosts
    BY <1>1 DEF SlotInit
<1>5. \A t \in SlotThreads : slotOp[t] = NoOp /\ slotOp = [x \in SlotThreads |-> slotOp[x]]
    BY DEF SlotInit
<1>6. \A t \in SlotThreads : OperationTyped(slotOp[t])
    BY <1>5, NoOpTyped
<1>7. qnow \in 0..LastNow /\ slotOps \in 0..MaxSlotOps /\ loose \subseteq QueuedPosts /\ slots \subseteq Instants
    BY QueueConstants DEF SlotInit
<1>8. SlotTypeOK
    BY <1>3, <1>4, <1>6, <1>7 DEF SlotTypeOK, OperationTyped
<1>9. slotOp = [t \in SlotThreads |-> slotOp[t]] BY DEF SlotInit
<1> QED BY <1>6, <1>8, <1>9 DEF SlotShapes

\* A thread's operation gives way to another.
LEMMA OperationChanges ==
    ASSUME SlotShapes, NEW t \in SlotThreads, NEW op, OperationTyped(op),
           slotOp' = [slotOp EXCEPT ![t] = op]
    PROVE  /\ slotOp' = [x \in SlotThreads |-> slotOp'[x]]
           /\ \A x \in SlotThreads : OperationTyped(slotOp'[x])
           /\ \A x \in SlotThreads : /\ slotOp'[x].times \in PartialFunctions(QueuedPosts, Instants)
                                     /\ slotOp'[x].read \in PartialFunctions(QueuedPosts, QueueStatuses)
<1>1. \A x \in SlotThreads : slotOp'[x] = IF x = t THEN op ELSE slotOp[x]
    BY DEF SlotShapes
<1>2. slotOp' = [x \in SlotThreads |-> slotOp'[x]]
    BY DEF SlotShapes
<1>3. \A x \in SlotThreads : OperationTyped(slotOp'[x])
    BY <1>1 DEF SlotShapes
<1> QED BY <1>2, <1>3 DEF OperationTyped

LEMMA TakeTyped ==
    ASSUME SlotShapes, NEW t \in SlotThreads, NEW kind, kind # "drag", NEW q \in Queues,
           NEW p \in QueuedPosts, NEW times, DOMAIN times \in SUBSET QueuedPosts,
           times \in [DOMAIN times -> Instants], Take(t, kind, q, p, times)
    PROVE  SlotShapes'
<1> DEFINE op == [kind |-> kind, queue |-> q, post |-> p, times |-> times,
                  read |-> [x \in DOMAIN times |-> qrow[x].status],
                  had |-> [x \in DOMAIN times |-> qrow[x].at]]
<1>1. slotOp' = [slotOp EXCEPT ![t] = op] /\ slotOps < MaxSlotOps /\ slotOps' = slotOps + 1
      /\ UNCHANGED <<qrow, entries, slots, qnow, loose>>
    BY DEF Take
<1>2. OperationTyped(op)
    <2>1. op.times = times /\ DOMAIN op.read = DOMAIN times /\ op.kind = kind /\ op.queue = q /\ op.post = p
        OBVIOUS
    <2>2. \A x \in DOMAIN times : op.read[x] \in QueueStatuses
        BY DEF SlotShapes, SlotTypeOK
    <2>3. op.read \in [DOMAIN op.read -> QueueStatuses]
        BY <2>2
    <2> HIDE DEF op
    <2> QED BY <2>1, <2>3, PartialFunctionIs DEF OperationTyped
<1> HIDE DEF op
<1>3. slotOps' \in 0..MaxSlotOps
    BY <1>1, QueueConstants DEF SlotShapes, SlotTypeOK
<1> QED BY <1>1, <1>2, <1>3, OperationChanges DEF SlotShapes, SlotTypeOK

\* The first of a set of instants is one of them, unless the set is empty.
LEMMA FirstIsInstant ==
    ASSUME NEW S \in SUBSET Instants, First(S) # Full
    PROVE  First(S) \in Instants
BY FirstIsLeast

LEMMA FreeAreInstants ==
    ASSUME SlotShapes
    PROVE  /\ Upcoming \in SUBSET Instants
           /\ \A S : Free(S) \in SUBSET Instants
           /\ \A q, p : Rungs(q, p) \in SUBSET Instants
BY DEF SlotShapes, SlotTypeOK, Upcoming, Free, Rungs

LEMMA AddTyped ==
    ASSUME SlotShapes, NEW t \in SlotThreads, NEW q \in Queues, NEW p \in QueuedPosts,
           AddNextAvailable(t, q, p)
    PROVE  SlotShapes'
<1> DEFINE times == [x \in {p} |-> First(Free({p}))]
<1>1. Take(t, "add", q, p, times) /\ DOMAIN times = {p} BY DEF AddNextAvailable
<1>2. times[p] # Full BY <1>1 DEF Take
<1>3. First(Free({p})) \in Instants BY <1>2, FirstIsInstant, FreeAreInstants
<1>4. times \in [DOMAIN times -> Instants] BY <1>3
<1> HIDE DEF times
<1> QED BY <1>1, <1>4, TakeTyped

LEMMA SlotShapesTypes ==
    ASSUME SlotShapes PROVE SlotTypes
<1>1. LastNow \in Nat /\ Horizon \in Nat BY QueueConstants
<1>2. \A p \in QueuedPosts : qrow[p].at \in Instants \cup {NoTime}
    BY DEF SlotShapes, SlotTypeOK
<1>3. Instants \cup {NoTime} \in SUBSET Int BY <1>1 DEF Instants, NoTime
<1> QED BY <1>1, <1>2, <1>3 DEF SlotShapes, SlotTypeOK, SlotTypes

LEMMA PrioritizedTyped ==
    ASSUME SlotShapes, NEW q \in Queues, NEW p \in QueuedPosts, NEW rank \in Rankings,
           \A x \in DOMAIN Prioritized(q, p, rank) : Prioritized(q, p, rank)[x] # Full
    PROVE  /\ DOMAIN Prioritized(q, p, rank) \in SUBSET QueuedPosts
           /\ Prioritized(q, p, rank) \in [DOMAIN Prioritized(q, p, rank) -> Instants]
<1> DEFINE times == Prioritized(q, p, rank)
<1>1. CASE First(Upcoming) \in {qrow[x].at : x \in Movable(q, p)}
    <2>1. times = Climb(q, p, rank) BY <1>1 DEF Prioritized
    <2>2. PICK to : ClimbsTo(q, p, rank, to) BY SlotShapesTypes, ClimbTakesTurns
    <2> DEFINE M == Movers(q, p)
    <2>3. Climb(q, p, rank) = [x \in M \cup {p} |-> IF x = p THEN First(Upcoming) ELSE to[x]]
          /\ to = [x \in M |-> First({s \in Rungs(q, p) : s > qrow[x].at}
                                      \ {to[y] : y \in Before(M, rank, x)})]
        BY <2>2 DEF ClimbsTo
    <2>4. M \in SUBSET QueuedPosts BY DEF Movers, Movable
    <2> HIDE DEF M
    <2>5. \A x \in M \cup {p} : times[x] # Full /\ times[x] = IF x = p THEN First(Upcoming) ELSE to[x]
        BY <2>1, <2>3
    <2>6. ASSUME NEW x \in M \cup {p} PROVE times[x] \in Instants
        <3>1. CASE x = p BY <3>1, <2>5, FirstIsInstant, FreeAreInstants
        <3>2. CASE x # p
            <4> DEFINE S == {s \in Rungs(q, p) : s > qrow[x].at} \ {to[y] : y \in Before(M, rank, x)}
            <4>1. to[x] = First(S) BY <2>3, <3>2
            <4>2. S \in SUBSET Instants BY FreeAreInstants
            <4> HIDE DEF S
            <4> QED BY <4>1, <4>2, <2>5, <3>2, FirstIsInstant
        <3> QED BY <3>1, <3>2
    <2>7. times = [x \in M \cup {p} |-> times[x]] BY <2>1, <2>3
    <2> QED BY <2>4, <2>6, <2>7
<1>2. CASE First(Upcoming) \notin {qrow[x].at : x \in Movable(q, p)}
    <2>1. times = [x \in {p} |-> First(Free({p}))] BY <1>2 DEF Prioritized
    <2>2. DOMAIN times = {p} /\ times[p] = First(Free({p})) BY <2>1
    <2>3. times[p] \in Instants BY <2>2, FirstIsInstant, FreeAreInstants
    <2> QED BY <2>1, <2>2, <2>3
<1> QED BY <1>1, <1>2

LEMMA PrioritizeTyped ==
    ASSUME SlotShapes, NEW t \in SlotThreads, NEW q \in Queues, NEW p \in QueuedPosts,
           Prioritize(t, q, p)
    PROVE  SlotShapes'
<1>1. PICK rank \in Rankings : Take(t, "prioritize", q, p, Prioritized(q, p, rank))
    BY DEF Prioritize
<1>2. \A x \in DOMAIN Prioritized(q, p, rank) : Prioritized(q, p, rank)[x] # Full
    BY <1>1 DEF Take
<1> QED BY <1>1, <1>2, PrioritizedTyped, TakeTyped

LEMMA ReorderTyped ==
    ASSUME SlotShapes, NEW t \in SlotThreads, NEW q \in Queues, NEW p \in QueuedPosts,
           NEW r \in QueuedPosts, Reorder(t, q, p, r)
    PROVE  SlotShapes'
<1> DEFINE early == Min({qrow[p].at, qrow[r].at})
           late == Max({qrow[p].at, qrow[r].at})
           times == [x \in {p, r} |-> IF x = p THEN early ELSE late]
<1>1. /\ p # r /\ Take(t, "reorder", q, p, times) /\ qrow[p].at # NoTime /\ qrow[r].at # NoTime
    BY DEF Reorder
<1>2. qrow[p].at \in Int /\ qrow[r].at \in Int
    BY SlotShapesTypes DEF SlotTypes
<1>3. qrow[p].at \in Instants /\ qrow[r].at \in Instants
    BY <1>1 DEF SlotShapes, SlotTypeOK
<1>4. early \in Instants /\ late \in Instants
    <2>1. \/ early = qrow[p].at /\ late = qrow[r].at
          \/ early = qrow[r].at /\ late = qrow[p].at
        BY <1>2 DEF Min, Max
    <2> QED BY <2>1, <1>3
<1> HIDE DEF early, late
<1>5. DOMAIN times = {p, r} /\ times \in [DOMAIN times -> Instants] BY <1>4
<1> HIDE DEF times
<1> QED BY <1>1, <1>5, TakeTyped

LEMMA WriteSlotsTyped ==
    ASSUME SlotShapes, NEW t \in SlotThreads, WriteSlots(t)
    PROVE  SlotShapes'
<1> DEFINE op == slotOp[t]
<1>1. /\ op.queue # "none" /\ slotOp' = [slotOp EXCEPT ![t] = NoOp]
      /\ qrow' = [p \in QueuedPosts |-> IF p \in DOMAIN op.times THEN AfterWrite(t, p) ELSE qrow[p]]
      /\ entries' = entries \cup {<<op.queue, op.post>>}
      /\ UNCHANGED <<slots, qnow, slotOps>>
    BY DEF WriteSlots
<1>2. op.queue \in Queues /\ op.post \in QueuedPosts /\ op.times \in PartialFunctions(QueuedPosts, Instants)
    BY <1>1 DEF SlotShapes, OperationTyped
<1>3. DOMAIN op.times \in SUBSET QueuedPosts /\ op.times \in [DOMAIN op.times -> Instants]
    BY <1>2, PartialFunctionIs
<1>4. \A p \in DOMAIN op.times : AfterWrite(t, p) \in [status: QueueStatuses, at: Instants \cup {NoTime}]
    BY <1>3 DEF AfterWrite, SlotShapes, SlotTypeOK, QueueStatuses
<1>5. qrow' \in [QueuedPosts -> [status: QueueStatuses, at: Instants \cup {NoTime}]]
    BY <1>1, <1>4 DEF SlotShapes, SlotTypeOK
<1>6. entries' \subseteq Queues \X QueuedPosts
    BY <1>1, <1>2 DEF SlotShapes, SlotTypeOK
<1>7. loose' \subseteq QueuedPosts
    BY <1>3 DEF WriteSlots, SlotShapes, SlotTypeOK
<1> QED BY <1>1, <1>5, <1>6, <1>7, NoOpTyped, OperationChanges DEF SlotShapes, SlotTypeOK

LEMMA DragTyped ==
    ASSUME SlotShapes, NEW t \in SlotThreads, NEW p \in QueuedPosts, NEW at \in Instants,
           Drag(t, p, at)
    PROVE  SlotShapes'
<1> DEFINE op == [NoOp EXCEPT !.kind = "drag", !.post = p,
                              !.times = [x \in {p} |-> at],
                              !.read = [x \in {p} |-> qrow[p].status]]
<1>1. /\ slotOp' = [slotOp EXCEPT ![t] = op] /\ slotOps < MaxSlotOps /\ slotOps' = slotOps + 1
      /\ UNCHANGED <<qrow, entries, slots, qnow, loose>>
    BY DEF Drag
<1>2. op.queue = "none" /\ op.post = p /\ DOMAIN op.times = {p} /\ DOMAIN op.read = {p}
      /\ op.times[p] = at /\ op.read[p] = qrow[p].status
    BY DEF NoOp
<1>3. op.times \in [{p} -> Instants]
    BY DEF NoOp
<1>4. qrow[p].status \in QueueStatuses BY DEF SlotShapes, SlotTypeOK
<1>5. op.read \in [{p} -> QueueStatuses]
    BY <1>4 DEF NoOp
<1> HIDE DEF op
<1>6. OperationTyped(op)
    BY <1>2, <1>3, <1>5, PartialFunctionIs DEF OperationTyped
<1>7. slotOps' \in 0..MaxSlotOps
    BY <1>1, QueueConstants DEF SlotShapes, SlotTypeOK
<1> QED BY <1>1, <1>6, <1>7, OperationChanges DEF SlotShapes, SlotTypeOK

LEMMA WriteDragTyped ==
    ASSUME SlotShapes, NEW t \in SlotThreads, WriteDrag(t)
    PROVE  SlotShapes'
<1> DEFINE op == slotOp[t]
<1>1. /\ op.kind = "drag" /\ slotOp' = [slotOp EXCEPT ![t] = NoOp]
      /\ qrow' = [qrow EXCEPT ![op.post] =
                      [status |-> IF op.read[op.post] = "draft" THEN "scheduled" ELSE op.read[op.post],
                       at |-> op.times[op.post]]]
      /\ loose' = loose \cup {op.post}
      /\ UNCHANGED <<entries, slots, qnow, slotOps>>
    BY DEF WriteDrag
<1>2. op.post \in DOMAIN op.times /\ op.times \in PartialFunctions(QueuedPosts, Instants)
      /\ op.read \in PartialFunctions(QueuedPosts, QueueStatuses) /\ DOMAIN op.read = DOMAIN op.times
    BY <1>1 DEF SlotShapes, OperationTyped
<1>3. op.post \in QueuedPosts /\ op.times[op.post] \in Instants /\ op.read[op.post] \in QueueStatuses
    <2>1. DOMAIN op.times \in SUBSET QueuedPosts /\ op.times \in [DOMAIN op.times -> Instants]
        BY <1>2, PartialFunctionIs
    <2>2. op.read \in [DOMAIN op.read -> QueueStatuses]
        BY <1>2, PartialFunctionIs
    <2> HIDE DEF op
    <2> QED BY <1>2, <2>1, <2>2
<1> HIDE DEF op
<1>4. qrow' \in [QueuedPosts -> [status: QueueStatuses, at: Instants \cup {NoTime}]]
    BY <1>1, <1>3 DEF SlotShapes, SlotTypeOK, QueueStatuses
<1>5. loose' \subseteq QueuedPosts BY <1>1, <1>3 DEF SlotShapes, SlotTypeOK
<1> QED BY <1>1, <1>4, <1>5, NoOpTyped, OperationChanges DEF SlotShapes, SlotTypeOK

LEMMA UnlockedTyped ==
    ASSUME SlotShapes,
           \/ \E q \in Queues, p \in QueuedPosts : RemoveFromQueue(q, p)
           \/ \E p \in QueuedPosts :
                 \/ \E at \in Instants : Schedule(p, at)
                 \/ Fire(p)
                 \/ \E outcome \in {"published", "failed", "scheduled"} : Settle(p, outcome)
           \/ \E q \in Queues : DeleteQueue(q)
           \/ \E s \in Instants : EditSlot(s)
           \/ SlotTick
    PROVE  SlotShapes'
<1>1. UNCHANGED slotOp
    BY DEF RemoveFromQueue, Schedule, Fire, Settle, DeleteQueue, EditSlot, SlotTick
<1>2. /\ qnow \in 0..LastNow /\ slotOps \in 0..MaxSlotOps /\ LastNow \in Nat /\ MaxSlotOps \in Nat
    BY QueueConstants DEF SlotShapes, SlotTypeOK
<1>3. qnow' \in 0..LastNow
    <2>1. qnow' = qnow \/ (qnow < LastNow /\ qnow' = qnow + 1)
        BY DEF RemoveFromQueue, Schedule, Fire, Settle, DeleteQueue, EditSlot, SlotTick
    <2> QED BY <1>2, <2>1
<1>4. slotOps' \in 0..MaxSlotOps
    <2>1. slotOps' = slotOps \/ (slotOps < MaxSlotOps /\ slotOps' = slotOps + 1)
        BY DEF RemoveFromQueue, Schedule, Fire, Settle, DeleteQueue, EditSlot, SlotTick
    <2> QED BY <1>2, <2>1
<1>5. slots' \subseteq Instants
    BY DEF RemoveFromQueue, Schedule, Fire, Settle, DeleteQueue, EditSlot, SlotTick, SlotShapes, SlotTypeOK
<1>6. entries' \subseteq Queues \X QueuedPosts
    BY DEF RemoveFromQueue, Schedule, Fire, Settle, DeleteQueue, EditSlot, SlotTick, SlotShapes, SlotTypeOK
<1>7. loose' \subseteq QueuedPosts
    BY DEF RemoveFromQueue, Schedule, Fire, Settle, DeleteQueue, EditSlot, SlotTick, SlotShapes, SlotTypeOK
<1>8. qrow' \in [QueuedPosts -> [status: QueueStatuses, at: Instants \cup {NoTime}]]
    <2>1. qrow \in [QueuedPosts -> [status: QueueStatuses, at: Instants \cup {NoTime}]]
        BY DEF SlotShapes, SlotTypeOK
    <2>2. CASE UNCHANGED qrow BY <2>1, <2>2
    <2>3. CASE \E p \in QueuedPosts, row \in [status: QueueStatuses, at: Instants \cup {NoTime}] :
                  qrow' = [qrow EXCEPT ![p] = row]
        BY <2>1, <2>3
    <2>4. CASE \E p \in QueuedPosts, s \in QueueStatuses : qrow' = [qrow EXCEPT ![p].status = s]
        BY <2>1, <2>4
    <2>5. \A at \in Instants : [status |-> "scheduled", at |-> at] \in [status: QueueStatuses, at: Instants \cup {NoTime}]
        BY DEF QueueStatuses
    <2>6. [status |-> "draft", at |-> NoTime] \in [status: QueueStatuses, at: Instants \cup {NoTime}]
        BY DEF QueueStatuses
    <2>7. {"published", "failed", "scheduled", "publishing"} \subseteq QueueStatuses BY DEF QueueStatuses
    <2>8. CASE \E q \in Queues, p \in QueuedPosts : RemoveFromQueue(q, p)
        BY <2>2, <2>3, <2>6, <2>8 DEF RemoveFromQueue
    <2>9. CASE \E p \in QueuedPosts, at \in Instants : Schedule(p, at)
        BY <2>3, <2>5, <2>9 DEF Schedule
    <2>10. CASE \E p \in QueuedPosts : Fire(p)
        BY <2>4, <2>7, <2>10 DEF Fire
    <2>11. CASE \E p \in QueuedPosts, outcome \in {"published", "failed", "scheduled"} : Settle(p, outcome)
        BY <2>4, <2>7, <2>11 DEF Settle
    <2> QED BY <2>2, <2>8, <2>9, <2>10, <2>11 DEF DeleteQueue, EditSlot, SlotTick
<1> QED BY <1>1, <1>3, <1>4, <1>5, <1>6, <1>7, <1>8 DEF SlotShapes, SlotTypeOK

LEMMA SlotShapesKept == SlotShapes /\ [SlotNext]_slotVars => SlotShapes'
<1> SUFFICES ASSUME SlotShapes, [SlotNext]_slotVars PROVE SlotShapes'
    OBVIOUS
<1>1. CASE UNCHANGED slotVars
    BY <1>1 DEF slotVars, SlotShapes, SlotTypeOK
<1>2. ASSUME NEW t \in SlotThreads,
             \/ \E q \in Queues, p \in QueuedPosts : AddNextAvailable(t, q, p) \/ Prioritize(t, q, p)
             \/ \E q \in Queues, p, r \in QueuedPosts : Reorder(t, q, p, r)
             \/ WriteSlots(t)
             \/ \E p \in QueuedPosts, at \in Instants : Drag(t, p, at)
             \/ WriteDrag(t)
      PROVE  SlotShapes'
    BY <1>2, AddTyped, PrioritizeTyped, ReorderTyped, WriteSlotsTyped, DragTyped, WriteDragTyped
<1> QED BY <1>1, <1>2, UnlockedTyped DEF SlotNext

-------------------------------------------------------------------------------
(* The portal: links and answers are counted *)

\* Where there is a link, or a request under way, somebody has asked for something.
PortalBounds ==
    /\ portalOps \in 0..MaxPortalOps /\ Len(links) <= MaxLinks
    /\ portalSession \in Workspaces \cup {Nowhere}
    /\ portalOps = 0 => links = <<>> /\ \A t \in PortalThreads : task[t].step = "idle"

PortalShapes == PortalInv /\ PortalBounds

LEMMA PortalShapesInit == PortalInit => PortalShapes
<1> SUFFICES ASSUME PortalInit PROVE PortalShapes
    OBVIOUS
<1>1. PortalInv BY PortalInvInit
<1>2. PortalBounds BY PortalConstants DEF PortalInit, PortalBounds, NoTask
<1> QED BY <1>1, <1>2 DEF PortalShapes

LEMMA PortalShapesKept == PortalShapes /\ [PortalNext]_portalVars => PortalShapes'
<1> SUFFICES ASSUME PortalShapes, [PortalNext]_portalVars PROVE PortalShapes'
    OBVIOUS
<1>1. PortalInv /\ PortalInv' BY PortalNextKeeps DEF PortalShapes
<1>2. /\ portalOps \in 0..MaxPortalOps /\ Len(links) <= MaxLinks
      /\ portalSession \in Workspaces \cup {Nowhere}
      /\ portalOps = 0 => links = <<>> /\ \A t \in PortalThreads : task[t].step = "idle"
      /\ MaxPortalOps \in Nat /\ MaxLinks \in Nat /\ links \in Seq(MagicLinks)
      /\ task \in [PortalThreads -> PortalTasks]
      /\ \A t \in PortalThreads :
          /\ task[t].step \in {"expire", "create", "delete", "decide"} => task[t].ws \in Workspaces
          /\ task[t].step = "consume" => task[t].link \in DOMAIN links
    BY <1>1, PortalConstants DEF PortalShapes, PortalBounds, PortalInv, PortalTypes
<1>3. portalOps' = portalOps \/ (portalOps < MaxPortalOps /\ portalOps' = portalOps + 1)
    BY DEF PortalNext, ExpireOlder, CreateLink, DeleteMembership, EnterPortal, ConsumeMagicLink,
           PortalDecides, GenerateMagicLink, RemoveClient, PortalDecide, ClientJoins, TeamMoves,
           LinkExpires, PeekMagicLink, PortalCall, portalVars
<1>4. portalOps' \in 0..MaxPortalOps BY <1>2, <1>3
<1>5. \A l \in DOMAIN links : links[l].ws \in Workspaces
    <2> SUFFICES ASSUME NEW l \in DOMAIN links PROVE links[l].ws \in Workspaces
        OBVIOUS
    <2>1. links[l] \in MagicLinks BY <1>2
    <2> QED BY <2>1 DEF MagicLinks
<1>6. portalSession' \in Workspaces \cup {Nowhere}
    <2>1. CASE UNCHANGED portalSession BY <2>1, <1>2
    <2>2. ASSUME NEW t \in PortalThreads, ConsumeMagicLink(t) PROVE portalSession' \in Workspaces \cup {Nowhere}
        BY <2>2, <1>2, <1>5 DEF ConsumeMagicLink, CreatePortalSession
    <2> QED BY <2>1, <2>2 DEF PortalNext, ExpireOlder, CreateLink, DeleteMembership, EnterPortal,
           PortalDecides, GenerateMagicLink, RemoveClient, PortalDecide, ClientJoins, TeamMoves,
           LinkExpires, PeekMagicLink, portalVars
<1>7. Len(links') <= MaxLinks
    <2>1. CASE UNCHANGED links BY <2>1, <1>2
    <2>2. \A w, S : Len(ExpiredIn(w, S)) = Len(links)
        BY <1>2 DEF ExpiredIn
    <2>3. \A l \in DOMAIN links : \A r : Len([links EXCEPT ![l] = r]) = Len(links)
        BY <1>2
    <2>4. ASSUME NEW t \in PortalThreads, CreateLink(t) PROVE Len(links') <= MaxLinks
        BY <2>4, <1>2 DEF CreateLink
    <2>5. ASSUME NEW t \in PortalThreads, ExpireOlder(t) PROVE Len(links') <= MaxLinks
        BY <2>5, <2>2, <1>2 DEF ExpireOlder
    <2>6. ASSUME NEW t \in PortalThreads, NEW w \in Workspaces, RemoveClient(t, w) PROVE Len(links') <= MaxLinks
        BY <2>6, <2>2, <1>2 DEF RemoveClient
    <2>7. ASSUME NEW t \in PortalThreads, ConsumeMagicLink(t) PROVE Len(links') <= MaxLinks
        <3>1. links' = links \/ DOMAIN links' = DOMAIN links
            BY <2>7 DEF ConsumeMagicLink
        <3>2. links' \in Seq(MagicLinks) BY <1>1 DEF PortalInv, PortalTypes
        <3>3. Len(links') = Len(links) BY <3>1, <3>2, <1>2, LenProperties
        <3> QED BY <3>3, <1>2
    <2>8. ASSUME NEW l \in DOMAIN links, LinkExpires(l) PROVE Len(links') <= MaxLinks
        BY <2>8, <2>3, <1>2 DEF LinkExpires
    <2> QED BY <2>1, <2>4, <2>5, <2>6, <2>7, <2>8
           DEF PortalNext, DeleteMembership, EnterPortal,
           PortalDecides, GenerateMagicLink, PortalDecide, ClientJoins, TeamMoves,
           PeekMagicLink, portalVars
<1>8. ASSUME portalOps' = 0 PROVE links' = <<>> /\ \A t \in PortalThreads : task'[t].step = "idle"
    <2>1. portalOps = 0 /\ portalOps' = portalOps BY <1>2, <1>3, <1>8
    <2>2. links = <<>> /\ \A t \in PortalThreads : task[t].step = "idle" BY <2>1, <1>2
    <2>3. ~PortalCall BY <2>1 DEF PortalCall
    <2>4. \A t \in PortalThreads : ~ExpireOlder(t) /\ ~CreateLink(t) /\ ~DeleteMembership(t)
               /\ ~ConsumeMagicLink(t) /\ ~PortalDecides(t)
        BY <2>2 DEF ExpireOlder, CreateLink, DeleteMembership, ConsumeMagicLink, PortalDecides
    <2>5. UNCHANGED <<links, task>>
        BY <2>3, <2>4 DEF PortalNext, EnterPortal, GenerateMagicLink, RemoveClient, PortalDecide,
           ClientJoins, TeamMoves, LinkExpires, PeekMagicLink, portalVars
    <2> QED BY <2>2, <2>5
<1>9. PortalBounds' BY <1>4, <1>6, <1>7, <1>8 DEF PortalBounds
<1> QED BY <1>1, <1>9 DEF PortalShapes

LEMMA PortalShapesHold == PortalShapes => PortalTypeOK
<1> SUFFICES ASSUME PortalShapes PROVE PortalTypeOK
    OBVIOUS
<1>1. PortalTypes /\ PortalBounds /\ LinksOpenOnce BY DEF PortalShapes, PortalInv
<1>2. links \in Seq(MagicLinks) /\ portalOps \in 0..MaxPortalOps /\ MaxPortalOps \in Nat
    BY <1>1, PortalConstants DEF PortalTypes, PortalBounds
<1>3. ASSUME NEW l \in DOMAIN links PROVE links[l] \in Link
    <2>1. links[l] \in MagicLinks BY <1>2
    <2>2. portalOps # 0 BY <1>1, <1>2 DEF PortalBounds
    <2>3. links[l].opened \in 0..MaxPortalOps
        BY <2>1, <2>2, <1>1, <1>2 DEF LinksOpenOnce, MagicLinks
    <2> QED BY <2>1, <2>3 DEF MagicLinks, Link
<1>4. links \in Seq(Link) BY <1>2, <1>3
<1>5. linkPage \in 0..Len(links)
    BY <1>1, <1>2 DEF PortalTypes, NoLink
<1>6. \A t \in PortalThreads : task[t].step \in {"idle", "expire", "create", "delete", "consume", "decide"}
    BY <1>1 DEF PortalTypes, PortalTasks, PortalSteps
<1> QED BY <1>1, <1>4, <1>5, <1>6 DEF PortalTypes, PortalBounds, PortalTypeOK

-------------------------------------------------------------------------------
(* The discussion: comments and mentions are counted *)

\* Parents and mentions are of comments there may be, and bodies of edits there were.
TalkBounds ==
    /\ talkOps \in 0..MaxTalkOps /\ Len(comments) <= MaxComments
    /\ \A c \in DOMAIN comments : comments[c].parent <= MaxComments /\ comments[c].body <= talkOps
    /\ \A t \in TalkThreads : talk[t].id <= MaxComments
    /\ mentions \subseteq (1..MaxComments) \X Talkers

TalkShapes == TalkInv /\ TalkBounds

LEMMA TalkShapesInit == TalkInit => TalkShapes
<1> SUFFICES ASSUME TalkInit PROVE TalkShapes
    OBVIOUS
<1>1. TalkInv BY TalkInvInit
<1>2. \A t \in TalkThreads : talk[t].id = 0 BY DEF TalkInit, Quiet
<1>3. Len(comments) = 0 /\ DOMAIN comments = {} BY DEF TalkInit
<1>4. TalkBounds BY <1>2, <1>3, TalkConstants DEF TalkInit, TalkBounds
<1> QED BY <1>1, <1>4 DEF TalkShapes

LEMMA TalkShapesKept == TalkShapes /\ [TalkNext]_talkVars => TalkShapes'
<1> SUFFICES ASSUME TalkShapes, [TalkNext]_talkVars PROVE TalkShapes'
    OBVIOUS
<1>1. TalkInv /\ TalkInv' BY TalkNextKeeps DEF TalkShapes
<1>2. /\ talkOps \in 0..MaxTalkOps /\ Len(comments) <= MaxComments
      /\ \A c \in DOMAIN comments : comments[c].parent <= MaxComments /\ comments[c].body <= talkOps
      /\ \A t \in TalkThreads : talk[t].id <= MaxComments
      /\ mentions \subseteq (1..MaxComments) \X Talkers
      /\ MaxComments \in Nat /\ MaxTalkOps \in Nat
      /\ comments \in Seq(CommentRows) /\ talk \in [TalkThreads -> TalkRequests]
      /\ comments' \in Seq(CommentRows)
      /\ \A t \in TalkThreads : TalkFits(t)
      /\ DOMAIN comments = 1..Len(comments) /\ Len(comments) \in Nat
      /\ \A c \in DOMAIN comments : comments[c] \in CommentRows
    BY <1>1, CommentsKept, TalkConstants DEF TalkShapes, TalkBounds, TalkInv
<1>3. CASE UNCHANGED talkVars BY <1>1, <1>3 DEF TalkShapes, TalkBounds, talkVars
<1>4. ASSUME NEW t \in TalkThreads, NEW r \in Nat, r <= MaxComments, NEW new, new.id = r,
             talk' = [talk EXCEPT ![t] = new]
      PROVE  \A x \in TalkThreads : talk'[x].id <= MaxComments
    BY <1>2, <1>4
<1>5. Quiet.id = 0 /\ 0 \in Nat /\ 0 <= MaxComments BY <1>2 DEF Quiet
<1>6. ASSUME NEW t \in TalkThreads, StoreComment(t) PROVE TalkBounds'
    <2> DEFINE row == [author |-> talk[t].who, visibility |-> talk[t].row[1], parent |-> talk[t].id,
                       deleted |-> FALSE, body |-> 0, was_deleted |-> FALSE]
    <2>1. /\ comments' = Append(comments, row) /\ Len(comments) < MaxComments
          /\ talk' = [talk EXCEPT ![t].step = "mention", ![t].id = Len(comments) + 1]
          /\ UNCHANGED <<mentions, talkOps>>
        BY <1>6 DEF StoreComment
    <2>2. row.parent <= MaxComments /\ row.body <= talkOps
        BY <1>2
    <2> HIDE DEF row
    <2>3. Len(comments') = Len(comments) + 1 /\ DOMAIN comments' = 1..(Len(comments) + 1)
          /\ \A c \in 1..Len(comments) : comments'[c] = comments[c]
          /\ comments'[Len(comments) + 1] = row
        BY <2>1, <1>2
    <2>4. \A c \in DOMAIN comments' : comments'[c].parent <= MaxComments /\ comments'[c].body <= talkOps'
        BY <2>1, <2>2, <2>3, <1>2
    <2>5. \A x \in TalkThreads : talk'[x].id <= MaxComments
        BY <2>1, <1>2 DEF TalkRequests
    <2>6. Len(comments') <= MaxComments BY <2>1, <2>3, <1>2
    <2> QED BY <2>1, <2>4, <2>5, <2>6, <1>2 DEF TalkBounds
<1>7. ASSUME NEW t \in TalkThreads, NotifyMentions(t) PROVE TalkBounds'
    <2>1. talk[t].id \in 1..MaxComments /\ talk[t].named \subseteq Talkers
        <3>1. talk[t].id \in DOMAIN comments BY <1>2, <1>7 DEF NotifyMentions, TalkFits
        <3>2. talk[t] \in TalkRequests BY <1>2
        <3> QED BY <3>1, <3>2, <1>2 DEF TalkRequests
    <2>2. mentions' \subseteq (1..MaxComments) \X Talkers
        BY <2>1, <1>2, <1>7 DEF NotifyMentions
    <2>3. talk' = [talk EXCEPT ![t] = Quiet] /\ UNCHANGED <<comments, talkOps>>
        BY <1>7 DEF NotifyMentions
    <2>4. \A x \in TalkThreads : talk'[x].id <= MaxComments BY <2>3, <1>4, <1>5
    <2> QED BY <2>2, <2>3, <2>4, <1>2 DEF TalkBounds
<1>8. ASSUME NEW t \in TalkThreads, SaveBody(t) \/ SaveDeleted(t) PROVE TalkBounds'
    <2>1. talk' = [talk EXCEPT ![t] = Quiet] /\ UNCHANGED <<mentions, talkOps>>
        BY <1>8 DEF SaveBody, SaveDeleted
    <2>2. \A x \in TalkThreads : talk'[x].id <= MaxComments BY <2>1, <1>4, <1>5
    <2>3. talk[t].id \in DOMAIN comments BY <1>2, <1>8 DEF SaveBody, SaveDeleted, TalkFits
    <2>4. /\ DOMAIN comments' = DOMAIN comments
          /\ \A c \in DOMAIN comments : /\ comments'[c].parent = comments[c].parent
                                        /\ comments'[c].body \in {comments[c].body, talkOps}
        <3>1. CASE SaveBody(t) BY <1>2, <3>1, <2>3 DEF SaveBody
        <3>2. CASE SaveDeleted(t) BY <1>2, <3>2, <2>3 DEF SaveDeleted
        <3> QED BY <3>1, <3>2, <1>8
    <2>5. Len(comments') = Len(comments) BY <2>4, <1>2, LenProperties
    <2>6. \A c \in DOMAIN comments' : comments'[c].parent <= MaxComments /\ comments'[c].body <= talkOps'
        BY <2>1, <2>4, <1>2
    <2> QED BY <2>1, <2>2, <2>5, <2>6, <1>2 DEF TalkBounds
<1>9. ASSUME NEW t \in TalkThreads, NEW new, NEW r \in Nat, r <= MaxComments, new.id = r,
             talk' = [talk EXCEPT ![t] = new], Begins(t), UNCHANGED <<comments, mentions>>
      PROVE  TalkBounds'
    <2>1. \A x \in TalkThreads : talk'[x].id <= MaxComments BY <1>4, <1>9
    <2>2. talkOps' = talkOps + 1 /\ talkOps < MaxTalkOps BY <1>9 DEF Begins
    <2>3. \A c \in DOMAIN comments : comments[c].body \in Nat BY <1>2 DEF CommentRows
    <2>4. \A c \in DOMAIN comments' : comments'[c].parent <= MaxComments /\ comments'[c].body <= talkOps'
        BY <2>2, <2>3, <1>2, <1>9
    <2> QED BY <2>1, <2>2, <2>4, <1>2, <1>9 DEF TalkBounds
<1>10. ASSUME NEW t \in TalkThreads, NEW who, NEW v, NEW parent, NEW named, parent \in 0..MaxComments,
              StartComment(t, who, v, parent, named)
       PROVE  TalkBounds'
    <2> DEFINE found == parent \in DOMAIN comments /\ ~comments[parent].deleted
               new == [step |-> "create", who |-> who, id |-> IF found THEN parent ELSE NoParent,
                       row |-> <<v>>, named |-> named]
    <2>1. /\ Begins(t) /\ talk' = [talk EXCEPT ![t] = new] /\ UNCHANGED <<comments, mentions>>
        BY <1>10 DEF StartComment
    <2>2. new.id \in Nat /\ new.id <= MaxComments BY <1>2, <1>10 DEF NoParent
    <2> HIDE DEF new
    <2> QED BY <2>1, <2>2, <1>9
<1>11. ASSUME NEW t \in TalkThreads, NEW who, NEW id \in DOMAIN comments, NEW s, Takes(t, who, id, s)
       PROVE  TalkBounds'
    <2> DEFINE new == [Quiet EXCEPT !.step = s, !.who = who, !.id = id, !.row = <<comments[id]>>]
    <2>1. /\ Begins(t) /\ talk' = [talk EXCEPT ![t] = new] /\ UNCHANGED <<comments, mentions>>
        BY <1>11 DEF Takes
    <2>2. new.id = id BY DEF Quiet
    <2>3. id \in Nat /\ id <= MaxComments BY <1>2
    <2> HIDE DEF new
    <2> QED BY <2>1, <2>2, <2>3, <1>9
<1>12. TalkNext => TalkBounds'
    BY <1>6, <1>7, <1>8, <1>10, <1>11 DEF TalkNext, UpdateComment, DeleteComment
<1> QED BY <1>1, <1>3, <1>12 DEF TalkShapes

LEMMA TalkShapesHold == TalkShapes => TalkTypeOK
<1> SUFFICES ASSUME TalkShapes PROVE TalkTypeOK
    OBVIOUS
<1>1. TalkInv /\ TalkBounds BY DEF TalkShapes
<1>2. /\ comments \in Seq(CommentRows) /\ talk \in [TalkThreads -> TalkRequests]
      /\ MaxComments \in Nat /\ MaxTalkOps \in Nat /\ talkOps \in 0..MaxTalkOps
    BY <1>1, TalkConstants DEF TalkInv, TalkBounds
<1>3. ASSUME NEW c \in DOMAIN comments PROVE comments[c] \in Comment
    <2>1. comments[c] \in CommentRows BY <1>2
    <2>2. comments[c].parent \in 0..MaxComments /\ comments[c].body \in 0..MaxTalkOps
        BY <2>1, <1>1, <1>2 DEF TalkBounds, CommentRows
    <2> QED BY <2>1, <2>2 DEF CommentRows, Comment, Visibilities
<1>4. comments \in Seq(Comment) BY <1>2, <1>3
<1>5. \A t \in TalkThreads : talk[t].step \in {"idle", "create", "mention", "edit", "delete"}
    BY <1>2 DEF TalkRequests
<1> QED BY <1>1, <1>4, <1>5 DEF TalkBounds, TalkTypeOK
===============================================================================
