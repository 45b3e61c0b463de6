--------------------------------- MODULE Ideas ---------------------------------
(***************************************************************************)
(* The Kanban board of ideas (apps/composer/views.py): columns and ideas    *)
(* that members of a workspace move, edit, convert to posts and delete at   *)
(* the same time.  No handler locks anything.                               *)
(***************************************************************************)
EXTENDS Integers, FiniteSets

CONSTANTS IdeaIds,
          Columns,       \* groups
          IdeaAssets,    \* media of the workspace
          Planners,      \* request threads
          MaxIdeaOps     \* bound on the requests

NoIdea == [group |-> "no idea"]
NoColumn == "null"
NoCover == "null"
Unplanned == [step |-> "idle"]

\* A null pointer is no column and no medium.
ASSUME IdeasAssumption ==
    /\ MaxIdeaOps \in Nat
    /\ NoColumn \notin Columns /\ NoIdea.group \notin Columns /\ NoCover \notin IdeaAssets

VARIABLES
    ideas,      \* idea -> its row, or NoIdea
    columns,    \* existing groups
    planner,    \* thread -> its request
    ideaOps,
    converted,  \* posts made from each idea
    boardPast   \* history, see BoardHistory

boardVars == <<ideas, columns, planner, ideaOps, converted, boardPast>>

Planned(u, request) == planner' = [planner EXCEPT ![u] = request]
BeginPlan(u) == planner[u] = Unplanned /\ ideaOps < MaxIdeaOps /\ ideaOps' = ideaOps + 1
Exists(i) == ideas[i] # NoIdea

\* The key of a column, a UUID, is not given twice.
NewColumn(c) == c \notin columns \cup boardPast.gone

\* The group a request names, if the workspace still has it: .first()
Found(c, otherwise) == IF c \in columns THEN c ELSE otherwise

\* Groups a page shows: those there are, and those deleted since it was loaded.
Shown == columns \cup boardPast.gone

\* Idea i is put in column c while its deletion is decided.
Late(i, c) ==
    IF \E v \in Planners : planner[v].step = "drop" /\ planner[v].column = c
    THEN boardPast.late \cup {i} ELSE boardPast.late

-------------------------------------------------------------------------------

\* _idea_columns: "Ensure default groups exist for this workspace"
FirstView(u) ==
    /\ BeginPlan(u) /\ columns = {}
    /\ Planned(u, [step |-> "seed", idea |-> "none"])
    /\ UNCHANGED <<ideas, columns, converted, boardPast>>

\* The default columns, taken as one, and the introductory idea.
Seed(u, c, i) ==
    /\ planner[u].step = "seed" /\ Planned(u, Unplanned)
    /\ NewColumn(c) /\ ~Exists(i) /\ i \notin boardPast.deleted
    /\ columns' = columns \cup {c}
    /\ ideas' = [ideas EXCEPT ![i] = [group |-> c, media |-> {}, cover |-> NoCover, post |-> 0]]
    /\ UNCHANGED <<ideaOps, converted, boardPast>>

\* Into the group named, into the first one, or into none when it is gone or there
\* is no group yet.
CreateIdea(u, i, c, media, cover) ==
    /\ BeginPlan(u) /\ ~Exists(i) /\ i \notin boardPast.deleted
    /\ c \in Shown \/ columns = {}
    /\ ideas' = [ideas EXCEPT ![i] = [group |-> Found(c, NoColumn), media |-> media,
                                      cover |-> cover, post |-> 0]]
    /\ boardPast' = [boardPast EXCEPT !.late =
                       IF c \in columns THEN Late(i, c) ELSE @ \cup {i}]
    /\ UNCHANGED <<columns, planner, converted>>

CreateColumn(u, c) ==
    /\ BeginPlan(u) /\ columns # {} /\ NewColumn(c)
    /\ columns' = columns \cup {c}
    /\ UNCHANGED <<ideas, planner, converted, boardPast>>

\* Every view reads the idea it is about first; a move or an edit that names a group
\* that is gone leaves the idea where it was read.
ReadIdea(u, i, kind, c, media, cover) ==
    /\ BeginPlan(u) /\ Exists(i)
    /\ Planned(u, [step |-> kind, idea |-> i, row |-> ideas[i],
                   column |-> Found(c, ideas[i].group), media |-> media, cover |-> cover])
    /\ UNCHANGED <<ideas, columns, converted, boardPast>>

\* A column deleted since it was read fails the foreign key.
Referable(c) == c \in columns \cup {NoColumn}

\* idea_move saves the whole row it read, and inserts it again if it is gone.
MoveIdea(u) ==
    LET p == planner[u]
    IN  /\ p.step = "move" /\ Planned(u, Unplanned)
        /\ IF Referable(p.column)
           THEN /\ ideas' = [ideas EXCEPT ![p.idea] = [p.row EXCEPT !.group = p.column,
                                !.media = IF Exists(p.idea) THEN ideas[p.idea].media ELSE {}]]
                /\ boardPast' = [boardPast EXCEPT
                      !.stale = IF ideas[p.idea] # p.row THEN @ \cup {p.idea} ELSE @,
                      !.late = Late(p.idea, p.column)]
           ELSE UNCHANGED <<ideas, boardPast>>
        /\ UNCHANGED <<columns, ideaOps, converted>>

\* Mutant: the cover stays what it was if it is still attached.
OldCover(p) == IF p.row.cover \in p.media THEN p.row.cover ELSE p.cover

\* "keep cover pointer aligned": the first of the ordered media
NewCover(p) == IF p.media = {} THEN NoCover ELSE p.cover

\* idea_edit in its transaction: named columns, then _sync_idea_media_attachments,
\* which compares the cover with the one read before.
EditIdea(u) ==
    LET p == planner[u]
        cover == NewCover(p)
    IN  /\ p.step = "edit" /\ Planned(u, Unplanned)
        /\ IF Exists(p.idea) /\ Referable(p.column)
           THEN /\ ideas' = [ideas EXCEPT ![p.idea] =
                      [ideas[p.idea] EXCEPT !.group = p.column, !.media = p.media,
                                !.cover = IF p.row.cover # cover THEN cover ELSE @]]
                /\ boardPast' = [boardPast EXCEPT
                      !.stale = IF ideas[p.idea].cover # p.row.cover THEN @ \cup {p.idea} ELSE @,
                      !.late = Late(p.idea, p.column),
                      !.covered[p.idea] = p.cover]
           ELSE UNCHANGED <<ideas, boardPast>>
        /\ UNCHANGED <<columns, ideaOps, converted>>

\* idea_create_post: the post, its media and rows and the pointer, in one transaction.
Convert(u) ==
    LET p == planner[u]
    IN  /\ p.step = "convert" /\ Planned(u, Unplanned)
        /\ IF Exists(p.idea)
           THEN /\ converted' = [converted EXCEPT ![p.idea] = @ + 1]
                /\ ideas' = [ideas EXCEPT ![p.idea].post = converted[p.idea] + 1]
           ELSE UNCHANGED <<converted, ideas>>
        /\ UNCHANGED <<columns, ideaOps, boardPast>>

DeleteIdea(u) ==
    LET p == planner[u]
    IN  /\ p.step = "delete" /\ Planned(u, Unplanned)
        /\ ideas' = [ideas EXCEPT ![p.idea] = NoIdea]
        /\ boardPast' = [boardPast EXCEPT !.deleted = @ \cup {p.idea}]
        /\ UNCHANGED <<columns, ideaOps, converted>>

\* Mutant: a column is deleted with what is in it.
AnyColumn(c) == TRUE

\* "Column must be empty before deleting."
EmptyColumn(c) == \A i \in IdeaIds : ideas[i].group # c

\* idea_group_delete looks, then deletes; on_delete=SET_NULL.
CheckColumn(u, c) ==
    /\ BeginPlan(u) /\ c \in columns /\ EmptyColumn(c)
    /\ Planned(u, [step |-> "drop", idea |-> "none", column |-> c])
    /\ UNCHANGED <<ideas, columns, converted, boardPast>>

DropColumn(u) ==
    LET c == planner[u].column
    IN  /\ planner[u].step = "drop" /\ Planned(u, Unplanned)
        /\ columns' = columns \ {c}
        /\ ideas' = [i \in IdeaIds |-> IF ideas[i].group = c THEN [ideas[i] EXCEPT !.group = NoColumn]
                                       ELSE ideas[i]]
        /\ boardPast' = [boardPast EXCEPT !.gone = @ \cup {c}]
        /\ UNCHANGED <<ideaOps, converted>>

\* stale: ideas over which an older copy was written; late: put in a column between the
\* check and its deletion, or created when it was gone or there was none; covered: the
\* cover the last edit asked for; deleted, gone: ideas and columns there were.
BoardHistory == [stale |-> {}, late |-> {}, deleted |-> {}, gone |-> {},
                 covered |-> [i \in IdeaIds |-> NoCover]]

BoardInit ==
    /\ ideas = [i \in IdeaIds |-> NoIdea] /\ columns = {} /\ planner = [u \in Planners |-> Unplanned]
    /\ ideaOps = 0 /\ converted = [i \in IdeaIds |-> 0] /\ boardPast = BoardHistory

Chosen(media, cover) == IF media = {} THEN cover = NoCover ELSE cover \in media

BoardNext ==
    \E u \in Planners :
       \/ FirstView(u)
       \/ \E c \in Columns, i \in IdeaIds : Seed(u, c, i)
       \/ \E i \in IdeaIds, c \in Columns, media \in SUBSET IdeaAssets,
            cover \in IdeaAssets \cup {NoCover} :
             /\ Chosen(media, cover)
             /\ \/ CreateIdea(u, i, c, media, cover)
                \/ c \in Shown /\ ReadIdea(u, i, "edit", c, media, cover)
       \/ \E i \in IdeaIds, c \in Shown : ReadIdea(u, i, "move", c, {}, NoCover)
       \/ \E i \in IdeaIds, kind \in {"convert", "delete"} :
             ReadIdea(u, i, kind, NoColumn, {}, NoCover)
       \/ \E c \in Columns : CreateColumn(u, c) \/ CheckColumn(u, c)
       \/ MoveIdea(u) \/ EditIdea(u) \/ Convert(u) \/ DeleteIdea(u) \/ DropColumn(u)

BoardTypeOK ==
    \A i \in IdeaIds : Exists(i) =>
        /\ ideas[i].group \in columns \cup {NoColumn}
        /\ ideas[i].media \subseteq IdeaAssets /\ ideas[i].post \in 0 .. converted[i]

\* An idea without a column is shown nowhere: each has one, except those put in a
\* column between "must be empty" and its deletion, and those created for a column that
\* had been deleted, or on a board without columns.
IdeasOnBoard ==
    \A i \in IdeaIds : Exists(i) /\ ideas[i].group = NoColumn =>
        i \in boardPast.late

\* A deleted idea stays so, and a converted one points to the last post made of it,
\* unless a move wrote back a copy it had read before.
ConversionsKept ==
    \A i \in IdeaIds \ boardPast.stale :
        Exists(i) => i \notin boardPast.deleted /\ ideas[i].post = converted[i]

\* "keep cover pointer aligned": the cover is the first medium, unless two edits or an
\* edit and a move crossed.
CoverAligned ==
    \A i \in IdeaIds \ boardPast.stale : Exists(i) =>
        /\ ideas[i].cover \in ideas[i].media \/ (ideas[i].cover = NoCover /\ ideas[i].media = {})
        /\ boardPast.covered[i] \in {NoCover, ideas[i].cover}

IdeasAreSound == IdeasOnBoard /\ ConversionsKept /\ CoverAligned
===============================================================================
