----------------------------- MODULE MediaFolders -----------------------------
(***************************************************************************)
(* The folders of a media library (apps/media_library/views.py and          *)
(* services.py): members create, rename and delete them and move files      *)
(* while others do.  Every statement commits by itself; the database checks *)
(* foreign keys and, below the top, that siblings have different names.     *)
(***************************************************************************)
EXTENDS Integers, FiniteSets

CONSTANTS FolderIds, FolderNames,
          OldFolders,       \* the tree there is: folder -> its row
          FolderFiles,      \* MediaAssets
          FolderThreads,    \* requests
          MaxFolderOps      \* bound on them

Top == "null"
NoFolder == [parent |-> "none", name |-> "none"]
NotTidying == [step |-> "idle"]

\* The tree there is has three levels at most.
ASSUME FolderAssumption ==
    /\ IsFiniteSet(FolderIds) /\ Top \notin FolderIds /\ "none" \notin FolderIds /\ MaxFolderOps \in Nat
    /\ DOMAIN OldFolders \subseteq FolderIds
    /\ OldFolders \in [DOMAIN OldFolders -> [parent : DOMAIN OldFolders \cup {Top}, name : FolderNames]]
    /\ \A f, g, h \in DOMAIN OldFolders :
          OldFolders[f].parent = g /\ OldFolders[g].parent = h => OldFolders[h].parent = Top

VARIABLES
    folders,      \* folder -> [parent, name], or NoFolder
    place,        \* file -> folder, or Top
    tidying,      \* thread -> its request
    folderOps,
    folderPast    \* history, see FolderHistory

folderVars == <<folders, place, tidying, folderOps, folderPast>>

IsFolder(f) == f \in {Top} \cup {g \in FolderIds : folders[g] # NoFolder}
Inside(f) == {g \in FolderIds : folders[g].parent = f}

\* unique_folder_name_per_parent: NULL parents are all different to the database.
NameFree(tree, f) ==
    \A g \in FolderIds \ {f} : tree[f].parent # Top => tree[g] # tree[f]

\* Folders that some request is about to create, or to delete with what comes in.
Subjects(step) == {tidying[u].folder : u \in {v \in FolderThreads : tidying[v].step = step}}
Closing == Subjects("close")

Tidy(t, request) == tidying' = [tidying EXCEPT ![t] = request]
BeginTidy(t, request) ==
    /\ tidying[t] = NotTidying /\ folderOps < MaxFolderOps
    /\ Tidy(t, request) /\ folderOps' = folderOps + 1

\* The error leaves with a 500; what was written stays.
TidyFails(t) == Tidy(t, NotTidying) /\ UNCHANGED <<folders, place, folderOps, folderPast>>

-------------------------------------------------------------------------------

\* Mutant: one level more.
FourLevels(f) ==
    ~\E a, b, c \in FolderIds : folders[f].parent = a /\ folders[a].parent = b /\ folders[b].parent = c

\* check_folder_depth of the parent: it has at most one above it.
RoomBelow(f) ==
    ~\E a, b \in FolderIds : folders[f].parent = a /\ folders[a].parent = b

\* The parent is found, its depth and, below the top, the name are checked.
OpenCreate(t, f, parent, name) ==
    /\ f \notin folderPast.made \cup Subjects("create")
    /\ IsFolder(parent) /\ (parent # Top => RoomBelow(parent))
    /\ NameFree([folders EXCEPT ![f] = [parent |-> parent, name |-> name]], f)
    /\ BeginTidy(t, [step |-> "create", folder |-> f, row |-> [parent |-> parent, name |-> name]])
    /\ UNCHANGED <<folders, place, folderPast>>

InsertFolder(t) ==
    LET f == tidying[t].folder
        parent == tidying[t].row.parent
        tree == [folders EXCEPT ![f] = tidying[t].row]
    IN  /\ tidying[t].step = "create"
        /\ IF IsFolder(parent) /\ NameFree(tree, f)
           THEN /\ folders' = tree /\ Tidy(t, NotTidying)
                /\ folderPast' = [folderPast EXCEPT
                     !.made = @ \cup {f},
                     !.above[f] = {parent} \cup (IF parent = Top THEN {} ELSE folderPast.above[parent]),
                     !.late = @ \cup (IF parent \in Closing THEN {f} ELSE {})]
                /\ UNCHANGED <<place, folderOps>>
           ELSE TidyFails(t)

\* "Check for duplicate sibling name before saving", at the top as well.
OpenRename(t, f, name) ==
    /\ IsFolder(f) /\ f # Top
    /\ \A g \in Inside(folders[f].parent) \ {f} : folders[g].name # name
    /\ BeginTidy(t, [step |-> "rename", folder |-> f, name |-> name])
    /\ UNCHANGED <<folders, place, folderPast>>

SaveName(t) ==
    LET f == tidying[t].folder
        tree == [folders EXCEPT ![f].name = tidying[t].name]
    IN  /\ tidying[t].step = "rename"
        /\ IF IsFolder(f) /\ NameFree(tree, f)
           THEN /\ folders' = tree /\ Tidy(t, NotTidying)
                /\ UNCHANGED <<place, folderOps, folderPast>>
           ELSE TidyFails(t)

-------------------------------------------------------------------------------
(* folder_delete *)

OpenDelete(t, f) ==
    /\ IsFolder(f) /\ f # Top
    /\ BeginTidy(t, [step |-> "files", folder |-> f, parent |-> folders[f].parent])
    /\ folderPast' = [folderPast EXCEPT !.asked = @ \cup {f}]
    /\ UNCHANGED <<folders, place>>

\* "Move assets to parent folder (or root)": the parent of the row read before.
LiftFiles(t) ==
    LET f == tidying[t].folder
        parent == tidying[t].parent
    IN  /\ tidying[t].step = "files"
        /\ IF IsFolder(parent)
           THEN /\ place' = [a \in FolderFiles |-> IF place[a] = f THEN parent ELSE place[a]]
                /\ Tidy(t, [tidying[t] EXCEPT !.step = "folders"])
                /\ UNCHANGED <<folders, folderOps, folderPast>>
           ELSE TidyFails(t)

\* Mutant: folders inside stay.
NothingLifted(f, parent) == folders

\* "Move subfolders to parent"
Lifted(f, parent) ==
    [g \in FolderIds |-> IF folders[g].parent = f THEN [folders[g] EXCEPT !.parent = parent]
                         ELSE folders[g]]

LiftFolders(t) ==
    LET f == tidying[t].folder
        parent == tidying[t].parent
        tree == Lifted(f, parent)
    IN  /\ tidying[t].step = "folders"
        /\ IF Inside(f) = {} \/ (IsFolder(parent) /\ \A g \in Inside(f) : NameFree(tree, g))
           THEN /\ folders' = tree /\ Tidy(t, [tidying[t] EXCEPT !.step = "close"])
                /\ folderPast' = [folderPast EXCEPT
                     !.late = @ \cup (IF parent \in Closing THEN Inside(f) ELSE {}),
                     !.crossed = @ \/ (Inside(f) # {} /\ folders[f].parent # parent)]
                /\ UNCHANGED <<place, folderOps>>
           ELSE TidyFails(t)

\* What is in f, or in that, and so on, when the deletion collects it: whatever is in
\* every set that has f and all that is inside its members.
Below(f) ==
    {g \in FolderIds :
        \A S \in SUBSET FolderIds :
            f \in S /\ (\A h \in FolderIds : folders[h].parent \in S => h \in S) => g \in S}

\* folder.delete: subfolders cascade, files are set to NULL.
DeleteFolder(t) ==
    LET gone == Below(tidying[t].folder)
    IN  /\ tidying[t].step = "close" /\ Tidy(t, NotTidying)
        /\ folders' = [g \in FolderIds |-> IF g \in gone THEN NoFolder ELSE folders[g]]
        /\ place' = [a \in FolderFiles |-> IF place[a] \in gone THEN Top ELSE place[a]]
        /\ UNCHANGED <<folderOps, folderPast>>

-------------------------------------------------------------------------------

\* asset_move, and an upload into a folder
OpenMove(t, a, f) ==
    /\ IsFolder(f)
    /\ BeginTidy(t, [step |-> "move", file |-> a, folder |-> f])
    /\ UNCHANGED <<folders, place, folderPast>>

SavePlace(t) ==
    LET f == tidying[t].folder
        a == tidying[t].file
    IN  /\ tidying[t].step = "move"
        /\ IF IsFolder(f)
           THEN /\ place' = [place EXCEPT ![a] = f] /\ Tidy(t, NotTidying)
                /\ folderPast' = [folderPast EXCEPT !.chosen[a] = f]
                /\ UNCHANGED <<folders, folderOps>>
           ELSE TidyFails(t)

\* asked: folders whose deletion was asked for; made: all there ever were; above: for
\* each, those it was ever inside; late: folders that came into one that was closing;
\* chosen: where a member put each file; crossed: a deletion moved folders to the parent
\* that its folder had before another one moved it.
FolderHistory ==
    [crossed |-> FALSE, asked |-> {}, made |-> DOMAIN OldFolders, late |-> {}, chosen |-> [a \in FolderFiles |-> Top],
     above |-> [f \in FolderIds |->
                  IF f \notin DOMAIN OldFolders THEN {}
                  ELSE LET up == OldFolders[f].parent IN
                       {up} \cup (IF up = Top THEN {} ELSE {OldFolders[up].parent})]]

FolderInit ==
    /\ folders = [f \in FolderIds |-> IF f \in DOMAIN OldFolders THEN OldFolders[f] ELSE NoFolder]
    /\ place = [a \in FolderFiles |-> Top] /\ tidying = [t \in FolderThreads |-> NotTidying]
    /\ folderOps = 0 /\ folderPast = FolderHistory

FolderNext ==
    \E t \in FolderThreads :
       \/ \E f \in FolderIds, parent \in FolderIds \cup {Top}, name \in FolderNames :
             OpenCreate(t, f, parent, name)
       \/ \E f \in FolderIds, name \in FolderNames : OpenRename(t, f, name)
       \/ \E f \in FolderIds : OpenDelete(t, f)
       \/ \E a \in FolderFiles, f \in FolderIds \cup {Top} : OpenMove(t, a, f)
       \/ InsertFolder(t) \/ SaveName(t) \/ LiftFiles(t) \/ LiftFolders(t) \/ DeleteFolder(t)
       \/ SavePlace(t)

FolderTypeOK ==
    /\ \A f \in FolderIds : IsFolder(f) => IsFolder(folders[f].parent) /\ folders[f].name \in FolderNames
    /\ \A a \in FolderFiles : IsFolder(place[a])

\* "Folders cannot be nested more than 3 levels deep", whatever is created and lifted
\* at once, until a deletion moves folders to a parent that is no longer its folder's.
Shallow ==
    folderPast.crossed \/
    ~\E a, b, c, d \in FolderIds :
        folders[a].parent = b /\ folders[b].parent = c /\ folders[c].parent = d

\* No folder is ever inside itself, however deep the tree and however old the parents
\* that deletions move folders to.
NeverInItself ==
    ~\E ring \in SUBSET FolderIds : ring # {} /\ \A f \in ring : folders[f].parent \in ring

\* Deleting a folder deletes no other: one is gone only if its own deletion was asked
\* for, or it is, or was put, in one that came into a folder about to be deleted.
FoldersKept ==
    \A f \in folderPast.made \ folderPast.asked :
        IsFolder(f) \/ f \in folderPast.late \/ folderPast.above[f] \cap folderPast.late # {}

\* A file stays where it was put until that folder's deletion is asked for, and then
\* goes up, never aside.
FilesFollow ==
    \A a \in FolderFiles :
        place[a] # folderPast.chosen[a] =>
            /\ folderPast.chosen[a] \in folderPast.asked \/ ~IsFolder(folderPast.chosen[a])
            /\ place[a] \in {Top} \cup folderPast.above[folderPast.chosen[a]]

FoldersAreSound == Shallow /\ NeverInItself /\ FoldersKept /\ FilesFollow
===============================================================================
