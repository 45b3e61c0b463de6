---------------------------- MODULE MediaVersions -----------------------------
(***************************************************************************)
(* One medium of the library and its versions (apps/media_library): the     *)
(* upload and its processing, edits that a worker renders, restorations and *)
(* the deletion, with the files they leave in the storage.  Rows are saved  *)
(* by named columns; storage and database are changed one after the other.  *)
(***************************************************************************)
EXTENDS Integers, FiniteSets, Sequences

CONSTANTS VersionEditors,   \* request threads
          Surfaces,         \* pages: of a workspace, of the organization
          MaxVersions,      \* bound on versions
          MaxEditOps,       \* bound on requests
          MaxEditFaults     \* bound on deaths

ASSUME VersionAssumption ==
    /\ MaxVersions \in Nat /\ MaxEditOps \in Nat /\ MaxEditFaults \in Nat
    /\ "none" \notin Surfaces

VARIABLES
    medium,     \* the MediaAsset row, or NoMedium
    versions,   \* its MediaAssetVersions by number
    objects,    \* files in the storage
    rendered,   \* how many were ever stored
    jobs,       \* queued tasks: Process, or the number of the version to render
    runner,     \* the task under way
    editors,    \* thread -> its request
    editOps,
    editFaults,
    versionPast \* history, see VersionHistory

versionVars == <<medium, versions, objects, rendered, jobs, runner, editors, editOps,
                 editFaults, versionPast>>

NoMedium == [scope |-> "none"]
NoThumb == 0
Original == 0
NoRun == [job |-> -1]
Process == 0
NotEditing == [step |-> "idle"]

Uploaded == medium # NoMedium
EditRequest(t, request) == editors' = [editors EXCEPT ![t] = request]
BeginEditing(t, request) ==
    /\ editors[t] = NotEditing /\ editOps < MaxEditOps
    /\ EditRequest(t, request) /\ editOps' = editOps + 1

\* A new object: its name is nobody's (get_available_name).
NewObject == rendered + 1
Store(more) == objects' = objects \cup more /\ rendered' = rendered + Cardinality(more)

\* Objects the rows name.
VersionFiles == UNION {{versions[n].file, versions[n].thumb} : n \in DOMAIN versions}
Named == ((IF Uploaded THEN {medium.file, medium.thumb} ELSE {}) \cup VersionFiles) \ {NoThumb}

Unnamed(more) == [versionPast EXCEPT !.left = @ \cup more]

-------------------------------------------------------------------------------
(* Upload and processing *)

\* upload, shared_upload: create_asset, then the task.
CreateAsset(t, surface) ==
    /\ ~Uploaded /\ rendered = 0
    /\ BeginEditing(t, [step |-> "queue", job |-> Process, number |-> Original])
    /\ Store({NewObject})
    /\ medium' = [scope |-> surface, file |-> NewObject, thumb |-> NoThumb, current |-> Original,
                  status |-> "pending"]
    /\ UNCHANGED <<versions, jobs, runner, editFaults, versionPast>>

Queue(t) ==
    /\ editors[t].step = "queue" /\ EditRequest(t, NotEditing)
    /\ jobs' = jobs \cup {editors[t].job}
    /\ UNCHANGED <<medium, versions, objects, rendered, runner, editOps, editFaults, versionPast>>

\* The rows the task is about, if there are any.
HasRows(job) == Uploaded /\ (job # Process => job \in DOMAIN versions)

StartTask(job) ==
    /\ runner = NoRun /\ job \in jobs
    /\ IF HasRows(job)
       THEN /\ runner' = [job |-> job, step |-> IF job = Process THEN "thumbnail" ELSE "file"]
            /\ medium' = IF job = Process THEN [medium EXCEPT !.status = "processing"] ELSE medium
            /\ UNCHANGED jobs
       ELSE jobs' = jobs \ {job} /\ UNCHANGED <<runner, medium>>
    /\ UNCHANGED <<versions, objects, rendered, editors, editOps, editFaults, versionPast>>

TaskEnds == runner' = NoRun /\ jobs' = jobs \ {runner.job}

\* The thumbnail that was made, or the one there is: an image Pillow cannot read has none.
ThumbOr(thumb, old) == IF thumb = {} THEN old ELSE CHOOSE file \in thumb : TRUE

\* _process_image, _process_video, then the row; a row deleted meanwhile is an error,
\* and the task runs once more to find nothing.
SaveProcessed(thumb) ==
    /\ runner # NoRun /\ runner.step = "thumbnail"
    /\ Store(thumb)
    /\ IF Uploaded
       THEN /\ medium' = [medium EXCEPT !.status = "completed", !.thumb = ThumbOr(thumb, @)]
            /\ versionPast' = Unnamed({medium.thumb}) /\ TaskEnds
       ELSE /\ versionPast' = Unnamed(thumb) /\ runner' = NoRun /\ UNCHANGED <<medium, jobs>>
    /\ UNCHANGED <<versions, editors, editOps, editFaults>>

\* The file cannot be fetched or ffmpeg fails.
ProcessFails ==
    /\ runner # NoRun /\ runner.step = "thumbnail"
    /\ IF Uploaded THEN medium' = [medium EXCEPT !.status = "failed"] /\ TaskEnds
       ELSE runner' = NoRun /\ UNCHANGED <<medium, jobs>>
    /\ UNCHANGED <<versions, objects, rendered, editors, editOps, editFaults, versionPast>>

-------------------------------------------------------------------------------
(* Edits and restorations *)

\* asset_edit, shared_asset_edit: each page edits its own.
OpenEdit(t, surface) ==
    /\ Uploaded /\ medium.scope = surface
    /\ BeginEditing(t, [step |-> "insert", kind |-> "edit", number |-> Len(versions) + 1,
                        file |-> medium.file])
    /\ UNCHANGED <<medium, versions, objects, rendered, jobs, runner, editFaults, versionPast>>

\* version_restore; shared media have no such page.
OpenRestore(t, n) ==
    /\ Uploaded /\ medium.scope = "workspace" /\ n \in DOMAIN versions
    /\ BeginEditing(t, [step |-> "insert", kind |-> "restore", number |-> Len(versions) + 1,
                        file |-> versions[n].file, thumb |-> versions[n].thumb, of |-> n,
                        final |-> n \notin jobs /\ ~\E u \in VersionEditors :
                                     editors[u].step \in {"point", "queue"} /\ editors[u].number = n])
    /\ UNCHANGED <<medium, versions, objects, rendered, jobs, runner, editFaults, versionPast>>

\* unique_together of asset and number
NumberFree(number) == number = Len(versions) + 1

InsertVersion(t) ==
    /\ editors[t].step = "insert" /\ Len(versions) < MaxVersions
    /\ IF Uploaded /\ NumberFree(editors[t].number)
       THEN /\ versions' = Append(versions, [file |-> editors[t].file, thumb |-> NoThumb])
            /\ EditRequest(t, [editors[t] EXCEPT !.step = "point"])
       ELSE EditRequest(t, NotEditing) /\ UNCHANGED versions
    /\ UNCHANGED <<medium, objects, rendered, jobs, runner, editOps, editFaults, versionPast>>

\* current_version, then the task or the restored columns.
PointAtVersion(t) ==
    /\ editors[t].step = "point"
    /\ IF Uploaded
       THEN /\ medium' = [medium EXCEPT !.current = editors[t].number]
            /\ EditRequest(t, IF editors[t].kind = "restore" THEN [editors[t] EXCEPT !.step = "save"]
                              ELSE [step |-> "queue", job |-> editors[t].number,
                                    number |-> editors[t].number])
       ELSE EditRequest(t, NotEditing) /\ UNCHANGED medium
    /\ UNCHANGED <<versions, objects, rendered, jobs, runner, editOps, editFaults, versionPast>>

\* Mutant: the asset keeps its file.
OnlyThumb(t) == [medium EXCEPT !.thumb = editors[t].thumb]

\* "Update asset's main file and metadata to match restored version"
Restored(t) == [medium EXCEPT !.file = editors[t].file, !.thumb = editors[t].thumb]

SaveRestored(t) ==
    /\ editors[t].step = "save" /\ EditRequest(t, NotEditing)
    /\ IF Uploaded
       THEN /\ medium' = Restored(t)
            /\ versionPast' = [Unnamed({medium.file, medium.thumb}) EXCEPT
                 !.restored = IF editors[t].final THEN editors[t].of ELSE Original]
       ELSE UNCHANGED <<medium, versionPast>>
    /\ UNCHANGED <<versions, objects, rendered, jobs, runner, editOps, editFaults>>

\* process_image_edit, process_video_trim: the asset's file of this moment is edited and
\* becomes the version's; the asset gets its thumbnail and not its file.
SaveVersionFile ==
    LET n == runner.job
    IN  /\ runner # NoRun /\ runner.step = "file" /\ Store({NewObject})
        /\ IF HasRows(n)
           THEN /\ versions' = [versions EXCEPT ![n].file = NewObject]
                /\ versionPast' = Unnamed({versions[n].file})
                /\ runner' = [runner EXCEPT !.step = "version thumbnail"] /\ UNCHANGED jobs
           ELSE versionPast' = Unnamed({NewObject}) /\ TaskEnds /\ UNCHANGED versions
        /\ UNCHANGED <<medium, editors, editOps, editFaults>>

SaveVersionThumb(thumb) ==
    LET n == runner.job
    IN  /\ runner # NoRun /\ runner.step = "version thumbnail" /\ Store(thumb)
        /\ IF HasRows(n)
           THEN /\ versions' = [versions EXCEPT ![n].thumb = ThumbOr(thumb, @)]
                /\ versionPast' = Unnamed({versions[n].thumb})
                /\ runner' = [job |-> n, step |-> "asset", thumb |-> versions'[n].thumb]
                /\ UNCHANGED jobs
           ELSE versionPast' = Unnamed(thumb) /\ TaskEnds /\ UNCHANGED versions
        /\ UNCHANGED <<medium, editors, editOps, editFaults>>

SaveAssetThumb ==
    /\ runner # NoRun /\ runner.step = "asset" /\ TaskEnds
    /\ medium' = IF Uploaded THEN [medium EXCEPT !.thumb = runner.thumb] ELSE medium
    /\ versionPast' = IF Uploaded THEN Unnamed({medium.thumb}) ELSE versionPast
    /\ UNCHANGED <<versions, objects, rendered, editors, editOps, editFaults>>

\* Any error of the rendering is logged and the task is done.
RenderFails ==
    /\ runner # NoRun /\ runner.step \in {"file", "version thumbnail"} /\ TaskEnds
    /\ UNCHANGED <<medium, versions, objects, rendered, editors, editOps, editFaults, versionPast>>

-------------------------------------------------------------------------------
(* delete_asset, from asset_delete and shared_asset_delete *)

OpenRemoval(t, surface) ==
    /\ Uploaded /\ medium.scope = surface
    /\ BeginEditing(t, [step |-> "remove files", named |-> {medium.file, medium.thumb}])
    /\ versionPast' = [versionPast EXCEPT !.doomed = IF @ = 0 THEN rendered ELSE @]
    /\ UNCHANGED <<medium, versions, objects, rendered, jobs, runner, editFaults>>

RemoveFiles(t) ==
    /\ editors[t].step = "remove files"
    /\ objects' = objects \ editors[t].named
    /\ EditRequest(t, [step |-> "remove versions"])
    /\ UNCHANGED <<medium, versions, rendered, jobs, runner, editOps, editFaults, versionPast>>

\* Mutant: versions keep their files.
NoFiles == {}

\* "Delete version files"
FilesOfVersions == VersionFiles

RemoveVersions(t) ==
    /\ editors[t].step = "remove versions"
    /\ objects' = objects \ FilesOfVersions
    /\ EditRequest(t, [step |-> "remove row"])
    /\ UNCHANGED <<medium, versions, rendered, jobs, runner, editOps, editFaults, versionPast>>

\* What was stored since the deletion was asked for may be left behind.
RemoveRow(t) ==
    /\ editors[t].step = "remove row" /\ EditRequest(t, NotEditing)
    /\ medium' = NoMedium /\ versions' = <<>>
    /\ versionPast' = Unnamed({file \in Named \cap objects : file > versionPast.doomed})
    /\ UNCHANGED <<objects, rendered, jobs, runner, editOps, editFaults>>

-------------------------------------------------------------------------------

EditFault == editFaults < MaxEditFaults /\ editFaults' = editFaults + 1

\* The task stays queued and runs again after MAX_RUN_TIME.
RunnerDies ==
    /\ runner # NoRun /\ EditFault /\ runner' = NoRun
    /\ UNCHANGED <<medium, versions, objects, rendered, jobs, editors, editOps, versionPast>>

EditorDies(t) ==
    /\ editors[t] # NotEditing /\ EditFault /\ EditRequest(t, NotEditing)
    /\ versionPast' = [versionPast EXCEPT
         !.unqueued = @ \/ (editors[t].step = "queue" /\ editors[t].job = Process)]
    /\ UNCHANGED <<medium, versions, objects, rendered, jobs, runner, editOps>>

\* left: objects that a row named before another was written over it, or that were
\* written for a row that had gone; doomed: the last object there was when a deletion
\* was first asked for; restored: the version last restored, if it had its file; unqueued: the upload died before its task was queued.
VersionHistory ==
    [left |-> {}, doomed |-> 0, restored |-> Original, unqueued |-> FALSE]

VersionInit ==
    /\ medium = NoMedium /\ versions = <<>> /\ objects = {} /\ rendered = 0 /\ jobs = {}
    /\ runner = NoRun /\ editors = [t \in VersionEditors |-> NotEditing]
    /\ editOps = 0 /\ editFaults = 0 /\ versionPast = VersionHistory

VersionNext ==
    \/ \E t \in VersionEditors :
          \/ \E s \in Surfaces : CreateAsset(t, s) \/ OpenEdit(t, s) \/ OpenRemoval(t, s)
          \/ \E n \in 1 .. MaxVersions : OpenRestore(t, n)
          \/ Queue(t) \/ InsertVersion(t) \/ PointAtVersion(t) \/ SaveRestored(t)
          \/ RemoveFiles(t) \/ RemoveVersions(t) \/ RemoveRow(t) \/ EditorDies(t)
    \/ \E job \in 0 .. MaxVersions : StartTask(job)
    \/ \E thumb \in {{}, {NewObject}} : SaveProcessed(thumb) \/ SaveVersionThumb(thumb)
    \/ ProcessFails \/ SaveVersionFile \/ SaveAssetThumb \/ RenderFails \/ RunnerDies

VersionTypeOK ==
    /\ objects \subseteq 1 .. rendered /\ Len(versions) <= MaxVersions
    /\ Uploaded => medium.current \in 0 .. Len(versions)
    /\ jobs \subseteq 0 .. MaxVersions

\* Until somebody asks for its deletion, a medium and its versions name files that exist.
FilesExist == versionPast.doomed = 0 => Named \subseteq objects

\* A deletion leaves no file of the medium or its versions in the storage, but those
\* that were replaced before it or stored after it was asked for.
NothingLeaks == objects \ Named \subseteq versionPast.left

\* A restored version is what the medium shows, whatever was being rendered meanwhile.
RestoreTrue ==
    Uploaded /\ versionPast.restored # Original => medium.file = versions[versionPast.restored].file

\* A medium that says it is being processed has a task or a request that will end it.
ProcessingEnds ==
    Uploaded /\ medium.status \in {"pending", "processing"} =>
        \/ Process \in jobs \/ versionPast.unqueued
        \/ \E t \in VersionEditors : editors[t].step = "queue" /\ editors[t].job = Process

VersionsAreSound == FilesExist /\ NothingLeaks /\ RestoreTrue /\ ProcessingEnds
===============================================================================
