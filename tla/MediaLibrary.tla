---------------------------- MODULE MediaLibrary ----------------------------
(***************************************************************************)
(* One presigned upload and the assets registered from it: the agent puts   *)
(* the bytes into object storage, calls of finalize_media_upload register   *)
(* them, posts use the assets, people and the sweep of orphaned media       *)
(* delete them, and another sweep reaps uploads nobody finalized.           *)
(***************************************************************************)
EXTENDS Integers, FiniteSets

CONSTANTS
    Finalizers,      \* concurrent calls of finalize_media_upload
    MaxAssets,       \* bound on the assets registered
    MaxMediaMoves,   \* bound on what posts do with an asset
    MaxLibraryFaults \* bound on deaths

ASSUME LibraryConstants ==
    /\ MaxAssets \in Nat \ {0} /\ MaxMediaMoves \in Nat /\ MaxLibraryFaults \in Nat

VARIABLES
    upload,   \* PendingUpload: its state, and media_asset
    object,   \* what storage has under its key
    assets,   \* MediaAsset rows
    usage,    \* asset -> the post that has it as PostMedia: none, draft, scheduled; the
              \* thumbnail and cover ids in a row's options protect nothing, and are left out
    finalize, \* finalizer -> none, inspect, refuse, register
    reaper,   \* sweep_pending_uploads: none, object, row
    remover,  \* who deletes -> the assets it has listed, and the one in hand
    age,      \* clock: 1 once the upload has expired, 2 once assets are old
    slips,    \* history: assets whose object went by a race told of below
    late,     \* history: assets a post took up after their deletion was decided
    dropped,  \* history: assets the sweep took from a post
    mediaMoves, libraryFaults

libraryVars == <<upload, object, assets, usage, finalize, reaper, remover, age,
                 slips, late, dropped, mediaMoves, libraryFaults>>

Removers == {"user", "sweep"}
AssetIds == 1..MaxAssets
NoAsset == 0
NoRemoval == [step |-> "none", todo |-> {}, asset |-> NoAsset]
Expired == age >= 1

\* Assets somebody has decided to delete.
Doomed(steps) == {remover[d].asset : d \in {x \in Removers : remover[x].step \in steps}}
Listed == remover["sweep"].todo \cup {remover["sweep"].asset}

-------------------------------------------------------------------------------
(* Uploading and finalizing *)

\* The presigned POST works, again and again, until it expires.
UploadBytes ==
    /\ object # "stored" /\ ~Expired /\ object' = "stored"
    /\ UNCHANGED <<upload, assets, usage, finalize, reaper, remover, age, slips, late,
                   dropped, mediaMoves, libraryFaults>>

\* An upload finalized before is answered from its row.
StartFinalize(f) ==
    /\ finalize[f] = "none" /\ upload.state = "open" /\ ~Expired
    /\ finalize' = [finalize EXCEPT ![f] = "inspect"]
    /\ UNCHANGED <<upload, object, assets, usage, reaper, remover, age, slips, late,
                   dropped, mediaMoves, libraryFaults>>

\* Outside any lock: the object may be missing, invalid or, as the organization's
\* usage stands now, too large.
Inspect(f, verdict) ==
    /\ finalize[f] = "inspect"
    /\ verdict \in (IF object = "stored" THEN {"register", "refuse"} ELSE {"none"})
    /\ finalize' = [finalize EXCEPT ![f] = verdict]
    /\ UNCHANGED <<upload, object, assets, usage, reaper, remover, age, slips, late,
                   dropped, mediaMoves, libraryFaults>>

\* "The orphaned object is deleted", be it orphaned or not.
Refuse(f) ==
    /\ finalize[f] = "refuse"
    /\ object' = "absent"
    /\ slips' = slips \cup assets
    /\ finalize' = [finalize EXCEPT ![f] = "none"]
    /\ UNCHANGED <<upload, assets, usage, reaper, remover, age, late, dropped, mediaMoves,
                   libraryFaults>>

\* Mutant: what was read before the inspection is trusted.
StillOpenUnchecked == TRUE

\* The re-check under the lock; an upload whose asset is gone counts as open.
StillOpen == ~(upload.state = "finalized" /\ upload.asset # NoAsset)

\* A row that the reaper took ends the call with an error.
Register(f) ==
    LET a == CHOOSE x \in AssetIds : x \notin assets
        new == upload.state # "gone" /\ StillOpen
    IN  /\ finalize[f] = "register"
        /\ new => assets # AssetIds
        /\ finalize' = [finalize EXCEPT ![f] = "none"]
        /\ IF new
           THEN /\ assets' = assets \cup {a}
                /\ upload' = [state |-> "finalized", asset |-> a]
                /\ slips' = IF reaper # "none" \/ object # "stored" THEN slips \cup {a}
                            ELSE slips
           ELSE UNCHANGED <<assets, upload, slips>>
        /\ UNCHANGED <<object, usage, reaper, remover, age, late, dropped, mediaMoves,
                       libraryFaults>>

-------------------------------------------------------------------------------
(* The sweep of uploads that were never finalized *)

ReaperLists ==
    /\ reaper = "none" /\ upload.state = "open" /\ Expired
    /\ reaper' = "object"
    /\ UNCHANGED <<upload, object, assets, usage, finalize, remover, age, slips, late,
                   dropped, mediaMoves, libraryFaults>>

\* Best effort: the storage call may fail.
ReaperDeletesObject(works) ==
    /\ reaper = "object" /\ reaper' = "row"
    /\ object' = IF works THEN "absent" ELSE object
    /\ UNCHANGED <<upload, assets, usage, finalize, remover, age, slips, late, dropped,
                   mediaMoves, libraryFaults>>

ReaperDeletesRow ==
    /\ reaper = "row" /\ reaper' = "none"
    /\ upload' = [state |-> "gone", asset |-> NoAsset]
    /\ UNCHANGED <<object, assets, usage, finalize, remover, age, slips, late, dropped,
                   mediaMoves, libraryFaults>>

-------------------------------------------------------------------------------
(* Deleting assets *)

UserDeletes(a) ==
    /\ remover["user"] = NoRemoval /\ a \in assets
    /\ remover' = [remover EXCEPT !["user"] = [step |-> "check", todo |-> {}, asset |-> a]]
    /\ UNCHANGED <<upload, object, assets, usage, finalize, reaper, age, slips, late,
                   dropped, mediaMoves, libraryFaults>>

\* Mutant: the sweep lists what is old, used or not.
OldAssets == assets

Orphans == {a \in assets : usage[a] = "none"}

SweepLists ==
    /\ remover["sweep"] = NoRemoval /\ age = 2 /\ Orphans # {}
    /\ remover' = [remover EXCEPT !["sweep"] = [step |-> "next", todo |-> Orphans,
                                                asset |-> NoAsset]]
    /\ UNCHANGED <<upload, object, assets, usage, finalize, reaper, age, slips, late,
                   dropped, mediaMoves, libraryFaults>>

SweepTakes(a) ==
    /\ remover["sweep"].step = "next" /\ a \in remover["sweep"].todo
    /\ remover' = [remover EXCEPT !["sweep"] =
                     [step |-> "check", todo |-> @.todo \ {a}, asset |-> a]]
    /\ UNCHANGED <<upload, object, assets, usage, finalize, reaper, age, slips, late,
                   dropped, mediaMoves, libraryFaults>>

Finished(d) == IF remover[d].todo = {} THEN NoRemoval
               ELSE [remover[d] EXCEPT !.step = "next", !.asset = NoAsset]

\* Only posts about to be sent protect an asset.
CheckReferences(d) ==
    LET a == remover[d].asset
    IN  /\ remover[d].step = "check"
        /\ remover' = [remover EXCEPT ![d] =
                         IF a \in assets /\ usage[a] # "scheduled"
                         THEN [remover[d] EXCEPT !.step = "file"] ELSE Finished(d)]
        /\ UNCHANGED <<upload, object, assets, usage, finalize, reaper, age, slips, late,
                       dropped, mediaMoves, libraryFaults>>

DeleteFile(d) ==
    /\ remover[d].step = "file"
    /\ object' = "absent"
    /\ slips' = slips \cup (assets \ {remover[d].asset})
    /\ remover' = [remover EXCEPT ![d].step = "row"]
    /\ UNCHANGED <<upload, assets, usage, finalize, reaper, age, late, dropped, mediaMoves,
                   libraryFaults>>

\* The uses of the asset go with it, and the upload's link is nulled.
DeleteAsset(d) ==
    LET a == remover[d].asset
    IN  /\ remover[d].step = "row"
        /\ assets' = assets \ {a}
        /\ usage' = [usage EXCEPT ![a] = "none"]
        /\ upload' = IF upload.asset = a THEN [upload EXCEPT !.asset = NoAsset] ELSE upload
        /\ dropped' = IF d = "sweep" /\ usage[a] # "none" THEN dropped \cup {a} ELSE dropped
        /\ slips' = slips \ {a}
        /\ remover' = [remover EXCEPT ![d] = Finished(d)]
        /\ UNCHANGED <<object, finalize, reaper, age, late, mediaMoves, libraryFaults>>

\* A death after the file is deleted leaves the row.
RemoverDies(d) ==
    /\ remover[d] # NoRemoval
    /\ libraryFaults < MaxLibraryFaults /\ libraryFaults' = libraryFaults + 1
    /\ slips' = IF remover[d].step = "row" THEN slips \cup {remover[d].asset} ELSE slips
    /\ remover' = [remover EXCEPT ![d] = NoRemoval]
    /\ UNCHANGED <<upload, object, assets, usage, finalize, reaper, age, late, dropped,
                   mediaMoves>>

-------------------------------------------------------------------------------
(* Posts *)

\* Attach, schedule, cancel or publish, detach.
Use(a, from, to) ==
    /\ <<from, to>> \in {<<"none", "draft">>, <<"draft", "scheduled">>,
                         <<"scheduled", "draft">>, <<"draft", "none">>}
    /\ a \in assets /\ usage[a] = from
    /\ mediaMoves < MaxMediaMoves /\ mediaMoves' = mediaMoves + 1
    /\ usage' = [usage EXCEPT ![a] = to]
    /\ late' = IF \/ to = "scheduled" /\ (a \in Doomed({"file", "row"}) \/ object # "stored")
                  \/ from = "none" /\ a \in Listed
               THEN late \cup {a} ELSE late
    /\ UNCHANGED <<upload, object, assets, finalize, reaper, remover, age, slips,
                   dropped, libraryFaults>>

Grow ==
    /\ age < 2 /\ age' = age + 1
    /\ UNCHANGED <<upload, object, assets, usage, finalize, reaper, remover, slips, late,
                   dropped, mediaMoves, libraryFaults>>

-------------------------------------------------------------------------------

LibraryInit ==
    /\ upload = [state |-> "open", asset |-> NoAsset]
    /\ object = "absent" /\ assets = {}
    /\ usage = [a \in AssetIds |-> "none"]
    /\ finalize = [f \in Finalizers |-> "none"]
    /\ reaper = "none" /\ remover = [d \in Removers |-> NoRemoval]
    /\ age = 0 /\ slips = {} /\ late = {} /\ dropped = {}
    /\ mediaMoves = 0 /\ libraryFaults = 0

LibraryNext ==
    \/ UploadBytes
    \/ \E f \in Finalizers :
          \/ StartFinalize(f) \/ Refuse(f) \/ Register(f)
          \/ \E verdict \in {"none", "refuse", "register"} : Inspect(f, verdict)
    \/ ReaperLists \/ ReaperDeletesRow
    \/ \E works \in BOOLEAN : ReaperDeletesObject(works)
    \/ \E a \in AssetIds :
          \/ UserDeletes(a) \/ SweepTakes(a)
          \/ \E from, to \in {"none", "draft", "scheduled"} : Use(a, from, to)
    \/ SweepLists
    \/ \E d \in Removers :
          CheckReferences(d) \/ DeleteFile(d) \/ DeleteAsset(d) \/ RemoverDies(d)
    \/ Grow

LibrarySpec == LibraryInit /\ [][LibraryNext]_libraryVars

-------------------------------------------------------------------------------

LibraryTypeOK ==
    /\ upload \in [state: {"open", "finalized", "gone"}, asset: 0..MaxAssets]
    /\ upload.asset # NoAsset => upload.asset \in assets
    /\ object \in {"absent", "stored"} /\ assets \subseteq AssetIds
    /\ usage \in [AssetIds -> {"none", "draft", "scheduled"}]
    /\ \A a \in AssetIds \ assets : usage[a] = "none"
    /\ finalize \in [Finalizers -> {"none", "inspect", "refuse", "register"}]
    /\ reaper \in {"none", "object", "row"}
    /\ \A d \in Removers : remover[d].step \in {"none", "next", "check", "file", "row"}

\* An upload gives one asset, however many calls finalize it, and the asset has its
\* object until it is deleted itself; only a second call that is refused, the reaper
\* overtaking a call that began before the upload expired, or a deletion racing the
\* registration or dying half way takes the object from it.
OneAssetWithItsObject ==
    \A a \in assets \ slips :
        /\ object = "stored" \/ a \in Doomed({"row"})
        /\ \A x \in assets \ slips : x = a

\* What a scheduled post shows stays, and the sweep takes nothing from any post: a
\* post that took the asset up after the check, or after the sweep's look at all
\* references, is the exception.
MediaOfPostsStays ==
    \A a \in AssetIds \ late :
        /\ usage[a] = "scheduled" => a \notin Doomed({"file", "row"})
        /\ a \notin dropped

\* Both of the two above: the library keeps what it registered and what posts show.
LibraryIsSound == OneAssetWithItsObject /\ MediaOfPostsStays

\* "a finalize that won the race while we inspected still wins": before the upload
\* expires its asset has its object, unless it is being deleted.
WinnerKeepsItsObject ==
    age = 0 /\ libraryFaults = 0 /\ upload.asset # NoAsset /\ remover["user"] = NoRemoval
        => object = "stored"
===============================================================================
