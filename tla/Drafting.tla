------------------------------- MODULE Drafting --------------------------------
(***************************************************************************)
(* One compose page opened for a new post (apps/composer/views.py): its     *)
(* autosaves, saves and uploads run side by side and share, with every      *)
(* other request of the browser, one session row, which each reads when it  *)
(* starts and writes whole when it ends (SESSION_SAVE_EVERY_REQUEST).       *)
(* Beside it, the rows of a post from which a save removes accounts while   *)
(* the engine publishes them.                                               *)
(***************************************************************************)
EXTENDS Integers, FiniteSets, Sequences, PlatformPostStatus

CONSTANTS Uploads,        \* files the author has to upload
          Library,        \* assets the workspace had before
          MaxDraftCalls,  \* bound on the page's requests
          MaxLostAnswers, \* bound on answers that never reach the page
          PostAccounts,   \* accounts of the post that is being published
          Savers,         \* browser tabs that edit it
          MaxSaves        \* bound on their saves

ASSUME DraftingAssumption ==
    /\ Uploads \cap Library = {} /\ MaxDraftCalls \in Nat /\ MaxLostAnswers \in Nat
    /\ MaxSaves \in Nat

VARIABLES
    drafts,     \* posts the page created: each the set of its media
    page,       \* the post it knows of, and its thumbnails: pending or attached
    pendingMedia,    \* pending_media_<workspace>
    library,     \* the media library
    pageCalls,      \* kind of request -> the one under way
    callCount,
    draftPast,  \* history, see DraftHistory
    children,   \* account -> status of its PlatformPost, or NoChild
    saves,      \* tab -> the save under way
    saveCount,
    childPast   \* history, see ChildHistory

draftVars == <<drafts, page, pendingMedia, library, pageCalls, callCount, draftPast>>

NoCall == [url |-> -1]
Calls == {"autosave", "save", "upload", "pick", "remove", "detach", "preview", "open"}

Thumbs == page.pending \cup page.attached

-------------------------------------------------------------------------------
(* A request starts: its URL is the page's, the session is read. *)

\* The browser sends one autosave, one form and one upload at a time.
StartCall(kind, subject) ==
    /\ pageCalls[kind] = NoCall /\ callCount < MaxDraftCalls
    /\ kind = "upload" => subject \in Uploads \ (library \cup Thumbs)
    /\ kind = "pick" => subject \in Library \ Thumbs
    /\ kind = "remove" => subject \in page.pending
    /\ kind = "detach" => subject \in page.attached
    /\ kind \in {"upload", "pick", "remove", "detach"} \/ subject = "none"
    /\ pageCalls' = [pageCalls EXCEPT ![kind] =
                      [url |-> page.post, read |-> pendingMedia, subject |-> subject]]
    /\ callCount' = callCount + 1
    /\ UNCHANGED <<drafts, page, pendingMedia, library, draftPast>>

\* It ends: the whole session is written, over what others wrote meanwhile.
EndCall(kind, written) ==
    /\ pageCalls[kind] # NoCall /\ pageCalls' = [pageCalls EXCEPT ![kind] = NoCall]
    /\ pendingMedia' = written
    /\ UNCHANGED callCount

\* History: a session written since it was read; what an answer's loss or a save by
\* hand leaves behind.
Noted(kind, past) ==
    draftPast' = [past EXCEPT !.crossed = @ \/ pendingMedia # pageCalls[kind].read]

-------------------------------------------------------------------------------
(* What the handlers do *)

\* Mutant: the form created by an autosave leaves the pending media where they are.
NothingAttached(call) == {}

\* "Attach pending session media when creating a new post"
MediaOfNew(call) == call.read \cap library

\* The answer of a creating autosave switches the page's URLs to the post.
Autosave(lost) ==
    LET call == pageCalls["autosave"]
        created == Len(drafts) + 1
    IN  /\ EndCall("autosave", IF call.url = 0 THEN {} ELSE call.read)
        /\ IF call.url = 0
           THEN /\ drafts' = Append(drafts, MediaOfNew(call))
                /\ page' = IF lost THEN page ELSE [page EXCEPT !.post = created]
           ELSE UNCHANGED <<drafts, page>>
        /\ Noted("autosave", [draftPast EXCEPT !.lost = IF lost THEN @ + 1 ELSE @])
        /\ lost => call.url = 0 /\ draftPast.lost < MaxLostAnswers
        /\ UNCHANGED library

\* save_post: the page learns nothing of a post created so.
Save ==
    LET call == pageCalls["save"]
    IN  /\ EndCall("save", IF call.url = 0 THEN {} ELSE call.read)
        /\ drafts' = IF call.url = 0 THEN Append(drafts, MediaOfNew(call)) ELSE drafts
        /\ Noted("save", [draftPast EXCEPT !.byHand = IF call.url = 0 THEN @ + 1 ELSE @])
        /\ UNCHANGED <<page, library>>

\* Mutant: an upload to a post leaves the pending ones alone.
JustUploaded(call) == {call.subject}

\* _attach_asset_for_composer "migrates any session-pending media first"
Migrated(call) == (call.read \cap library) \cup {call.subject}

UploadMedia ==
    LET call == pageCalls["upload"]
        toPost == call.url # 0
    IN  /\ EndCall("upload", IF toPost THEN {} ELSE call.read \cup {call.subject})
        /\ library' = library \cup {call.subject}
        /\ drafts' = IF toPost THEN [drafts EXCEPT ![call.url] = @ \cup Migrated(call)] ELSE drafts
        /\ page' = IF toPost THEN [page EXCEPT !.attached = @ \cup {call.subject}]
                   ELSE [page EXCEPT !.pending = @ \cup {call.subject}]
        /\ Noted("upload", [draftPast EXCEPT
                              !.straggled = IF toPost THEN @ \ call.read
                                            ELSE IF drafts # <<>> THEN @ \cup {call.subject} ELSE @])

\* The picker of a page opened for a new post stays at attach_pending_media.
Pick ==
    LET call == pageCalls["pick"]
        found == call.subject \in library
    IN  /\ EndCall("pick", IF found THEN call.read \cup {call.subject} ELSE call.read)
        /\ page' = IF found THEN [page EXCEPT !.pending = @ \cup {call.subject}] ELSE page
        /\ Noted("pick", [draftPast EXCEPT
                            !.straggled = IF drafts # <<>> THEN @ \cup {call.subject} ELSE @])
        /\ UNCHANGED <<drafts, library>>

\* remove_pending_media deletes the asset itself, wherever it is used; the answer
\* replaces the thumbnails by what is pending.
RemovePending ==
    LET call == pageCalls["remove"]
        left == call.read \ {call.subject}
    IN  /\ EndCall("remove", left)
        /\ library' = library \ {call.subject}
        /\ drafts' = [d \in DOMAIN drafts |-> drafts[d] \ {call.subject}]
        /\ page' = [page EXCEPT !.pending = left \cap library', !.attached = {}]
        /\ Noted("remove", draftPast)

Detach ==
    LET call == pageCalls["detach"]
    IN  /\ EndCall("detach", call.read)
        /\ drafts' = [drafts EXCEPT ![call.url] = @ \ {call.subject}]
        /\ page' = [page EXCEPT !.attached = @ \ {call.subject}]
        /\ Noted("detach", draftPast)
        /\ UNCHANGED library

\* Any view that only reads writes the session it read, too.
Preview ==
    /\ EndCall("preview", pageCalls["preview"].read)
    /\ Noted("preview", draftPast)
    /\ UNCHANGED <<drafts, page, library>>

\* Another compose page of this browser: "Clear any stale pending media".
OpenAnother ==
    /\ EndCall("open", {})
    /\ Noted("open", [draftPast EXCEPT !.cleared = TRUE])
    /\ UNCHANGED <<drafts, page, library>>

DraftHistory == [byHand |-> 0, lost |-> 0, straggled |-> {}, crossed |-> FALSE, cleared |-> FALSE]

\* compose: "Each compose page load starts fresh".
DraftInit ==
    /\ drafts = <<>> /\ page = [post |-> 0, pending |-> {}, attached |-> {}] /\ pendingMedia = {}
    /\ library = Library /\ pageCalls = [k \in Calls |-> NoCall] /\ callCount = 0
    /\ draftPast = DraftHistory

DraftNext ==
    \/ \E kind \in Calls, x \in Uploads \cup Library \cup {"none"} : StartCall(kind, x)
    \/ \E lost \in BOOLEAN : Autosave(lost)
    \/ Save \/ UploadMedia \/ Pick \/ RemovePending \/ Detach \/ Preview \/ OpenAnother

DraftTypeOK ==
    /\ page.post \in 0 .. Len(drafts)
    /\ pendingMedia \subseteq Uploads \cup Library /\ library \subseteq Uploads \cup Library
    /\ \A d \in DOMAIN drafts : drafts[d] \subseteq library

\* "preventing duplicate drafts on subsequent ticks": a page makes one post, and
\* another only for a save by hand it was not told about and for a lost answer.
OneDraft == Len(drafts) <= 1 + draftPast.byHand + draftPast.lost

\* What a page that knows its post shows is attached to it.  The exceptions are all
\* there is: media put in the session once there was a post, until the next upload
\* migrates them, a save by hand that took them, two requests that wrote one session,
\* another page that cleared it.
MediaReachPost ==
    page.post # 0 /\ ~draftPast.crossed /\ ~draftPast.cleared =>
        \A a \in (Thumbs \cap library) \ draftPast.straggled :
            \E d \in DOMAIN drafts :
                a \in drafts[d] /\ (d = page.post \/ draftPast.byHand + draftPast.lost > 0)

DraftingIsSound == OneDraft /\ MediaReachPost

-------------------------------------------------------------------------------
(* The rows of one post: _remove_deselected_platform_posts, _sync_platform_posts *)

childVars == <<children, saves, saveCount, childPast>>

NoChild == "none"
NoSave == [step |-> "idle"]
All == "all"

\* Mutant: a page scoped to one account is taken for the whole selection.
Whole(scope) == PostAccounts

\* account_scope: the accounts whose deselection the form can mean
Rendered(scope) == IF scope = All THEN PostAccounts ELSE {scope}

\* QuerySet.delete reads the rows, then deletes what it read.
CollectDeselected(t, wanted, scope) ==
    LET meant == {a \in Rendered(scope) \ wanted : children[a] # NoChild}
    IN  /\ saves[t] = NoSave /\ saveCount < MaxSaves
        /\ scope = All \/ wanted \subseteq {scope}
        /\ saves' = [saves EXCEPT ![t] =
                       [step |-> "delete", wanted |-> wanted,
                        doomed |-> {a \in meant : children[a] \notin ProtectedStatuses}]]
        /\ saveCount' = saveCount + 1
        /\ childPast' = [childPast EXCEPT !.meant = @ \cup ((IF scope = All THEN PostAccounts
                                                             ELSE {scope}) \ wanted)]
        /\ UNCHANGED children

DeleteDeselected(t) ==
    /\ saves[t].step = "delete"
    /\ children' = [a \in PostAccounts |-> IF a \in saves[t].doomed THEN NoChild ELSE children[a]]
    /\ saves' = [saves EXCEPT ![t].step = "create", ![t].doomed = {}]
    /\ UNCHANGED <<saveCount, childPast>>

\* get_or_create, with the initial status of the action
CreateSelected(t, status) ==
    /\ saves[t].step = "create"
    /\ children' = [a \in PostAccounts |->
                       IF a \in saves[t].wanted /\ children[a] = NoChild THEN status ELSE children[a]]
    /\ childPast' = [childPast EXCEPT !.had = @ \cup saves[t].wanted]
    /\ saves' = [saves EXCEPT ![t] = NoSave]
    /\ UNCHANGED saveCount

\* The engine: the claim and the outcome.
ClaimChild(a) ==
    /\ children[a] = "scheduled"
    /\ children' = [children EXCEPT ![a] = "publishing"]
    /\ childPast' = [childPast EXCEPT
                       !.collected = IF \E t \in Savers : saves[t].step = "delete" /\ a \in saves[t].doomed
                                     THEN @ \cup {a} ELSE @,
                       !.sent = @ \cup {a}]
    /\ UNCHANGED <<saves, saveCount>>

PublishChild(a) ==
    /\ children[a] = "publishing"
    /\ children' = [children EXCEPT ![a] = "published"]
    /\ UNCHANGED <<saves, saveCount, childPast>>

\* meant: accounts some form deselected; had: accounts that had a row; sent: accounts
\* whose row was claimed, and collected: claimed between the two steps of a deletion.
ChildHistory == [meant |-> {}, had |-> PostAccounts, sent |-> {}, collected |-> {}]

ChildInit ==
    /\ children = [a \in PostAccounts |-> "scheduled"] /\ saves = [t \in Savers |-> NoSave]
    /\ saveCount = 0 /\ childPast = ChildHistory

ChildNext ==
    \/ \E t \in Savers :
          \/ \E wanted \in SUBSET PostAccounts, scope \in PostAccounts \cup {All} :
                CollectDeselected(t, wanted, scope)
          \/ DeleteDeselected(t) \/ \E status \in {"draft", "scheduled"} : CreateSelected(t, status)
    \/ \E a \in PostAccounts : ClaimChild(a) \/ PublishChild(a)

ChildTypeOK ==
    \A a \in PostAccounts : children[a] \in {NoChild, "draft", "scheduled"} \cup ProtectedStatuses

\* "restrict deletion to the scoped account to keep siblings intact", "published/publishing
\* rows are never deleted by deselection": a row is gone only if a form that showed its
\* account deselected it, and one that was sent only if it was claimed while a deletion
\* had it in hand.
SiblingsKept ==
    \A a \in childPast.had :
        children[a] = NoChild =>
            a \in childPast.meant /\ (a \in childPast.sent => a \in childPast.collected)
===============================================================================
