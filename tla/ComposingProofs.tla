---------------------------- MODULE ComposingProofs ----------------------------
(***************************************************************************)
(* Theorems about what an author composes from: drafts and the rows made of *)
(* them (Drafting), the board of ideas (Ideas), bulk import (CsvImport) and *)
(* the media library with its folders and versions (MediaLibrary,           *)
(* MediaFolders, MediaVersions).                                            *)
(***************************************************************************)
EXTENDS Drafting, Ideas, CsvImport, MediaLibrary, MediaFolders, MediaVersions, SequenceTheorems,
        FiniteSetTheorems, WellFoundedInduction, TLAPS

-------------------------------------------------------------------------------
(* Drafting: what the page, the session and the requests under way hold *)

Assets == Uploads \cup Library
CallRow == [url: Nat, read: SUBSET Assets, subject: Assets \cup {"none"}]
DraftNotes == [byHand: Nat, lost: Nat, straggled: SUBSET Assets, crossed: BOOLEAN, cleared: BOOLEAN]

DraftTypes ==
    /\ drafts \in Seq(SUBSET Assets)
    /\ page \in [post: Nat, pending: SUBSET Assets, attached: SUBSET Assets]
    /\ page.post <= Len(drafts)
    /\ pendingMedia \subseteq Assets /\ library \subseteq Assets
    /\ pageCalls \in [Calls -> CallRow \cup {NoCall}]
    /\ \A d \in DOMAIN drafts : drafts[d] \subseteq library
    /\ draftPast \in DraftNotes

InFlight(kind) == pageCalls[kind] # NoCall

\* A post is the page's own, or was made by a save it was not told about or by an
\* answer it lost; a creating autosave is under way only while the page has no post.
DraftsCounted ==
    /\ Len(drafts) = (IF page.post = 0 THEN 0 ELSE 1) + draftPast.byHand + draftPast.lost
    /\ \A kind \in Calls : InFlight(kind) => pageCalls[kind].url \in {0, page.post}
    /\ pageCalls["autosave"].url = 0 => page.post = 0

\* What the requests under way are about.
SubjectsKnown ==
    /\ InFlight("upload") => pageCalls["upload"].subject \in Uploads
    /\ InFlight("pick") => pageCalls["pick"].subject \in Library
    /\ InFlight("detach") => pageCalls["detach"].url # 0
    /\ page.post = 0 => page.attached = {}

\* Where the files are that requests under way are about.
SubjectsPlaced ==
    /\ InFlight("upload") =>
          pageCalls["upload"].subject \notin library
    /\ InFlight("remove") =>
          /\ pageCalls["remove"].subject \in library
          /\ pageCalls["remove"].subject \notin page.attached
    /\ InFlight("detach") =>
          /\ pageCalls["detach"].subject \in library \cap Uploads
          /\ pageCalls["detach"].subject \notin page.pending \cup pendingMedia
          /\ InFlight("remove") => pageCalls["remove"].subject # pageCalls["detach"].subject

InPost(a) == \E d \in DOMAIN drafts : a \in drafts[d]

\* What the page shows is in the library; what it shows as pending waits in the session
\* until there is a post, and then is in one, or came too late for it.
MediaPlaced ==
    /\ page.pending \cup page.attached \subseteq library
    /\ page.attached \subseteq Uploads
    /\ page.attached \cap (page.pending \cup pendingMedia) = {}
    /\ drafts = <<>> => /\ page.pending \cap library \subseteq pendingMedia
                        /\ draftPast.straggled = {}
    /\ drafts # <<>> =>
          /\ pendingMedia \subseteq draftPast.straggled
          /\ \A a \in page.pending \ draftPast.straggled : InPost(a)
          /\ page.post # 0 /\ draftPast.byHand + draftPast.lost = 0 =>
                page.pending \ draftPast.straggled \subseteq drafts[page.post]
    /\ page.post # 0 => page.attached \subseteq drafts[page.post]

DraftInv ==
    /\ DraftTypes /\ DraftsCounted /\ SubjectsKnown
    /\ ~draftPast.crossed /\ ~draftPast.cleared => SubjectsPlaced /\ MediaPlaced

Calm == ~draftPast.crossed /\ ~draftPast.cleared

\* What the end of a request leaves of it and of the others.
LEMMA CallEnds ==
    ASSUME DraftTypes, NEW kind \in Calls, NEW written, written \subseteq Assets,
           EndCall(kind, written)
    PROVE  /\ pageCalls[kind] \in CallRow
           /\ pageCalls' \in [Calls -> CallRow \cup {NoCall}]
           /\ pageCalls'[kind] = NoCall
           /\ \A k \in Calls : k # kind => pageCalls'[k] = pageCalls[k]
           /\ pendingMedia' = written
BY DEF DraftTypes, EndCall

\* What is noted when a request ends; without a crossing its copy was current.
LEMMA CallNoted ==
    ASSUME DraftTypes, NEW kind \in Calls, NEW past \in DraftNotes, Noted(kind, past),
           past.crossed = draftPast.crossed
    PROVE  /\ draftPast' \in DraftNotes
           /\ draftPast'.byHand = past.byHand /\ draftPast'.lost = past.lost
           /\ draftPast'.straggled = past.straggled /\ draftPast'.cleared = past.cleared
           /\ ~draftPast'.crossed => ~draftPast.crossed /\ pendingMedia = pageCalls[kind].read
BY DEF Noted, DraftNotes

\* What a new post leaves of those there were.
LEMMA PostAdded ==
    ASSUME DraftTypes, NEW media, media \subseteq library, drafts' = Append(drafts, media)
    PROVE  /\ drafts' \in Seq(SUBSET Assets) /\ Len(drafts') = Len(drafts) + 1
           /\ drafts'[Len(drafts) + 1] = media
           /\ \A d \in DOMAIN drafts : d \in DOMAIN drafts' /\ drafts'[d] = drafts[d]
           /\ \A d \in DOMAIN drafts' : d \in DOMAIN drafts \/ d = Len(drafts) + 1
           /\ Len(drafts) + 1 \in DOMAIN drafts' /\ drafts' # <<>>
           /\ \A d \in DOMAIN drafts' : drafts'[d] \subseteq library
BY DEF DraftTypes

LEMMA DraftInvInit == DraftInit => DraftInv
<1> SUFFICES ASSUME DraftInit PROVE DraftInv
    OBVIOUS
<1>1. DraftTypes
    BY DEF DraftInit, DraftTypes, DraftHistory, DraftNotes, Assets
<1>2. DraftsCounted
    BY DEF DraftInit, DraftsCounted, DraftHistory, InFlight, NoCall, Calls
<1>3. SubjectsPlaced /\ MediaPlaced /\ SubjectsKnown
    BY DEF DraftInit, SubjectsPlaced, SubjectsKnown, MediaPlaced, InPost, DraftHistory, InFlight, Calls
<1> QED BY <1>1, <1>2, <1>3 DEF DraftInv

LEMMA StartCallKeeps ==
    ASSUME DraftInv, NEW kind \in Calls, NEW x \in Assets \cup {"none"}, StartCall(kind, x)
    PROVE  DraftInv'
<1>1. /\ pageCalls[kind] = NoCall
      /\ pageCalls' = [pageCalls EXCEPT ![kind] =
                         [url |-> page.post, read |-> pendingMedia, subject |-> x]]
      /\ UNCHANGED <<drafts, page, pendingMedia, library, draftPast>>
    BY DEF StartCall
<1>2. /\ pageCalls' \in [Calls -> CallRow \cup {NoCall}]
      /\ pageCalls'[kind] = [url |-> page.post, read |-> pendingMedia, subject |-> x]
      /\ \A k \in Calls : k # kind => pageCalls'[k] = pageCalls[k]
    BY <1>1 DEF DraftInv, DraftTypes, CallRow
<1>3. DraftTypes'
    BY <1>1, <1>2 DEF DraftInv, DraftTypes
<1>4. DraftsCounted'
    BY <1>1, <1>2 DEF DraftInv, DraftTypes, DraftsCounted, InFlight, Calls, NoCall
<1>6. SubjectsKnown'
    BY <1>1, <1>2 DEF StartCall, DraftInv, SubjectsKnown, InFlight, Calls
<1>5. ASSUME ~draftPast'.crossed, ~draftPast'.cleared PROVE SubjectsPlaced' /\ MediaPlaced'
    <2>1. SubjectsPlaced /\ MediaPlaced
        BY <1>1, <1>5 DEF DraftInv
    <2>2. MediaPlaced'
        BY <1>1, <2>1 DEF MediaPlaced, InPost
    <2>3. SubjectsPlaced'
        BY <1>1, <1>2, <2>1 DEF StartCall, SubjectsPlaced, MediaPlaced, InFlight, Calls, NoCall, Thumbs
    <2> QED BY <2>2, <2>3
<1> QED BY <1>3, <1>4, <1>5, <1>6 DEF DraftInv


LEMMA AutosaveKeeps ==
    ASSUME DraftInv, NEW lost \in BOOLEAN, Autosave(lost)
    PROVE  DraftInv'
<1> DEFINE call == pageCalls["autosave"]
           past == [draftPast EXCEPT !.lost = IF lost THEN @ + 1 ELSE @]
           written == IF call.url = 0 THEN {} ELSE call.read
<1>1. "autosave" \in Calls /\ DraftTypes /\ EndCall("autosave", written) /\ Noted("autosave", past)
    BY DEF Calls, DraftInv, Autosave
<1>2. call \in CallRow
    BY <1>1 DEF DraftTypes, EndCall
<1>3. /\ pageCalls' \in [Calls -> CallRow \cup {NoCall}] /\ pageCalls'["autosave"] = NoCall
      /\ \A k \in Calls : k # "autosave" => pageCalls'[k] = pageCalls[k]
      /\ pendingMedia' = written
    BY <1>1, <1>2, CallEnds DEF CallRow
<1>4. /\ past \in DraftNotes /\ past.crossed = draftPast.crossed
      /\ past.byHand = draftPast.byHand /\ past.straggled = draftPast.straggled
      /\ past.cleared = draftPast.cleared
      /\ past.lost = IF lost THEN draftPast.lost + 1 ELSE draftPast.lost
    BY <1>1 DEF DraftTypes, DraftNotes
<1>5. /\ draftPast' \in DraftNotes
      /\ draftPast'.byHand = draftPast.byHand /\ draftPast'.straggled = draftPast.straggled
      /\ draftPast'.lost = IF lost THEN draftPast.lost + 1 ELSE draftPast.lost
      /\ Calm' => Calm /\ pendingMedia = call.read
    BY <1>1, <1>4, CallNoted DEF Calm
<1>6. CASE call.url # 0
    <2>1. UNCHANGED <<drafts, page, library>> /\ ~lost /\ written = call.read
        BY <1>6 DEF Autosave
    <2>2. DraftTypes'
        BY <1>1, <1>2, <1>3, <1>5, <2>1 DEF DraftTypes, CallRow
    <2>3. DraftsCounted'
        BY <1>1, <1>3, <1>5, <2>1 DEF DraftInv, DraftTypes, DraftsCounted, InFlight, NoCall
    <2>4. ASSUME Calm' PROVE SubjectsPlaced' /\ MediaPlaced'
        BY <1>3, <1>5, <2>1, <2>4 DEF DraftInv, Calm, SubjectsPlaced, MediaPlaced, InPost, InFlight, Calls
    <2>5. SubjectsKnown'
        BY <1>3, <2>1 DEF DraftInv, SubjectsKnown, InFlight, Calls
    <2> QED BY <2>2, <2>3, <2>4, <2>5 DEF DraftInv, Calm
<1>7. CASE call.url = 0
    <2>0. PICK n \in Nat : n = Len(drafts) + 1
        BY <1>1 DEF DraftTypes
    <2>1. /\ written = {} /\ UNCHANGED library
          /\ drafts' = Append(drafts, call.read \cap library)
          /\ page' = IF lost THEN page ELSE [page EXCEPT !.post = n]
          /\ page.post = 0
        BY <1>7, <2>0 DEF Autosave, MediaOfNew, DraftInv, DraftsCounted
    <2>2. /\ drafts' \in Seq(SUBSET Assets) /\ Len(drafts') = n /\ drafts'[n] = call.read \cap library
          /\ \A d \in DOMAIN drafts : d \in DOMAIN drafts' /\ drafts'[d] = drafts[d]
          /\ n \in DOMAIN drafts' /\ drafts' # <<>>
          /\ \A d \in DOMAIN drafts' : drafts'[d] \subseteq library
        BY <1>1, <2>0, <2>1, PostAdded
    <2>3. /\ page' \in [post: Nat, pending: SUBSET Assets, attached: SUBSET Assets]
          /\ page'.post = IF lost THEN 0 ELSE n
          /\ page'.pending = page.pending /\ page'.attached = page.attached
        BY <1>1, <2>1 DEF DraftTypes
    <2>4. DraftTypes'
        <3>1. page'.post <= Len(drafts') /\ pendingMedia' \subseteq Assets /\ library' \subseteq Assets
            BY <1>1, <1>3, <2>1, <2>2, <2>3 DEF DraftTypes
        <3> QED BY <1>3, <1>5, <2>1, <2>2, <2>3, <3>1 DEF DraftTypes
    <2>5. DraftsCounted'
        <3>1. Len(drafts') = (IF page'.post = 0 THEN 0 ELSE 1) + draftPast'.byHand + draftPast'.lost
            BY <1>1, <1>5, <2>0, <2>1, <2>2, <2>3
            DEF DraftInv, DraftTypes, DraftsCounted, DraftNotes
        <3>2. ASSUME NEW kind \in Calls, pageCalls'[kind] # NoCall
              PROVE  pageCalls'[kind].url \in {0, page'.post}
            BY <1>3, <2>1, <3>2 DEF DraftInv, DraftsCounted, InFlight
        <3>3. pageCalls'["autosave"].url # 0
            BY <1>3 DEF NoCall
        <3> QED BY <3>1, <3>2, <3>3 DEF DraftsCounted, InFlight
    <2>6. ASSUME Calm' PROVE SubjectsPlaced' /\ MediaPlaced'
        <3>1. SubjectsPlaced /\ MediaPlaced /\ pendingMedia = call.read /\ pendingMedia' = {}
            BY <1>3, <1>5, <2>1, <2>6 DEF DraftInv, Calm
        <3>2. SubjectsPlaced'
            BY <1>3, <2>1, <2>3, <3>1 DEF SubjectsPlaced, InFlight, Calls
        <3>3. \A a \in page.pending \ draftPast.straggled : InPost(a)'
            BY <2>2, <3>1 DEF MediaPlaced, InPost
        <3>4. draftPast'.byHand + draftPast'.lost = 0 => drafts = <<>>
            BY <1>1, <1>5, <2>1 DEF DraftInv, DraftsCounted, DraftTypes, DraftNotes
        <3>5. MediaPlaced'
            <4>1. page.attached = {}
                BY <2>1 DEF DraftInv, SubjectsKnown
            <4> QED BY <1>5, <2>1, <2>2, <2>3, <3>1, <3>3, <3>4, <4>1 DEF MediaPlaced
        <3> QED BY <3>2, <3>5
    <2>7. SubjectsKnown'
        BY <1>3, <2>1, <2>3 DEF DraftInv, SubjectsKnown, InFlight, Calls
    <2> QED BY <2>4, <2>5, <2>6, <2>7 DEF DraftInv, Calm
<1> QED BY <1>6, <1>7

LEMMA SaveDraftKeeps == ASSUME DraftInv, Save PROVE DraftInv'
<1> DEFINE call == pageCalls["save"]
           past == [draftPast EXCEPT !.byHand = IF call.url = 0 THEN @ + 1 ELSE @]
           written == IF call.url = 0 THEN {} ELSE call.read
<1>1. /\ "save" \in Calls /\ DraftTypes /\ EndCall("save", written) /\ Noted("save", past)
      /\ UNCHANGED <<page, library>>
      /\ drafts' = IF call.url = 0 THEN Append(drafts, call.read \cap library) ELSE drafts
    BY DEF Calls, DraftInv, Save, MediaOfNew
<1>2. call \in CallRow
    BY <1>1 DEF DraftTypes, EndCall
<1>3. /\ pageCalls' \in [Calls -> CallRow \cup {NoCall}] /\ pageCalls'["save"] = NoCall
      /\ \A k \in Calls : k # "save" => pageCalls'[k] = pageCalls[k]
      /\ pendingMedia' = written
    BY <1>1, <1>2, CallEnds DEF CallRow
<1>4. /\ past \in DraftNotes /\ past.crossed = draftPast.crossed
      /\ past.lost = draftPast.lost /\ past.straggled = draftPast.straggled
      /\ past.cleared = draftPast.cleared
      /\ past.byHand = IF call.url = 0 THEN draftPast.byHand + 1 ELSE draftPast.byHand
    BY <1>1 DEF DraftTypes, DraftNotes
<1>5. /\ draftPast' \in DraftNotes
      /\ draftPast'.lost = draftPast.lost /\ draftPast'.straggled = draftPast.straggled
      /\ draftPast'.byHand = IF call.url = 0 THEN draftPast.byHand + 1 ELSE draftPast.byHand
      /\ Calm' => Calm /\ pendingMedia = call.read
    BY <1>1, <1>4, CallNoted DEF Calm
<1>6. CASE call.url # 0
    <2>1. UNCHANGED <<drafts, page, library>> /\ written = call.read
        BY <1>1, <1>6
    <2>2. DraftTypes'
        BY <1>1, <1>2, <1>3, <1>5, <2>1 DEF DraftTypes, CallRow
    <2>3. DraftsCounted'
        BY <1>1, <1>3, <1>5, <1>6, <2>1 DEF DraftInv, DraftTypes, DraftsCounted, InFlight, NoCall, Calls
    <2>4. ASSUME Calm' PROVE SubjectsPlaced' /\ MediaPlaced'
        BY <1>3, <1>5, <1>6, <2>1, <2>4
        DEF DraftInv, Calm, SubjectsPlaced, MediaPlaced, InPost, InFlight, Calls
    <2>5. SubjectsKnown'
        BY <1>3, <2>1 DEF DraftInv, SubjectsKnown, InFlight, Calls
    <2> QED BY <2>2, <2>3, <2>4, <2>5 DEF DraftInv, Calm
<1>7. CASE call.url = 0
    <2>1. /\ drafts' \in Seq(SUBSET Assets) /\ Len(drafts') = Len(drafts) + 1 /\ drafts' # <<>>
          /\ drafts'[Len(drafts) + 1] = call.read \cap library
          /\ Len(drafts) + 1 \in DOMAIN drafts'
          /\ \A d \in DOMAIN drafts : d \in DOMAIN drafts' /\ drafts'[d] = drafts[d]
          /\ \A d \in DOMAIN drafts' : drafts'[d] \subseteq library
        BY SMTT(30), <1>1, <1>7, PostAdded
    <2>2. DraftTypes'
        <3>1. page.post <= Len(drafts') /\ pendingMedia' \subseteq Assets
            BY <1>1, <1>3, <1>7, <2>1 DEF DraftTypes
        <3> QED BY <1>1, <1>3, <1>5, <2>1, <3>1 DEF DraftTypes
    <2>3. DraftsCounted'
        <3>1. Len(drafts') = (IF page.post = 0 THEN 0 ELSE 1) + draftPast'.byHand + draftPast'.lost
            BY <1>1, <1>5, <1>7, <2>1 DEF DraftInv, DraftTypes, DraftsCounted, DraftNotes
        <3>2. ASSUME NEW kind \in Calls, pageCalls'[kind] # NoCall
              PROVE  pageCalls'[kind].url \in {0, page.post}
            BY <1>3, <3>2 DEF DraftInv, DraftsCounted, InFlight
        <3>3. pageCalls'["autosave"] = pageCalls["autosave"]
            BY <1>3 DEF Calls
        <3> QED BY <1>1, <3>1, <3>2, <3>3 DEF DraftsCounted, InFlight, DraftInv
    <2>4. ASSUME Calm' PROVE SubjectsPlaced' /\ MediaPlaced'
        <3>1. SubjectsPlaced /\ MediaPlaced /\ pendingMedia = call.read /\ pendingMedia' = {}
            BY <1>3, <1>5, <1>7, <2>4 DEF DraftInv, Calm
        <3>2. SubjectsPlaced'
            BY <1>1, <1>3, <3>1 DEF SubjectsPlaced, InFlight, Calls
        <3>3. \A a \in page.pending \ draftPast.straggled : InPost(a)'
            BY <2>1, <3>1 DEF MediaPlaced, InPost
        <3>4. draftPast'.byHand + draftPast'.lost # 0
            BY <1>1, <1>5, <1>7 DEF DraftTypes, DraftNotes
        <3>5. page.post # 0 => page.post \in DOMAIN drafts
            BY <1>1 DEF DraftTypes
        <3>6. MediaPlaced'
            BY <1>1, <1>5, <2>1, <3>1, <3>3, <3>4, <3>5 DEF MediaPlaced
        <3> QED BY <3>2, <3>6
    <2>5. SubjectsKnown'
        BY <1>1, <1>3 DEF DraftInv, SubjectsKnown, InFlight, Calls
    <2> QED BY <2>2, <2>3, <2>4, <2>5 DEF DraftInv, Calm
<1> QED BY <1>6, <1>7

LEMMA UploadKeeps == ASSUME DraftInv, UploadMedia PROVE DraftInv'
<1> DEFINE call == pageCalls["upload"]
           toPost == call.url # 0
           strays == IF toPost THEN draftPast.straggled \ call.read
                     ELSE IF drafts # <<>> THEN draftPast.straggled \cup {call.subject}
                     ELSE draftPast.straggled
           past == [draftPast EXCEPT !.straggled = strays]
           written == IF toPost THEN {} ELSE call.read \cup {call.subject}
<1>1. /\ "upload" \in Calls /\ DraftTypes /\ EndCall("upload", written)
      /\ library' = library \cup {call.subject}
      /\ drafts' = IF toPost THEN [drafts EXCEPT ![call.url] = @ \cup Migrated(call)] ELSE drafts
      /\ page' = IF toPost THEN [page EXCEPT !.attached = @ \cup {call.subject}]
                 ELSE [page EXCEPT !.pending = @ \cup {call.subject}]
      /\ Noted("upload", past)
    BY DEF Calls, DraftInv, UploadMedia
<1>2. call \in CallRow /\ call.subject \in Uploads /\ call.subject \in Assets
    BY <1>1 DEF DraftTypes, EndCall, DraftInv, SubjectsKnown, InFlight, Assets
<1>3. /\ pageCalls' \in [Calls -> CallRow \cup {NoCall}] /\ pageCalls'["upload"] = NoCall
      /\ \A k \in Calls : k # "upload" => pageCalls'[k] = pageCalls[k]
      /\ pendingMedia' = written
    BY <1>1, <1>2, CallEnds DEF CallRow
<1>4. /\ past \in DraftNotes /\ past.crossed = draftPast.crossed
      /\ past.lost = draftPast.lost /\ past.byHand = draftPast.byHand
      /\ past.cleared = draftPast.cleared /\ past.straggled = strays
    BY <1>1, <1>2 DEF DraftTypes, DraftNotes, CallRow
<1>5. /\ draftPast' \in DraftNotes
      /\ draftPast'.lost = draftPast.lost /\ draftPast'.byHand = draftPast.byHand
      /\ draftPast'.straggled = strays
      /\ Calm' => Calm /\ pendingMedia = call.read
    BY <1>1, <1>4, CallNoted DEF Calm
<1>6. call.url \in {0, page.post} /\ (toPost => call.url = page.post /\ page.post \in DOMAIN drafts)
    BY <1>1, <1>2 DEF DraftInv, DraftsCounted, InFlight, DraftTypes, EndCall
<1>7. /\ page' \in [post: Nat, pending: SUBSET Assets, attached: SUBSET Assets]
      /\ page'.post = page.post
      /\ page'.pending = IF toPost THEN page.pending ELSE page.pending \cup {call.subject}
      /\ page'.attached = IF toPost THEN page.attached \cup {call.subject} ELSE page.attached
    BY <1>1, <1>2 DEF DraftTypes
<1>8. /\ drafts' \in Seq(SUBSET Assets) /\ Len(drafts') = Len(drafts)
      /\ \A d \in DOMAIN drafts : drafts[d] \subseteq drafts'[d] /\ drafts'[d] \subseteq library'
      /\ toPost => drafts'[page.post] = drafts[page.post] \cup (call.read \cap library) \cup {call.subject}
    <2>1. CASE ~toPost
        BY <1>1, <2>1 DEF DraftTypes
    <2>2. CASE toPost
        <3>1. PICK now \in SUBSET Assets :
                 /\ now = drafts[page.post] \cup ((call.read \cap library) \cup {call.subject})
                 /\ drafts' = [drafts EXCEPT ![page.post] = now]
            BY <1>1, <1>2, <1>6, <2>2 DEF DraftTypes, CallRow, Migrated
        <3>2. /\ drafts' \in Seq(SUBSET Assets) /\ Len(drafts') = Len(drafts)
              /\ \A d \in DOMAIN drafts : drafts'[d] = IF d = page.post THEN now ELSE drafts[d]
            <4>1. drafts \in Seq(SUBSET Assets) /\ page.post \in 1..Len(drafts)
                BY <1>1, <1>6, <2>2 DEF DraftTypes
            <4> HIDE DEF toPost, call
            <4> QED BY <3>1, <4>1, ExceptSeq
        <3> QED BY <1>1, <1>6, <2>2, <3>1, <3>2 DEF DraftTypes
    <2> QED BY <2>1, <2>2
<1>9. DOMAIN drafts' = DOMAIN drafts /\ (drafts' = <<>> <=> drafts = <<>>)
    BY <1>1, <1>8 DEF DraftTypes
<1>10. DraftTypes'
    <2>1. pendingMedia' \subseteq Assets /\ library' \subseteq Assets /\ page'.post <= Len(drafts')
        BY <1>1, <1>2, <1>3, <1>7, <1>8 DEF DraftTypes, CallRow
    <2> QED BY <1>3, <1>5, <1>7, <1>8, <1>9, <2>1 DEF DraftTypes
<1>11. DraftsCounted'
    BY <1>1, <1>3, <1>5, <1>7, <1>8 DEF DraftInv, DraftsCounted, InFlight, Calls
<1>12. SubjectsKnown'
    BY <1>1, <1>3, <1>6, <1>7 DEF DraftInv, SubjectsKnown, InFlight, Calls, DraftTypes
<1>13. ASSUME Calm' PROVE SubjectsPlaced' /\ MediaPlaced'
    <2>1. SubjectsPlaced /\ MediaPlaced /\ pendingMedia = call.read /\ call.subject \notin library
        BY <1>1, <1>5, <1>13 DEF DraftInv, Calm, SubjectsPlaced, InFlight, EndCall
    <2>2. SubjectsPlaced'
        BY <1>1, <1>2, <1>3, <1>7, <2>1 DEF SubjectsPlaced, InFlight, Calls
    <2>3. ASSUME toPost PROVE MediaPlaced'
        <3>1. /\ pendingMedia' = {} /\ page'.pending = page.pending
              /\ page'.attached = page.attached \cup {call.subject}
              /\ draftPast'.straggled = draftPast.straggled \ pendingMedia
              /\ page'.post = page.post /\ page.post \in DOMAIN drafts /\ drafts # <<>>
            BY <1>1, <1>3, <1>5, <1>6, <1>7, <2>1, <2>3 DEF DraftTypes
        <3>2. /\ pendingMedia \cap library \subseteq drafts'[page.post]
              /\ page'.attached \subseteq drafts'[page.post]
            BY <1>8, <2>1, <2>3, <3>1 DEF MediaPlaced
        <3>3. \A a \in page.pending \ draftPast'.straggled : InPost(a)'
            BY <1>8, <1>9, <2>1, <3>1, <3>2 DEF MediaPlaced, InPost
        <3>4. draftPast'.byHand + draftPast'.lost = 0 =>
                 page.pending \ draftPast'.straggled \subseteq drafts'[page.post]
            BY <1>5, <1>8, <2>1, <3>1, <3>2 DEF MediaPlaced
        <3>5. /\ page'.pending \cup page'.attached \subseteq library' /\ page'.attached \subseteq Uploads
              /\ page'.attached \cap (page'.pending \cup pendingMedia') = {}
            BY <1>1, <1>2, <2>1, <3>1 DEF MediaPlaced
        <3> QED BY <1>9, <3>1, <3>2, <3>3, <3>4, <3>5 DEF MediaPlaced
    <2>4. ASSUME ~toPost PROVE MediaPlaced'
        <3>1. /\ pendingMedia' = pendingMedia \cup {call.subject}
              /\ page'.pending = page.pending \cup {call.subject}
              /\ page'.attached = page.attached /\ page'.post = page.post /\ UNCHANGED drafts
              /\ draftPast'.straggled = IF drafts # <<>> THEN draftPast.straggled \cup {call.subject}
                                        ELSE draftPast.straggled
            BY <1>1, <1>3, <1>5, <1>7, <2>1, <2>4
        <3>2. /\ page'.pending \cup page'.attached \subseteq library' /\ page'.attached \subseteq Uploads
              /\ page'.attached \cap (page'.pending \cup pendingMedia') = {}
            BY <1>1, <2>1, <3>1 DEF MediaPlaced
        <3>3. CASE drafts = <<>>
            BY <1>1, <1>5, <1>6, <2>1, <3>1, <3>2, <3>3 DEF MediaPlaced, InPost, DraftInv, SubjectsKnown
        <3>4. CASE drafts # <<>>
            BY <1>1, <1>5, <2>1, <3>1, <3>2, <3>4 DEF MediaPlaced, InPost
        <3> QED BY <3>3, <3>4
    <2> QED BY <2>2, <2>3, <2>4
<1> QED BY <1>10, <1>11, <1>12, <1>13 DEF DraftInv, Calm

LEMMA PickKeeps == ASSUME DraftInv, Pick PROVE DraftInv'
<1> DEFINE call == pageCalls["pick"]
           found == call.subject \in library
           strays == IF drafts # <<>> THEN draftPast.straggled \cup {call.subject}
                     ELSE draftPast.straggled
           past == [draftPast EXCEPT !.straggled = strays]
           written == IF found THEN call.read \cup {call.subject} ELSE call.read
<1>1. /\ "pick" \in Calls /\ DraftTypes /\ EndCall("pick", written)
      /\ page' = IF found THEN [page EXCEPT !.pending = @ \cup {call.subject}] ELSE page
      /\ Noted("pick", past) /\ UNCHANGED <<drafts, library>>
    BY DEF Calls, DraftInv, Pick
<1>2. call \in CallRow /\ call.subject \in Library /\ call.subject \in Assets
    BY <1>1 DEF DraftTypes, EndCall, DraftInv, SubjectsKnown, InFlight, Assets
<1>3. /\ pageCalls' \in [Calls -> CallRow \cup {NoCall}] /\ pageCalls'["pick"] = NoCall
      /\ \A k \in Calls : k # "pick" => pageCalls'[k] = pageCalls[k]
      /\ pendingMedia' = written
    BY <1>1, <1>2, CallEnds DEF CallRow
<1>4. /\ past \in DraftNotes /\ past.crossed = draftPast.crossed
      /\ past.lost = draftPast.lost /\ past.byHand = draftPast.byHand
      /\ past.cleared = draftPast.cleared /\ past.straggled = strays
    BY <1>1, <1>2 DEF DraftTypes, DraftNotes, CallRow
<1>5. /\ draftPast' \in DraftNotes
      /\ draftPast'.lost = draftPast.lost /\ draftPast'.byHand = draftPast.byHand
      /\ draftPast'.straggled = strays
      /\ Calm' => Calm /\ pendingMedia = call.read
    BY <1>1, <1>4, CallNoted DEF Calm
<1>6. /\ page' \in [post: Nat, pending: SUBSET Assets, attached: SUBSET Assets]
      /\ page'.post = page.post /\ page'.attached = page.attached
      /\ page'.pending = IF found THEN page.pending \cup {call.subject} ELSE page.pending
    BY <1>1, <1>2 DEF DraftTypes
<1>7. DraftTypes'
    <2>1. pendingMedia' \subseteq Assets
        BY <1>1, <1>2, <1>3 DEF CallRow
    <2> QED BY <1>1, <1>3, <1>5, <1>6, <2>1 DEF DraftTypes
<1>8. DraftsCounted'
    BY <1>1, <1>3, <1>5, <1>6 DEF DraftInv, DraftsCounted, InFlight, Calls
<1>9. SubjectsKnown'
    BY <1>1, <1>3, <1>6 DEF DraftInv, SubjectsKnown, InFlight, Calls
<1>10. ASSUME Calm' PROVE SubjectsPlaced' /\ MediaPlaced'
    <2>1. SubjectsPlaced /\ MediaPlaced /\ pendingMedia = call.read /\ call.subject \notin Uploads
        BY <1>2, <1>5, <1>10, DraftingAssumption DEF DraftInv, Calm
    <2>2. SubjectsPlaced'
        BY <1>1, <1>2, <1>3, <1>6, <2>1 DEF SubjectsPlaced, InFlight, Calls
    <2>3. ASSUME found PROVE MediaPlaced'
        <3>1. /\ pendingMedia' = pendingMedia \cup {call.subject}
              /\ page'.pending = page.pending \cup {call.subject}
              /\ page'.attached = page.attached /\ page'.post = page.post
              /\ draftPast'.straggled = strays
            BY <1>3, <1>5, <1>6, <2>1, <2>3
        <3>2. /\ page'.pending \cup page'.attached \subseteq library'
              /\ page'.attached \cap (page'.pending \cup pendingMedia') = {}
            BY <1>1, <2>1, <2>3, <3>1 DEF MediaPlaced
        <3>3. CASE drafts = <<>>
            BY <1>1, <1>5, <2>1, <3>1, <3>2, <3>3 DEF MediaPlaced
        <3>4. CASE drafts # <<>>
            BY <1>1, <1>5, <2>1, <3>1, <3>2, <3>4 DEF MediaPlaced, InPost
        <3> QED BY <3>3, <3>4
    <2>4. ASSUME ~found PROVE MediaPlaced'
        BY <1>1, <1>3, <1>5, <1>6, <2>1, <2>4 DEF MediaPlaced, InPost
    <2> QED BY <2>2, <2>3, <2>4
<1> QED BY <1>7, <1>8, <1>9, <1>10 DEF DraftInv, Calm

LEMMA RemovePendingKeeps == ASSUME DraftInv, RemovePending PROVE DraftInv'
<1> DEFINE call == pageCalls["remove"]
           left == call.read \ {call.subject}
<1>1. /\ "remove" \in Calls /\ DraftTypes /\ EndCall("remove", left)
      /\ library' = library \ {call.subject}
      /\ drafts' = [d \in DOMAIN drafts |-> drafts[d] \ {call.subject}]
      /\ page' = [page EXCEPT !.pending = left \cap library', !.attached = {}]
      /\ Noted("remove", draftPast)
    BY DEF Calls, DraftInv, RemovePending
<1>2. call \in CallRow
    BY <1>1 DEF DraftTypes, EndCall
<1>3. /\ pageCalls' \in [Calls -> CallRow \cup {NoCall}] /\ pageCalls'["remove"] = NoCall
      /\ \A k \in Calls : k # "remove" => pageCalls'[k] = pageCalls[k]
      /\ pendingMedia' = left
    BY <1>1, <1>2, CallEnds DEF CallRow
<1>4. /\ draftPast' \in DraftNotes
      /\ draftPast'.lost = draftPast.lost /\ draftPast'.byHand = draftPast.byHand
      /\ draftPast'.straggled = draftPast.straggled
      /\ Calm' => Calm /\ pendingMedia = call.read
    BY <1>1, CallNoted DEF Calm, DraftTypes
<1>5. /\ page' \in [post: Nat, pending: SUBSET Assets, attached: SUBSET Assets]
      /\ page'.post = page.post /\ page'.attached = {} /\ page'.pending = left \cap library'
    BY <1>1, <1>2 DEF DraftTypes, CallRow
<1>6. /\ drafts' \in Seq(SUBSET Assets) /\ Len(drafts') = Len(drafts)
      /\ DOMAIN drafts' = DOMAIN drafts /\ (drafts' = <<>> <=> drafts = <<>>)
      /\ \A d \in DOMAIN drafts : drafts'[d] = drafts[d] \ {call.subject}
    BY <1>1 DEF DraftTypes
<1>7. DraftTypes'
    <2>1. pendingMedia' \subseteq Assets /\ library' \subseteq Assets /\ page'.post <= Len(drafts')
        BY <1>1, <1>2, <1>3, <1>5, <1>6 DEF DraftTypes, CallRow
    <2>2. \A d \in DOMAIN drafts' : drafts'[d] \subseteq library'
        BY <1>1, <1>6 DEF DraftTypes
    <2> QED BY <1>3, <1>4, <1>5, <1>6, <2>1, <2>2 DEF DraftTypes
<1>8. DraftsCounted'
    BY <1>1, <1>3, <1>4, <1>5, <1>6 DEF DraftInv, DraftsCounted, InFlight, Calls
<1>9. SubjectsKnown'
    BY <1>1, <1>3, <1>5 DEF DraftInv, SubjectsKnown, InFlight, Calls
<1>10. ASSUME Calm' PROVE SubjectsPlaced' /\ MediaPlaced'
    <2>1. SubjectsPlaced /\ MediaPlaced /\ pendingMedia = call.read
        BY <1>4, <1>10 DEF DraftInv, Calm
    <2>2. SubjectsPlaced'
        BY <1>1, <1>3, <1>5, <2>1 DEF SubjectsPlaced, InFlight, Calls, EndCall
    <2>3. page'.pending \subseteq pendingMedia' /\ pendingMedia' \subseteq pendingMedia
        BY <1>3, <1>5, <2>1
    <2>4. MediaPlaced'
        BY <1>4, <1>5, <1>6, <2>1, <2>3 DEF MediaPlaced
    <2> QED BY <2>2, <2>4
<1> QED BY <1>7, <1>8, <1>9, <1>10 DEF DraftInv, Calm

LEMMA DetachKeeps == ASSUME DraftInv, Detach PROVE DraftInv'
<1> DEFINE call == pageCalls["detach"]
<1>1. /\ "detach" \in Calls /\ DraftTypes /\ EndCall("detach", call.read)
      /\ drafts' = [drafts EXCEPT ![call.url] = @ \ {call.subject}]
      /\ page' = [page EXCEPT !.attached = @ \ {call.subject}]
      /\ Noted("detach", draftPast) /\ UNCHANGED library
    BY DEF Calls, DraftInv, Detach
<1>2. call \in CallRow /\ call.url = page.post /\ page.post \in 1..Len(drafts)
    BY <1>1 DEF DraftTypes, EndCall, DraftInv, DraftsCounted, SubjectsKnown, InFlight
<1>3. /\ pageCalls' \in [Calls -> CallRow \cup {NoCall}] /\ pageCalls'["detach"] = NoCall
      /\ \A k \in Calls : k # "detach" => pageCalls'[k] = pageCalls[k]
      /\ pendingMedia' = call.read
    BY <1>1, <1>2, CallEnds DEF CallRow
<1>4. /\ draftPast' \in DraftNotes
      /\ draftPast'.lost = draftPast.lost /\ draftPast'.byHand = draftPast.byHand
      /\ draftPast'.straggled = draftPast.straggled
      /\ Calm' => Calm /\ pendingMedia = call.read
    BY <1>1, CallNoted DEF Calm, DraftTypes
<1>5. /\ page' \in [post: Nat, pending: SUBSET Assets, attached: SUBSET Assets]
      /\ page'.post = page.post /\ page'.attached = page.attached \ {call.subject}
      /\ page'.pending = page.pending
    BY <1>1 DEF DraftTypes
<1>6. /\ drafts' \in Seq(SUBSET Assets) /\ Len(drafts') = Len(drafts)
      /\ DOMAIN drafts' = DOMAIN drafts /\ drafts # <<>> /\ drafts' # <<>>
      /\ drafts'[page.post] = drafts[page.post] \ {call.subject}
      /\ \A d \in DOMAIN drafts : d # page.post => drafts'[d] = drafts[d]
    <2>1. PICK now \in SUBSET Assets : /\ now = drafts[page.post] \ {call.subject}
                                       /\ drafts' = [drafts EXCEPT ![page.post] = now]
        <3>1. drafts[page.post] \in SUBSET Assets
            BY <1>1, <1>2 DEF DraftTypes
        <3>2. drafts[page.post] \ {call.subject} \in SUBSET Assets
            BY <3>1
        <3>3. drafts' = [drafts EXCEPT ![page.post] = drafts[page.post] \ {call.subject}]
            BY <1>1, <1>2
        <3> QED BY <3>2, <3>3
    <2>2. drafts \in Seq(SUBSET Assets)
        BY <1>1 DEF DraftTypes
    <2>3. /\ drafts' \in Seq(SUBSET Assets) /\ Len(drafts') = Len(drafts)
          /\ \A d \in 1..Len(drafts) : drafts'[d] = IF d = page.post THEN now ELSE drafts[d]
        BY <1>2, <2>1, <2>2, ExceptSeq
    <2> QED BY <1>2, <2>1, <2>2, <2>3
<1>7. DraftTypes'
    <2>1. pendingMedia' \subseteq Assets
        BY <1>2, <1>3 DEF CallRow
    <2>2. \A d \in DOMAIN drafts' : drafts'[d] \subseteq library'
        BY <1>1, <1>6 DEF DraftTypes
    <2> QED BY <1>1, <1>3, <1>4, <1>5, <1>6, <2>1, <2>2 DEF DraftTypes
<1>8. DraftsCounted'
    BY <1>1, <1>3, <1>4, <1>5, <1>6 DEF DraftInv, DraftsCounted, InFlight, Calls
<1>9. SubjectsKnown'
    BY <1>1, <1>3, <1>5 DEF DraftInv, SubjectsKnown, InFlight, Calls
<1>10. ASSUME Calm' PROVE SubjectsPlaced' /\ MediaPlaced'
    <2>1. /\ SubjectsPlaced /\ MediaPlaced /\ pendingMedia = call.read
          /\ call.subject \notin page.pending
        BY <1>1, <1>4, <1>10 DEF DraftInv, Calm, SubjectsPlaced, InFlight, EndCall
    <2>2. SubjectsPlaced'
        BY <1>1, <1>3, <1>5, <2>1 DEF SubjectsPlaced, InFlight, Calls
    <2>3. \A a \in page.pending \ draftPast.straggled : InPost(a)'
        BY <1>6, <2>1 DEF MediaPlaced, InPost
    <2>4. MediaPlaced'
        BY <1>1, <1>2, <1>3, <1>4, <1>5, <1>6, <2>1, <2>3 DEF MediaPlaced
    <2> QED BY <2>2, <2>4
<1> QED BY <1>7, <1>8, <1>9, <1>10 DEF DraftInv, Calm

\* A request that only reads, or clears, the session.
LEMMA ReadingKeeps ==
    ASSUME DraftInv, Preview \/ OpenAnother
    PROVE  DraftInv'
<1>1. CASE Preview
    <2> DEFINE call == pageCalls["preview"]
    <2>1. /\ "preview" \in Calls /\ DraftTypes /\ EndCall("preview", call.read)
          /\ Noted("preview", draftPast) /\ UNCHANGED <<drafts, page, library>>
        BY <1>1 DEF Calls, DraftInv, Preview
    <2>2. call \in CallRow
        BY <2>1 DEF DraftTypes, EndCall
    <2>3. /\ pageCalls' \in [Calls -> CallRow \cup {NoCall}] /\ pageCalls'["preview"] = NoCall
          /\ \A k \in Calls : k # "preview" => pageCalls'[k] = pageCalls[k]
          /\ pendingMedia' = call.read
        BY <2>1, <2>2, CallEnds DEF CallRow
    <2>4. /\ draftPast' \in DraftNotes
          /\ draftPast'.lost = draftPast.lost /\ draftPast'.byHand = draftPast.byHand
          /\ draftPast'.straggled = draftPast.straggled
          /\ Calm' => Calm /\ pendingMedia = call.read
        BY <2>1, CallNoted DEF Calm, DraftTypes
    <2>5. DraftTypes'
        BY <2>1, <2>2, <2>3, <2>4 DEF DraftTypes, CallRow
    <2>6. DraftsCounted' /\ SubjectsKnown'
        BY <2>1, <2>3, <2>4 DEF DraftInv, DraftsCounted, SubjectsKnown, InFlight, Calls
    <2>7. ASSUME Calm' PROVE SubjectsPlaced' /\ MediaPlaced'
        BY <2>1, <2>3, <2>4, <2>7
        DEF DraftInv, Calm, SubjectsPlaced, MediaPlaced, InPost, InFlight, Calls
    <2> QED BY <2>5, <2>6, <2>7 DEF DraftInv, Calm
<1>2. CASE OpenAnother
    <2> DEFINE past == [draftPast EXCEPT !.cleared = TRUE]
    <2>1. /\ "open" \in Calls /\ DraftTypes /\ EndCall("open", {})
          /\ Noted("open", past) /\ UNCHANGED <<drafts, page, library>>
        BY <1>2 DEF Calls, DraftInv, OpenAnother
    <2>2. /\ pageCalls' \in [Calls -> CallRow \cup {NoCall}] /\ pageCalls'["open"] = NoCall
          /\ \A k \in Calls : k # "open" => pageCalls'[k] = pageCalls[k]
          /\ pendingMedia' = {}
        BY <2>1, CallEnds
    <2>3. /\ past \in DraftNotes /\ past.crossed = draftPast.crossed /\ past.cleared
          /\ past.lost = draftPast.lost /\ past.byHand = draftPast.byHand
          /\ past.straggled = draftPast.straggled
        BY <2>1 DEF DraftTypes, DraftNotes
    <2>4. /\ draftPast' \in DraftNotes /\ draftPast'.cleared
          /\ draftPast'.lost = draftPast.lost /\ draftPast'.byHand = draftPast.byHand
        BY <2>1, <2>3, CallNoted
    <2>5. DraftTypes'
        BY <2>1, <2>2, <2>4 DEF DraftTypes
    <2>6. DraftsCounted' /\ SubjectsKnown'
        BY <2>1, <2>2, <2>4 DEF DraftInv, DraftsCounted, SubjectsKnown, InFlight, Calls
    <2> QED BY <2>4, <2>5, <2>6 DEF DraftInv
<1> QED BY <1>1, <1>2

LEMMA DraftNextKeeps == DraftInv /\ [DraftNext]_draftVars => DraftInv'
<1> SUFFICES ASSUME DraftInv, [DraftNext]_draftVars PROVE DraftInv'
    OBVIOUS
<1>1. CASE UNCHANGED draftVars
    BY <1>1 DEF draftVars, DraftInv, DraftTypes, DraftsCounted, SubjectsKnown, SubjectsPlaced,
                MediaPlaced, InPost, InFlight
<1>2. CASE DraftNext
    BY <1>2, StartCallKeeps, AutosaveKeeps, SaveDraftKeeps, UploadKeeps, PickKeeps, RemovePendingKeeps,
       DetachKeeps, ReadingKeeps DEF DraftNext, Assets
<1> QED BY <1>1, <1>2

LEMMA DraftInvHolds == DraftInv => DraftingIsSound
<1> SUFFICES ASSUME DraftInv PROVE DraftingIsSound
    OBVIOUS
<1>1. OneDraft
    BY DEF DraftInv, DraftTypes, DraftNotes, DraftsCounted, OneDraft
<1>2. ASSUME page.post # 0, Calm, NEW a \in (Thumbs \cap library) \ draftPast.straggled
      PROVE  \E d \in DOMAIN drafts :
                a \in drafts[d] /\ (d = page.post \/ draftPast.byHand + draftPast.lost > 0)
    <2>1. MediaPlaced /\ DraftTypes /\ page.post \in DOMAIN drafts /\ drafts # <<>>
        BY <1>2 DEF DraftInv, Calm, DraftTypes
    <2>2. CASE a \in page.attached
        BY <1>2, <2>1, <2>2 DEF MediaPlaced
    <2>3. CASE a \in page.pending /\ draftPast.byHand + draftPast.lost = 0
        BY <1>2, <2>1, <2>3 DEF MediaPlaced
    <2>4. CASE a \in page.pending /\ draftPast.byHand + draftPast.lost > 0
        BY <1>2, <2>1, <2>4 DEF MediaPlaced, InPost
    <2> QED BY <1>2, <2>1, <2>2, <2>3, <2>4 DEF Thumbs, DraftTypes, DraftNotes
<1> QED BY <1>1, <1>2 DEF DraftingIsSound, MediaReachPost, Calm

\* However the autosaves, uploads, picks and removals of a page cross, it makes one post
\* and another only for a save by hand it was not told about or a lost answer, and what a
\* page that knows its post shows is attached to it, but for the named ways to leave the
\* session; for any page and media.
THEOREM DraftsStayWhole == DraftInit /\ [][DraftNext]_draftVars => []DraftingIsSound
BY DraftInvInit, DraftNextKeeps, DraftInvHolds, PTL

-------------------------------------------------------------------------------
(* The rows of a post that is edited while it is published *)

SaveRow == [step: {"delete", "create"}, wanted: SUBSET PostAccounts, doomed: SUBSET PostAccounts]

ChildTypes ==
    /\ children \in [PostAccounts -> {NoChild, "draft", "scheduled"} \cup ProtectedStatuses]
    /\ saves \in [Savers -> SaveRow \cup {NoSave}]
    /\ childPast \in [meant: SUBSET PostAccounts, had: SUBSET PostAccounts,
                      sent: SUBSET PostAccounts, collected: SUBSET PostAccounts]

\* A row may go: a form deselected its account, and the engine had not claimed it before
\* the deletion read it.
MayGo(a) == a \in childPast.meant /\ (a \in childPast.sent => a \in childPast.collected)

\* Deletions hold rows that may go, and what was sent with no deletion around is on its
\* way or out.
ChildInv ==
    /\ ChildTypes
    /\ \A t \in Savers : saves[t].step = "delete" => \A a \in saves[t].doomed : MayGo(a)
    /\ \A a \in PostAccounts : children[a] = NoChild => MayGo(a)
    /\ \A a \in childPast.sent \ childPast.collected : children[a] \in ProtectedStatuses

LEMMA ChildInvInit == ChildInit => ChildInv
BY DEF ChildInit, ChildInv, ChildTypes, ChildHistory, NoSave, NoChild, MayGo

LEMMA SaveRows == ChildInv => \A t \in Savers : saves[t] # NoSave => saves[t] \in SaveRow
BY DEF ChildInv, ChildTypes

LEMMA CollectKeeps ==
    ASSUME ChildInv, NEW t \in Savers, NEW wanted \in SUBSET PostAccounts,
           NEW scope \in PostAccounts \cup {All}, CollectDeselected(t, wanted, scope)
    PROVE  ChildInv'
<1> DEFINE meant == {a \in Rendered(scope) \ wanted : children[a] # NoChild}
           doomed == {a \in meant : children[a] \notin ProtectedStatuses}
           row == [step |-> "delete", wanted |-> wanted, doomed |-> doomed]
<1>1. /\ saves' = [saves EXCEPT ![t] = row] /\ children' = children
      /\ childPast' = [childPast EXCEPT !.meant = @ \cup (Rendered(scope) \ wanted)]
    BY DEF CollectDeselected, Rendered
<1>2. Rendered(scope) \subseteq PostAccounts /\ row \in SaveRow
    BY DEF Rendered, SaveRow
<1>3. /\ childPast.meant \subseteq childPast'.meant /\ Rendered(scope) \ wanted \subseteq childPast'.meant
      /\ childPast'.had = childPast.had /\ childPast'.sent = childPast.sent
      /\ childPast'.collected = childPast.collected
    BY <1>1 DEF ChildInv, ChildTypes
<1>4. ChildTypes'
    BY <1>1, <1>2 DEF ChildInv, ChildTypes
<1>5. \A x \in Savers : saves'[x] = IF x = t THEN row ELSE saves[x]
    BY <1>1 DEF ChildInv, ChildTypes
<1>6. \A a \in doomed : MayGo(a)'
    BY <1>2, <1>3 DEF ChildInv, MayGo, NoChild
<1>7. \A a \in PostAccounts : MayGo(a) => MayGo(a)'
    BY <1>3 DEF MayGo
<1>8. \A x \in Savers : saves'[x].step = "delete" => \A a \in saves'[x].doomed : MayGo(a)'
    <2> SUFFICES ASSUME NEW x \in Savers, saves'[x].step = "delete", NEW a \in saves'[x].doomed
                 PROVE  MayGo(a)'
        OBVIOUS
    <2>1. CASE x = t
        <3>1. a \in doomed
            <4>1. saves'[t] = row
                BY <1>5
            <4> QED BY <2>1, <4>1
        <3> QED BY <1>6, <3>1
    <2>2. CASE x # t
        <3>1. saves[x].step = "delete" /\ a \in saves[x].doomed
            BY <1>5, <2>2
        <3>2. MayGo(a) /\ a \in PostAccounts
            BY <3>1, SaveRows DEF ChildInv, SaveRow, NoSave
        <3> QED BY <1>7, <3>2
    <2> QED BY <2>1, <2>2
<1> QED BY <1>1, <1>3, <1>4, <1>7, <1>8 DEF ChildInv

LEMMA DeleteDeselectedKeeps ==
    ASSUME ChildInv, NEW t \in Savers, DeleteDeselected(t) PROVE ChildInv'
<1> DEFINE row == [saves[t] EXCEPT !.step = "create", !.doomed = {}]
<1>1. /\ saves[t] \in SaveRow /\ saves[t].step = "delete" /\ childPast' = childPast
      /\ children' = [a \in PostAccounts |-> IF a \in saves[t].doomed THEN NoChild ELSE children[a]]
    BY SaveRows DEF DeleteDeselected, NoSave
<1>2. saves' = [saves EXCEPT ![t] = row]
    BY <1>1 DEF DeleteDeselected, ChildInv, ChildTypes
<1>3. row \in SaveRow /\ row.step = "create"
    BY <1>1 DEF SaveRow
<1>4. ChildTypes'
    BY <1>1, <1>2, <1>3 DEF ChildInv, ChildTypes
<1>5. \A a \in PostAccounts : MayGo(a)' <=> MayGo(a)
    BY <1>1 DEF MayGo
<1>6. \A x \in Savers : saves'[x].step = "delete" => saves'[x] = saves[x]
    BY <1>2, <1>3 DEF ChildInv, ChildTypes
<1>7. \A a \in saves[t].doomed : MayGo(a)
    BY <1>1 DEF ChildInv
<1>8. \A x \in Savers : saves'[x].step = "delete" => \A a \in saves'[x].doomed : MayGo(a)'
    BY <1>1, <1>5, <1>6 DEF ChildInv, MayGo
<1>9. \A a \in PostAccounts : children'[a] = NoChild => MayGo(a)'
    BY <1>1, <1>5, <1>7 DEF ChildInv
<1>10. \A a \in childPast'.sent \ childPast'.collected : children'[a] \in ProtectedStatuses
    BY <1>1, <1>7 DEF ChildInv, ChildTypes, MayGo
<1> QED BY <1>4, <1>8, <1>9, <1>10 DEF ChildInv

LEMMA CreateSelectedKeeps ==
    ASSUME ChildInv, NEW t \in Savers, NEW status \in {"draft", "scheduled"},
           CreateSelected(t, status)
    PROVE  ChildInv'
<1>1. /\ saves[t] \in SaveRow /\ saves' = [saves EXCEPT ![t] = NoSave]
      /\ childPast' = [childPast EXCEPT !.had = @ \cup saves[t].wanted]
      /\ children' = [a \in PostAccounts |->
                         IF a \in saves[t].wanted /\ children[a] = NoChild THEN status
                         ELSE children[a]]
    BY SaveRows DEF CreateSelected, NoSave
<1>2. /\ childPast'.meant = childPast.meant /\ childPast'.sent = childPast.sent
      /\ childPast'.collected = childPast.collected
    BY <1>1 DEF ChildInv, ChildTypes
<1>3. ChildTypes'
    BY <1>1 DEF ChildInv, ChildTypes, SaveRow
<1>4. \A a \in PostAccounts : MayGo(a)' <=> MayGo(a)
    BY <1>2 DEF MayGo
<1>5. \A x \in Savers : saves'[x].step = "delete" => saves'[x] = saves[x]
    BY <1>1 DEF ChildInv, ChildTypes, NoSave
<1>6. \A x \in Savers : saves'[x].step = "delete" => \A a \in saves'[x].doomed : MayGo(a)'
    BY <1>2, <1>5 DEF ChildInv, MayGo
<1>7. \A a \in PostAccounts : children'[a] = NoChild => children[a] = NoChild
    BY <1>1 DEF NoChild
<1>8. \A a \in childPast'.sent \ childPast'.collected : children'[a] \in ProtectedStatuses
    BY <1>1, <1>2 DEF ChildInv, ChildTypes, NoChild, ProtectedStatuses
<1> QED BY <1>3, <1>4, <1>6, <1>7, <1>8 DEF ChildInv

LEMMA ClaimChildKeeps == ASSUME ChildInv, NEW a \in PostAccounts, ClaimChild(a) PROVE ChildInv'
<1>1. /\ children' = [children EXCEPT ![a] = "publishing"] /\ saves' = saves
      /\ childPast'.meant = childPast.meant /\ childPast'.had = childPast.had
      /\ childPast'.sent = childPast.sent \cup {a}
      /\ childPast'.collected = IF \E t \in Savers : saves[t].step = "delete" /\ a \in saves[t].doomed
                                THEN childPast.collected \cup {a} ELSE childPast.collected
      /\ childPast' \in [meant: SUBSET PostAccounts, had: SUBSET PostAccounts,
                         sent: SUBSET PostAccounts, collected: SUBSET PostAccounts]
    BY DEF ClaimChild, ChildInv, ChildTypes
<1>2. ChildTypes'
    BY <1>1 DEF ChildInv, ChildTypes, ProtectedStatuses
<1>3. children[a] # NoChild /\ \A b \in PostAccounts : children'[b] = NoChild => children[b] = NoChild /\ b # a
    BY <1>1 DEF ClaimChild, ChildInv, ChildTypes, NoChild
<1>4. \A b \in PostAccounts \ {a} : MayGo(b) => MayGo(b)'
    BY <1>1 DEF MayGo
<1>5. \A t \in Savers : saves'[t].step = "delete" => \A b \in saves'[t].doomed : MayGo(b)'
    <2> SUFFICES ASSUME NEW t \in Savers, saves[t].step = "delete", NEW b \in saves[t].doomed
                 PROVE  MayGo(b)'
        BY <1>1
    <2>1. MayGo(b) /\ b \in PostAccounts
        BY SaveRows DEF ChildInv, SaveRow, NoSave
    <2>2. CASE b = a
        BY <1>1, <2>1, <2>2 DEF MayGo
    <2> QED BY <1>4, <2>1, <2>2
<1>6. \A b \in childPast'.sent \ childPast'.collected : children'[b] \in ProtectedStatuses
    BY <1>1 DEF ChildInv, ChildTypes, ProtectedStatuses
<1> QED BY <1>2, <1>3, <1>4, <1>5, <1>6 DEF ChildInv

LEMMA PublishChildKeeps == ASSUME ChildInv, NEW a \in PostAccounts, PublishChild(a) PROVE ChildInv'
<1>1. /\ children' = [children EXCEPT ![a] = "published"] /\ UNCHANGED <<saves, childPast>>
    BY DEF PublishChild
<1>2. ChildTypes'
    BY <1>1 DEF ChildInv, ChildTypes, ProtectedStatuses
<1>3. \A b \in PostAccounts : children'[b] = NoChild => children[b] = NoChild
    BY <1>1 DEF ChildInv, ChildTypes, NoChild
<1>4. \A b \in PostAccounts : children[b] \in ProtectedStatuses => children'[b] \in ProtectedStatuses
    BY <1>1 DEF ChildInv, ChildTypes, ProtectedStatuses
<1> QED BY <1>1, <1>2, <1>3, <1>4 DEF ChildInv, ChildTypes, MayGo

LEMMA ChildNextKeeps == ChildInv /\ [ChildNext]_childVars => ChildInv'
<1> SUFFICES ASSUME ChildInv, [ChildNext]_childVars PROVE ChildInv'
    OBVIOUS
<1>1. CASE UNCHANGED childVars
    BY <1>1 DEF childVars, ChildInv, ChildTypes, MayGo
<1>2. CASE ChildNext
    BY <1>2, CollectKeeps, DeleteDeselectedKeeps, CreateSelectedKeeps, ClaimChildKeeps,
       PublishChildKeeps DEF ChildNext
<1> QED BY <1>1, <1>2

LEMMA ChildInvHolds == ChildInv => SiblingsKept
BY DEF ChildInv, ChildTypes, MayGo, SiblingsKept

\* A row of a post is gone only if a form that showed its account deselected it, and one
\* that was sent only if it was claimed while a deletion had it in hand; for any accounts
\* and any number of saves at once.
THEOREM SiblingsStayKept == ChildInit /\ [][ChildNext]_childVars => []SiblingsKept
BY ChildInvInit, ChildNextKeeps, ChildInvHolds, PTL

-------------------------------------------------------------------------------
(* The board of ideas *)

IdeaRow == [group: Columns \cup {NoColumn}, media: SUBSET IdeaAssets,
            cover: IdeaAssets \cup {NoCover}, post: Nat]
PlanRow == [step: {"edit", "move", "convert", "delete"}, idea: IdeaIds, row: IdeaRow,
            column: Columns \cup {NoColumn}, media: SUBSET IdeaAssets,
            cover: IdeaAssets \cup {NoCover}]
SeedRow == [step: {"seed"}, idea: {"none"}]
DropRow == [step: {"drop"}, idea: {"none"}, column: Columns]

BoardTypes ==
    /\ ideas \in [IdeaIds -> IdeaRow \cup {NoIdea}]
    /\ columns \subseteq Columns
    /\ planner \in [Planners -> PlanRow \cup SeedRow \cup DropRow \cup {Unplanned}]
    /\ converted \in [IdeaIds -> Nat]
    /\ boardPast \in [stale: SUBSET IdeaIds, late: SUBSET IdeaIds, deleted: SUBSET IdeaIds,
                      gone: SUBSET Columns, covered: [IdeaIds -> IdeaAssets \cup {NoCover}]]

\* An idea on the board, as its row alone must be.
IdeaPlaced(i) ==
    /\ ideas[i].group \in columns \cup {NoColumn} /\ ideas[i].post <= converted[i]
    /\ ideas[i].group = NoColumn => i \in boardPast.late
    /\ i \notin boardPast.stale =>
          /\ i \notin boardPast.deleted /\ ideas[i].post = converted[i]
          /\ Chosen(ideas[i].media, ideas[i].cover)
          /\ boardPast.covered[i] \in {NoCover, ideas[i].cover}

\* One there never was has no history.
IdeaNew(i) ==
    ~Exists(i) /\ i \notin boardPast.deleted =>
        converted[i] = 0 /\ boardPast.covered[i] = NoCover

\* What a request holds: media with their cover, a row no newer than the idea, a column
\* that was empty when it was looked at.
PlanHolds(u) ==
    /\ planner[u].step = "edit" => Chosen(planner[u].media, planner[u].cover)
    /\ planner[u] \in PlanRow =>
          /\ planner[u].row.post <= converted[planner[u].idea]
          /\ planner[u].column = NoColumn => planner[u].idea \in boardPast.late
    /\ planner[u].step = "drop" =>
          /\ planner[u].column \in columns \cup boardPast.gone
          /\ \A i \in IdeaIds : ideas[i].group = planner[u].column => i \in boardPast.late

BoardInv ==
    /\ BoardTypes
    /\ \A i \in IdeaIds : (Exists(i) => IdeaPlaced(i)) /\ IdeaNew(i)
    /\ \A u \in Planners : PlanHolds(u)

LEMMA BoardInvInit == BoardInit => BoardInv
BY DEF BoardInit, BoardInv, BoardTypes, BoardHistory, IdeaPlaced, IdeaNew, PlanHolds, Exists,
       PlanRow, Unplanned

\* What moves, edits, converts or deletes has read an idea.
LEMMA PlansReach ==
    ASSUME BoardInv, NEW u \in Planners, planner[u].step \in {"edit", "move", "convert", "delete"}
    PROVE  planner[u] \in PlanRow
BY DEF BoardInv, BoardTypes, SeedRow, DropRow, Unplanned

LEMMA RowExists == \A row \in IdeaRow : row # NoIdea
<1> SUFFICES ASSUME NEW row \in IdeaRow PROVE row # NoIdea
    OBVIOUS
<1>1. row.group \in Columns \cup {NoColumn}
    BY DEF IdeaRow
<1>2. NoIdea.group # NoColumn
    BY DEF NoIdea, NoColumn
<1>3. NoIdea.group \notin Columns
    BY IdeasAssumption
<1> QED BY <1>1, <1>2, <1>3

\* A request begins, and nothing else changes.
LEMMA PlanBegins ==
    ASSUME BoardInv, NEW u \in Planners, NEW request,
           Planned(u, request), UNCHANGED <<ideas, columns, converted, boardPast>>,
           request \in PlanRow \cup SeedRow \cup DropRow \cup {Unplanned},
           request.step = "edit" => Chosen(request.media, request.cover),
           request \in PlanRow =>
              /\ request.row.post <= converted[request.idea]
              /\ request.column = NoColumn => request.idea \in boardPast.late,
           request.step = "drop" =>
              /\ request.column \in columns \cup boardPast.gone
              /\ \A i \in IdeaIds : ideas[i].group = request.column => i \in boardPast.late
    PROVE  BoardInv'
<1>1. planner'[u] = request /\ \A v \in Planners \ {u} : planner'[v] = planner[v]
    BY DEF Planned, BoardInv, BoardTypes
<1>2. BoardTypes'
    BY DEF Planned, BoardInv, BoardTypes
<1>3. \A i \in IdeaIds : (Exists(i) => IdeaPlaced(i))' /\ IdeaNew(i)'
    BY DEF BoardInv, Exists, IdeaPlaced, IdeaNew
<1>4. \A v \in Planners : PlanHolds(v)'
    BY <1>1 DEF BoardInv, PlanHolds
<1> QED BY <1>2, <1>3, <1>4 DEF BoardInv

\* A request ends, and what the others hold stays true: what was put in a column about to
\* be deleted is noted, and nothing ever gets fewer posts.
LEMMA PlanEnds ==
    ASSUME BoardInv, NEW u \in Planners, Planned(u, Unplanned) \/ planner' = planner,
           columns \cup boardPast.gone \subseteq (columns \cup boardPast.gone)',
           boardPast.late \subseteq boardPast'.late,
           \A i \in IdeaIds : converted[i] <= converted'[i],
           converted \in [IdeaIds -> Nat], converted' \in [IdeaIds -> Nat],
           \A v \in Planners : planner'[v].step = "drop" =>
              \A i \in IdeaIds : ideas'[i].group = planner'[v].column =>
                 ideas[i].group = planner'[v].column \/ i \in boardPast'.late
    PROVE  \A v \in Planners : PlanHolds(v)'
<1> SUFFICES ASSUME NEW v \in Planners PROVE PlanHolds(v)'
    OBVIOUS
<1>1. CASE planner'[v] = planner[v]
    <2>1. PlanHolds(v)
        BY DEF BoardInv
    <2>2. planner[v] \in PlanRow => planner[v].idea \in IdeaIds /\ planner[v].row.post \in Nat
        BY DEF PlanRow, IdeaRow
    <2>3. planner[v] \in PlanRow => planner[v].row.post <= converted'[planner[v].idea]
        BY <2>1, <2>2 DEF PlanHolds
    <2> QED BY <1>1, <2>1, <2>3 DEF PlanHolds
<1>2. CASE planner'[v] # planner[v]
    <2>1. planner'[v] = Unplanned
        BY <1>2 DEF Planned, BoardInv, BoardTypes
    <2> QED BY <2>1 DEF PlanHolds, PlanRow, Unplanned
<1> QED BY <1>1, <1>2

LEMMA ReadKeeps ==
    ASSUME BoardInv, NEW u \in Planners, NEW i \in IdeaIds,
           NEW kind \in {"edit", "move", "convert", "delete"}, NEW c,
           NEW media \in SUBSET IdeaAssets, NEW cover \in IdeaAssets \cup {NoCover},
           Chosen(media, cover), ReadIdea(u, i, kind, c, media, cover)
    PROVE  BoardInv'
<1> DEFINE request == [step |-> kind, idea |-> i, row |-> ideas[i],
                       column |-> Found(c, ideas[i].group), media |-> media, cover |-> cover]
<1>1. /\ ideas[i] \in IdeaRow /\ ideas[i].post <= converted[i]
      /\ ideas[i].group = NoColumn => i \in boardPast.late
    BY DEF BoardInv, BoardTypes, IdeaPlaced, ReadIdea, Exists
<1>2. Found(c, ideas[i].group) \in Columns \cup {NoColumn}
    BY <1>1 DEF Found, IdeaRow, BoardInv, BoardTypes
<1>3. Found(c, ideas[i].group) = NoColumn => i \in boardPast.late
    BY <1>1, IdeasAssumption DEF Found, BoardInv, BoardTypes
<1>4. request \in PlanRow
    BY <1>1, <1>2 DEF PlanRow
<1> QED BY <1>1, <1>3, <1>4, PlanBegins DEF ReadIdea

LEMMA CheckColumnKeeps ==
    ASSUME BoardInv, NEW u \in Planners, NEW c \in Columns, CheckColumn(u, c) PROVE BoardInv'
<1> DEFINE request == [step |-> "drop", idea |-> "none", column |-> c]
<1>1. request \in DropRow /\ request \notin PlanRow
    BY DEF DropRow, PlanRow
<1> QED BY <1>1, PlanBegins DEF CheckColumn, EmptyColumn

LEMMA FirstViewKeeps == ASSUME BoardInv, NEW u \in Planners, FirstView(u) PROVE BoardInv'
<1> DEFINE request == [step |-> "seed", idea |-> "none"]
<1>1. request \in SeedRow /\ request \notin PlanRow
    BY DEF SeedRow, PlanRow
<1> QED BY <1>1, PlanBegins DEF FirstView

\* An idea made in a column that is, or is made with it.
LEMMA IdeaMade ==
    ASSUME BoardInv, NEW u \in Planners, NEW i \in IdeaIds, NEW c \in Columns \cup {NoColumn},
           NEW media \in SUBSET IdeaAssets, NEW cover \in IdeaAssets \cup {NoCover},
           Chosen(media, cover), ~Exists(i), i \notin boardPast.deleted,
           ideas' = [ideas EXCEPT ![i] =
                        [group |-> c, media |-> media, cover |-> cover, post |-> 0]],
           columns \subseteq columns', columns' \subseteq Columns, c \in columns' \cup {NoColumn},
           Planned(u, Unplanned) \/ planner' = planner, UNCHANGED converted,
           \/ boardPast' = boardPast /\ NewColumn(c) /\ c \in Columns
           \/ boardPast' = [boardPast EXCEPT !.late = Late(i, c)] /\ c \in Columns
           \/ boardPast' = [boardPast EXCEPT !.late = @ \cup {i}]
    PROVE  BoardInv'
<1> DEFINE row == [group |-> c, media |-> media, cover |-> cover, post |-> 0]
<1>1. row \in IdeaRow /\ converted[i] = 0 /\ boardPast.covered[i] = NoCover
    BY DEF IdeaRow, BoardInv, IdeaNew
<1>2. /\ boardPast.late \subseteq boardPast'.late /\ boardPast'.deleted = boardPast.deleted
      /\ boardPast'.gone = boardPast.gone /\ boardPast'.covered = boardPast.covered
      /\ boardPast'.stale = boardPast.stale /\ boardPast'.late \subseteq IdeaIds
    BY DEF BoardInv, BoardTypes, Late
<1>3. BoardTypes'
    <2>1. ideas' \in [IdeaIds -> IdeaRow \cup {NoIdea}]
        BY <1>1 DEF BoardInv, BoardTypes
    <2>2. planner' \in [Planners -> PlanRow \cup SeedRow \cup DropRow \cup {Unplanned}]
        BY DEF BoardInv, BoardTypes, Planned
    <2>3. boardPast' \in [stale: SUBSET IdeaIds, late: SUBSET IdeaIds, deleted: SUBSET IdeaIds,
                      gone: SUBSET Columns, covered: [IdeaIds -> IdeaAssets \cup {NoCover}]]
        BY DEF BoardInv, BoardTypes, Late
    <2> QED BY <2>1, <2>2, <2>3 DEF BoardInv, BoardTypes
<1>4. ideas'[i] = row /\ \A j \in IdeaIds \ {i} : ideas'[j] = ideas[j]
    BY DEF BoardInv, BoardTypes
<1>5. IdeaPlaced(i)'
    <2>1. c = NoColumn => i \in boardPast'.late
        BY IdeasAssumption DEF BoardInv, BoardTypes
    <2> QED BY <1>1, <1>2, <1>4, <2>1 DEF IdeaPlaced
<1>6. \A j \in IdeaIds \ {i} : (Exists(j) => IdeaPlaced(j))' /\ IdeaNew(j)'
    BY <1>2, <1>4 DEF BoardInv, IdeaPlaced, IdeaNew, Exists
<1>7. IdeaNew(i)'
    BY <1>1, <1>2 DEF IdeaNew
<1>8. \A v \in Planners : planner'[v].step = "drop" =>
              \A j \in IdeaIds : ideas'[j].group = planner'[v].column =>
                 ideas[j].group = planner'[v].column \/ j \in boardPast'.late
    <2> SUFFICES ASSUME NEW v \in Planners, planner'[v].step = "drop", planner'[v].column = c
                 PROVE  i \in boardPast'.late
        BY <1>4
    <2>1. planner[v].step = "drop" /\ planner[v].column = c
        BY DEF Planned, Unplanned, BoardInv, BoardTypes
    <2>2. ~NewColumn(c)
        BY <2>1 DEF BoardInv, PlanHolds, NewColumn
    <2>3. Late(i, c) = boardPast.late \cup {i}
        BY <2>1 DEF Late
    <2> QED BY <2>2, <2>3 DEF BoardInv, BoardTypes
<1>9. \A v \in Planners : PlanHolds(v)'
    <2>1. columns \cup boardPast.gone \subseteq (columns \cup boardPast.gone)'
        BY <1>2
    <2>2. converted \in [IdeaIds -> Nat] /\ converted' = converted
        BY DEF BoardInv, BoardTypes
    <2> QED BY <1>2, <1>8, <2>1, <2>2, PlanEnds
<1> QED BY <1>3, <1>5, <1>6, <1>7, <1>9 DEF BoardInv

LEMMA SeedKeeps ==
    ASSUME BoardInv, NEW u \in Planners, NEW c \in Columns, NEW i \in IdeaIds, Seed(u, c, i)
    PROVE  BoardInv'
<1>1. Chosen({}, NoCover) /\ columns' = columns \cup {c} /\ columns' \subseteq Columns
    BY DEF Chosen, Seed, BoardInv, BoardTypes
<1> QED BY <1>1, IdeaMade DEF Seed

LEMMA CreateIdeaKeeps ==
    ASSUME BoardInv, NEW u \in Planners, NEW i \in IdeaIds, NEW c \in Columns,
           NEW media \in SUBSET IdeaAssets, NEW cover \in IdeaAssets \cup {NoCover},
           Chosen(media, cover), CreateIdea(u, i, c, media, cover)
    PROVE  BoardInv'
<1>1. columns' = columns /\ columns \subseteq Columns
    BY DEF CreateIdea, BoardInv, BoardTypes
<1> DEFINE g == Found(c, NoColumn)
<1>2. /\ g \in columns' \cup {NoColumn} /\ g \in Columns \cup {NoColumn}
      /\ ideas' = [ideas EXCEPT ![i] =
                      [group |-> g, media |-> media, cover |-> cover, post |-> 0]]
      /\ \/ boardPast' = [boardPast EXCEPT !.late = Late(i, g)] /\ g \in Columns
         \/ boardPast' = [boardPast EXCEPT !.late = @ \cup {i}]
    BY <1>1 DEF CreateIdea, Found
<1> HIDE DEF g
<1> QED BY <1>1, <1>2, IdeaMade DEF CreateIdea

LEMMA CreateColumnKeeps ==
    ASSUME BoardInv, NEW u \in Planners, NEW c \in Columns, CreateColumn(u, c) PROVE BoardInv'
BY DEF CreateColumn, BoardInv, BoardTypes, IdeaPlaced, IdeaNew, Exists, PlanHolds

\* An idea's row is written while its column is noted as put in.
LEMMA PutNoted ==
    ASSUME BoardInv, NEW u \in Planners, NEW i \in IdeaIds, NEW c \in Columns \cup {NoColumn},
           Planned(u, Unplanned), boardPast'.late = Late(i, c),
           \A j \in IdeaIds \ {i} : ideas'[j] = ideas[j], ideas'[i].group = c,
           boardPast'.gone = boardPast.gone, columns' = columns, converted' = converted
    PROVE  boardPast'.late \in SUBSET IdeaIds /\ boardPast.late \subseteq boardPast'.late
           /\ \A v \in Planners : PlanHolds(v)'
<1>1. boardPast'.late \in SUBSET IdeaIds /\ boardPast.late \subseteq boardPast'.late
    BY DEF Late, BoardInv, BoardTypes
<1>2. \A v \in Planners : planner'[v].step = "drop" =>
              \A j \in IdeaIds : ideas'[j].group = planner'[v].column =>
                 ideas[j].group = planner'[v].column \/ j \in boardPast'.late
    <2> SUFFICES ASSUME NEW v \in Planners, planner'[v].step = "drop", planner'[v].column = c
                 PROVE  i \in boardPast'.late
        OBVIOUS
    <2>1. planner[v].step = "drop" /\ planner[v].column = c
        BY DEF Planned, Unplanned, BoardInv, BoardTypes
    <2> QED BY <2>1 DEF Late
<1>3. converted \in [IdeaIds -> Nat]
    BY DEF BoardInv, BoardTypes
<1>4. columns \cup boardPast.gone \subseteq (columns \cup boardPast.gone)'
    OBVIOUS
<1>5. \A v \in Planners : PlanHolds(v)'
    BY <1>1, <1>2, <1>3, <1>4, PlanEnds
<1> QED BY <1>1, <1>5

LEMMA NothingWritten ==
    ASSUME BoardInv, NEW u \in Planners, Planned(u, Unplanned),
           UNCHANGED <<ideas, columns, converted, boardPast>>
    PROVE  BoardInv'
BY PlanBegins DEF PlanRow, Unplanned

LEMMA MoveIdeaKeeps == ASSUME BoardInv, NEW u \in Planners, MoveIdea(u) PROVE BoardInv'
<1> DEFINE p == planner[u]
<1>1. /\ p \in PlanRow /\ Planned(u, Unplanned) /\ columns' = columns /\ converted' = converted
      /\ p.row.post <= converted[p.idea] /\ (p.column = NoColumn => p.idea \in boardPast.late)
    BY PlansReach DEF MoveIdea, BoardInv, PlanHolds
<1>2. CASE ~Referable(p.column)
    BY <1>1, <1>2, NothingWritten DEF MoveIdea
<1>3. CASE Referable(p.column)
    <2>0. PICK i \in IdeaIds : i = p.idea
        BY <1>1 DEF PlanRow
    <2>1. /\ p.row \in IdeaRow /\ p.column \in Columns \cup {NoColumn}
          /\ ideas[i] \in IdeaRow \cup {NoIdea} /\ (Exists(i) => ideas[i] \in IdeaRow)
        BY <1>1 DEF PlanRow, BoardInv, BoardTypes, Exists
    <2>2. PICK now \in IdeaRow :
             /\ now.group = p.column /\ now.cover = p.row.cover /\ now.post = p.row.post
             /\ now.media = IF Exists(i) THEN ideas[i].media ELSE {}
             /\ ideas' = [ideas EXCEPT ![i] = now]
        <3>1. PICK media \in SUBSET IdeaAssets : media = IF Exists(i) THEN ideas[i].media ELSE {}
            BY <2>1 DEF IdeaRow
        <3>2. [p.row EXCEPT !.group = p.column, !.media = media] \in IdeaRow
            BY <2>1 DEF IdeaRow
        <3>3. ideas' = [ideas EXCEPT ![i] = [p.row EXCEPT !.group = p.column, !.media = media]]
            BY <1>3, <2>0, <3>1 DEF MoveIdea
        <3> QED BY <2>1, <3>1, <3>2, <3>3 DEF IdeaRow
    <2>3. i = p.idea
        BY <2>0
    <2>4. ideas'[i] = now /\ \A j \in IdeaIds \ {i} : ideas'[j] = ideas[j]
        BY <2>2 DEF BoardInv, BoardTypes
    <2>5. boardPast' = [boardPast EXCEPT
                      !.stale = IF ideas[p.idea] # p.row THEN @ \cup {p.idea} ELSE @,
                      !.late = Late(p.idea, p.column)]
        BY <1>3 DEF MoveIdea
    <2>6. /\ boardPast'.late = Late(p.idea, p.column) /\ boardPast'.gone = boardPast.gone
          /\ boardPast'.deleted = boardPast.deleted /\ boardPast'.covered = boardPast.covered
          /\ boardPast'.stale = IF ideas[p.idea] # p.row THEN boardPast.stale \cup {p.idea}
                                ELSE boardPast.stale
        BY <2>5 DEF BoardInv, BoardTypes
    <2>7. /\ boardPast'.late \in SUBSET IdeaIds /\ boardPast.late \subseteq boardPast'.late
          /\ \A v \in Planners : PlanHolds(v)'
        BY <1>1, <2>1, <2>2, <2>3, <2>4, <2>6, PutNoted
    <2>8. BoardTypes'
        <3>1. ideas' \in [IdeaIds -> IdeaRow \cup {NoIdea}]
            BY <2>2 DEF BoardInv, BoardTypes
        <3>2. planner' \in [Planners -> PlanRow \cup SeedRow \cup DropRow \cup {Unplanned}]
            BY <1>1 DEF BoardInv, BoardTypes, Planned
        <3>3. boardPast' \in [stale: SUBSET IdeaIds, late: SUBSET IdeaIds, deleted: SUBSET IdeaIds,
                      gone: SUBSET Columns, covered: [IdeaIds -> IdeaAssets \cup {NoCover}]]
            BY <2>1, <2>3, <2>5, <2>6, <2>7 DEF BoardInv, BoardTypes
        <3> QED BY <1>1, <3>1, <3>2, <3>3 DEF BoardInv, BoardTypes
    <2>9. IdeaPlaced(i)' /\ IdeaNew(i)'
        <3>1. /\ now.group \in columns \cup {NoColumn} /\ now.post <= converted[p.idea]
              /\ now.group = NoColumn => i \in boardPast'.late
            BY <1>1, <1>3, <2>2, <2>3, <2>7 DEF Referable
        <3>2. Exists(i)'
            BY <2>2, <2>4, RowExists DEF Exists
        <3>3. ASSUME i \notin boardPast'.stale
              PROVE  /\ i \notin boardPast.deleted /\ now.post = converted[p.idea]
                     /\ Chosen(now.media, now.cover)
                     /\ boardPast.covered[p.idea] \in {NoCover, now.cover}
            <4>1. ideas[p.idea] = p.row /\ i \notin boardPast.stale
                BY <2>3, <2>6, <3>3
            <4>2. Exists(i)
                BY <2>1, <2>3, <4>1, RowExists DEF Exists
            <4>3. IdeaPlaced(i)
                BY <2>1, <4>2 DEF BoardInv
            <4> QED BY <2>2, <2>3, <4>1, <4>2, <4>3 DEF IdeaPlaced
        <3> QED BY <1>1, <2>3, <2>4, <2>6, <3>1, <3>2, <3>3 DEF IdeaPlaced, IdeaNew
    <2>10. \A j \in IdeaIds \ {i} : (Exists(j) => IdeaPlaced(j))' /\ IdeaNew(j)'
        BY <1>1, <2>3, <2>4, <2>6, <2>7 DEF BoardInv, IdeaPlaced, IdeaNew, Exists
    <2> QED BY <2>7, <2>8, <2>9, <2>10 DEF BoardInv
<1> QED BY <1>2, <1>3

LEMMA EditIdeaKeeps == ASSUME BoardInv, NEW u \in Planners, EditIdea(u) PROVE BoardInv'
<1> DEFINE p == planner[u]
           old == ideas[p.idea]
<1>1. /\ p \in PlanRow /\ Planned(u, Unplanned) /\ columns' = columns /\ converted' = converted
      /\ Chosen(p.media, p.cover) /\ (p.column = NoColumn => p.idea \in boardPast.late)
    BY PlansReach DEF EditIdea, BoardInv, PlanHolds
<1>2. CASE ~(Exists(p.idea) /\ Referable(p.column))
    BY <1>1, <1>2, NothingWritten DEF EditIdea
<1>3. CASE Exists(p.idea) /\ Referable(p.column)
    <2>0. PICK i \in IdeaIds : i = p.idea
        BY <1>1 DEF PlanRow
    <2>1. /\ p.row \in IdeaRow /\ p.column \in Columns \cup {NoColumn}
          /\ p.media \in SUBSET IdeaAssets /\ p.cover \in IdeaAssets \cup {NoCover}
          /\ old \in IdeaRow /\ IdeaPlaced(i) /\ NewCover(p) = p.cover
        BY <1>1, <1>3, <2>0 DEF PlanRow, BoardInv, BoardTypes, Exists, NewCover, Chosen
    <2>2. PICK now \in IdeaRow :
             /\ now.group = p.column /\ now.media = p.media /\ now.post = old.post
             /\ now.cover = IF p.row.cover # p.cover THEN p.cover ELSE old.cover
             /\ ideas' = [ideas EXCEPT ![i] = now]
        <3>1. PICK cover \in IdeaAssets \cup {NoCover} :
                 cover = IF p.row.cover # NewCover(p) THEN NewCover(p) ELSE old.cover
            BY <2>1 DEF IdeaRow
        <3>2. [old EXCEPT !.group = p.column, !.media = p.media, !.cover = cover] \in IdeaRow
            BY <2>1 DEF IdeaRow
        <3>3. ideas' = [ideas EXCEPT ![i] = [old EXCEPT !.group = p.column, !.media = p.media,
                                                        !.cover = cover]]
            BY <1>3, <2>0, <3>1 DEF EditIdea
        <3> QED BY <2>1, <3>1, <3>2, <3>3 DEF IdeaRow
    <2>3. i = p.idea
        BY <2>0
    <2>4. ideas'[i] = now /\ \A j \in IdeaIds \ {i} : ideas'[j] = ideas[j]
        BY <2>2 DEF BoardInv, BoardTypes
    <2>5. boardPast' = [boardPast EXCEPT
                      !.stale = IF old.cover # p.row.cover THEN @ \cup {p.idea} ELSE @,
                      !.late = Late(p.idea, p.column), !.covered[p.idea] = p.cover]
        BY <1>3 DEF EditIdea
    <2>6. /\ boardPast'.late = Late(p.idea, p.column) /\ boardPast'.gone = boardPast.gone
          /\ boardPast'.deleted = boardPast.deleted
          /\ boardPast'.covered = [boardPast.covered EXCEPT ![p.idea] = p.cover]
          /\ boardPast'.stale = IF old.cover # p.row.cover THEN boardPast.stale \cup {p.idea}
                                ELSE boardPast.stale
        BY <2>5 DEF BoardInv, BoardTypes
    <2>7. /\ boardPast'.late \in SUBSET IdeaIds /\ boardPast.late \subseteq boardPast'.late
          /\ \A v \in Planners : PlanHolds(v)'
        BY <1>1, <2>1, <2>2, <2>3, <2>4, <2>6, PutNoted
    <2>8. BoardTypes'
        <3>1. ideas' \in [IdeaIds -> IdeaRow \cup {NoIdea}]
            BY <2>2 DEF BoardInv, BoardTypes
        <3>2. planner' \in [Planners -> PlanRow \cup SeedRow \cup DropRow \cup {Unplanned}]
            BY <1>1 DEF BoardInv, BoardTypes, Planned
        <3>3. boardPast' \in [stale: SUBSET IdeaIds, late: SUBSET IdeaIds, deleted: SUBSET IdeaIds,
                      gone: SUBSET Columns, covered: [IdeaIds -> IdeaAssets \cup {NoCover}]]
            BY <2>1, <2>3, <2>5, <2>6, <2>7 DEF BoardInv, BoardTypes
        <3> QED BY <1>1, <3>1, <3>2, <3>3 DEF BoardInv, BoardTypes
    <2>9. IdeaPlaced(i)' /\ IdeaNew(i)'
        <3>1. /\ now.group \in columns \cup {NoColumn} /\ now.post <= converted[p.idea]
              /\ now.group = NoColumn => i \in boardPast'.late
            BY <1>1, <1>3, <2>1, <2>2, <2>3, <2>7 DEF IdeaPlaced, Referable
        <3>2. Exists(i)'
            BY <2>2, <2>4, RowExists DEF Exists
        <3>3. boardPast'.covered[i] = p.cover
            BY <2>1, <2>3, <2>6 DEF BoardInv, BoardTypes
        <3>4. ASSUME i \notin boardPast'.stale
              PROVE  /\ i \notin boardPast.deleted /\ now.post = converted[p.idea]
                     /\ Chosen(now.media, now.cover) /\ now.cover = p.cover
            <4>1. old.cover = p.row.cover /\ i \notin boardPast.stale
                BY <2>3, <2>6, <3>4
            <4> QED BY <1>1, <2>1, <2>2, <2>3, <4>1 DEF IdeaPlaced
        <3> QED BY <1>1, <2>3, <2>4, <2>6, <3>1, <3>2, <3>3, <3>4 DEF IdeaPlaced, IdeaNew
    <2>10. \A j \in IdeaIds \ {i} : (Exists(j) => IdeaPlaced(j))' /\ IdeaNew(j)'
        <3>1. \A j \in IdeaIds \ {i} : boardPast'.covered[j] = boardPast.covered[j]
            BY <2>3, <2>6 DEF BoardInv, BoardTypes
        <3> QED BY <1>1, <2>3, <2>4, <2>6, <2>7, <3>1 DEF BoardInv, IdeaPlaced, IdeaNew, Exists
    <2> QED BY <2>7, <2>8, <2>9, <2>10 DEF BoardInv
<1> QED BY <1>2, <1>3

LEMMA ConvertKeeps == ASSUME BoardInv, NEW u \in Planners, Convert(u) PROVE BoardInv'
<1> DEFINE p == planner[u]
<1>1. /\ p \in PlanRow /\ Planned(u, Unplanned) /\ columns' = columns /\ boardPast' = boardPast
    BY PlansReach DEF Convert
<1>2. CASE ~Exists(p.idea)
    BY <1>1, <1>2, NothingWritten DEF Convert
<1>3. CASE Exists(p.idea)
    <2>0. PICK i \in IdeaIds : i = p.idea
        BY <1>1 DEF PlanRow
    <2>1. ideas[i] \in IdeaRow /\ IdeaPlaced(i) /\ converted[i] \in Nat
        BY <1>1, <1>3, <2>0 DEF PlanRow, BoardInv, BoardTypes, Exists
    <2>2. PICK now \in IdeaRow :
             /\ now.group = ideas[i].group /\ now.media = ideas[i].media
             /\ now.cover = ideas[i].cover /\ now.post = converted[i] + 1
             /\ ideas' = [ideas EXCEPT ![i] = now]
        <3>1. PICK n \in Nat : n = converted[i] + 1
            BY <2>1
        <3>2. [ideas[i] EXCEPT !.post = n] \in IdeaRow
            BY <2>1 DEF IdeaRow
        <3>3. ideas' = [ideas EXCEPT ![i] = [ideas[i] EXCEPT !.post = n]]
            BY <1>3, <2>0, <2>1, <3>1 DEF Convert, BoardInv, BoardTypes
        <3> QED BY <2>1, <3>1, <3>2, <3>3 DEF IdeaRow
    <2>3. ideas'[i] = now /\ \A j \in IdeaIds \ {i} : ideas'[j] = ideas[j]
        BY <2>1, <2>2 DEF BoardInv, BoardTypes
    <2>4. /\ converted' \in [IdeaIds -> Nat] /\ converted'[i] = converted[i] + 1
          /\ \A j \in IdeaIds \ {i} : converted'[j] = converted[j]
        BY <1>3, <2>0, <2>1 DEF Convert, BoardInv, BoardTypes
    <2>5. BoardTypes'
        <3>1. ideas' \in [IdeaIds -> IdeaRow \cup {NoIdea}]
            BY <2>2 DEF BoardInv, BoardTypes
        <3>2. planner' \in [Planners -> PlanRow \cup SeedRow \cup DropRow \cup {Unplanned}]
            BY <1>1 DEF BoardInv, BoardTypes, Planned
        <3> QED BY <1>1, <2>4, <3>1, <3>2 DEF BoardInv, BoardTypes
    <2>6. \A v \in Planners : PlanHolds(v)'
        <3>1. \A j \in IdeaIds : ideas'[j].group = ideas[j].group /\ converted[j] <= converted'[j]
            BY <2>1, <2>2, <2>3, <2>4 DEF BoardInv, BoardTypes
        <3>2. columns \cup boardPast.gone \subseteq (columns \cup boardPast.gone)'
              /\ boardPast.late \subseteq boardPast'.late /\ converted \in [IdeaIds -> Nat]
            BY <1>1 DEF BoardInv, BoardTypes
        <3> QED BY <1>1, <2>4, <3>1, <3>2, PlanEnds
    <2>7. IdeaPlaced(i)' /\ IdeaNew(i)'
        <3>1. Exists(i)'
            BY <2>2, <2>3, RowExists DEF Exists
        <3> QED BY <1>1, <2>1, <2>2, <2>3, <2>4, <3>1 DEF IdeaPlaced, IdeaNew
    <2>8. \A j \in IdeaIds \ {i} : (Exists(j) => IdeaPlaced(j))' /\ IdeaNew(j)'
        BY <1>1, <2>3, <2>4 DEF BoardInv, IdeaPlaced, IdeaNew, Exists
    <2> QED BY <2>5, <2>6, <2>7, <2>8 DEF BoardInv
<1> QED BY <1>2, <1>3

LEMMA DeleteIdeaKeeps == ASSUME BoardInv, NEW u \in Planners, DeleteIdea(u) PROVE BoardInv'
<1> DEFINE p == planner[u]
<1>1. /\ p \in PlanRow /\ p.idea \in IdeaIds /\ Planned(u, Unplanned)
      /\ columns' = columns /\ converted' = converted /\ ideas' = [ideas EXCEPT ![p.idea] = NoIdea]
      /\ boardPast' = [boardPast EXCEPT !.deleted = @ \cup {p.idea}]
    BY PlansReach DEF DeleteIdea, PlanRow
<1>2. /\ boardPast'.deleted = boardPast.deleted \cup {p.idea} /\ boardPast'.late = boardPast.late
      /\ boardPast'.gone = boardPast.gone /\ boardPast'.stale = boardPast.stale
      /\ boardPast'.covered = boardPast.covered
    BY <1>1 DEF BoardInv, BoardTypes
<1>3. ideas'[p.idea] = NoIdea /\ \A j \in IdeaIds \ {p.idea} : ideas'[j] = ideas[j]
    BY <1>1 DEF BoardInv, BoardTypes
<1>4. BoardTypes'
    BY <1>1 DEF BoardInv, BoardTypes, Planned
<1>5. \A v \in Planners : PlanHolds(v)'
    <2>1. \A v \in Planners : planner'[v].step = "drop" => planner'[v].column \in Columns
        BY <1>4 DEF BoardTypes, PlanRow, SeedRow, DropRow, Unplanned
    <2>2. \A v \in Planners : planner'[v].step = "drop" => NoIdea.group # planner'[v].column
        BY <2>1, IdeasAssumption
    <2>3. converted \in [IdeaIds -> Nat]
        BY DEF BoardInv, BoardTypes
    <2>4. columns \cup boardPast.gone \subseteq (columns \cup boardPast.gone)'
        BY <1>1, <1>2
    <2> QED BY <1>1, <1>2, <1>3, <2>2, <2>3, <2>4, PlanEnds
<1>6. \A j \in IdeaIds : (Exists(j) => IdeaPlaced(j))' /\ IdeaNew(j)'
    BY <1>1, <1>2, <1>3 DEF BoardInv, IdeaPlaced, IdeaNew, Exists
<1> QED BY <1>4, <1>5, <1>6 DEF BoardInv

LEMMA DropColumnKeeps == ASSUME BoardInv, NEW u \in Planners, DropColumn(u) PROVE BoardInv'
<1> DEFINE c == planner[u].column
<1>1. /\ c \in Columns /\ planner[u].step = "drop" /\ Planned(u, Unplanned)
      /\ columns' = columns \ {c} /\ converted' = converted
      /\ ideas' = [i \in IdeaIds |-> IF ideas[i].group = c THEN [ideas[i] EXCEPT !.group = NoColumn]
                                     ELSE ideas[i]]
      /\ boardPast' = [boardPast EXCEPT !.gone = @ \cup {c}]
    BY DEF DropColumn, BoardInv, BoardTypes, PlanRow, SeedRow, DropRow, Unplanned
<1>2. \A i \in IdeaIds : ideas[i].group = c => ideas[i] \in IdeaRow /\ Exists(i) /\ i \in boardPast.late
    BY <1>1, IdeasAssumption DEF BoardInv, BoardTypes, PlanHolds, Exists
<1>3. \A i \in IdeaIds : ideas[i].group # c => ideas'[i] = ideas[i]
    BY <1>1
<1>4. \A i \in IdeaIds : ideas[i].group = c =>
         /\ ideas'[i] \in IdeaRow /\ ideas'[i].group = NoColumn /\ ideas'[i].post = ideas[i].post
         /\ ideas'[i].media = ideas[i].media /\ ideas'[i].cover = ideas[i].cover
    <2> SUFFICES ASSUME NEW i \in IdeaIds, ideas[i].group = c
                 PROVE  /\ ideas'[i] \in IdeaRow /\ ideas'[i].group = NoColumn
                        /\ ideas'[i].post = ideas[i].post
                        /\ ideas'[i].media = ideas[i].media /\ ideas'[i].cover = ideas[i].cover
        OBVIOUS
    <2>1. ideas'[i] = [ideas[i] EXCEPT !.group = NoColumn] /\ ideas[i] \in IdeaRow
        BY <1>1, <1>2
    <2> QED BY <2>1 DEF IdeaRow
<1>5. /\ boardPast'.deleted = boardPast.deleted /\ boardPast'.late = boardPast.late
      /\ boardPast'.gone = boardPast.gone \cup {c} /\ boardPast'.stale = boardPast.stale
      /\ boardPast'.covered = boardPast.covered
    BY <1>1 DEF BoardInv, BoardTypes
<1>6. BoardTypes'
    <2>1. ideas' \in [IdeaIds -> IdeaRow \cup {NoIdea}]
        BY <1>1, <1>3, <1>4 DEF BoardInv, BoardTypes
    <2> QED BY <1>1, <2>1 DEF BoardInv, BoardTypes, Planned
<1>7. \A v \in Planners : PlanHolds(v)'
    <2>1. \A v \in Planners : planner'[v].step = "drop" => planner'[v].column # NoColumn
        BY <1>6, IdeasAssumption DEF BoardTypes, PlanRow, SeedRow, DropRow, Unplanned
    <2>2. \A v \in Planners : planner'[v].step = "drop" =>
             \A i \in IdeaIds : ideas'[i].group = planner'[v].column =>
                ideas[i].group = planner'[v].column
        BY <1>3, <1>4, <2>1
    <2>3. converted \in [IdeaIds -> Nat]
        BY DEF BoardInv, BoardTypes
    <2>4. columns \cup boardPast.gone \subseteq (columns \cup boardPast.gone)'
        BY <1>1, <1>5
    <2> QED BY <1>1, <1>5, <2>2, <2>3, <2>4, PlanEnds
<1>8. \A i \in IdeaIds : (Exists(i) => IdeaPlaced(i))' /\ IdeaNew(i)'
    <2> SUFFICES ASSUME NEW i \in IdeaIds PROVE (Exists(i) => IdeaPlaced(i))' /\ IdeaNew(i)'
        OBVIOUS
    <2>1. CASE ideas[i].group = c
        <3>1. Exists(i) /\ IdeaPlaced(i) /\ i \in boardPast.late /\ IdeaNew(i)
            BY <1>2, <2>1 DEF BoardInv
        <3>2. Exists(i)'
            BY <1>4, <2>1, RowExists DEF Exists
        <3> QED BY <1>1, <1>4, <1>5, <2>1, <3>1, <3>2 DEF IdeaPlaced, IdeaNew
    <2>2. CASE ideas[i].group # c
        BY <1>1, <1>3, <1>5, <2>2 DEF BoardInv, IdeaPlaced, IdeaNew, Exists
    <2> QED BY <2>1, <2>2
<1> QED BY <1>6, <1>7, <1>8 DEF BoardInv

LEMMA BoardNextKeeps == BoardInv /\ [BoardNext]_boardVars => BoardInv'
<1> SUFFICES ASSUME BoardInv, [BoardNext]_boardVars PROVE BoardInv'
    OBVIOUS
<1>1. CASE UNCHANGED boardVars
    BY <1>1 DEF boardVars, BoardInv, BoardTypes, IdeaPlaced, IdeaNew, PlanHolds, Exists
<1>2. CASE BoardNext
    <2> SUFFICES ASSUME NEW u \in Planners,
                        \/ FirstView(u)
                        \/ \E c \in Columns, i \in IdeaIds : Seed(u, c, i)
                        \/ \E i \in IdeaIds, c \in Columns, media \in SUBSET IdeaAssets,
                              cover \in IdeaAssets \cup {NoCover} :
                              /\ Chosen(media, cover)
                              /\ \/ CreateIdea(u, i, c, media, cover)
                                 \/ ReadIdea(u, i, "edit", c, media, cover)
                        \/ \E i \in IdeaIds, c \in Columns : ReadIdea(u, i, "move", c, {}, NoCover)
                        \/ \E i \in IdeaIds, kind \in {"convert", "delete"} :
                              ReadIdea(u, i, kind, NoColumn, {}, NoCover)
                        \/ \E c \in Columns : CreateColumn(u, c) \/ CheckColumn(u, c)
                        \/ MoveIdea(u) \/ EditIdea(u) \/ Convert(u) \/ DeleteIdea(u) \/ DropColumn(u)
                 PROVE  BoardInv'
        BY <1>2 DEF BoardNext, Shown, BoardInv, BoardTypes
    <2>1. Chosen({}, NoCover)
        BY DEF Chosen
    <2> QED BY <2>1, FirstViewKeeps, SeedKeeps, CreateIdeaKeeps, ReadKeeps, CreateColumnKeeps,
               CheckColumnKeeps, MoveIdeaKeeps, EditIdeaKeeps, ConvertKeeps, DeleteIdeaKeeps,
               DropColumnKeeps
<1> QED BY <1>1, <1>2

LEMMA BoardInvHolds == BoardInv => IdeasAreSound /\ BoardTypeOK
<1> SUFFICES ASSUME BoardInv PROVE IdeasAreSound /\ BoardTypeOK
    OBVIOUS
<1>1. \A i \in IdeaIds : Exists(i) => IdeaPlaced(i) /\ ideas[i] \in IdeaRow /\ converted[i] \in Nat
    BY DEF BoardInv, BoardTypes, Exists
<1>2. BoardTypeOK
    BY <1>1 DEF BoardTypeOK, IdeaPlaced, IdeaRow
<1>3. IdeasOnBoard /\ ConversionsKept
    BY <1>1 DEF IdeasOnBoard, ConversionsKept, IdeaPlaced
<1>4. CoverAligned
    BY <1>1 DEF CoverAligned, IdeaPlaced, Chosen
<1> QED BY <1>2, <1>3, <1>4 DEF IdeasAreSound

\* Whatever planners create, move, edit, convert and delete at once, an idea has a column
\* unless the column's deletion had been decided, or done, when the idea was put in it; a
\* deleted idea stays deleted, a converted one knows its last post and the cover is one of
\* the media, but for the copies written back.
THEOREM IdeasStayOnBoard == BoardInit /\ [][BoardNext]_boardVars => []IdeasAreSound
BY BoardInvInit, BoardNextKeeps, BoardInvHolds, PTL

-------------------------------------------------------------------------------
(* Bulk import *)

SessionsOver(files) == [file: files \cup {NoFile}, mapping: files \cup {NoFile}]
CsvSession == SessionsOver(Files)
FileRow == [step: {"upload", "preview"}, session: CsvSession, file: Files]
ImportingRow == [step: {"import"}, session: CsvSession, row: Nat \ {0}, created: Nat, errors: Nat]

AnswerRow == [file: Files, created: Nat, errors: Nat]

CsvTypes ==
    /\ csv \in CsvSession /\ csvFaults \in 0 .. MaxCsvFaults
    /\ importer \in [Importers -> FileRow \cup ImportingRow \cup {NoImport}]
    /\ imported \in [Cells -> [scheduled: Nat, draft: Nat]]
    /\ csvPast \in [uploaded: SUBSET Files, crossed: BOOLEAN, answers: SUBSET AnswerRow,
                    foreign: SUBSET Files, confirms: [Files -> Nat]]
    /\ IsFiniteSet(csvPast.uploaded)

\* Files whose import answered.
ImportsOver == {a.file : a \in csvPast.answers}

Busy(u) == importer[u] # NoImport
Importing(u) == importer[u].step = "import"
Uploading(u) == importer[u].step = "upload"

\* Sessions name files that were uploaded.
SessionsKnown ==
    /\ csv \in SessionsOver(csvPast.uploaded) /\ ImportsOver \subseteq csvPast.uploaded
    /\ \A u \in Importers : Busy(u) => importer[u].session \in SessionsOver(csvPast.uploaded)
    /\ \A u \in Importers : importer[u] \in FileRow => importer[u].file \in csvPast.uploaded
    /\ \A u \in Importers : Importing(u) => importer[u].session.file \in Files

\* A file on its way into the session is in no session yet.
UploadsNew ==
    \A u \in Importers : Uploading(u) =>
        /\ csv.file # importer[u].file /\ importer[u].file \notin ImportsOver
        /\ \A v \in Importers : Busy(v) => importer[v].session.file # importer[u].file
        /\ \A v \in Importers \ {u} : Uploading(v) => importer[v].file # importer[u].file

\* The imports that have yet to come to row n of f.
Owed(f, n) == {u \in Importers : Importing(u) /\ importer[u].session.file = f /\ importer[u].row <= n}

\* Each import makes at most one post of a row.
RowCounted(f, n) ==
    /\ Posts(<<f, n>>) + Cardinality(Owed(f, n)) <= csvPast.confirms[f]
    /\ <<f, n>> \in NoCaption => Posts(<<f, n>>) = 0
    /\ <<f, n>> \notin Dated => imported[<<f, n>>].scheduled = 0

\* An import has counted the rows behind it, and no more posts than those made.
RowsBehind ==
    \A u \in Importers : Importing(u) =>
        /\ importer[u].row - 1 <= CsvRows
        /\ importer[u].created + importer[u].errors = importer[u].row - 1
        /\ importer[u].created <= Cardinality(Made(importer[u].session.file, importer[u].row - 1))

CsvInv ==
    /\ CsvTypes /\ SessionsKnown /\ UploadsNew /\ RowsBehind
    /\ \A f \in Files, n \in 1 .. CsvRows : RowCounted(f, n)
    /\ ImportsEnd /\ MappedAsShown

LEMMA CsvCells == \A f \in Files, n \in 1 .. CsvRows : <<f, n>> \in Cells
BY DEF Cells

LEMMA CsvInvInit == CsvInit => CsvInv
<1> SUFFICES ASSUME CsvInit PROVE CsvInv
    OBVIOUS
<1>1. CsvTypes
    <2>1. csvPast \in [uploaded: SUBSET Files, crossed: BOOLEAN, answers: SUBSET AnswerRow,
                    foreign: SUBSET Files, confirms: [Files -> Nat]]
        BY DEF CsvInit, CsvHistory
    <2>2. IsFiniteSet(csvPast.uploaded)
        BY FS_EmptySet DEF CsvInit, CsvHistory
    <2> QED BY <2>1, <2>2, CsvAssumption DEF CsvInit, CsvTypes, CsvSession, SessionsOver, EmptySession, NoImport
<1>2. SessionsKnown /\ UploadsNew /\ RowsBehind
    BY DEF CsvInit, SessionsKnown, SessionsOver, UploadsNew, RowsBehind, EmptySession, NoImport,
           CsvHistory, Busy, Importing, Uploading, FileRow, ImportsOver
<1>3. ASSUME NEW f \in Files, NEW n \in 1 .. CsvRows PROVE RowCounted(f, n)
    <2>1. Owed(f, n) = {}
        BY DEF Owed, Importing, CsvInit, NoImport
    <2>2. Cardinality(Owed(f, n)) = 0
        BY <2>1, FS_EmptySet
    <2>3. imported[<<f, n>>] = [scheduled |-> 0, draft |-> 0] /\ csvPast.confirms[f] = 0
        BY CsvCells DEF CsvInit, CsvHistory
    <2>4. Posts(<<f, n>>) = 0
        BY <2>3 DEF Posts
    <2> QED BY <2>2, <2>3, <2>4 DEF RowCounted
<1>4. ImportsEnd /\ MappedAsShown
    BY DEF CsvInit, CsvHistory, ImportsEnd, MappedAsShown
<1> QED BY <1>1, <1>2, <1>3, <1>4 DEF CsvInv

\* What each kind of request holds.
LEMMA ImporterRows ==
    ASSUME CsvInv, NEW u \in Importers
    PROVE  /\ importer[u].step \in {"upload", "preview"} => importer[u] \in FileRow
           /\ Importing(u) => importer[u] \in ImportingRow
           /\ Busy(u) => importer[u].session \in CsvSession
           /\ importer[u].step = "idle" <=> ~Busy(u)
BY DEF CsvInv, CsvTypes, FileRow, ImportingRow, NoImport, Importing, Busy

LEMMA OwedCounted ==
    \A f \in Files, n \in 1 .. CsvRows :
        IsFiniteSet(Owed(f, n)) /\ Cardinality(Owed(f, n)) \in Nat
BY CsvAssumption, FS_Subset, FS_CardinalityType DEF Owed

LEMMA PostsCounted ==
    ASSUME CsvTypes, NEW f \in Files, NEW n \in 1 .. CsvRows
    PROVE  /\ imported[<<f, n>>].scheduled \in Nat /\ imported[<<f, n>>].draft \in Nat
           /\ Posts(<<f, n>>) \in Nat /\ csvPast.confirms[f] \in Nat
BY CsvCells DEF CsvTypes, Posts

LEMMA MadeCounted ==
    \A f \in Files, m \in 0 .. CsvRows : IsFiniteSet(Made(f, m)) /\ Cardinality(Made(f, m)) \in Nat
<1> SUFFICES ASSUME NEW f \in Files, NEW m \in 0 .. CsvRows
             PROVE  IsFiniteSet(Made(f, m)) /\ Cardinality(Made(f, m)) \in Nat
    OBVIOUS
<1>1. IsFiniteSet(1 .. m)
    BY CsvAssumption, FS_Interval
<1>2. Made(f, m) \subseteq 1 .. m
    BY DEF Made
<1> QED BY <1>1, <1>2, FS_Subset, FS_CardinalityType

\* Posts are not taken away.
LEMMA MadeGrows ==
    ASSUME NEW f \in Files, NEW m \in 0 .. CsvRows,
           \A n \in 1 .. CsvRows :
              Posts(<<f, n>>) \in Nat /\ Posts(<<f, n>>)' \in Nat /\ Posts(<<f, n>>)' >= Posts(<<f, n>>)
    PROVE  /\ Made(f, m) \subseteq Made(f, m)'
           /\ IsFiniteSet(Made(f, m)') /\ Cardinality(Made(f, m)') \in Nat
           /\ Cardinality(Made(f, m)) <= Cardinality(Made(f, m)')
<1>1. Made(f, m) \subseteq Made(f, m)'
    BY CsvAssumption DEF Made
<1>2. IsFiniteSet(1 .. m) /\ Made(f, m)' \subseteq 1 .. m
    BY CsvAssumption, FS_Interval DEF Made
<1>3. IsFiniteSet(Made(f, m)')
    BY <1>2, FS_Subset
<1> QED BY <1>1, <1>3, FS_Subset, FS_CardinalityType

\* Where nothing is imported and no import begins, rows stay counted.
LEMMA RowsCounted ==
    ASSUME CsvInv, imported' = imported, csvPast'.confirms = csvPast.confirms,
           \A v \in Importers : Importing(v)' => importer'[v] = importer[v]
    PROVE  /\ \A f \in Files, n \in 1 .. CsvRows : RowCounted(f, n)'
           /\ RowsBehind'
<1>1. ASSUME NEW f \in Files, NEW n \in 1 .. CsvRows PROVE RowCounted(f, n)'
    <2>1. Owed(f, n)' \subseteq Owed(f, n)
        BY DEF Owed, Importing
    <2>2. Cardinality(Owed(f, n)') <= Cardinality(Owed(f, n)) /\ Cardinality(Owed(f, n)') \in Nat
        BY <2>1, OwedCounted, FS_Subset, FS_CardinalityType
    <2>3. Posts(<<f, n>>)' = Posts(<<f, n>>)
        BY DEF Posts
    <2>4. RowCounted(f, n) /\ CsvTypes
        BY DEF CsvInv
    <2> QED BY <2>2, <2>3, <2>4, OwedCounted, PostsCounted DEF RowCounted
<1>2. RowsBehind'
    BY DEF CsvInv, RowsBehind, Importing, Made, Posts
<1> QED BY <1>1, <1>2

\* A session is known while files are only added.
LEMMA StillKnown ==
    ASSUME NEW files, NEW more, files \subseteq more PROVE SessionsOver(files) \subseteq SessionsOver(more)
BY DEF SessionsOver

LEMMA BeginUploadKeeps ==
    ASSUME CsvInv, NEW u \in Importers, NEW f \in Files, BeginUpload(u, f) PROVE CsvInv'
<1> DEFINE row == [step |-> "upload", session |-> csv, file |-> f]
<1>1. /\ csv' = csv /\ csvFaults' = csvFaults /\ imported' = imported
      /\ importer' = [importer EXCEPT ![u] = row] /\ ~Busy(u) /\ f \notin csvPast.uploaded
      /\ csvPast' = [csvPast EXCEPT !.uploaded = @ \cup {f}]
    BY DEF BeginUpload, Import, CsvCall, Busy
<1>2. row \in FileRow
    BY DEF FileRow, CsvInv, CsvTypes
<1>3. importer'[u] = row /\ \A v \in Importers \ {u} : importer'[v] = importer[v]
    BY <1>1 DEF CsvInv, CsvTypes
<1>4. /\ csvPast'.uploaded = csvPast.uploaded \cup {f} /\ csvPast'.answers = csvPast.answers /\ ImportsOver' = ImportsOver
      /\ csvPast'.confirms = csvPast.confirms /\ csvPast'.foreign = csvPast.foreign
      /\ csvPast'.crossed = csvPast.crossed
    BY <1>1 DEF CsvInv, CsvTypes, ImportsOver
<1>5. IsFiniteSet(csvPast'.uploaded)
    BY <1>4, FS_AddElement DEF CsvInv, CsvTypes
<1>6. CsvTypes'
    BY <1>1, <1>2, <1>5 DEF CsvInv, CsvTypes
<1>7. \A v \in Importers : Importing(v)' => importer'[v] = importer[v]
    BY <1>3 DEF Importing
<1>8. \A f_1 \in Files, n \in 1 .. CsvRows : RowCounted(f_1, n)'
    BY <1>1, <1>4, <1>7, RowsCounted
<1>9. RowsBehind'
    BY <1>1, <1>4, <1>7, RowsCounted
<1>10. SessionsKnown'
    <2>1. csv' \in SessionsOver(csvPast'.uploaded) /\ ImportsOver' \subseteq csvPast'.uploaded
        BY <1>1, <1>4, StillKnown DEF CsvInv, SessionsKnown
    <2>2. \A v \in Importers : Busy(v)' => importer'[v].session \in SessionsOver(csvPast'.uploaded)
        <3>1. \A v \in Importers : Busy(v) => importer[v].session \in SessionsOver(csvPast'.uploaded)
            BY <1>4, StillKnown DEF CsvInv, SessionsKnown
        <3> QED BY <1>1, <1>3, <2>1, <3>1 DEF Busy
    <2>3. \A v \in Importers : importer'[v] \in FileRow => importer'[v].file \in csvPast'.uploaded
        BY <1>3, <1>4 DEF CsvInv, SessionsKnown
    <2>4. \A v \in Importers : Importing(v)' => importer'[v].session.file \in Files
        BY <1>3 DEF CsvInv, SessionsKnown, Importing
    <2> QED BY <2>1, <2>2, <2>3, <2>4 DEF SessionsKnown
<1>11. UploadsNew'
    <2>1. csv.file # f /\ f \notin ImportsOver
        BY <1>1, CsvAssumption DEF CsvInv, SessionsKnown, SessionsOver
    <2>2. \A v \in Importers : Busy(v) => importer[v].session.file # f
        BY <1>1, CsvAssumption DEF CsvInv, SessionsKnown, SessionsOver
    <2>3. \A v \in Importers : Uploading(v) => importer[v].file # f /\ Busy(v)
        BY <1>1, ImporterRows DEF CsvInv, SessionsKnown, Uploading, Busy, NoImport
    <2> QED BY <1>1, <1>3, <1>4, <2>1, <2>2, <2>3 DEF CsvInv, UploadsNew, Uploading, Busy
<1>12. ImportsEnd'
    BY <1>1, <1>4 DEF CsvInv, ImportsEnd, Made, Posts
<1>13. MappedAsShown'
    <2>1. Cardinality(csvPast'.uploaded) >= Cardinality(csvPast.uploaded)
          /\ Cardinality(csvPast.uploaded) \in Nat /\ Cardinality(csvPast'.uploaded) \in Nat
        BY <1>4, <1>5, FS_Subset, FS_CardinalityType DEF CsvInv, CsvTypes
    <2> QED BY <1>4, <2>1 DEF CsvInv, MappedAsShown
<1> QED BY <1>6, <1>8, <1>9, <1>10, <1>11, <1>12, <1>13 DEF CsvInv

\* A request that writes the session and ends, importing nothing.
LEMMA StoreUploadKeeps == ASSUME CsvInv, NEW u \in Importers, StoreUpload(u) PROVE CsvInv'
<1> DEFINE r == importer[u]
<1>1. /\ r \in FileRow /\ r.step = "upload" /\ Busy(u) /\ Uploading(u) /\ r.session \in CsvSession
      /\ r.file \in Files
    BY ImporterRows DEF StoreUpload, Uploading, Busy, NoImport, FileRow
<1>2. /\ csvFaults' = csvFaults /\ imported' = imported
      /\ importer' = [importer EXCEPT ![u] = NoImport]
      /\ csv' = [r.session EXCEPT !.file = r.file]
    BY DEF StoreUpload, WriteSession, Import
<1>3. csv' \in CsvSession /\ csv'.file = r.file /\ csv'.mapping = r.session.mapping
    BY <1>1, <1>2 DEF CsvSession, SessionsOver
<1>4. csvPast' = [csvPast EXCEPT !.crossed = @ \/ csv # r.session]
    <2>1. csvPast' = [csvPast EXCEPT !.crossed = @ \/ csv # r.session, !.answers = @]
        BY <1>1 DEF StoreUpload, WriteSession
    <2> QED BY <2>1 DEF CsvInv, CsvTypes
<1>5. /\ csvPast'.uploaded = csvPast.uploaded /\ csvPast'.answers = csvPast.answers /\ ImportsOver' = ImportsOver
      /\ csvPast'.confirms = csvPast.confirms /\ csvPast'.foreign = csvPast.foreign
      /\ (csvPast'.crossed <=> csvPast.crossed \/ csv # r.session)
    BY <1>4 DEF CsvInv, CsvTypes, ImportsOver
<1>6. importer'[u] = NoImport /\ \A v \in Importers \ {u} : importer'[v] = importer[v]
    BY <1>2 DEF CsvInv, CsvTypes
<1>7. CsvTypes'
    BY <1>2, <1>3, <1>4, <1>5 DEF CsvInv, CsvTypes
<1>8. \A v \in Importers : Importing(v)' => importer'[v] = importer[v]
    BY <1>6 DEF Importing, NoImport
<1>9. /\ \A f \in Files, n \in 1 .. CsvRows : RowCounted(f, n)'
      /\ RowsBehind'
    BY <1>2, <1>5, <1>8, RowsCounted
<1>10. SessionsKnown'
    <2>1. csv' \in SessionsOver(csvPast'.uploaded)
        BY <1>1, <1>2, <1>5 DEF CsvInv, SessionsKnown, SessionsOver
    <2>2. \A v \in Importers \ {u} : Busy(v)' => importer'[v].session \in SessionsOver(csvPast'.uploaded)
        BY <1>5, <1>6 DEF CsvInv, SessionsKnown, Busy
    <2>3. ~Busy(u)' /\ ~Importing(u)' /\ importer'[u] \notin FileRow
        BY <1>6 DEF Busy, Importing, NoImport, FileRow
    <2>4. \A v \in Importers : importer'[v] \in FileRow => importer'[v].file \in csvPast'.uploaded
        BY <1>5, <1>6, <2>3 DEF CsvInv, SessionsKnown
    <2>5. \A v \in Importers : Importing(v)' => importer'[v].session.file \in Files
        BY <1>6, <2>3 DEF CsvInv, SessionsKnown, Importing
    <2>6. ImportsOver' \subseteq csvPast'.uploaded
        BY <1>5 DEF CsvInv, SessionsKnown
    <2> QED BY <2>1, <2>2, <2>3, <2>4, <2>5, <2>6 DEF SessionsKnown
<1>11. UploadsNew'
    BY <1>1, <1>3, <1>5, <1>6 DEF CsvInv, UploadsNew, Busy, Uploading, NoImport
<1>12. ImportsEnd'
    BY <1>1, <1>2, <1>3, <1>5 DEF CsvInv, ImportsEnd, Made, Posts, UploadsNew, ImportsOver
<1>13. MappedAsShown'
    BY <1>5 DEF CsvInv, MappedAsShown
<1> QED BY <1>7, <1>9, <1>10, <1>11, <1>12, <1>13 DEF CsvInv

LEMMA BeginMappingKeeps == ASSUME CsvInv, NEW u \in Importers, BeginMapping(u) PROVE CsvInv'
<1> DEFINE row == [step |-> "preview", session |-> csv, file |-> csv.file]
<1>1. /\ csv' = csv /\ csvFaults' = csvFaults /\ imported' = imported /\ csvPast' = csvPast
      /\ importer' = [importer EXCEPT ![u] = row] /\ ~Busy(u) /\ csv.file \in csvPast.uploaded
    BY DEF BeginMapping, Import, CsvCall, Busy, CsvInv, SessionsKnown, SessionsOver
<1>2. row \in FileRow
    BY <1>1 DEF FileRow, CsvInv, CsvTypes
<1>3. importer'[u] = row /\ \A v \in Importers \ {u} : importer'[v] = importer[v]
    BY <1>1 DEF CsvInv, CsvTypes
<1>4. CsvTypes'
    BY <1>1, <1>2 DEF CsvInv, CsvTypes
<1>5. \A v \in Importers : Importing(v)' => importer'[v] = importer[v]
    BY <1>3 DEF Importing
<1>6. /\ \A f \in Files, n \in 1 .. CsvRows : RowCounted(f, n)'
      /\ RowsBehind'
    BY <1>1, <1>5, RowsCounted
<1>7. SessionsKnown'
    <2>1. \A v \in Importers : Busy(v)' => importer'[v].session \in SessionsOver(csvPast'.uploaded)
        BY <1>1, <1>3 DEF CsvInv, SessionsKnown, Busy
    <2>2. \A v \in Importers : importer'[v] \in FileRow => importer'[v].file \in csvPast'.uploaded
        BY <1>1, <1>3 DEF CsvInv, SessionsKnown
    <2>3. \A v \in Importers : Importing(v)' => importer'[v].session.file \in Files
        BY <1>3 DEF CsvInv, SessionsKnown, Importing
    <2> QED BY <1>1, <2>1, <2>2, <2>3 DEF CsvInv, SessionsKnown, ImportsOver
<1>8. UploadsNew'
    BY <1>1, <1>3 DEF CsvInv, UploadsNew, Uploading, Busy, ImportsOver
<1>9. ImportsEnd' /\ MappedAsShown'
    BY <1>1 DEF CsvInv, ImportsEnd, MappedAsShown, Made, Posts
<1> QED BY <1>4, <1>6, <1>7, <1>8, <1>9 DEF CsvInv

\* A request ends without importing anything more, and leaves the session known.
LEMMA ImportRequestEnds ==
    ASSUME CsvInv, NEW u \in Importers, importer' = [importer EXCEPT ![u] = NoImport],
           csvPast'.uploaded = csvPast.uploaded, ImportsOver' \subseteq csvPast.uploaded,
           csv' \in SessionsOver(csvPast.uploaded),
           \A v \in Importers : Uploading(v) =>
              csv'.file # importer[v].file /\ importer[v].file \notin ImportsOver'
    PROVE  /\ SessionsKnown' /\ UploadsNew'
           /\ importer' \in [Importers -> FileRow \cup ImportingRow \cup {NoImport}]
           /\ \A v \in Importers : Importing(v)' => importer'[v] = importer[v]
<1>1. importer'[u] = NoImport /\ \A v \in Importers \ {u} : importer'[v] = importer[v]
    BY DEF CsvInv, CsvTypes
<1>2. ~Busy(u)' /\ ~Importing(u)' /\ ~Uploading(u)' /\ importer'[u] \notin FileRow
    BY <1>1 DEF Busy, Importing, Uploading, NoImport, FileRow
<1>3. SessionsKnown'
    <2>1. \A v \in Importers : Busy(v)' => importer'[v].session \in SessionsOver(csvPast'.uploaded)
        BY <1>1, <1>2 DEF CsvInv, SessionsKnown, Busy
    <2>2. \A v \in Importers : importer'[v] \in FileRow => importer'[v].file \in csvPast'.uploaded
        BY <1>1, <1>2 DEF CsvInv, SessionsKnown
    <2>3. \A v \in Importers : Importing(v)' => importer'[v].session.file \in Files
        BY <1>1, <1>2 DEF CsvInv, SessionsKnown, Importing
    <2> QED BY <2>1, <2>2, <2>3 DEF SessionsKnown
<1>4. UploadsNew'
    BY <1>1, <1>2 DEF CsvInv, UploadsNew, Busy, Uploading
<1>5. importer' \in [Importers -> FileRow \cup ImportingRow \cup {NoImport}]
    BY DEF CsvInv, CsvTypes
<1> QED BY <1>1, <1>2, <1>3, <1>4, <1>5 DEF Importing

LEMMA StoreMappingKeeps == ASSUME CsvInv, NEW u \in Importers, StoreMapping(u) PROVE CsvInv'
<1> DEFINE r == importer[u]
<1>1. /\ r \in FileRow /\ Busy(u) /\ r.step = "preview" /\ r.session \in SessionsOver(csvPast.uploaded)
      /\ r.file \in csvPast.uploaded
    BY ImporterRows DEF StoreMapping, Busy, NoImport, CsvInv, SessionsKnown
<1>2. /\ csvFaults' = csvFaults /\ imported' = imported
      /\ importer' = [importer EXCEPT ![u] = NoImport]
      /\ csv' = [r.session EXCEPT !.mapping = r.file]
    BY DEF StoreMapping, WriteSession, Import
<1>3. csv' \in SessionsOver(csvPast.uploaded) /\ csv'.file = r.session.file
    BY <1>1, <1>2 DEF SessionsOver
<1>4. csvPast' = [csvPast EXCEPT !.crossed = @ \/ csv # r.session]
    <2>1. csvPast' = [csvPast EXCEPT !.crossed = @ \/ csv # r.session, !.answers = @]
        BY <1>1 DEF StoreMapping, WriteSession
    <2> QED BY <2>1 DEF CsvInv, CsvTypes
<1>5. /\ csvPast'.uploaded = csvPast.uploaded /\ csvPast'.answers = csvPast.answers /\ ImportsOver' = ImportsOver
      /\ csvPast'.confirms = csvPast.confirms /\ csvPast'.foreign = csvPast.foreign
      /\ (csvPast'.crossed <=> csvPast.crossed \/ csv # r.session)
    BY <1>4 DEF CsvInv, CsvTypes, ImportsOver
<1>6. \A v \in Importers : Uploading(v) =>
         csv'.file # importer[v].file /\ importer[v].file \notin ImportsOver'
    BY <1>1, <1>3, <1>5 DEF CsvInv, UploadsNew
<1>7. ImportsOver' \subseteq csvPast.uploaded
    BY <1>5 DEF CsvInv, SessionsKnown
<1>8. /\ SessionsKnown' /\ UploadsNew'
      /\ importer' \in [Importers -> FileRow \cup ImportingRow \cup {NoImport}]
      /\ \A v \in Importers : Importing(v)' => importer'[v] = importer[v]
    BY <1>2, <1>3, <1>5, <1>6, <1>7, ImportRequestEnds
<1>9. CsvTypes'
    <2>1. csv' \in CsvSession
        BY <1>3, StillKnown DEF CsvSession, CsvInv, CsvTypes
    <2> QED BY <1>2, <1>4, <1>5, <1>8, <2>1 DEF CsvInv, CsvTypes
<1>10. /\ \A f \in Files, n \in 1 .. CsvRows : RowCounted(f, n)'
       /\ RowsBehind'
    BY <1>2, <1>5, <1>8, RowsCounted
<1>11. ImportsEnd'
    BY <1>2, <1>3, <1>5 DEF CsvInv, ImportsEnd, Made, Posts
<1>12. MappedAsShown'
    BY <1>5 DEF CsvInv, MappedAsShown
<1> QED BY <1>8, <1>9, <1>10, <1>11, <1>12 DEF CsvInv

LEMMA FinishImportKeeps == ASSUME CsvInv, NEW u \in Importers, FinishImport(u) PROVE CsvInv'
<1> DEFINE r == importer[u]
<1>1. /\ r \in ImportingRow /\ Busy(u) /\ Importing(u) /\ r.row > CsvRows /\ r.step = "import"
      /\ r.session \in SessionsOver(csvPast.uploaded) /\ r.session.file \in Files
      /\ r.session.file \in csvPast.uploaded
    <2>1. Busy(u) /\ Importing(u) /\ r.row > CsvRows /\ r.step = "import"
        BY DEF FinishImport, Busy, NoImport, Importing
    <2>2. /\ r \in ImportingRow /\ r.session \in SessionsOver(csvPast.uploaded)
          /\ r.session.file \in Files
        BY <2>1, ImporterRows DEF CsvInv, SessionsKnown
    <2> QED BY <2>1, <2>2, CsvAssumption DEF SessionsOver
<1>2. /\ csvFaults' = csvFaults /\ imported' = imported
      /\ importer' = [importer EXCEPT ![u] = NoImport] /\ csv' = EmptySession
    BY DEF FinishImport, WriteSession, Import, CleanSession
<1>3. csvPast' = [csvPast EXCEPT !.crossed = @ \/ csv # r.session,
                                 !.answers = @ \cup {ImportAnswer(u)}]
    BY <1>1 DEF FinishImport, WriteSession
<1>4. /\ csvPast'.uploaded = csvPast.uploaded /\ csvPast'.answers = csvPast.answers \cup {ImportAnswer(u)}
      /\ ImportsOver' = ImportsOver \cup {r.session.file}
      /\ csvPast'.confirms = csvPast.confirms /\ csvPast'.foreign = csvPast.foreign
    <2>1. csvPast'.answers = csvPast.answers \cup {ImportAnswer(u)} /\ ImportAnswer(u).file = r.session.file
        BY <1>3 DEF CsvInv, CsvTypes, ImportAnswer
    <2>2. ImportsOver' = ImportsOver \cup {r.session.file}
        BY <2>1 DEF ImportsOver
    <2> QED BY <1>3, <2>1, <2>2 DEF CsvInv, CsvTypes
<1>5. csv' \in SessionsOver(csvPast.uploaded) /\ csv' \in CsvSession /\ csv'.file = NoFile
    BY <1>2 DEF SessionsOver, CsvSession, EmptySession
<1>6. ImportsOver' \subseteq csvPast.uploaded
    BY <1>1, <1>4 DEF CsvInv, SessionsKnown
<1>7. \A v \in Importers : Uploading(v) =>
         csv'.file # importer[v].file /\ importer[v].file \notin ImportsOver'
    <2>1. \A v \in Importers : Uploading(v) => importer[v].file \in Files
        BY ImporterRows DEF Uploading, FileRow
    <2> QED BY <1>1, <1>4, <1>5, <2>1, CsvAssumption DEF CsvInv, UploadsNew
<1>8. /\ SessionsKnown' /\ UploadsNew'
      /\ importer' \in [Importers -> FileRow \cup ImportingRow \cup {NoImport}]
      /\ \A v \in Importers : Importing(v)' => importer'[v] = importer[v]
    BY <1>2, <1>4, <1>5, <1>6, <1>7, ImportRequestEnds
<1>9. CsvTypes'
    <2>1. ImportAnswer(u) \in AnswerRow
        BY <1>1 DEF ImportAnswer, AnswerRow, ImportingRow
    <2> QED BY <1>1, <1>2, <1>3, <1>4, <1>5, <1>8, <2>1 DEF CsvInv, CsvTypes
<1>10. /\ \A f \in Files, n \in 1 .. CsvRows : RowCounted(f, n)'
       /\ RowsBehind'
    BY <1>2, <1>4, <1>8, RowsCounted
<1>11. ImportsEnd'
    <2>1. /\ r.row \in Nat /\ r.created \in Nat /\ r.errors \in Nat /\ r.row = CsvRows + 1
          /\ r.created + r.errors = CsvRows
          /\ r.created <= Cardinality(Made(r.session.file, CsvRows))
        <3>1. r.row - 1 <= CsvRows /\ r.row \in Nat /\ r.created \in Nat /\ r.errors \in Nat
            BY <1>1 DEF CsvInv, RowsBehind, ImportingRow
        <3>2. r.row - 1 = CsvRows /\ r.row = CsvRows + 1
            BY <1>1, <3>1, CsvAssumption
        <3> QED BY <1>1, <3>1, <3>2 DEF CsvInv, RowsBehind
    <2>2. \A f : Made(f, CsvRows)' = Made(f, CsvRows)
        BY <1>2 DEF Made, Posts
    <2>3. csv'.file = NoFile /\ \A a \in csvPast'.answers : a.file \in Files
        BY <1>1, <1>4, <1>5 DEF CsvInv, CsvTypes, AnswerRow, ImportAnswer
    <2>4. /\ ImportAnswer(u).file = r.session.file /\ ImportAnswer(u).created = r.created
          /\ ImportAnswer(u).errors = r.errors
        BY DEF ImportAnswer
    <2>5. \A a \in csvPast'.answers : /\ a.created + a.errors = CsvRows
                                      /\ a.created <= Cardinality(Made(a.file, CsvRows))
        BY <1>4, <2>1, <2>4 DEF CsvInv, ImportsEnd
    <2> QED BY <2>2, <2>3, <2>5, CsvAssumption DEF ImportsEnd
<1>12. MappedAsShown'
    BY <1>4 DEF CsvInv, MappedAsShown
<1> QED BY <1>8, <1>9, <1>10, <1>11, <1>12 DEF CsvInv

LEMMA ImportDiesKeeps == ASSUME CsvInv, NEW u \in Importers, ImportDies(u) PROVE CsvInv'
<1>1. /\ imported' = imported /\ csvPast' = csvPast /\ csv' = csv
      /\ importer' = [importer EXCEPT ![u] = NoImport] /\ csvFaults' \in 0 .. MaxCsvFaults
    BY CsvAssumption DEF ImportDies, Import, CsvFault, CsvInv, CsvTypes
<1>2. /\ SessionsKnown' /\ UploadsNew'
      /\ importer' \in [Importers -> FileRow \cup ImportingRow \cup {NoImport}]
      /\ \A v \in Importers : Importing(v)' => importer'[v] = importer[v]
    BY <1>1, ImportRequestEnds DEF CsvInv, SessionsKnown, UploadsNew, ImportsOver
<1>3. CsvTypes'
    BY <1>1, <1>2 DEF CsvInv, CsvTypes
<1>4. /\ \A f \in Files, n \in 1 .. CsvRows : RowCounted(f, n)'
      /\ RowsBehind'
    BY <1>1, <1>2, RowsCounted
<1>5. ImportsEnd' /\ MappedAsShown'
    BY <1>1 DEF CsvInv, ImportsEnd, MappedAsShown, Made, Posts
<1> QED BY <1>2, <1>3, <1>4, <1>5 DEF CsvInv

\* Two files were uploaded where the mapping of one is used for the other.
LEMMA ConfirmKeeps == ASSUME CsvInv, NEW u \in Importers, Confirm(u) PROVE CsvInv'
<1> DEFINE row == [step |-> "import", session |-> csv, row |-> 1, created |-> 0, errors |-> 0]
<1>0. PICK g \in Files : g = csv.file
    BY DEF Confirm, CsvInv, CsvTypes, CsvSession, SessionsOver
<1>1. /\ csv' = csv /\ csvFaults' = csvFaults /\ imported' = imported
      /\ importer' = [importer EXCEPT ![u] = row] /\ ~Busy(u)
      /\ csv.mapping \in csvPast.uploaded /\ g \in csvPast.uploaded
      /\ csvPast' = [csvPast EXCEPT !.confirms[g] = @ + 1,
                     !.foreign = IF csv.mapping # g THEN @ \cup {g} ELSE @]
    BY <1>0 DEF Confirm, Import, CsvCall, Busy, CsvInv, SessionsKnown, SessionsOver
<1>2. row \in ImportingRow
    BY DEF ImportingRow, CsvInv, CsvTypes
<1>3. importer'[u] = row /\ \A v \in Importers \ {u} : importer'[v] = importer[v]
    BY <1>1 DEF CsvInv, CsvTypes
<1>4. /\ csvPast'.uploaded = csvPast.uploaded /\ csvPast'.answers = csvPast.answers /\ ImportsOver' = ImportsOver
      /\ csvPast'.foreign = IF csv.mapping # g THEN csvPast.foreign \cup {g} ELSE csvPast.foreign
      /\ csvPast'.crossed = csvPast.crossed /\ csvPast'.confirms \in [Files -> Nat]
      /\ csvPast'.confirms[g] = csvPast.confirms[g] + 1
      /\ \A f \in Files \ {g} : csvPast'.confirms[f] = csvPast.confirms[f]
    BY <1>1 DEF CsvInv, CsvTypes, ImportsOver
<1>5. CsvTypes'
    BY <1>1, <1>2, <1>4 DEF CsvInv, CsvTypes
<1>6. SessionsKnown'
    <2>1. \A v \in Importers : Busy(v)' => importer'[v].session \in SessionsOver(csvPast'.uploaded)
        BY <1>1, <1>3, <1>4 DEF CsvInv, SessionsKnown, Busy
    <2>2. \A v \in Importers : importer'[v] \in FileRow => importer'[v].file \in csvPast'.uploaded
        BY <1>3, <1>4 DEF CsvInv, SessionsKnown, FileRow
    <2>3. \A v \in Importers : Importing(v)' => importer'[v].session.file \in Files
        BY <1>0, <1>3 DEF CsvInv, SessionsKnown, Importing
    <2> QED BY <1>1, <1>4, <2>1, <2>2, <2>3 DEF CsvInv, SessionsKnown
<1>7. UploadsNew'
    BY <1>1, <1>3, <1>4 DEF CsvInv, UploadsNew, Uploading, Busy
<1>8. ASSUME NEW f \in Files, NEW n \in 1 .. CsvRows PROVE RowCounted(f, n)'
    <2>1. Cardinality(Owed(f, n)') <= Cardinality(Owed(f, n)) + (IF f = g THEN 1 ELSE 0)
          /\ Cardinality(Owed(f, n)') \in Nat
        <3>1. CASE f = g
            <4>1. Owed(f, n)' \subseteq Owed(f, n) \cup {u}
                BY <1>3 DEF Owed, Importing
            <4>2. /\ IsFiniteSet(Owed(f, n) \cup {u})
                  /\ Cardinality(Owed(f, n) \cup {u}) <= Cardinality(Owed(f, n)) + 1
                <5>1. IsFiniteSet(Owed(f, n)) /\ Cardinality(Owed(f, n)) \in Nat
                    BY OwedCounted
                <5>2. /\ IsFiniteSet(Owed(f, n) \cup {u})
                      /\ Cardinality(Owed(f, n) \cup {u}) =
                            IF u \in Owed(f, n) THEN Cardinality(Owed(f, n))
                            ELSE Cardinality(Owed(f, n)) + 1
                    BY <5>1, FS_AddElement, Zenon
                <5> QED BY <5>1, <5>2
            <4>3. Cardinality(Owed(f, n) \cup {u}) \in Nat
                BY <4>2, FS_CardinalityType
            <4>4. Cardinality(Owed(f, n)') <= Cardinality(Owed(f, n) \cup {u})
                  /\ Cardinality(Owed(f, n)') \in Nat
                BY <4>1, <4>2, FS_Subset, FS_CardinalityType
            <4> QED BY <3>1, <4>2, <4>3, <4>4, OwedCounted
        <3>2. CASE f # g
            <4>1. Owed(f, n)' \subseteq Owed(f, n)
                BY <1>0, <1>3, <3>2 DEF Owed, Importing
            <4> QED BY <3>2, <4>1, OwedCounted, FS_Subset, FS_CardinalityType
        <3> QED BY <3>1, <3>2
    <2>2. Posts(<<f, n>>)' = Posts(<<f, n>>)
        BY <1>1 DEF Posts
    <2>3. RowCounted(f, n) /\ CsvTypes
        BY DEF CsvInv
    <2>4. csvPast'.confirms[f] = csvPast.confirms[f] + (IF f = g THEN 1 ELSE 0)
        BY <1>4, <2>3, PostsCounted
    <2> QED BY <1>1, <2>1, <2>2, <2>3, <2>4, OwedCounted, PostsCounted DEF RowCounted
<1>9. RowsBehind'
    <2>1. /\ row.row - 1 = 0 /\ 0 <= CsvRows /\ row.created + row.errors = 0
          /\ row.session.file = g /\ row.created = 0
        BY <1>0, CsvAssumption
    <2>2. 0 <= Cardinality(Made(g, 0))
        BY MadeCounted, CsvAssumption
    <2>3. \A f, m : Made(f, m)' = Made(f, m)
        BY <1>1 DEF Made, Posts
    <2> QED BY <1>3, <2>1, <2>2, <2>3 DEF CsvInv, RowsBehind, Importing
<1>10. ImportsEnd'
    BY <1>1, <1>4 DEF CsvInv, ImportsEnd, Made, Posts
<1>11. MappedAsShown'
    <2>1. ASSUME csv.mapping # g PROVE Cardinality(csvPast.uploaded) > 1
        <3>1. IsFiniteSet({g}) /\ Cardinality({g}) = 1
            BY FS_Singleton
        <3>2. {g} \subseteq csvPast.uploaded /\ {g} # csvPast.uploaded
            BY <1>1, <2>1
        <3>3. IsFiniteSet(csvPast.uploaded)
            BY DEF CsvInv, CsvTypes
        <3> QED BY <3>1, <3>2, <3>3, FS_Subset, FS_CardinalityType
    <2> QED BY <1>4, <2>1 DEF CsvInv, MappedAsShown
<1> QED BY <1>5, <1>6, <1>7, <1>8, <1>9, <1>10, <1>11 DEF CsvInv

LEMMA ImportRowKeeps ==
    ASSUME CsvInv, NEW u \in Importers, NEW outcome \in RowOutcomes, ImportRow(u, outcome) PROVE CsvInv'
<1> DEFINE r == importer[u]
<1>1. /\ r \in ImportingRow /\ Busy(u) /\ Importing(u) /\ r.row <= CsvRows
      /\ r.session \in SessionsOver(csvPast.uploaded) /\ r.session.file \in Files
    <2>1. Busy(u) /\ Importing(u) /\ r.row <= CsvRows
        BY DEF ImportRow, Busy, NoImport, Importing
    <2> QED BY <2>1, ImporterRows DEF CsvInv, SessionsKnown
<1>2. PICK g \in Files, k \in 1 .. CsvRows : g = r.session.file /\ k = r.row
    BY <1>1, CsvAssumption DEF ImportingRow
<1> DEFINE cell == <<g, k>>
<1>3. cell \in Cells /\ imported[cell] \in [scheduled: Nat, draft: Nat]
    BY CsvCells DEF CsvInv, CsvTypes
<1> DEFINE saved == HasText(cell) /\ outcome # "unsaved"
           counted == HasText(cell) /\ outcome = "done"
<1>4. PICK row \in ImportingRow :
         /\ row.session = r.session /\ row.row = k + 1 /\ importer' = [importer EXCEPT ![u] = row]
         /\ IF counted THEN row.created = r.created + 1 /\ row.errors = r.errors
            ELSE row.created = r.created /\ row.errors = r.errors + 1
    <2>1. PICK next \in Nat \ {0}, made \in Nat, wrong \in Nat :
             next = k + 1 /\ made = r.created + 1 /\ wrong = r.errors + 1
        <3>1. r.row \in Nat /\ r.created \in Nat /\ r.errors \in Nat
            BY <1>1 DEF ImportingRow
        <3>2. k + 1 \in Nat \ {0} /\ r.created + 1 \in Nat /\ r.errors + 1 \in Nat
            BY <3>1
        <3> QED BY <3>2
    <2>2. \/ /\ importer' = [importer EXCEPT ![u] = [r EXCEPT !.row = next, !.created = made]]
             /\ counted
          \/ /\ importer' = [importer EXCEPT ![u] = [r EXCEPT !.row = next, !.errors = wrong]]
             /\ ~counted
        BY <1>2, <2>1 DEF ImportRow, Import
    <2>3. /\ [r EXCEPT !.row = next, !.created = made] \in ImportingRow
          /\ [r EXCEPT !.row = next, !.errors = wrong] \in ImportingRow
        BY <1>1 DEF ImportingRow
    <2> QED BY <1>1, <2>1, <2>2, <2>3 DEF ImportingRow
<1>5. PICK posts \in [scheduled: Nat, draft: Nat] :
         /\ imported' = [imported EXCEPT ![cell] = posts]
         /\ saved => /\ posts.scheduled + posts.draft = Posts(cell) + 1
                     /\ cell \notin Dated => posts.scheduled = imported[cell].scheduled
         /\ ~saved => posts = imported[cell]
    <2>1. PICK s \in Nat, d \in Nat : s = imported[cell].scheduled + 1 /\ d = imported[cell].draft + 1
        BY <1>3
    <2>2. CASE saved /\ cell \in Dated
        <3>1. imported' = [imported EXCEPT ![cell] = [imported[cell] EXCEPT !.scheduled = s]]
            BY <1>2, <1>3, <2>1, <2>2 DEF ImportRow, WithPost
        <3>2. PICK p \in [scheduled: Nat, draft: Nat] :
                 /\ p = [imported[cell] EXCEPT !.scheduled = s]
                 /\ p.scheduled = s /\ p.draft = imported[cell].draft
            <4>1. PICK q \in [scheduled: Nat, draft: Nat] : q = imported[cell]
                BY <1>3
            <4>2. [q EXCEPT !.scheduled = s] \in [scheduled: Nat, draft: Nat]
                OBVIOUS
            <4> QED BY <4>1, <4>2
        <3>3. p.scheduled + p.draft = Posts(cell) + 1
            BY <1>3, <2>1, <3>2 DEF Posts
        <3> QED BY <2>1, <2>2, <3>1, <3>2, <3>3
    <2>3. CASE saved /\ cell \notin Dated
        <3>1. imported' = [imported EXCEPT ![cell] = [imported[cell] EXCEPT !.draft = d]]
            BY <1>2, <1>3, <2>1, <2>3 DEF ImportRow, WithPost
        <3>2. PICK p \in [scheduled: Nat, draft: Nat] :
                 /\ p = [imported[cell] EXCEPT !.draft = d]
                 /\ p.draft = d /\ p.scheduled = imported[cell].scheduled
            <4>1. PICK q \in [scheduled: Nat, draft: Nat] : q = imported[cell]
                BY <1>3
            <4>2. [q EXCEPT !.draft = d] \in [scheduled: Nat, draft: Nat]
                OBVIOUS
            <4> QED BY <4>1, <4>2
        <3>3. p.scheduled + p.draft = Posts(cell) + 1
            BY <1>3, <2>1, <3>2 DEF Posts
        <3> QED BY <2>1, <2>3, <3>1, <3>2, <3>3
    <2>4. CASE ~saved
        <3>1. imported' = imported
            BY <1>2, <2>4 DEF ImportRow
        <3>2. imported' = [imported EXCEPT ![cell] = imported[cell]]
            BY <1>3, <3>1 DEF CsvInv, CsvTypes
        <3> QED BY <1>3, <2>4, <3>2
    <2> QED BY <2>2, <2>3, <2>4
<1>6. imported'[cell] = posts /\ \A c \in Cells \ {cell} : imported'[c] = imported[c]
    BY <1>3, <1>5 DEF CsvInv, CsvTypes
<1>7. importer'[u] = row /\ \A v \in Importers \ {u} : importer'[v] = importer[v]
    BY <1>4 DEF CsvInv, CsvTypes
<1>8. csv' = csv /\ csvFaults' \in 0 .. MaxCsvFaults /\ csvPast' = csvPast
    BY <1>2, CsvAssumption DEF ImportRow, CsvFault, CsvInv, CsvTypes
<1>9. /\ csvPast'.uploaded = csvPast.uploaded /\ csvPast'.answers = csvPast.answers /\ ImportsOver' = ImportsOver
      /\ csvPast'.confirms = csvPast.confirms /\ csvPast'.foreign = csvPast.foreign
      /\ csvPast'.crossed = csvPast.crossed
    BY <1>8 DEF CsvInv, CsvTypes, ImportsOver
<1>10. CsvTypes'
    BY <1>4, <1>5, <1>8 DEF CsvInv, CsvTypes
<1>11. SessionsKnown'
    <2>1. \A v \in Importers : Busy(v)' => importer'[v].session \in SessionsOver(csvPast'.uploaded)
        BY <1>1, <1>4, <1>7, <1>9 DEF CsvInv, SessionsKnown, Busy
    <2>2. \A v \in Importers : importer'[v] \in FileRow => importer'[v].file \in csvPast'.uploaded
        BY <1>7, <1>9 DEF CsvInv, SessionsKnown, FileRow, ImportingRow
    <2>3. \A v \in Importers : Importing(v)' => importer'[v].session.file \in Files
        BY <1>1, <1>4, <1>7 DEF CsvInv, SessionsKnown, Importing
    <2> QED BY <1>8, <1>9, <2>1, <2>2, <2>3 DEF CsvInv, SessionsKnown
<1>12. UploadsNew'
    <2>1. ~Uploading(u)'
        BY <1>4, <1>7 DEF Uploading, ImportingRow
    <2>2. \A v \in Importers : Busy(v)' => Busy(v) /\ importer'[v].session = importer[v].session
        BY <1>1, <1>4, <1>7 DEF Busy
    <2> QED BY <1>7, <1>8, <1>9, <2>1, <2>2 DEF CsvInv, UploadsNew, Uploading
<1>13. \A f \in Files, n \in 1 .. CsvRows :
          Posts(<<f, n>>)' \in Nat /\ Posts(<<f, n>>)' >= Posts(<<f, n>>)
    <2> SUFFICES ASSUME NEW f \in Files, NEW n \in 1 .. CsvRows
                 PROVE  Posts(<<f, n>>)' \in Nat /\ Posts(<<f, n>>)' >= Posts(<<f, n>>)
        BY Zenon
    <2>1. <<f, n>> \in Cells /\ Posts(<<f, n>>) \in Nat
        BY CsvCells, PostsCounted DEF CsvInv
    <2>2. CASE <<f, n>> = cell
        BY <1>5, <1>6, <2>1, <2>2 DEF Posts
    <2>3. CASE <<f, n>> # cell
        BY <1>6, <2>1, <2>3 DEF Posts
    <2> QED BY <2>2, <2>3
<1>14. ASSUME NEW f \in Files, NEW n \in 1 .. CsvRows PROVE RowCounted(f, n)'
    <2>1. RowCounted(f, n) /\ CsvTypes /\ <<f, n>> \in Cells
        BY CsvCells DEF CsvInv
    <2>2. CASE <<f, n>> # cell
        <3>1. Owed(f, n)' \subseteq Owed(f, n)
            BY <1>1, <1>2, <1>4, <1>7, <2>2, CsvAssumption DEF Owed, Importing, ImportingRow
        <3>2. Cardinality(Owed(f, n)') <= Cardinality(Owed(f, n)) /\ Cardinality(Owed(f, n)') \in Nat
            BY <3>1, OwedCounted, FS_Subset, FS_CardinalityType
        <3>3. imported'[<<f, n>>] = imported[<<f, n>>] /\ Posts(<<f, n>>)' = Posts(<<f, n>>)
            BY <1>6, <2>1, <2>2 DEF Posts
        <3> QED BY <1>9, <2>1, <3>2, <3>3, OwedCounted, PostsCounted DEF RowCounted
    <2>3. CASE <<f, n>> = cell
        <3>0. f = g /\ n = k
            BY <2>3
        <3>1. u \in Owed(f, n)
            BY <1>1, <1>2, <3>0 DEF Owed
        <3>2. Owed(f, n)' \subseteq Owed(f, n) \ {u}
            BY <1>2, <1>4, <1>7, <3>0 DEF Owed, Importing, ImportingRow
        <3>3. /\ IsFiniteSet(Owed(f, n) \ {u})
              /\ Cardinality(Owed(f, n) \ {u}) = Cardinality(Owed(f, n)) - 1
            BY <3>1, OwedCounted, FS_RemoveElement
        <3>4. Cardinality(Owed(f, n)') <= Cardinality(Owed(f, n)) - 1 /\ Cardinality(Owed(f, n)') \in Nat
            BY <3>2, <3>3, FS_Subset, FS_CardinalityType
        <3>5. Posts(<<f, n>>)' <= Posts(<<f, n>>) + 1 /\ Posts(<<f, n>>)' \in Nat
            BY <1>5, <1>6, <2>1, <2>3, PostsCounted DEF Posts
        <3>6. <<f, n>> \in NoCaption => Posts(<<f, n>>)' = Posts(<<f, n>>)
            BY <1>5, <1>6, <2>3 DEF Posts, HasText
        <3>7. <<f, n>> \notin Dated => imported'[<<f, n>>].scheduled = imported[<<f, n>>].scheduled
            BY <1>5, <1>6, <2>3
        <3> QED BY <1>9, <2>1, <3>4, <3>5, <3>6, <3>7, OwedCounted, PostsCounted DEF RowCounted
    <2> QED BY <2>2, <2>3
<1>15. RowsBehind'
    <2> SUFFICES ASSUME NEW v \in Importers, Importing(v)'
                 PROVE  /\ importer'[v].row - 1 <= CsvRows
                        /\ importer'[v].created + importer'[v].errors = importer'[v].row - 1
                        /\ importer'[v].created <=
                              Cardinality(Made(importer[v].session.file, importer[v].row - 1))'
        BY DEF RowsBehind
    <2>1. /\ Importing(v) /\ importer[v] \in ImportingRow
          /\ importer[v].row - 1 <= CsvRows
          /\ importer[v].created + importer[v].errors = importer[v].row - 1
          /\ importer[v].created <= Cardinality(Made(importer[v].session.file, importer[v].row - 1))
        BY <1>1, <1>7, ImporterRows DEF CsvInv, RowsBehind, Importing
    <2>2. PICK f \in Files, m \in 0 .. CsvRows :
             f = importer[v].session.file /\ m = importer[v].row - 1
        BY <2>1, CsvAssumption DEF CsvInv, SessionsKnown, ImportingRow
    <2>3. \A n \in 1 .. CsvRows : /\ Posts(<<f, n>>) \in Nat /\ Posts(<<f, n>>)' \in Nat
                                  /\ Posts(<<f, n>>)' >= Posts(<<f, n>>)
        BY <1>13, PostsCounted DEF CsvInv
    <2>4. /\ Made(f, m) \subseteq Made(f, m)'
          /\ IsFiniteSet(Made(f, m)') /\ Cardinality(Made(f, m)') \in Nat
          /\ Cardinality(Made(f, m)) <= Cardinality(Made(f, m)')
        BY <2>3, MadeGrows
    <2>5. Cardinality(Made(f, m)) \in Nat /\ importer[v].created \in Nat
        BY <2>1, MadeCounted DEF ImportingRow
    <2>6. CASE v # u
        <3>1. importer'[v] = importer[v]
            BY <1>7, <2>6
        <3>2. Made(importer[v].session.file, importer[v].row - 1)' = Made(f, m)'
            BY <2>2, <3>1
        <3> QED BY <2>1, <2>2, <2>4, <2>5, <3>1, <3>2
    <2>7. CASE v = u
        <3>1. f = g /\ m = k - 1 /\ importer'[v] = row /\ row.session.file = g /\ row.row - 1 = k
            BY <1>2, <1>4, <1>7, <2>2, <2>7
        <3>2. row.created + row.errors = row.row - 1 /\ row.row - 1 <= CsvRows
            BY <1>1, <1>2, <1>4, <2>1, <2>7, <3>1, CsvAssumption DEF ImportingRow
        <3>3. Made(g, k - 1)' \subseteq Made(g, k)'
            BY CsvAssumption DEF Made
        <3>4. IsFiniteSet(Made(g, k)') /\ Cardinality(Made(g, k)') \in Nat
            BY <2>3, <3>1, MadeGrows, CsvAssumption
        <3>5. Made(importer[v].session.file, importer[v].row - 1)' = Made(g, k)'
            BY <3>1
        <3>6. CASE ~counted
            <4>1. Cardinality(Made(g, k - 1)') <= Cardinality(Made(g, k)')
                BY <3>3, <3>4, FS_Subset
            <4>2. row.created = importer[v].created
                BY <1>4, <2>7, <3>6
            <4> QED BY <2>1, <2>2, <2>4, <2>5, <3>1, <3>2, <3>4, <3>5, <4>1, <4>2
        <3>7. CASE counted
            <4>1. k \notin Made(g, k - 1)'
                BY DEF Made
            <4>2. k \in Made(g, k)'
                <5>1. Posts(cell)' >= 1
                    BY <1>2, <1>5, <1>6, <3>7, PostsCounted DEF Posts, CsvInv
                <5> QED BY <5>1, CsvAssumption DEF Made
            <4>3. Cardinality(Made(g, k - 1)' \cup {k}) = Cardinality(Made(g, k - 1)') + 1
                BY <2>4, <3>1, <4>1, FS_AddElement
            <4>4. Cardinality(Made(g, k - 1)' \cup {k}) <= Cardinality(Made(g, k)')
                BY <3>3, <3>4, <4>2, FS_Subset
            <4>5. row.created = importer[v].created + 1
                BY <1>4, <2>7, <3>7
            <4> QED BY <2>1, <2>2, <2>4, <2>5, <3>1, <3>2, <3>4, <3>5, <4>3, <4>4, <4>5
        <3> QED BY <3>6, <3>7
    <2> QED BY <2>6, <2>7
<1>16. ImportsEnd'
    <2> SUFFICES ASSUME NEW a \in csvPast.answers
                 PROVE  /\ a.created + a.errors = CsvRows
                        /\ a.created <= Cardinality(Made(a.file, CsvRows)')
                        /\ ~csvPast.crossed => csv.file # a.file
        BY <1>8 DEF ImportsEnd
    <2>1. PICK f \in Files : f = a.file /\ a.created \in Nat
        BY DEF CsvInv, CsvTypes, AnswerRow
    <2>2. \A n \in 1 .. CsvRows : /\ Posts(<<f, n>>) \in Nat /\ Posts(<<f, n>>)' \in Nat
                                  /\ Posts(<<f, n>>)' >= Posts(<<f, n>>)
        BY <1>13, PostsCounted DEF CsvInv
    <2>3. /\ Cardinality(Made(f, CsvRows)') \in Nat /\ Cardinality(Made(f, CsvRows)) \in Nat
          /\ Cardinality(Made(f, CsvRows)) <= Cardinality(Made(f, CsvRows)')
        BY <2>2, MadeGrows, MadeCounted, CsvAssumption
    <2> QED BY <2>1, <2>3 DEF CsvInv, ImportsEnd
<1>17. MappedAsShown'
    BY <1>9 DEF CsvInv, MappedAsShown
<1> QED BY <1>10, <1>11, <1>12, <1>14, <1>15, <1>16, <1>17 DEF CsvInv

LEMMA CsvNextKeeps == CsvInv /\ [CsvNext]_csvVars => CsvInv'
<1> SUFFICES ASSUME CsvInv, [CsvNext]_csvVars PROVE CsvInv'
    OBVIOUS
<1>1. CASE UNCHANGED csvVars
    <2>1. /\ \A f \in Files, n \in 1 .. CsvRows : RowCounted(f, n)'
          /\ RowsBehind'
        BY <1>1, RowsCounted DEF csvVars
    <2> QED BY <1>1, <2>1 DEF csvVars, CsvInv, CsvTypes, SessionsKnown, UploadsNew, ImportsEnd,
               MappedAsShown, Made, Posts, Busy, Importing, Uploading, ImportsOver
<1>2. CASE CsvNext
    BY <1>2, BeginUploadKeeps, StoreUploadKeeps, BeginMappingKeeps, StoreMappingKeeps,
       ConfirmKeeps, ImportRowKeeps, FinishImportKeeps, ImportDiesKeeps DEF CsvNext
<1> QED BY <1>1, <1>2

LEMMA CsvInvHolds == CsvInv => ImportIsSound /\ CsvTypeOK
<1> SUFFICES ASSUME CsvInv PROVE ImportIsSound /\ CsvTypeOK
    OBVIOUS
<1>1. RowsBounded
    <2> SUFFICES ASSUME NEW c \in Cells
                 PROVE  /\ Posts(c) <= csvPast.confirms[c[1]]
                        /\ c \in NoCaption => Posts(c) = 0
                        /\ c \notin Dated => imported[c].scheduled = 0
        BY DEF RowsBounded
    <2>1. PICK f \in Files, n \in 1 .. CsvRows : c = <<f, n>> /\ c[1] = f
        BY DEF Cells
    <2> QED BY <2>1, OwedCounted, PostsCounted DEF CsvInv, RowCounted
<1>2. CsvTypeOK
    BY DEF CsvInv, CsvTypes, CsvTypeOK, CsvSession, SessionsOver
<1> QED BY <1>1, <1>2 DEF CsvInv, ImportIsSound

\* A row of a file makes at most one post each time its file is confirmed, an
\* import that answers has counted each row once and claims no more posts than there are,
\* whatever failed, its file is out of the session, and columns are those confirmed for it,
\* but for requests that crossed; for any files, rows and importers.
THEOREM ImportsStayCounted == CsvInit /\ [][CsvNext]_csvVars => []ImportIsSound
BY CsvInvInit, CsvNextKeeps, CsvInvHolds, PTL

-------------------------------------------------------------------------------
(* One upload, its assets and who deletes them *)

RemovalRow == [step: {"none", "next", "check", "file", "row"}, todo: SUBSET AssetIds,
               asset: 0 .. MaxAssets]

LibraryTypes ==
    /\ upload \in [state: {"open", "finalized", "gone"}, asset: 0 .. MaxAssets]
    /\ object \in {"absent", "stored"} /\ assets \subseteq AssetIds
    /\ usage \in [AssetIds -> {"none", "draft", "scheduled"}]
    /\ finalize \in [Finalizers -> {"none", "inspect", "refuse", "register"}]
    /\ reaper \in {"none", "object", "row"}
    /\ remover \in [Removers -> RemovalRow]
    /\ \A d \in Removers : remover[d].step \in {"check", "file", "row"} => remover[d].asset \in AssetIds

\* Somebody deletes a, and is past the steps before these.
HeldBy(a, steps) == \E d \in Removers : remover[d].step \in steps /\ remover[d].asset = a

WholeAssets == assets \ slips

UploadLinked ==
    /\ upload.state # "finalized" => upload.asset = NoAsset
    /\ upload.asset # NoAsset => upload.asset \in assets
    /\ \A a \in AssetIds \ assets : usage[a] = "none"

\* One asset at most is whole, and it is the upload's; none while the reaper is at work.
OneWholeAsset ==
    /\ \A a, b \in WholeAssets : a = b
    /\ upload.state # "gone" => \A a \in WholeAssets : upload.asset = a
    /\ reaper # "none" => WholeAssets = {}
    /\ \A a \in WholeAssets : object = "stored" \/ HeldBy(a, {"row"})

\* What is about to be deleted is in no scheduled post, and what the sweep listed in none,
\* but by what happened since.
PostsSpared ==
    /\ \A a \in AssetIds \ late : usage[a] = "scheduled" => ~HeldBy(a, {"file", "row"})
    /\ \A a \in AssetIds \ late : a \in Listed => usage[a] = "none"
    /\ dropped \subseteq late

LibraryInv == LibraryTypes /\ UploadLinked /\ OneWholeAsset /\ PostsSpared

LEMMA DoomedHeld == \A a, steps : a \in Doomed(steps) <=> HeldBy(a, steps)
BY DEF Doomed, HeldBy

LEMMA LibraryInvInit == LibraryInit => LibraryInv
BY LibraryConstants DEF LibraryInit, LibraryInv, LibraryTypes, RemovalRow, NoRemoval, NoAsset,
       UploadLinked, OneWholeAsset, WholeAssets, PostsSpared, HeldBy, Listed, AssetIds, Removers

\* Steps that touch no asset, no use and no removal, and take no object.
LEMMA LibraryCalm ==
    ASSUME LibraryInv, UNCHANGED <<upload, assets, usage, remover, slips, late, dropped, reaper>>,
           object' \in {"stored", object},
           finalize' \in [Finalizers -> {"none", "inspect", "refuse", "register"}]
    PROVE  LibraryInv'
BY DEF LibraryInv, LibraryTypes, UploadLinked, OneWholeAsset, WholeAssets, PostsSpared, HeldBy, Listed

\* Nothing whole is left to an upload that has no asset.
LEMMA NothingWhole == LibraryInv /\ upload.state # "gone" /\ upload.asset = NoAsset => WholeAssets = {}
<1> SUFFICES ASSUME LibraryInv, upload.state # "gone", upload.asset = NoAsset, NEW a \in WholeAssets PROVE FALSE
    OBVIOUS
<1>1. upload.asset = a /\ a \in AssetIds
    BY DEF LibraryInv, LibraryTypes, OneWholeAsset, WholeAssets
<1> QED BY <1>1, LibraryConstants DEF AssetIds, NoAsset

LEMMA UploadBytesKeeps == ASSUME LibraryInv, UploadBytes PROVE LibraryInv'
BY LibraryCalm DEF UploadBytes, LibraryInv, LibraryTypes

LEMMA StartFinalizeKeeps ==
    ASSUME LibraryInv, NEW f \in Finalizers, StartFinalize(f) PROVE LibraryInv'
<1>1. finalize' \in [Finalizers -> {"none", "inspect", "refuse", "register"}]
    BY DEF StartFinalize, LibraryInv, LibraryTypes
<1> QED BY <1>1, LibraryCalm DEF StartFinalize

LEMMA InspectKeeps ==
    ASSUME LibraryInv, NEW f \in Finalizers, NEW verdict \in {"none", "refuse", "register"},
           Inspect(f, verdict)
    PROVE  LibraryInv'
<1>1. finalize' \in [Finalizers -> {"none", "inspect", "refuse", "register"}]
    BY DEF Inspect, LibraryInv, LibraryTypes
<1> QED BY <1>1, LibraryCalm DEF Inspect

LEMMA GrowKeeps == ASSUME LibraryInv, Grow PROVE LibraryInv'
BY LibraryCalm DEF Grow, LibraryInv, LibraryTypes

LEMMA RefuseKeeps == ASSUME LibraryInv, NEW f \in Finalizers, Refuse(f) PROVE LibraryInv'
<1>1. /\ object' = "absent" /\ slips' = slips \cup assets
      /\ finalize' = [finalize EXCEPT ![f] = "none"]
      /\ UNCHANGED <<upload, assets, usage, reaper, remover, late, dropped>>
    BY DEF Refuse
<1>2. WholeAssets' = {}
    BY <1>1 DEF WholeAssets
<1>3. LibraryTypes'
    BY <1>1 DEF LibraryInv, LibraryTypes
<1>4. UploadLinked' /\ PostsSpared'
    BY <1>1 DEF LibraryInv, UploadLinked, PostsSpared, HeldBy, Listed
<1>5. OneWholeAsset'
    BY <1>2 DEF OneWholeAsset
<1> QED BY <1>3, <1>4, <1>5 DEF LibraryInv

LEMMA RegisterKeeps == ASSUME LibraryInv, NEW f \in Finalizers, Register(f) PROVE LibraryInv'
<1>1. /\ finalize' = [finalize EXCEPT ![f] = "none"]
      /\ UNCHANGED <<object, usage, reaper, remover, late, dropped>>
    BY DEF Register
<1>2. finalize' \in [Finalizers -> {"none", "inspect", "refuse", "register"}]
    BY <1>1 DEF LibraryInv, LibraryTypes
<1>3. CASE ~(upload.state # "gone" /\ StillOpen)
    BY <1>1, <1>2, <1>3, LibraryCalm DEF Register
<1>4. CASE upload.state # "gone" /\ StillOpen
    <2>1. PICK a \in AssetIds :
             /\ a \notin assets /\ assets' = assets \cup {a}
             /\ upload' = [state |-> "finalized", asset |-> a]
             /\ slips' = IF reaper # "none" \/ object # "stored" THEN slips \cup {a} ELSE slips
        <3>1. \E x \in AssetIds : x \notin assets
            BY <1>4 DEF Register, LibraryInv, LibraryTypes
        <3> QED BY <1>4, <3>1 DEF Register
    <2>2. WholeAssets \ {a} = {}
        BY <1>4, NothingWhole DEF LibraryInv, LibraryTypes, UploadLinked, StillOpen
    <2>3. WholeAssets' \subseteq {a} /\ (reaper # "none" => WholeAssets' = {}) /\ (object # "stored" => WholeAssets' = {})
        BY <2>1, <2>2 DEF WholeAssets
    <2>4. LibraryTypes'
        BY <1>1, <1>2, <2>1, LibraryConstants DEF LibraryInv, LibraryTypes, AssetIds
    <2>5. UploadLinked'
        BY <1>1, <2>1 DEF LibraryInv, UploadLinked
    <2>6. OneWholeAsset'
        BY <1>1, <2>1, <2>3 DEF LibraryInv, LibraryTypes, OneWholeAsset
    <2>7. PostsSpared'
        BY <1>1 DEF LibraryInv, PostsSpared, HeldBy, Listed
    <2> QED BY <2>4, <2>5, <2>6, <2>7 DEF LibraryInv
<1> QED BY <1>3, <1>4

LEMMA ReaperListsKeeps == ASSUME LibraryInv, ReaperLists PROVE LibraryInv'
<1>1. /\ upload.state = "open" /\ reaper' = "object"
      /\ UNCHANGED <<upload, object, assets, usage, finalize, remover, slips, late, dropped>>
    BY DEF ReaperLists
<1>2. WholeAssets = {} /\ WholeAssets' = {}
    BY <1>1, NothingWhole DEF LibraryInv, UploadLinked, WholeAssets
<1> QED BY <1>1, <1>2 DEF LibraryInv, LibraryTypes, UploadLinked, OneWholeAsset, PostsSpared, HeldBy, Listed

LEMMA ReaperDeletesObjectKeeps ==
    ASSUME LibraryInv, NEW works \in BOOLEAN, ReaperDeletesObject(works) PROVE LibraryInv'
<1>1. /\ reaper = "object" /\ reaper' = "row" /\ object' \in {"absent", object}
      /\ UNCHANGED <<upload, assets, usage, finalize, remover, slips, late, dropped>>
    BY DEF ReaperDeletesObject
<1>2. WholeAssets = {} /\ WholeAssets' = {}
    BY <1>1 DEF LibraryInv, OneWholeAsset, WholeAssets
<1> QED BY <1>1, <1>2 DEF LibraryInv, LibraryTypes, UploadLinked, OneWholeAsset, PostsSpared, HeldBy, Listed

LEMMA ReaperDeletesRowKeeps == ASSUME LibraryInv, ReaperDeletesRow PROVE LibraryInv'
<1>1. /\ reaper = "row" /\ reaper' = "none" /\ upload' = [state |-> "gone", asset |-> NoAsset]
      /\ UNCHANGED <<object, assets, usage, finalize, remover, slips, late, dropped>>
    BY DEF ReaperDeletesRow
<1>2. WholeAssets = {} /\ WholeAssets' = {}
    BY <1>1 DEF LibraryInv, OneWholeAsset, WholeAssets
<1>3. LibraryTypes' /\ UploadLinked'
    BY <1>1, LibraryConstants DEF LibraryInv, LibraryTypes, UploadLinked, NoAsset
<1> QED BY <1>1, <1>2, <1>3 DEF LibraryInv, OneWholeAsset, PostsSpared, HeldBy, Listed

\* A remover goes one step on; what it held for deletion it holds still, what it may hold
\* now is in no scheduled post, and the sweep lists nothing more.
LEMMA RemoverMoves ==
    ASSUME LibraryInv, NEW d \in Removers, NEW row \in RemovalRow,
           remover' = [remover EXCEPT ![d] = row],
           UNCHANGED <<upload, object, assets, usage, finalize, reaper, slips, late, dropped>>,
           row.step \in {"check", "file", "row"} => row.asset \in AssetIds,
           remover[d].step # "row", row.step # "row",
           row.step = "file" => usage[row.asset] # "scheduled",
           d = "sweep" => \A a \in AssetIds : a \in row.todo \cup {row.asset} =>
                              a \in Listed \/ usage[a] = "none"
    PROVE  LibraryInv'
<1>1. remover'[d] = row /\ \A e \in Removers \ {d} : remover'[e] = remover[e]
    BY DEF LibraryInv, LibraryTypes
<1>2. LibraryTypes'
    BY <1>1 DEF LibraryInv, LibraryTypes
<1>3. \A a : HeldBy(a, {"row"}) => HeldBy(a, {"row"})'
    BY <1>1 DEF HeldBy
<1>4. OneWholeAsset' /\ UploadLinked'
    BY <1>3 DEF LibraryInv, OneWholeAsset, WholeAssets, UploadLinked
<1>5. \A a \in AssetIds \ late : usage[a] = "scheduled" => ~HeldBy(a, {"file", "row"})'
    BY <1>1 DEF LibraryInv, PostsSpared, HeldBy
<1>6. \A a \in AssetIds \ late : a \in Listed' => usage[a] = "none"
    <2>1. CASE d = "sweep"
        BY <1>1, <2>1 DEF LibraryInv, PostsSpared, Listed
    <2>2. CASE d # "sweep"
        BY <1>1, <2>2 DEF LibraryInv, PostsSpared, Listed, Removers
    <2> QED BY <2>1, <2>2
<1> QED BY <1>2, <1>4, <1>5, <1>6 DEF LibraryInv, PostsSpared

LEMMA UserDeletesKeeps ==
    ASSUME LibraryInv, NEW a \in AssetIds, UserDeletes(a) PROVE LibraryInv'
<1> DEFINE row == [step |-> "check", todo |-> {}, asset |-> a]
<1>1. row \in RemovalRow /\ "user" \in Removers
    BY LibraryConstants DEF RemovalRow, Removers, AssetIds
<1>2. /\ remover' = [remover EXCEPT !["user"] = row] /\ remover["user"].step # "row"
      /\ UNCHANGED <<upload, object, assets, usage, finalize, reaper, slips, late, dropped>>
    BY DEF UserDeletes, NoRemoval
<1>3. row.asset \in AssetIds /\ row.step = "check" /\ "user" # "sweep"
    OBVIOUS
<1> HIDE DEF row
<1> QED BY <1>1, <1>2, <1>3, RemoverMoves

LEMMA SweepListsKeeps == ASSUME LibraryInv, SweepLists PROVE LibraryInv'
<1> DEFINE row == [step |-> "next", todo |-> Orphans, asset |-> NoAsset]
<1>1. row \in RemovalRow /\ "sweep" \in Removers
    <2>1. Orphans \in SUBSET AssetIds /\ NoAsset \in 0 .. MaxAssets
        BY LibraryConstants DEF Orphans, NoAsset, LibraryInv, LibraryTypes
    <2> QED BY <2>1 DEF RemovalRow, Removers
<1>2. /\ remover' = [remover EXCEPT !["sweep"] = row] /\ remover["sweep"].step # "row"
      /\ UNCHANGED <<upload, object, assets, usage, finalize, reaper, slips, late, dropped>>
    BY DEF SweepLists, NoRemoval
<1>3. \A a \in AssetIds : a \in row.todo \cup {row.asset} => a \in Listed \/ usage[a] = "none"
    BY LibraryConstants DEF Orphans, NoAsset, AssetIds
<1> QED BY <1>1, <1>2, <1>3, RemoverMoves

LEMMA SweepTakesKeeps ==
    ASSUME LibraryInv, NEW a \in AssetIds, SweepTakes(a) PROVE LibraryInv'
<1> DEFINE row == [step |-> "check", todo |-> remover["sweep"].todo \ {a}, asset |-> a]
<1>1. row \in RemovalRow /\ "sweep" \in Removers
    BY LibraryConstants DEF RemovalRow, Removers, AssetIds, LibraryInv, LibraryTypes
<1>2. /\ remover' = [remover EXCEPT !["sweep"] = row] /\ remover["sweep"].step # "row"
      /\ UNCHANGED <<upload, object, assets, usage, finalize, reaper, slips, late, dropped>>
    BY <1>1 DEF SweepTakes, LibraryInv, LibraryTypes
<1>3. \A b \in AssetIds : b \in row.todo \cup {row.asset} => b \in Listed \/ usage[b] = "none"
    BY DEF SweepTakes, Listed
<1> QED BY <1>1, <1>2, <1>3, RemoverMoves

\* What a remover that is done with an asset holds.
LEMMA FinishedRow ==
    ASSUME LibraryInv, NEW d \in Removers
    PROVE  /\ Finished(d) \in RemovalRow /\ Finished(d).step \in {"none", "next"}
           /\ Finished(d).asset = NoAsset /\ Finished(d).todo \subseteq remover[d].todo
<1>1. remover[d] \in RemovalRow
    BY DEF LibraryInv, LibraryTypes
<1>2. NoRemoval \in RemovalRow
    BY LibraryConstants DEF NoRemoval, RemovalRow, NoAsset
<1>3. CASE remover[d].todo = {}
    BY <1>2, <1>3 DEF Finished, NoRemoval
<1>4. CASE remover[d].todo # {}
    <2>1. NoAsset \in 0 .. MaxAssets
        BY LibraryConstants DEF NoAsset
    <2>2. Finished(d) = [remover[d] EXCEPT !.step = "next", !.asset = NoAsset]
        BY <1>4 DEF Finished
    <2> QED BY <1>1, <2>1, <2>2 DEF RemovalRow
<1> QED BY <1>3, <1>4

LEMMA CheckReferencesKeeps ==
    ASSUME LibraryInv, NEW d \in Removers, CheckReferences(d) PROVE LibraryInv'
<1>1. /\ remover[d].step = "check" /\ remover[d] \in RemovalRow /\ remover[d].asset \in AssetIds
      /\ UNCHANGED <<upload, object, assets, usage, finalize, reaper, slips, late, dropped>>
    BY DEF CheckReferences, LibraryInv, LibraryTypes
<1>2. CASE remover[d].asset \in assets /\ usage[remover[d].asset] # "scheduled"
    <2>1. PICK row \in RemovalRow :
             /\ row.step = "file" /\ row.asset = remover[d].asset /\ row.todo = remover[d].todo
             /\ remover' = [remover EXCEPT ![d] = row]
        <3>1. [remover[d] EXCEPT !.step = "file"] \in RemovalRow
            BY <1>1 DEF RemovalRow
        <3> QED BY <1>1, <1>2, <3>1 DEF CheckReferences, RemovalRow
    <2> QED BY <1>1, <1>2, <2>1, RemoverMoves DEF Listed
<1>3. CASE ~(remover[d].asset \in assets /\ usage[remover[d].asset] # "scheduled")
    <2>1. remover' = [remover EXCEPT ![d] = Finished(d)]
        BY <1>3 DEF CheckReferences
    <2>2. d = "sweep" => \A a \in AssetIds : a \in Finished(d).todo \cup {Finished(d).asset} =>
                              a \in Listed \/ usage[a] = "none"
        BY FinishedRow, LibraryConstants DEF Listed, NoAsset, AssetIds
    <2> QED BY <1>1, <2>1, <2>2, FinishedRow, RemoverMoves
<1> QED BY <1>2, <1>3

LEMMA DeleteFileKeeps == ASSUME LibraryInv, NEW d \in Removers, DeleteFile(d) PROVE LibraryInv'
<1>1. /\ remover[d].step = "file" /\ remover[d] \in RemovalRow /\ remover[d].asset \in AssetIds
      /\ object' = "absent" /\ slips' = slips \cup (assets \ {remover[d].asset})
      /\ UNCHANGED <<upload, assets, usage, finalize, reaper, late, dropped>>
    BY DEF DeleteFile, LibraryInv, LibraryTypes
<1>2. PICK row \in RemovalRow :
         /\ row.step = "row" /\ row.asset = remover[d].asset /\ row.todo = remover[d].todo
         /\ remover' = [remover EXCEPT ![d] = row]
    <2>1. [remover[d] EXCEPT !.step = "row"] \in RemovalRow
        BY <1>1 DEF RemovalRow
    <2>2. remover' = [remover EXCEPT ![d] = [remover[d] EXCEPT !.step = "row"]]
        BY DEF DeleteFile, LibraryInv, LibraryTypes
    <2> QED BY <1>1, <2>1, <2>2 DEF RemovalRow
<1>3. remover'[d] = row /\ \A e \in Removers \ {d} : remover'[e] = remover[e]
    BY <1>2 DEF LibraryInv, LibraryTypes
<1>4. LibraryTypes'
    BY <1>1, <1>2, <1>3 DEF LibraryInv, LibraryTypes
<1>5. UploadLinked'
    BY <1>1 DEF LibraryInv, UploadLinked
<1>6. WholeAssets' \subseteq WholeAssets /\ \A a \in WholeAssets' : a = remover[d].asset
    BY <1>1 DEF WholeAssets
<1>7. OneWholeAsset'
    <2>1. \A a \in WholeAssets' : HeldBy(a, {"row"})'
        BY <1>2, <1>3, <1>6 DEF HeldBy
    <2> QED BY <1>1, <1>6, <2>1 DEF LibraryInv, OneWholeAsset
<1>8. PostsSpared'
    <2>1. \A a : HeldBy(a, {"file", "row"})' => HeldBy(a, {"file", "row"})
        BY <1>1, <1>2, <1>3 DEF HeldBy
    <2>2. Listed' \subseteq Listed
        BY <1>2, <1>3 DEF Listed, Removers
    <2> QED BY <1>1, <2>1, <2>2 DEF LibraryInv, PostsSpared
<1> QED BY <1>4, <1>5, <1>7, <1>8 DEF LibraryInv

LEMMA DeleteAssetKeeps == ASSUME LibraryInv, NEW d \in Removers, DeleteAsset(d) PROVE LibraryInv'
<1>0. PICK a \in AssetIds : a = remover[d].asset
    BY DEF DeleteAsset, LibraryInv, LibraryTypes
<1>1. /\ remover[d].step = "row" /\ assets' = assets \ {a}
      /\ usage' = [usage EXCEPT ![a] = "none"]
      /\ upload' = IF upload.asset = a THEN [upload EXCEPT !.asset = NoAsset] ELSE upload
      /\ dropped' = IF d = "sweep" /\ usage[a] # "none" THEN dropped \cup {a} ELSE dropped
      /\ slips' = slips \ {a} /\ remover' = [remover EXCEPT ![d] = Finished(d)]
      /\ UNCHANGED <<object, finalize, reaper, late>>
    BY <1>0 DEF DeleteAsset
<1>2. remover'[d] = Finished(d) /\ \A e \in Removers \ {d} : remover'[e] = remover[e]
    BY <1>1 DEF LibraryInv, LibraryTypes
<1>3. usage'[a] = "none" /\ \A b \in AssetIds \ {a} : usage'[b] = usage[b]
    BY <1>1 DEF LibraryInv, LibraryTypes
<1>4. LibraryTypes'
    <2>1. upload' \in [state: {"open", "finalized", "gone"}, asset: 0 .. MaxAssets]
        BY <1>1, LibraryConstants DEF LibraryInv, LibraryTypes, NoAsset
    <2>2. remover' \in [Removers -> RemovalRow]
        BY <1>1, FinishedRow DEF LibraryInv, LibraryTypes
    <2>3. \A e \in Removers : remover'[e].step \in {"check", "file", "row"} => remover'[e].asset \in AssetIds
        BY <1>2, FinishedRow DEF LibraryInv, LibraryTypes
    <2> QED BY <1>1, <2>1, <2>2, <2>3 DEF LibraryInv, LibraryTypes
<1>5. UploadLinked'
    BY <1>1, <1>3 DEF LibraryInv, LibraryTypes, UploadLinked
<1>6. WholeAssets' = WholeAssets \ {a}
    BY <1>1 DEF WholeAssets
<1>7. OneWholeAsset'
    <2>1. \A b \in WholeAssets' : b # a /\ (HeldBy(b, {"row"}) => HeldBy(b, {"row"})')
        BY <1>0, <1>2, <1>6 DEF HeldBy
    <2>2. upload'.state = upload.state /\ (upload.asset # a => upload'.asset = upload.asset)
        BY <1>1 DEF LibraryInv, LibraryTypes
    <2> QED BY <1>1, <1>6, <2>1, <2>2 DEF LibraryInv, OneWholeAsset
<1>8. PostsSpared'
    <2>1. \A b \in AssetIds : HeldBy(b, {"file", "row"})' => HeldBy(b, {"file", "row"})
        BY <1>1, <1>2, FinishedRow DEF HeldBy
    <2>2. \A b \in AssetIds : b \in Listed' => b \in Listed
        BY <1>2, FinishedRow, LibraryConstants DEF Listed, Removers, NoAsset, AssetIds
    <2>3. d = "sweep" => a \in Listed
        BY <1>0 DEF Listed
    <2> QED BY <1>1, <1>3, <2>1, <2>2, <2>3 DEF LibraryInv, PostsSpared
<1> QED BY <1>4, <1>5, <1>7, <1>8 DEF LibraryInv

LEMMA RemoverDiesKeeps == ASSUME LibraryInv, NEW d \in Removers, RemoverDies(d) PROVE LibraryInv'
<1>1. /\ slips' = IF remover[d].step = "row" THEN slips \cup {remover[d].asset} ELSE slips
      /\ remover' = [remover EXCEPT ![d] = NoRemoval]
      /\ UNCHANGED <<upload, object, assets, usage, finalize, reaper, late, dropped>>
    BY DEF RemoverDies
<1>2. remover'[d] = NoRemoval /\ \A e \in Removers \ {d} : remover'[e] = remover[e]
    BY <1>1 DEF LibraryInv, LibraryTypes
<1>3. LibraryTypes'
    BY <1>1, <1>2, LibraryConstants DEF LibraryInv, LibraryTypes, NoRemoval, RemovalRow, NoAsset
<1>4. UploadLinked'
    BY <1>1 DEF LibraryInv, UploadLinked
<1>5. OneWholeAsset'
    <2>1. WholeAssets' \subseteq WholeAssets /\ \A b \in WholeAssets' : HeldBy(b, {"row"}) => HeldBy(b, {"row"})'
        BY <1>1, <1>2 DEF WholeAssets, HeldBy
    <2> QED BY <1>1, <2>1 DEF LibraryInv, OneWholeAsset
<1>6. PostsSpared'
    <2>1. \A b \in AssetIds : HeldBy(b, {"file", "row"})' => HeldBy(b, {"file", "row"})
        BY <1>2 DEF HeldBy, NoRemoval
    <2>2. \A b \in AssetIds : b \in Listed' => b \in Listed
        BY <1>2, LibraryConstants DEF Listed, Removers, NoRemoval, NoAsset, AssetIds
    <2> QED BY <1>1, <2>1, <2>2 DEF LibraryInv, PostsSpared
<1> QED BY <1>3, <1>4, <1>5, <1>6 DEF LibraryInv

LEMMA UseKeeps ==
    ASSUME LibraryInv, NEW a \in AssetIds, NEW from \in {"none", "draft", "scheduled"},
           NEW to \in {"none", "draft", "scheduled"}, Use(a, from, to)
    PROVE  LibraryInv'
<1>1. /\ <<from, to>> \in {<<"none", "draft">>, <<"draft", "scheduled">>,
                         <<"scheduled", "draft">>, <<"draft", "none">>}
      /\ a \in assets /\ usage[a] = from /\ usage' = [usage EXCEPT ![a] = to]
      /\ UNCHANGED <<upload, object, assets, finalize, reaper, remover, slips, dropped>>
    BY DEF Use
<1>2. /\ late \subseteq late' /\ late' \subseteq late \cup {a}
      /\ to = "scheduled" /\ HeldBy(a, {"file", "row"}) => a \in late'
      /\ from = "none" /\ a \in Listed => a \in late'
    BY DoomedHeld DEF Use
<1>3. LibraryTypes' /\ UploadLinked'
    BY <1>1 DEF LibraryInv, LibraryTypes, UploadLinked
<1>4. OneWholeAsset'
    BY <1>1 DEF LibraryInv, OneWholeAsset, WholeAssets, HeldBy
<1>5. usage'[a] = to /\ \A b \in AssetIds \ {a} : usage'[b] = usage[b]
    BY <1>1 DEF LibraryInv, LibraryTypes
<1>6. (\A b : HeldBy(b, {"file", "row"})' <=> HeldBy(b, {"file", "row"})) /\ Listed' = Listed
    BY <1>1 DEF HeldBy, Listed
<1>7. PostsSpared'
    BY <1>1, <1>2, <1>5, <1>6 DEF LibraryInv, PostsSpared
<1> QED BY <1>3, <1>4, <1>7 DEF LibraryInv

LEMMA LibraryNextKeeps == LibraryInv /\ [LibraryNext]_libraryVars => LibraryInv'
<1> SUFFICES ASSUME LibraryInv, [LibraryNext]_libraryVars PROVE LibraryInv'
    OBVIOUS
<1>1. CASE UNCHANGED libraryVars
    BY <1>1, LibraryCalm DEF libraryVars, LibraryInv, LibraryTypes
<1>2. CASE LibraryNext
    BY <1>2, UploadBytesKeeps, StartFinalizeKeeps, InspectKeeps, RefuseKeeps, RegisterKeeps,
       ReaperListsKeeps, ReaperDeletesObjectKeeps, ReaperDeletesRowKeeps, UserDeletesKeeps,
       SweepListsKeeps, SweepTakesKeeps, CheckReferencesKeeps, DeleteFileKeeps, DeleteAssetKeeps,
       RemoverDiesKeeps, UseKeeps, GrowKeeps DEF LibraryNext
<1> QED BY <1>1, <1>2

LEMMA LibraryInvHolds == LibraryInv => LibraryIsSound /\ LibraryTypeOK
<1> SUFFICES ASSUME LibraryInv PROVE LibraryIsSound /\ LibraryTypeOK
    OBVIOUS
<1>1. OneAssetWithItsObject
    BY DoomedHeld DEF LibraryInv, OneWholeAsset, WholeAssets, OneAssetWithItsObject
<1>2. MediaOfPostsStays
    BY DoomedHeld DEF LibraryInv, PostsSpared, MediaOfPostsStays
<1>3. LibraryTypeOK
    BY DEF LibraryInv, LibraryTypes, UploadLinked, LibraryTypeOK, RemovalRow
<1> QED BY <1>1, <1>2, <1>3 DEF LibraryIsSound

\* An upload makes one asset that has its object until it is deleted, and media of posts
\* stay, whatever finalizes, reapers, sweeps and deletions do at once; only the races that
\* the two properties name are left out.
THEOREM LibraryStaysSound == LibrarySpec => []LibraryIsSound
BY LibraryInvInit, LibraryNextKeeps, LibraryInvHolds, PTL DEF LibrarySpec

-------------------------------------------------------------------------------
(* Folders: what the rows and the requests hold *)

FolderRow == [parent : FolderIds \cup {Top}, name : FolderNames]
TidyStep ==
    {NotTidying} \cup [step : {"create"}, folder : FolderIds, row : FolderRow]
    \cup [step : {"rename"}, folder : FolderIds, name : FolderNames]
    \cup [step : {"files", "folders", "close"}, folder : FolderIds, parent : FolderIds \cup {Top}]
    \cup [step : {"move"}, file : FolderFiles, folder : FolderIds \cup {Top}]
FolderPast ==
    [asked : SUBSET FolderIds, made : SUBSET FolderIds, late : SUBSET FolderIds,
     chosen : [FolderFiles -> FolderIds \cup {Top}],
     above : [FolderIds -> SUBSET (FolderIds \cup {Top})], crossed : BOOLEAN]

FolderTypes ==
    /\ folders \in [FolderIds -> FolderRow \cup {NoFolder}]
    /\ place \in [FolderFiles -> FolderIds \cup {Top}]
    /\ tidying \in [FolderThreads -> TidyStep]
    /\ folderPast \in FolderPast

-------------------------------------------------------------------------------
(* Folders: the invariant *)

\* The order that folders were created in: each inside those above it, for good.
FoldersOrdered(past) ==
    /\ \A f \in FolderIds : f \notin past.above[f] /\ past.above[f] \subseteq past.made \cup {Top}
    /\ \A f, g \in FolderIds : g \in past.above[f] => past.above[g] \subseteq past.above[f] \cup {Top}

\* The tree keeps that order.
TreeStands ==
    \A f \in FolderIds :
        folders[f] # NoFolder =>
            /\ f \in folderPast.made /\ IsFolder(folders[f].parent)
            /\ folders[f].parent \in folderPast.above[f] \cup {Top}

FilesPlaced ==
    \A a \in FolderFiles :
        LET c == folderPast.chosen[a]
        IN  /\ IsFolder(place[a]) /\ c \in folderPast.made \cup {Top}
            /\ place[a] # c => /\ c \in FolderIds /\ (c \in folderPast.asked \/ folders[c] = NoFolder)
                               /\ place[a] \in {Top} \cup folderPast.above[c]

Tidying(t) ==
    LET r == tidying[t]
    IN  /\ r.step = "create" => r.folder \notin folderPast.made /\ r.row.parent \in folderPast.made \cup {Top}
        /\ r.step \in {"files", "folders", "close"} =>
              /\ r.folder \in folderPast.asked \cap folderPast.made
              /\ r.parent \in folderPast.above[r.folder] \cup {Top}
        /\ r.step = "close" => Inside(r.folder) \subseteq folderPast.late

\* No two requests are about to create one folder.
OneMaker ==
    \A t, u \in FolderThreads :
        tidying[t].step = "create" /\ tidying[u].step = "create" /\ tidying[t].folder = tidying[u].folder
            => t = u

\* A folder under which one is about to be created is on the second level at most.
RoomForFolders ==
    folderPast.crossed \/
    \A t \in FolderThreads : tidying[t].step = "create" /\ tidying[t].row.parent # Top
                                => RoomBelow(tidying[t].row.parent)

FolderInv ==
    /\ FolderTypes /\ FoldersOrdered(folderPast) /\ TreeStands /\ FilesPlaced
    /\ (\A t \in FolderThreads : Tidying(t)) /\ OneMaker /\ RoomForFolders /\ Shallow /\ FoldersKept

-------------------------------------------------------------------------------
(* Folders: chains of rows *)

LEMMA NoFolderIsNone ==
    /\ NoFolder \notin FolderRow
    /\ NoFolder.parent \notin FolderIds \cup {Top}
  BY FolderAssumption DEF NoFolder, FolderRow, Top

LEMMA RowOrNone ==
    ASSUME FolderTypes, NEW f \in FolderIds
    PROVE  /\ folders[f] \in FolderRow \/ folders[f] = NoFolder
           /\ folders[f] # NoFolder <=> folders[f].parent \in FolderIds \cup {Top}
  BY NoFolderIsNone DEF FolderTypes, FolderRow

LEMMA TidyStepFields ==
    ASSUME NEW r \in TidyStep
    PROVE  /\ r.step = "create" => r.folder \in FolderIds /\ r.row \in FolderRow
           /\ r.step = "rename" => r.folder \in FolderIds /\ r.name \in FolderNames
           /\ r.step \in {"files", "folders", "close"} =>
                 r \in [step : {"files", "folders", "close"}, folder : FolderIds,
                        parent : FolderIds \cup {Top}]
           /\ r.step = "move" => r.file \in FolderFiles /\ r.folder \in FolderIds \cup {Top}
           /\ r.step \in {"idle", "create", "rename", "files", "folders", "close", "move"}
  BY DEF TidyStep, NotTidying

LEMMA FolderInvInit == FolderInit => FolderInv
<1> SUFFICES ASSUME FolderInit PROVE FolderInv
  OBVIOUS
<1> DEFINE old == DOMAIN OldFolders
<1>0. /\ old \subseteq FolderIds /\ OldFolders \in [old -> [parent : old \cup {Top}, name : FolderNames]]
      /\ Top \notin FolderIds
      /\ \A f, g, h \in old :
            OldFolders[f].parent = g /\ OldFolders[g].parent = h => OldFolders[h].parent = Top
  BY FolderAssumption
<1>1. /\ folders = [f \in FolderIds |-> IF f \in old THEN OldFolders[f] ELSE NoFolder]
      /\ place = [a \in FolderFiles |-> Top] /\ tidying = [t \in FolderThreads |-> NotTidying]
      /\ folderPast = FolderHistory
  BY DEF FolderInit
<1>2. \A f \in old : OldFolders[f] \in FolderRow /\ OldFolders[f].parent \in old \cup {Top}
  BY <1>0 DEF FolderRow
<1>3. \A f \in FolderIds :
         folderPast.above[f] = IF f \notin old THEN {}
                               ELSE {OldFolders[f].parent} \cup
                                    (IF OldFolders[f].parent = Top THEN {}
                                     ELSE {OldFolders[OldFolders[f].parent].parent})
  BY <1>1 DEF FolderHistory
<1>20. ASSUME NEW f \in FolderIds, NEW g \in folderPast.above[f]
       PROVE  /\ f \in old /\ g \in old \cup {Top}
              /\ g # OldFolders[f].parent => /\ OldFolders[f].parent \in old
                                             /\ OldFolders[OldFolders[f].parent].parent = g
  <2>1. f \in old BY <1>3
  <2> DEFINE p == OldFolders[f].parent
  <2>2. p \in old \cup {Top} BY <1>2, <2>1
  <2>3. folderPast.above[f] = {p} \cup (IF p = Top THEN {} ELSE {OldFolders[p].parent})
    BY <1>3, <2>1
  <2> HIDE DEF p
  <2>4. CASE g = p BY <2>1, <2>2, <2>4 DEF p
  <2>5. CASE g # p
    <3>1. p \in old /\ g = OldFolders[p].parent BY <2>2, <2>3, <2>5
    <3>2. OldFolders[p].parent \in old \cup {Top} BY <1>2, <3>1
    <3> QED BY <2>1, <3>1, <3>2 DEF p
  <2> QED BY <2>4, <2>5
<1>4. \A f \in FolderIds : folderPast.above[f] \subseteq old \cup {Top}
  BY <1>20
<1>5. /\ folderPast.made = old /\ folderPast.asked = {} /\ folderPast.late = {}
      /\ folderPast.crossed = FALSE /\ folderPast.chosen = [a \in FolderFiles |-> Top]
      /\ folderPast.above \in [FolderIds -> SUBSET (FolderIds \cup {Top})]
  <2>1. folderPast.made = old /\ folderPast.asked = {} /\ folderPast.late = {}
        /\ folderPast.crossed = FALSE /\ folderPast.chosen = [a \in FolderFiles |-> Top]
    BY <1>1 DEF FolderHistory
  <2>2. \E A : folderPast.above = [f \in FolderIds |-> A[f]]
    <3> DEFINE A == [f \in FolderIds |->
                  IF f \notin DOMAIN OldFolders THEN {}
                  ELSE LET up == OldFolders[f].parent IN
                       {up} \cup (IF up = Top THEN {} ELSE {OldFolders[up].parent})]
    <3>1. folderPast.above = A BY <1>1 DEF FolderHistory
    <3>2. A = [f \in FolderIds |-> A[f]] OBVIOUS
    <3> QED BY <3>1, <3>2
  <2>3. folderPast.above \in [FolderIds -> SUBSET (FolderIds \cup {Top})]
    BY <1>0, <1>4, <2>2
  <2> QED BY <2>1, <2>3
<1>6. folderPast \in FolderPast
  BY <1>0, <1>1, <1>5 DEF FolderPast, FolderHistory
<1>7. FolderTypes
  <2>1. folders \in [FolderIds -> FolderRow \cup {NoFolder}] BY <1>1, <1>2
  <2> QED BY <1>1, <1>6, <2>1 DEF FolderTypes, TidyStep
<1>8. FoldersOrdered(folderPast)
  <2>1. ASSUME NEW f \in FolderIds PROVE f \notin folderPast.above[f]
    <3> SUFFICES ASSUME f \in old, f \in folderPast.above[f] PROVE FALSE BY <1>3
    <3>1. CASE OldFolders[f].parent = f BY <1>0, <3>1
    <3>2. CASE OldFolders[f].parent # f
      <4>1. OldFolders[f].parent \in old /\ OldFolders[OldFolders[f].parent].parent = f
        BY <1>20, <3>2
      <4> QED BY <1>0, <4>1
    <3> QED BY <3>1, <3>2
  <2>2. ASSUME NEW f \in FolderIds, NEW g \in FolderIds, g \in folderPast.above[f]
        PROVE  folderPast.above[g] \subseteq folderPast.above[f] \cup {Top}
    <3>1. f \in old BY <1>3, <2>2
    <3>2. g \in old BY <1>0, <1>4, <2>2
    <3>3. CASE OldFolders[f].parent = g
      <4>1. folderPast.above[f] = {g, OldFolders[g].parent} BY <1>0, <1>3, <3>1, <3>2, <3>3
      <4>2. CASE OldFolders[g].parent = Top BY <1>3, <3>2, <4>1, <4>2
      <4>3. CASE OldFolders[g].parent # Top
        <5>1. OldFolders[g].parent \in old BY <1>2, <3>2, <4>3
        <5>2. OldFolders[OldFolders[g].parent].parent = Top BY <1>0, <3>1, <3>2, <3>3, <5>1
        <5> QED BY <1>3, <3>2, <4>1, <4>3, <5>2
      <4> QED BY <4>2, <4>3
    <3>4. CASE OldFolders[f].parent # g
      <4>1. OldFolders[f].parent \in old /\ OldFolders[OldFolders[f].parent].parent = g
        BY <1>20, <2>2, <3>4
      <4>2. OldFolders[g].parent = Top BY <1>0, <3>1, <3>2, <4>1
      <4> QED BY <1>3, <3>2, <4>2
    <3> QED BY <3>3, <3>4
  <2> QED BY <1>4, <1>5, <2>1, <2>2 DEF FoldersOrdered
<1>9. \A f \in FolderIds : folders[f] # NoFolder => f \in old /\ folders[f] = OldFolders[f]
  BY <1>1
<1>10. \A f \in old : folders[f] # NoFolder
  <2>1. \A f \in old : folders[f] = OldFolders[f] BY <1>0, <1>1
  <2> QED BY <1>2, <2>1, NoFolderIsNone
<1>11. TreeStands
  <2> SUFFICES ASSUME NEW f \in FolderIds, folders[f] # NoFolder
               PROVE  /\ f \in folderPast.made /\ IsFolder(folders[f].parent)
                      /\ folders[f].parent \in folderPast.above[f] \cup {Top}
    BY DEF TreeStands
  <2>1. f \in old /\ folders[f] = OldFolders[f] /\ OldFolders[f].parent \in old \cup {Top}
    BY <1>2, <1>9
  <2>2. IsFolder(folders[f].parent) BY <1>0, <1>10, <2>1 DEF IsFolder
  <2> QED BY <1>3, <1>5, <2>1, <2>2
<1>12. FilesPlaced BY <1>1, <1>5 DEF FilesPlaced, IsFolder
<1>13. (\A t \in FolderThreads : Tidying(t)) /\ OneMaker /\ RoomForFolders
  BY <1>1 DEF Tidying, OneMaker, RoomForFolders, NotTidying
<1>14. Shallow
  <2> SUFFICES ASSUME NEW a \in FolderIds, NEW b \in FolderIds, NEW c \in FolderIds, NEW d \in FolderIds,
                      folders[a].parent = b, folders[b].parent = c, folders[c].parent = d
               PROVE  FALSE
    BY DEF Shallow
  <2>1. folders[a] # NoFolder /\ folders[b] # NoFolder /\ folders[c] # NoFolder
    BY <1>7, RowOrNone
  <2>2. a \in old /\ b \in old /\ c \in old /\ OldFolders[a].parent = b /\ OldFolders[b].parent = c
        /\ OldFolders[c].parent = d
    BY <1>9, <2>1
  <2> QED BY <1>0, <2>2
<1>15. FoldersKept BY <1>0, <1>5, <1>10 DEF FoldersKept, IsFolder
<1> QED BY <1>5, <1>7, <1>8, <1>11, <1>12, <1>13, <1>14, <1>15 DEF FolderInv

-------------------------------------------------------------------------------
(* Folders: what each request does *)

\* The folders and their past stay; requests change without a word on folders created or closed.
LEMMA TreeRest ==
    ASSUME FolderInv, folders' = folders, folderPast' \in FolderPast,
           folderPast'.made = folderPast.made, folderPast'.above = folderPast.above,
           folderPast'.late = folderPast.late, folderPast'.crossed = folderPast.crossed,
           folderPast.asked \subseteq folderPast'.asked
    PROVE  FoldersOrdered(folderPast') /\ TreeStands' /\ Shallow' /\ FoldersKept'
<1>1. FoldersOrdered(folderPast') BY DEF FolderInv, FoldersOrdered
<1>2. TreeStands' BY DEF FolderInv, TreeStands, IsFolder
<1>3. Shallow' BY DEF FolderInv, Shallow
<1>4. FoldersKept' BY DEF FolderInv, FoldersKept, IsFolder
<1> QED BY <1>1, <1>2, <1>3, <1>4

LEMMA OrderedPrime ==
    ASSUME FoldersOrdered(folderPast') PROVE FoldersOrdered(folderPast)'
  BY DEF FoldersOrdered

LEMMA TidyOther ==
    ASSUME FolderInv, NEW t \in FolderThreads, NEW r \in TidyStep, Tidy(t, r)
    PROVE  /\ tidying' \in [FolderThreads -> TidyStep] /\ tidying'[t] = r
           /\ \A u \in FolderThreads : u # t => tidying'[u] = tidying[u]
  BY DEF FolderInv, FolderTypes, Tidy

\* A request fails, or is over, without a change to a folder.
LEMMA TidyFailsKeeps ==
    ASSUME FolderInv, NEW t \in FolderThreads, TidyFails(t)
    PROVE  FolderInv'
<1>1. NotTidying \in TidyStep BY DEF TidyStep
<1>2. /\ tidying' \in [FolderThreads -> TidyStep] /\ tidying'[t] = NotTidying
      /\ \A u \in FolderThreads : u # t => tidying'[u] = tidying[u]
      /\ folders' = folders /\ place' = place /\ folderPast' = folderPast
  BY <1>1, TidyOther DEF TidyFails
<1>3. FolderTypes' BY <1>2 DEF FolderInv, FolderTypes
<1>4. FoldersOrdered(folderPast') /\ TreeStands' /\ Shallow' /\ FoldersKept'
  BY <1>2, TreeRest DEF FolderInv, FolderTypes
<1>5. FilesPlaced' BY <1>2 DEF FolderInv, FilesPlaced, IsFolder
<1>6. ASSUME NEW u \in FolderThreads PROVE Tidying(u)'
  <2>1. tidying'[u] = NotTidying \/ tidying'[u] = tidying[u] BY <1>2
  <2> QED BY <1>2, <2>1 DEF FolderInv, Tidying, NotTidying, Inside
<1>7. OneMaker' BY <1>2 DEF FolderInv, OneMaker, NotTidying
<1>8. RoomForFolders' BY <1>2 DEF FolderInv, RoomForFolders, NotTidying, RoomBelow
<1> QED BY <1>3, <1>4, <1>5, <1>6, <1>7, <1>8, OrderedPrime DEF FolderInv

\* A request begins.
LEMMA TidyBegins ==
    ASSUME FolderInv, NEW t \in FolderThreads, NEW r \in TidyStep, BeginTidy(t, r),
           folders' = folders, place' = place, folderPast' \in FolderPast,
           folderPast'.made = folderPast.made, folderPast'.above = folderPast.above,
           folderPast'.late = folderPast.late, folderPast'.crossed = folderPast.crossed,
           folderPast'.chosen = folderPast.chosen, folderPast.asked \subseteq folderPast'.asked,
           Tidying(t)', r.step = "create" => /\ r.folder \notin Subjects("create")
                                             /\ r.row.parent # Top => RoomBelow(r.row.parent)
    PROVE  FolderInv'
<1>2. /\ tidying' \in [FolderThreads -> TidyStep] /\ tidying'[t] = r
      /\ \A u \in FolderThreads : u # t => tidying'[u] = tidying[u]
  BY TidyOther DEF BeginTidy
<1>3. FolderTypes' BY <1>2 DEF FolderInv, FolderTypes
<1>4. FoldersOrdered(folderPast') /\ TreeStands' /\ Shallow' /\ FoldersKept' BY TreeRest
<1>5. FilesPlaced' BY DEF FolderInv, FilesPlaced, IsFolder
<1>6. ASSUME NEW u \in FolderThreads PROVE Tidying(u)'
  <2>1. CASE u = t BY <2>1
  <2>2. CASE u # t
    <3>1. tidying'[u] = tidying[u] BY <1>2, <2>2
    <3> QED BY <3>1 DEF FolderInv, Tidying, Inside
  <2> QED BY <2>1, <2>2
<1>7. OneMaker'
  <2>1. ASSUME NEW u \in FolderThreads, u # t, tidying[u].step = "create", r.step = "create"
        PROVE  tidying[u].folder # r.folder
    BY <2>1 DEF Subjects
  <2> QED BY <1>2, <2>1 DEF FolderInv, OneMaker
<1>8. RoomForFolders'
  <2>1. \A f : RoomBelow(f)' <=> RoomBelow(f) BY DEF RoomBelow
  <2> SUFFICES ASSUME ~folderPast.crossed, NEW u \in FolderThreads, tidying'[u].step = "create",
                      tidying'[u].row.parent # Top
               PROVE  RoomBelow(tidying'[u].row.parent)
    BY DEF RoomForFolders, RoomBelow
  <2> QED BY <1>2 DEF FolderInv, RoomForFolders
<1> QED BY <1>3, <1>4, <1>5, <1>6, <1>7, <1>8, OrderedPrime DEF FolderInv

LEMMA OpenCreateKeeps ==
    ASSUME FolderInv, NEW t \in FolderThreads, NEW f \in FolderIds, NEW parent \in FolderIds \cup {Top},
           NEW name \in FolderNames, OpenCreate(t, f, parent, name)
    PROVE  FolderInv'
<1> DEFINE r == [step |-> "create", folder |-> f, row |-> [parent |-> parent, name |-> name]]
<1>1. r \in TidyStep BY DEF TidyStep, FolderRow
<1>2. /\ f \notin folderPast.made /\ f \notin Subjects("create") /\ IsFolder(parent)
      /\ (parent # Top => RoomBelow(parent)) /\ BeginTidy(t, r)
      /\ folders' = folders /\ place' = place /\ folderPast' = folderPast
  BY DEF OpenCreate
<1>3. parent \in folderPast.made \cup {Top} BY <1>2 DEF IsFolder, FolderInv, TreeStands
<1>4. tidying'[t] = r BY <1>1, <1>2, TidyOther DEF BeginTidy
<1>5. Tidying(t)' BY <1>2, <1>3, <1>4 DEF Tidying
<1>6. folderPast' \in FolderPast BY <1>2 DEF FolderInv, FolderTypes
<1> QED BY <1>1, <1>2, <1>5, <1>6, TidyBegins

LEMMA OpenRenameKeeps ==
    ASSUME FolderInv, NEW t \in FolderThreads, NEW f \in FolderIds,
           NEW name \in FolderNames, OpenRename(t, f, name)
    PROVE  FolderInv'
<1> DEFINE r == [step |-> "rename", folder |-> f, name |-> name]
<1>1. r \in TidyStep BY DEF TidyStep
<1>2. BeginTidy(t, r) /\ folders' = folders /\ place' = place /\ folderPast' = folderPast
  BY DEF OpenRename
<1>4. tidying'[t] = r BY <1>1, <1>2, TidyOther DEF BeginTidy
<1>5. Tidying(t)' BY <1>4 DEF Tidying
<1>6. folderPast' \in FolderPast BY <1>2 DEF FolderInv, FolderTypes
<1> QED BY <1>1, <1>2, <1>5, <1>6, TidyBegins

LEMMA OpenDeleteKeeps ==
    ASSUME FolderInv, NEW t \in FolderThreads, NEW f \in FolderIds, OpenDelete(t, f)
    PROVE  FolderInv'
<1> DEFINE r == [step |-> "files", folder |-> f, parent |-> folders[f].parent]
<1>0. folders[f] # NoFolder /\ folderPast \in FolderPast /\ FolderTypes
  BY FolderAssumption DEF OpenDelete, IsFolder, FolderInv, FolderTypes
<1>7. folders[f].parent \in folderPast.above[f] \cup {Top} /\ f \in folderPast.made
  BY <1>0 DEF FolderInv, TreeStands
<1>1. r \in TidyStep
  <2>1. folders[f].parent \in FolderIds \cup {Top} BY <1>0, RowOrNone
  <2> QED BY <2>1 DEF TidyStep
<1>2. BeginTidy(t, r) /\ folders' = folders /\ place' = place
      /\ folderPast' = [folderPast EXCEPT !.asked = folderPast.asked \cup {f}]
  BY DEF OpenDelete
<1>3. /\ folderPast' \in FolderPast /\ folderPast'.asked = folderPast.asked \cup {f}
      /\ folderPast'.made = folderPast.made /\ folderPast'.above = folderPast.above
      /\ folderPast'.late = folderPast.late /\ folderPast'.crossed = folderPast.crossed
      /\ folderPast'.chosen = folderPast.chosen
  BY <1>0, <1>2 DEF FolderPast
<1>4. tidying'[t] = r BY <1>1, <1>2, TidyOther DEF BeginTidy
<1>5. Tidying(t)' BY <1>3, <1>4, <1>7 DEF Tidying
<1> QED BY <1>1, <1>2, <1>3, <1>5, TidyBegins

LEMMA OpenMoveKeeps ==
    ASSUME FolderInv, NEW t \in FolderThreads, NEW a \in FolderFiles, NEW f \in FolderIds \cup {Top},
           OpenMove(t, a, f)
    PROVE  FolderInv'
<1> DEFINE r == [step |-> "move", file |-> a, folder |-> f]
<1>1. r \in TidyStep BY DEF TidyStep
<1>2. BeginTidy(t, r) /\ folders' = folders /\ place' = place /\ folderPast' = folderPast
  BY DEF OpenMove
<1>4. tidying'[t] = r BY <1>1, <1>2, TidyOther DEF BeginTidy
<1>5. Tidying(t)' BY <1>4 DEF Tidying
<1>6. folderPast' \in FolderPast BY <1>2 DEF FolderInv, FolderTypes
<1> QED BY <1>1, <1>2, <1>5, <1>6, TidyBegins

LEMMA AboveFacts ==
    ASSUME FolderInv
    PROVE  /\ Top \notin FolderIds /\ FolderTypes /\ folderPast \in FolderPast
           /\ folders \in [FolderIds -> FolderRow \cup {NoFolder}]
           /\ \A f \in FolderIds : folders[f].parent \in FolderIds =>
                 /\ folders[f] # NoFolder /\ folders[folders[f].parent] # NoFolder
                 /\ folders[f].parent \in folderPast.above[f] /\ folders[f].parent # f
<1>1. Top \notin FolderIds BY FolderAssumption
<1>2. FolderTypes BY DEF FolderInv
<1>3. ASSUME NEW f \in FolderIds, folders[f].parent \in FolderIds
      PROVE  /\ folders[f] # NoFolder /\ folders[folders[f].parent] # NoFolder
             /\ folders[f].parent \in folderPast.above[f] /\ folders[f].parent # f
  <2>1. folders[f] # NoFolder BY <1>2, <1>3, RowOrNone
  <2>2. IsFolder(folders[f].parent) /\ folders[f].parent \in folderPast.above[f] \cup {Top}
    BY <2>1 DEF FolderInv, TreeStands
  <2> QED BY <1>1, <1>3, <2>1, <2>2 DEF FolderInv, FoldersOrdered, IsFolder
<1> QED BY <1>1, <1>2, <1>3 DEF FolderTypes

\* The insertion that the database takes.
Inserted(t) ==
    /\ tidying[t].step = "create"
    /\ IsFolder(tidying[t].row.parent)
    /\ NameFree([folders EXCEPT ![tidying[t].folder] = tidying[t].row], tidying[t].folder)

LEMMA InsertedKeeps ==
    ASSUME FolderInv, NEW t \in FolderThreads, InsertFolder(t), Inserted(t)
    PROVE  FolderInv'
<1>0. PICK f \in FolderIds, row \in FolderRow :
        tidying[t].folder = f /\ tidying[t].row = row
  BY TidyStepFields DEF Inserted, FolderInv, FolderTypes
<1> DEFINE parent == row.parent
           over == {parent} \cup (IF parent = Top THEN {} ELSE folderPast.above[parent])
<1>1. parent \in FolderIds \cup {Top} BY <1>0 DEF FolderRow
<1>2. /\ f \notin folderPast.made /\ parent \in folderPast.made \cup {Top} /\ IsFolder(parent)
  BY <1>0 DEF Inserted, FolderInv, Tidying
<1>3. FolderTypes /\ folderPast \in FolderPast /\ Top \notin FolderIds /\ FoldersOrdered(folderPast) /\ TreeStands
  BY AboveFacts DEF FolderInv
<1>4. folders[f] = NoFolder BY <1>2, <1>3 DEF TreeStands
<1>5. PICK more \in SUBSET {f} :
        /\ folders' = [folders EXCEPT ![f] = row] /\ Tidy(t, NotTidying)
        /\ folderPast' = [folderPast EXCEPT !.made = folderPast.made \cup {f}, !.above[f] = over,
                                            !.late = folderPast.late \cup more]
        /\ (parent \in Closing => more = {f}) /\ place' = place
  <2>1. /\ folders' = [folders EXCEPT ![f] = row] /\ Tidy(t, NotTidying)
        /\ folderPast' = [folderPast EXCEPT !.made = folderPast.made \cup {f}, !.above[f] = over,
                    !.late = folderPast.late \cup (IF parent \in Closing THEN {f} ELSE {})]
        /\ place' = place
    BY <1>0 DEF InsertFolder, Inserted
  <2> HIDE DEF over, parent
  <2>2. CASE parent \in Closing BY <2>1, <2>2
  <2>3. CASE parent \notin Closing BY <2>1, <2>3
  <2> QED BY <2>2, <2>3
<1>6. NotTidying \in TidyStep BY DEF TidyStep
<1>7. /\ tidying' \in [FolderThreads -> TidyStep] /\ tidying'[t] = NotTidying
      /\ \A u \in FolderThreads : u # t => tidying'[u] = tidying[u]
  BY <1>5, <1>6, TidyOther
<1>8. parent # f BY <1>2, <1>3, <1>4 DEF IsFolder
<1>9. over \subseteq folderPast.made \cup {Top} /\ f \notin over
  <2>1. over \subseteq folderPast.made \cup {Top} BY <1>1, <1>2, <1>3 DEF FoldersOrdered
  <2> QED BY <1>2, <1>3, <2>1
<1> HIDE DEF over
<1>10. /\ folderPast'.made = folderPast.made \cup {f} /\ folderPast'.asked = folderPast.asked
       /\ folderPast'.late = folderPast.late \cup more /\ folderPast'.crossed = folderPast.crossed
       /\ folderPast'.chosen = folderPast.chosen
       /\ folderPast'.above = [folderPast.above EXCEPT ![f] = over]
       /\ folderPast' \in FolderPast
  <2>1. folderPast.made \subseteq FolderIds /\ folderPast.above \in [FolderIds -> SUBSET (FolderIds \cup {Top})]
    BY <1>3 DEF FolderPast
  <2>2. over \in SUBSET (FolderIds \cup {Top}) BY <1>9, <2>1
  <2>3. [folderPast.above EXCEPT ![f] = over] \in [FolderIds -> SUBSET (FolderIds \cup {Top})]
    BY <2>1, <2>2
  <2>4. folderPast' = [folderPast EXCEPT !.made = folderPast.made \cup {f},
                          !.above = [folderPast.above EXCEPT ![f] = over],
                          !.late = folderPast.late \cup more]
    BY <1>3, <1>5 DEF FolderPast
  <2> QED BY <1>3, <2>1, <2>3, <2>4 DEF FolderPast
<1>11. \A g \in FolderIds : folderPast'.above[g] = IF g = f THEN over ELSE folderPast.above[g]
  BY <1>3, <1>10 DEF FolderPast
<1>12. \A g \in FolderIds : folders'[g] = IF g = f THEN row ELSE folders[g]
  BY <1>3, <1>5 DEF FolderTypes
<1>13. row # NoFolder BY NoFolderIsNone
<1>14. \A g : IsFolder(g) => IsFolder(g)' BY <1>12, <1>13 DEF IsFolder
<1>15. \A g \in FolderIds : folders[g].parent # f
  BY <1>3, <1>4, AboveFacts
<1>16. FolderTypes'
  <2>1. folders' \in [FolderIds -> FolderRow \cup {NoFolder}] BY <1>3, <1>5 DEF FolderTypes
  <2> QED BY <1>3, <1>5, <1>7, <1>10, <2>1 DEF FolderTypes
<1>17. FoldersOrdered(folderPast')
  <2>1. ASSUME NEW g \in FolderIds
        PROVE  g \notin folderPast'.above[g] /\ folderPast'.above[g] \subseteq folderPast'.made \cup {Top}
    BY <1>3, <1>9, <1>10, <1>11 DEF FoldersOrdered
  <2>2. ASSUME NEW g \in FolderIds, NEW h \in FolderIds, h \in folderPast'.above[g]
        PROVE  folderPast'.above[h] \subseteq folderPast'.above[g] \cup {Top}
    <3>1. CASE g # f
      <4>1. h \in folderPast.above[g] BY <1>11, <2>2, <3>1
      <4>2. h \in folderPast.made \cup {Top} BY <1>3, <4>1 DEF FoldersOrdered
      <4>3. h # f BY <1>2, <1>3, <4>2
      <4> QED BY <1>3, <1>11, <3>1, <4>1, <4>3 DEF FoldersOrdered
    <3>2. CASE g = f
      <4>1. h \in over /\ h # f BY <1>9, <1>11, <2>2, <3>2
      <4>2. h = parent \/ (parent # Top /\ h \in folderPast.above[parent]) BY <4>1 DEF over
      <4>3. parent \in FolderIds BY <1>1, <1>3, <4>2
      <4>4. folderPast.above[h] \subseteq folderPast.above[parent] \cup {Top}
        BY <1>3, <4>2, <4>3 DEF FoldersOrdered
      <4>5. folderPast.above[parent] \subseteq over BY <1>3, <4>3 DEF over
      <4> QED BY <1>11, <3>2, <4>1, <4>4, <4>5
    <3> QED BY <3>1, <3>2
  <2> QED BY <2>1, <2>2 DEF FoldersOrdered
<1>18. TreeStands'
  <2> SUFFICES ASSUME NEW g \in FolderIds, folders'[g] # NoFolder
               PROVE  /\ g \in folderPast'.made
                      /\ folders'[g].parent \in {Top} \cup {h \in FolderIds : folders'[h] # NoFolder}
                      /\ folders'[g].parent \in folderPast'.above[g] \cup {Top}
    BY DEF TreeStands, IsFolder
  <2>0. \A h : IsFolder(h) => h \in {Top} \cup {i \in FolderIds : folders'[i] # NoFolder}
    BY <1>12, <1>13 DEF IsFolder
  <2>1. CASE g = f
    <3>1. parent \in over BY DEF over
    <3> QED BY <1>2, <1>10, <1>11, <1>12, <2>0, <2>1, <3>1
  <2>2. CASE g # f
    <3>1. folders'[g] = folders[g] /\ folderPast'.above[g] = folderPast.above[g] BY <1>11, <1>12, <2>2
    <3>2. g \in folderPast.made /\ IsFolder(folders[g].parent)
          /\ folders[g].parent \in folderPast.above[g] \cup {Top}
      BY <1>3, <3>1 DEF TreeStands
    <3> QED BY <1>10, <2>0, <3>1, <3>2
  <2> QED BY <2>1, <2>2
<1>19. FilesPlaced'
  <2> SUFFICES ASSUME NEW a \in FolderFiles
               PROVE  /\ IsFolder(place[a])' /\ folderPast'.chosen[a] \in folderPast'.made \cup {Top}
                      /\ place'[a] # folderPast'.chosen[a] =>
                            /\ folderPast'.chosen[a] \in FolderIds
                            /\ folderPast'.chosen[a] \in folderPast'.asked \/ folders'[folderPast'.chosen[a]] = NoFolder
                            /\ place'[a] \in {Top} \cup folderPast'.above[folderPast'.chosen[a]]
    BY DEF FilesPlaced
  <2> DEFINE c == folderPast.chosen[a]
  <2>1. /\ IsFolder(place[a]) /\ c \in folderPast.made \cup {Top}
        /\ place[a] # c => /\ c \in FolderIds /\ (c \in folderPast.asked \/ folders[c] = NoFolder)
                           /\ place[a] \in {Top} \cup folderPast.above[c]
    BY DEF FolderInv, FilesPlaced
  <2>2. c # f BY <1>2, <1>3, <2>1
  <2>3. IsFolder(place[a])' BY <1>5, <1>14, <2>1
  <2>4. folderPast'.chosen[a] = c /\ place'[a] = place[a] BY <1>5, <1>10
  <2> HIDE DEF c
  <2> QED BY <1>10, <1>11, <1>12, <2>1, <2>2, <2>3, <2>4
<1>20. ASSUME NEW u \in FolderThreads PROVE Tidying(u)'
  <2>1. CASE u = t BY <1>7, <2>1 DEF Tidying, NotTidying
  <2>2. CASE u # t
    <3> DEFINE r == tidying[u]
    <3>0. tidying'[u] = r /\ Tidying(u) /\ r \in TidyStep BY <1>3, <1>7, <2>2 DEF FolderInv, FolderTypes
    <3>1. ASSUME r.step = "create" PROVE r.folder \notin folderPast'.made /\ r.row.parent \in folderPast'.made \cup {Top}
      <4>1. r.folder # f BY <1>0, <2>2, <3>1 DEF FolderInv, OneMaker, Inserted
      <4> QED BY <1>10, <3>0, <3>1, <4>1 DEF Tidying
    <3>2. ASSUME r.step \in {"files", "folders", "close"}
          PROVE  r.folder \in folderPast'.asked \cap folderPast'.made /\ r.parent \in folderPast'.above[r.folder] \cup {Top}
      <4>1. r.folder \in FolderIds BY <3>0, <3>2, TidyStepFields
      <4>2. r.folder \in folderPast.asked \cap folderPast.made /\ r.parent \in folderPast.above[r.folder] \cup {Top}
        BY <3>0, <3>2 DEF Tidying
      <4>3. CASE r.folder # f BY <1>10, <1>11, <4>1, <4>2, <4>3
      <4>4. CASE r.folder = f
        BY <1>2, <4>2, <4>4
      <4> QED BY <4>3, <4>4
    <3>3. ASSUME r.step = "close" PROVE Inside(r.folder)' \subseteq folderPast'.late
      <4>1. Inside(r.folder) \subseteq folderPast.late BY <3>0, <3>3 DEF Tidying
      <4>2. r.folder \in Closing BY <3>3 DEF Closing, Subjects
      <4> SUFFICES ASSUME NEW g \in FolderIds, folders'[g].parent = r.folder PROVE g \in folderPast'.late
        BY <3>0 DEF Inside
      <4>3. CASE g = f
        <5>1. parent \in Closing BY <1>12, <4>2, <4>3
        <5> QED BY <1>5, <1>10, <4>3, <5>1
      <4>4. CASE g # f BY <1>10, <1>12, <4>1, <4>4 DEF Inside
      <4> QED BY <4>3, <4>4
    <3>4. (Inside(r.folder)' \subseteq folderPast'.late) <=> (Inside(tidying[u].folder) \subseteq folderPast.late)'
      OBVIOUS
    <3> HIDE DEF r
    <3> QED BY <3>0, <3>1, <3>2, <3>3, <3>4 DEF Tidying
  <2> QED BY <2>1, <2>2
<1>21. OneMaker' BY <1>7 DEF FolderInv, OneMaker, NotTidying
<1>22. RoomForFolders'
  <2> SUFFICES ASSUME ~folderPast.crossed, NEW u \in FolderThreads, tidying'[u].step = "create",
                      tidying'[u].row.parent # Top,
                      NEW a \in FolderIds, NEW b \in FolderIds,
                      folders'[tidying'[u].row.parent].parent = a, folders'[a].parent = b
               PROVE  FALSE
    BY <1>10 DEF RoomForFolders, RoomBelow
  <2>1. u # t /\ tidying'[u] = tidying[u] /\ tidying[u] \in TidyStep
    BY <1>3, <1>7 DEF NotTidying, FolderTypes
  <2>2. tidying[u].row.parent \in folderPast.made /\ RoomBelow(tidying[u].row.parent)
    BY <2>1 DEF FolderInv, Tidying, RoomForFolders
  <2>3. tidying[u].row.parent \in FolderIds /\ tidying[u].row.parent # f BY <1>2, <1>3, <2>2 DEF FolderPast
  <2>4. folders[tidying[u].row.parent].parent = a BY <1>12, <2>1, <2>3
  <2>5. a # f BY <1>15, <2>3, <2>4
  <2>6. folders[a].parent = b BY <1>12, <2>5
  <2> QED BY <2>2, <2>4, <2>6 DEF RoomBelow
<1>23. Shallow'
  <2> SUFFICES ASSUME ~folderPast.crossed,
                      NEW a \in FolderIds, NEW b \in FolderIds, NEW c \in FolderIds, NEW d \in FolderIds,
                      folders'[a].parent = b, folders'[b].parent = c, folders'[c].parent = d
               PROVE  FALSE
    BY <1>10 DEF Shallow
  <2>1. b # f /\ c # f BY <1>8, <1>12, <1>15
  <2>2. folders[b].parent = c /\ folders[c].parent = d BY <1>12, <2>1
  <2>3. CASE a # f BY <1>12, <2>2, <2>3 DEF FolderInv, Shallow
  <2>4. CASE a = f
    <3>1. parent = b /\ parent # Top BY <1>3, <1>12, <2>4
    <3>2. RoomBelow(parent) BY <1>0, <3>1 DEF FolderInv, RoomForFolders, Inserted
    <3> QED BY <2>2, <3>1, <3>2 DEF RoomBelow
  <2> QED BY <2>3, <2>4
<1>24. FoldersKept'
  <2> SUFFICES ASSUME NEW g \in folderPast'.made \ folderPast'.asked
               PROVE  IsFolder(g)' \/ g \in folderPast'.late \/ folderPast'.above[g] \cap folderPast'.late # {}
    BY DEF FoldersKept
  <2>1. CASE g = f BY <1>12, <1>13, <2>1 DEF IsFolder
  <2>2. CASE g # f
    <3>1. g \in folderPast.made \ folderPast.asked /\ g \in FolderIds BY <1>3, <1>10, <2>2 DEF FolderPast
    <3>2. IsFolder(g) \/ g \in folderPast.late \/ folderPast.above[g] \cap folderPast.late # {}
      BY <3>1 DEF FolderInv, FoldersKept
    <3> QED BY <1>10, <1>11, <1>14, <2>2, <3>1, <3>2
  <2> QED BY <2>1, <2>2
<1> QED BY <1>16, <1>17, <1>18, <1>19, <1>20, <1>21, <1>22, <1>23, <1>24, OrderedPrime DEF FolderInv

LEMMA SaveNameKeeps ==
    ASSUME FolderInv, NEW t \in FolderThreads, SaveName(t)
    PROVE  FolderInv'
<1>0. PICK f \in FolderIds, name \in FolderNames :
        tidying[t].folder = f /\ tidying[t].name = name
  BY TidyStepFields DEF SaveName, FolderInv, FolderTypes
<1>1. CASE TidyFails(t) BY <1>1, TidyFailsKeeps
<1>2. CASE ~TidyFails(t)
  <2>0. FolderTypes /\ Top \notin FolderIds /\ folders \in [FolderIds -> FolderRow \cup {NoFolder}] BY AboveFacts
  <2>1. /\ folders' = [folders EXCEPT ![f].name = name] /\ Tidy(t, NotTidying)
        /\ place' = place /\ folderPast' = folderPast /\ IsFolder(f)
    BY <1>0, <1>2 DEF SaveName
  <2>2. folders[f] \in FolderRow BY <2>0, <2>1, RowOrNone DEF IsFolder
  <2> DEFINE row == [folders[f] EXCEPT !.name = name]
  <2>3. row \in FolderRow /\ row.parent = folders[f].parent
    <3>1. folders[f] \in [parent : FolderIds \cup {Top}, name : FolderNames] BY <2>2 DEF FolderRow
    <3>2. name \in FolderNames BY <1>0
    <3> QED BY <3>1, <3>2 DEF FolderRow
  <2>4. folders' = [folders EXCEPT ![f] = row] BY <2>0, <2>1
  <2> HIDE DEF row
  <2>5. folders' \in [FolderIds -> FolderRow \cup {NoFolder}] BY <2>0, <2>3, <2>4
  <2>6. \A g \in FolderIds : folders'[g].parent = folders[g].parent BY <2>0, <2>3, <2>4
  <2>7. \A g \in FolderIds : folders'[g] # NoFolder <=> folders[g] # NoFolder
    BY <2>0, <2>2, <2>3, <2>4, NoFolderIsNone
  <2>8. NotTidying \in TidyStep BY DEF TidyStep
  <2>9. /\ tidying' \in [FolderThreads -> TidyStep] /\ tidying'[t] = NotTidying
        /\ \A u \in FolderThreads : u # t => tidying'[u] = tidying[u]
    BY <2>1, <2>8, TidyOther
  <2>10. FolderTypes' BY <2>0, <2>1, <2>5, <2>9 DEF FolderTypes
  <2>11. \A g : g \in {Top} \cup {h \in FolderIds : folders'[h] # NoFolder}
                 <=> g \in {Top} \cup {h \in FolderIds : folders[h] # NoFolder}
    BY <2>7
  <2>12. FoldersOrdered(folderPast') BY <2>1 DEF FolderInv
  <2>13. TreeStands'
    <3> SUFFICES ASSUME NEW g \in FolderIds, folders'[g] # NoFolder
                 PROVE  /\ g \in folderPast'.made
                        /\ folders'[g].parent \in {Top} \cup {h \in FolderIds : folders'[h] # NoFolder}
                        /\ folders'[g].parent \in folderPast'.above[g] \cup {Top}
      BY DEF TreeStands, IsFolder
    <3>1. folders[g] # NoFolder BY <2>7
    <3>2. g \in folderPast.made /\ folders[g].parent \in folderPast.above[g] \cup {Top}
          /\ folders[g].parent \in {Top} \cup {h \in FolderIds : folders[h] # NoFolder}
      BY <3>1 DEF FolderInv, TreeStands, IsFolder
    <3> QED BY <2>1, <2>6, <2>11, <3>2
  <2>14. FilesPlaced'
    <3> SUFFICES ASSUME NEW a \in FolderFiles
                 PROVE  /\ place[a] \in {Top} \cup {h \in FolderIds : folders'[h] # NoFolder}
                        /\ folderPast.chosen[a] \in folderPast.made \cup {Top}
                        /\ place[a] # folderPast.chosen[a] =>
                              /\ folderPast.chosen[a] \in FolderIds
                              /\ folderPast.chosen[a] \in folderPast.asked \/ folders'[folderPast.chosen[a]] = NoFolder
                              /\ place[a] \in {Top} \cup folderPast.above[folderPast.chosen[a]]
      BY <2>1 DEF FilesPlaced, IsFolder
    <3>1. place[a] \in {Top} \cup {h \in FolderIds : folders[h] # NoFolder}
      BY DEF FolderInv, FilesPlaced, IsFolder
    <3> QED BY <2>7, <2>11, <3>1 DEF FolderInv, FilesPlaced
  <2>15. ASSUME NEW u \in FolderThreads PROVE Tidying(u)'
    <3>1. \A x : {g \in FolderIds : folders'[g].parent = x} = {g \in FolderIds : folders[g].parent = x}
      BY <2>6
    <3>2. CASE u = t BY <2>9, <3>2 DEF Tidying, NotTidying
    <3>3. CASE u # t
      <4>1. tidying'[u] = tidying[u] /\ Tidying(u) BY <2>9, <3>3 DEF FolderInv
      <4> QED BY <2>1, <3>1, <4>1 DEF Tidying, Inside
    <3> QED BY <3>2, <3>3
  <2>16. OneMaker' BY <2>9 DEF FolderInv, OneMaker, NotTidying
  <2>17. RoomForFolders'
    <3> SUFFICES ASSUME ~folderPast.crossed, NEW u \in FolderThreads, tidying'[u].step = "create",
                        tidying'[u].row.parent # Top,
                        NEW a \in FolderIds, NEW b \in FolderIds,
                        folders'[tidying'[u].row.parent].parent = a, folders'[a].parent = b
                 PROVE  FALSE
      BY <2>1 DEF RoomForFolders, RoomBelow
    <3>1. u # t /\ tidying'[u] = tidying[u] /\ tidying[u] \in TidyStep
      BY <2>0, <2>9 DEF NotTidying, FolderTypes
    <3>2. tidying[u].row \in FolderRow BY <3>1, TidyStepFields
    <3>3. tidying[u].row.parent \in FolderIds BY <3>1, <3>2 DEF FolderRow
    <3>4. folders[tidying[u].row.parent].parent = a /\ folders[a].parent = b BY <2>6, <3>1, <3>3
    <3>5. RoomBelow(tidying[u].row.parent) BY <3>1 DEF FolderInv, RoomForFolders
    <3> QED BY <3>4, <3>5 DEF RoomBelow
  <2>18. Shallow' BY <2>1, <2>6 DEF FolderInv, Shallow
  <2>19. FoldersKept' BY <2>1, <2>7 DEF FolderInv, FoldersKept, IsFolder
  <2> QED BY <2>10, <2>12, <2>13, <2>14, <2>15, <2>16, <2>17, <2>18, <2>19, OrderedPrime DEF FolderInv
<1> QED BY <1>1, <1>2

\* A step of one request that changes no folder, and where files are.
LEMMA FilesStepKeeps ==
    ASSUME FolderInv, NEW t \in FolderThreads, NEW r \in TidyStep, Tidy(t, r), r.step \in {"idle", "folders"},
           folders' = folders, place' \in [FolderFiles -> FolderIds \cup {Top}], folderPast' \in FolderPast,
           folderPast'.made = folderPast.made, folderPast'.above = folderPast.above,
           folderPast'.late = folderPast.late, folderPast'.crossed = folderPast.crossed,
           folderPast'.asked = folderPast.asked, Tidying(t)', FilesPlaced'
    PROVE  FolderInv'
<1>2. /\ tidying' \in [FolderThreads -> TidyStep] /\ tidying'[t] = r
      /\ \A u \in FolderThreads : u # t => tidying'[u] = tidying[u]
  BY TidyOther
<1>3. FolderTypes' BY <1>2 DEF FolderInv, FolderTypes
<1>4. FoldersOrdered(folderPast') /\ TreeStands' /\ Shallow' /\ FoldersKept' BY TreeRest
<1>6. ASSUME NEW u \in FolderThreads PROVE Tidying(u)'
  <2>1. CASE u = t BY <2>1
  <2>2. CASE u # t
    <3>1. tidying'[u] = tidying[u] BY <1>2, <2>2
    <3> QED BY <3>1 DEF FolderInv, Tidying, Inside
  <2> QED BY <2>1, <2>2
<1>7. OneMaker' BY <1>2 DEF FolderInv, OneMaker
<1>8. RoomForFolders'
  <2>1. \A f : RoomBelow(f)' <=> RoomBelow(f) BY DEF RoomBelow
  <2> SUFFICES ASSUME ~folderPast.crossed, NEW u \in FolderThreads, tidying'[u].step = "create",
                      tidying'[u].row.parent # Top
               PROVE  RoomBelow(tidying'[u].row.parent)
    BY DEF RoomForFolders, RoomBelow
  <2> QED BY <1>2 DEF FolderInv, RoomForFolders
<1> QED BY <1>3, <1>4, <1>6, <1>7, <1>8, OrderedPrime DEF FolderInv

LEMMA LiftFilesKeeps ==
    ASSUME FolderInv, NEW t \in FolderThreads, LiftFiles(t)
    PROVE  FolderInv'
<1>1. CASE TidyFails(t) BY <1>1, TidyFailsKeeps
<1>2. CASE ~TidyFails(t)
  <2> DEFINE r == [tidying[t] EXCEPT !.step = "folders"]
             f == tidying[t].folder
             parent == tidying[t].parent
  <2>0. tidying[t] \in [step : {"files", "folders", "close"}, folder : FolderIds, parent : FolderIds \cup {Top}]
        /\ tidying[t].step = "files" /\ Tidying(t)
    BY TidyStepFields DEF FolderInv, FolderTypes, LiftFiles
  <2>1. r \in TidyStep /\ r.step = "folders" /\ r.folder = f /\ r.parent = parent
    BY <2>0 DEF TidyStep
  <2>2. f \in FolderIds /\ parent \in FolderIds \cup {Top} BY <2>0
  <2>3. f \in folderPast.asked \cap folderPast.made /\ parent \in folderPast.above[f] \cup {Top}
    BY <2>0 DEF Tidying
  <2>4. /\ IsFolder(parent) /\ Tidy(t, r) /\ folders' = folders /\ folderPast' = folderPast
        /\ place' = [a \in FolderFiles |-> IF place[a] = f THEN parent ELSE place[a]]
    BY <1>2 DEF LiftFiles
  <2>5. tidying'[t] = r BY <2>1, <2>4, TidyOther
  <2> HIDE DEF r, f, parent
  <2>6. Tidying(t)' BY <2>1, <2>3, <2>4, <2>5 DEF Tidying
  <2>7. FolderTypes /\ Top \notin FolderIds /\ FoldersOrdered(folderPast) BY AboveFacts DEF FolderInv
  <2>8. place' \in [FolderFiles -> FolderIds \cup {Top}] BY <2>2, <2>4, <2>7 DEF FolderTypes
  <2>9. FilesPlaced'
    <3> SUFFICES ASSUME NEW a \in FolderFiles
                 PROVE  LET c == folderPast.chosen[a]
                        IN  /\ place'[a] \in {Top} \cup {h \in FolderIds : folders[h] # NoFolder}
                            /\ c \in folderPast.made \cup {Top}
                            /\ place'[a] # c => /\ c \in FolderIds
                                                /\ c \in folderPast.asked \/ folders[c] = NoFolder
                                                /\ place'[a] \in {Top} \cup folderPast.above[c]
      BY <2>4 DEF FilesPlaced, IsFolder
    <3> DEFINE c == folderPast.chosen[a]
    <3>1. /\ IsFolder(place[a]) /\ c \in folderPast.made \cup {Top}
          /\ place[a] # c => /\ c \in FolderIds /\ (c \in folderPast.asked \/ folders[c] = NoFolder)
                             /\ place[a] \in {Top} \cup folderPast.above[c]
      BY DEF FolderInv, FilesPlaced
    <3> HIDE DEF c
    <3>2. CASE place[a] # f
      <4>1. place'[a] = place[a] BY <2>4, <3>2
      <4> QED BY <3>1, <4>1 DEF c, IsFolder
    <3>3. CASE place[a] = f
      <4>1. place'[a] = parent BY <2>4, <3>3
      <4>2. CASE c = f BY <2>2, <2>3, <2>4, <3>1, <4>1, <4>2 DEF c, IsFolder
      <4>3. CASE c # f
        <5>1. c \in FolderIds /\ f \in folderPast.above[c] /\ (c \in folderPast.asked \/ folders[c] = NoFolder)
          BY <2>2, <2>7, <3>1, <3>3, <4>3
        <5>2. folderPast.above[f] \subseteq folderPast.above[c] \cup {Top} BY <2>2, <2>7, <5>1 DEF FoldersOrdered
        <5> QED BY <2>3, <2>4, <3>1, <4>1, <5>1, <5>2 DEF c, IsFolder
      <4> QED BY <4>2, <4>3
    <3> QED BY <3>2, <3>3
  <2>10. folderPast' \in FolderPast BY <2>4, <2>7 DEF FolderTypes
  <2> QED BY <2>1, <2>4, <2>6, <2>8, <2>9, <2>10, FilesStepKeeps
<1> QED BY <1>1, <1>2

LEMMA SavePlaceKeeps ==
    ASSUME FolderInv, NEW t \in FolderThreads, SavePlace(t)
    PROVE  FolderInv'
<1>1. CASE TidyFails(t) BY <1>1, TidyFailsKeeps
<1>2. CASE ~TidyFails(t)
  <2>0. PICK b \in FolderFiles, f \in FolderIds \cup {Top} :
          tidying[t].file = b /\ tidying[t].folder = f
    BY TidyStepFields DEF FolderInv, FolderTypes, SavePlace
  <2>1. FolderTypes /\ folderPast \in FolderPast BY AboveFacts
  <2>2. folderPast.chosen \in [FolderFiles -> FolderIds \cup {Top}] BY <2>1 DEF FolderPast
  <2>3. /\ IsFolder(f) /\ Tidy(t, NotTidying) /\ folders' = folders /\ place' = [place EXCEPT ![b] = f]
        /\ folderPast' = [folderPast EXCEPT !.chosen = [folderPast.chosen EXCEPT ![b] = f]]
    BY <1>2, <2>0, <2>1 DEF SavePlace, FolderPast
  <2>4. /\ folderPast' \in FolderPast
        /\ folderPast'.made = folderPast.made /\ folderPast'.above = folderPast.above
        /\ folderPast'.late = folderPast.late /\ folderPast'.crossed = folderPast.crossed
        /\ folderPast'.asked = folderPast.asked
        /\ folderPast'.chosen = [folderPast.chosen EXCEPT ![b] = f]
    BY <2>1, <2>2, <2>3 DEF FolderPast
  <2>5. NotTidying \in TidyStep /\ NotTidying.step = "idle" BY DEF TidyStep, NotTidying
  <2>6. tidying'[t] = NotTidying BY <2>3, <2>5, TidyOther
  <2>7. Tidying(t)' BY <2>6 DEF Tidying, NotTidying
  <2>8. place' \in [FolderFiles -> FolderIds \cup {Top}] BY <2>1, <2>3 DEF FolderTypes
  <2>9. f \in folderPast.made \cup {Top} BY <2>3 DEF IsFolder, FolderInv, TreeStands
  <2>10. FilesPlaced'
    <3> SUFFICES ASSUME NEW a \in FolderFiles
                 PROVE  LET c == folderPast'.chosen[a]
                        IN  /\ place'[a] \in {Top} \cup {h \in FolderIds : folders[h] # NoFolder}
                            /\ c \in folderPast.made \cup {Top}
                            /\ place'[a] # c => /\ c \in FolderIds
                                                /\ c \in folderPast.asked \/ folders[c] = NoFolder
                                                /\ place'[a] \in {Top} \cup folderPast.above[c]
      BY <2>3, <2>4 DEF FilesPlaced, IsFolder
    <3>1. CASE a = b
      <4>1. place'[a] = f /\ folderPast'.chosen[a] = f BY <2>1, <2>2, <2>3, <2>4, <3>1 DEF FolderTypes
      <4> QED BY <2>3, <2>9, <4>1 DEF IsFolder
    <3>2. CASE a # b
      <4>1. place'[a] = place[a] /\ folderPast'.chosen[a] = folderPast.chosen[a]
        BY <2>1, <2>2, <2>3, <2>4, <3>2 DEF FolderTypes
      <4> QED BY <4>1 DEF FolderInv, FilesPlaced, IsFolder
    <3> QED BY <3>1, <3>2
  <2> QED BY <2>3, <2>4, <2>5, <2>7, <2>8, <2>10, FilesStepKeeps
<1> QED BY <1>1, <1>2

LEMMA LiftFoldersKeeps ==
    ASSUME FolderInv, NEW t \in FolderThreads, LiftFolders(t)
    PROVE  FolderInv'
<1>1. CASE TidyFails(t) BY <1>1, TidyFailsKeeps
<1>2. CASE ~TidyFails(t)
  <2> DEFINE r == [tidying[t] EXCEPT !.step = "close"]
  <2>0. tidying[t] \in [step : {"files", "folders", "close"}, folder : FolderIds, parent : FolderIds \cup {Top}]
        /\ tidying[t].step = "folders" /\ Tidying(t)
    BY TidyStepFields DEF FolderInv, FolderTypes, LiftFolders
  <2>1. PICK f \in FolderIds, parent \in FolderIds \cup {Top} :
          tidying[t].folder = f /\ tidying[t].parent = parent
    BY <2>0
  <2>2. r \in TidyStep /\ r.step = "close" /\ r.folder = f /\ r.parent = parent
    BY <2>0, <2>1 DEF TidyStep
  <2>3. f \in folderPast.asked \cap folderPast.made /\ parent \in folderPast.above[f] \cup {Top}
    BY <2>0, <2>1 DEF Tidying
  <2> DEFINE stale == Inside(f) # {} /\ folders[f].parent # parent
             more == IF parent \in Closing THEN Inside(f) ELSE {}
  <2>4. /\ (Inside(f) # {} => IsFolder(parent)) /\ Tidy(t, r) /\ place' = place
        /\ folders' = Lifted(f, parent)
        /\ folderPast' = [folderPast EXCEPT !.late = folderPast.late \cup more,
                                           !.crossed = folderPast.crossed \/ stale]
    BY <1>2, <2>1 DEF LiftFolders
  <2>5. FolderTypes /\ folderPast \in FolderPast /\ Top \notin FolderIds /\ FoldersOrdered(folderPast)
        /\ TreeStands /\ folders \in [FolderIds -> FolderRow \cup {NoFolder}]
    BY AboveFacts DEF FolderInv
  <2>6. stale \in BOOLEAN /\ more \in SUBSET FolderIds /\ more \subseteq Inside(f) BY DEF Inside
  <2>7. /\ folderPast' \in FolderPast /\ folderPast'.late = folderPast.late \cup more
        /\ folderPast'.crossed = (folderPast.crossed \/ stale)
        /\ folderPast'.made = folderPast.made /\ folderPast'.above = folderPast.above
        /\ folderPast'.asked = folderPast.asked /\ folderPast'.chosen = folderPast.chosen
    <3> HIDE DEF stale, more
    <3>1. folderPast.crossed \/ stale \in BOOLEAN BY <2>5, <2>6 DEF FolderPast
    <3>2. (folderPast.crossed \/ stale) \in BOOLEAN BY <2>6
    <3>3. folderPast.late \cup more \in SUBSET FolderIds BY <2>5, <2>6 DEF FolderPast
    <3> QED BY <2>4, <2>5, <3>2, <3>3 DEF FolderPast
  <2>8. tidying' \in [FolderThreads -> TidyStep] /\ tidying'[t] = r
        /\ \A u \in FolderThreads : u # t => tidying'[u] = tidying[u]
    BY <2>2, <2>4, TidyOther
  <2> HIDE DEF r
  <2>9. \A g \in FolderIds :
          /\ folders[g].parent = f => /\ folders'[g].parent = parent /\ folders'[g] \in FolderRow
                                      /\ folders[g] # NoFolder /\ folders'[g] # NoFolder
          /\ folders[g].parent # f => folders'[g] = folders[g]
    <3> TAKE g \in FolderIds
    <3>1. folders'[g] = IF folders[g].parent = f THEN [folders[g] EXCEPT !.parent = parent] ELSE folders[g]
      BY <2>4 DEF Lifted
    <3>2. ASSUME folders[g].parent = f
          PROVE  /\ folders'[g].parent = parent /\ folders'[g] \in FolderRow
                 /\ folders[g] # NoFolder /\ folders'[g] # NoFolder
      <4>1. folders[g] \in FolderRow /\ folders[g] # NoFolder BY <2>5, <3>2, RowOrNone, AboveFacts
      <4>2. [folders[g] EXCEPT !.parent = parent] \in FolderRow
            /\ [folders[g] EXCEPT !.parent = parent].parent = parent
        BY <2>1, <4>1 DEF FolderRow
      <4> QED BY <3>1, <3>2, <4>1, <4>2, NoFolderIsNone
    <3> QED BY <3>1, <3>2
  <2>10. folders' \in [FolderIds -> FolderRow \cup {NoFolder}]
    <3>1. folders' = [g \in FolderIds |-> folders'[g]] BY <2>4 DEF Lifted
    <3>2. \A g \in FolderIds : folders'[g] \in FolderRow \cup {NoFolder} BY <2>5, <2>9
    <3> QED BY <3>1, <3>2
  <2>11. \A g \in FolderIds : folders'[g] # NoFolder <=> folders[g] # NoFolder BY <2>9
  <2>12. FolderTypes' BY <2>4, <2>5, <2>7, <2>8, <2>10 DEF FolderTypes
  <2>13. FoldersOrdered(folderPast') BY <2>5, <2>7 DEF FoldersOrdered
  <2>14. parent # f BY <2>1, <2>3, <2>5 DEF FoldersOrdered
  <2>15. \A g \in FolderIds : folders'[g].parent # f BY <2>9, <2>14
  <2>16. TreeStands'
    <3> SUFFICES ASSUME NEW g \in FolderIds, folders'[g] # NoFolder
                 PROVE  /\ g \in folderPast'.made
                        /\ folders'[g].parent \in {Top} \cup {h \in FolderIds : folders'[h] # NoFolder}
                        /\ folders'[g].parent \in folderPast'.above[g] \cup {Top}
      BY DEF TreeStands, IsFolder
    <3>1. /\ g \in folderPast.made /\ folders[g].parent \in folderPast.above[g] \cup {Top}
          /\ folders[g].parent \in {Top} \cup {h \in FolderIds : folders[h] # NoFolder}
      BY <2>5, <2>11 DEF TreeStands, IsFolder
    <3>2. CASE folders[g].parent # f
      <4>1. folders'[g].parent = folders[g].parent BY <2>9, <3>2
      <4> QED BY <2>7, <2>11, <3>1, <4>1
    <3>3. CASE folders[g].parent = f
      <4>1. folders'[g].parent = parent /\ IsFolder(parent) BY <2>4, <2>9, <3>3 DEF Inside
      <4>2. f \in folderPast.above[g] BY <2>5, <3>1, <3>3
      <4>3. folderPast.above[f] \subseteq folderPast.above[g] \cup {Top} BY <2>5, <4>2 DEF FoldersOrdered
      <4>4. parent \in {Top} \cup {h \in FolderIds : folders'[h] # NoFolder} BY <2>11, <4>1 DEF IsFolder
      <4> QED BY <2>3, <2>7, <3>1, <4>1, <4>3, <4>4
    <3> QED BY <3>2, <3>3
  <2>17. FilesPlaced'
    <3> SUFFICES ASSUME NEW a \in FolderFiles
                 PROVE  LET c == folderPast.chosen[a]
                        IN  /\ place[a] \in {Top} \cup {h \in FolderIds : folders'[h] # NoFolder}
                            /\ c \in folderPast.made \cup {Top}
                            /\ place[a] # c => /\ c \in FolderIds
                                               /\ c \in folderPast.asked \/ folders'[c] = NoFolder
                                               /\ place[a] \in {Top} \cup folderPast.above[c]
      BY <2>4, <2>7 DEF FilesPlaced, IsFolder
    <3> QED BY <2>11 DEF FolderInv, FilesPlaced, IsFolder
  <2>18. ASSUME NEW u \in FolderThreads PROVE Tidying(u)'
    <3>1. CASE u = t
      <4>1. {g \in FolderIds : folders'[g].parent = f} = {} BY <2>15
      <4> QED BY <2>2, <2>3, <2>7, <2>8, <3>1, <4>1 DEF Tidying, Inside
    <3>2. CASE u # t
      <4> DEFINE s == tidying[u]
      <4>0. tidying'[u] = s /\ Tidying(u) BY <2>8, <3>2 DEF FolderInv
      <4>1. ASSUME s.step = "close" PROVE {g \in FolderIds : folders'[g].parent = s.folder} \subseteq folderPast'.late
        <5>1. Inside(s.folder) \subseteq folderPast.late BY <4>0, <4>1 DEF Tidying
        <5>2. s.folder \in Closing BY <4>1 DEF Closing, Subjects
        <5> HIDE DEF s
        <5> SUFFICES ASSUME NEW g \in FolderIds, folders'[g].parent = s.folder PROVE g \in folderPast'.late
          OBVIOUS
        <5>3. CASE folders[g].parent # f BY <2>7, <2>9, <5>1, <5>3 DEF Inside
        <5>4. CASE folders[g].parent = f
          <6>1. parent \in Closing BY <2>9, <5>2, <5>4
          <6>2. g \in more BY <5>4, <6>1 DEF Inside
          <6> QED BY <2>7, <6>2
        <5> QED BY <5>3, <5>4
      <4> QED BY <2>7, <4>0, <4>1 DEF Tidying, Inside
    <3> QED BY <3>1, <3>2
  <2>19. OneMaker' BY <2>2, <2>8 DEF FolderInv, OneMaker
  <2>20. FoldersKept'
    <3> SUFFICES ASSUME NEW g \in folderPast'.made \ folderPast'.asked
                 PROVE  IsFolder(g)' \/ g \in folderPast'.late \/ folderPast'.above[g] \cap folderPast'.late # {}
      BY DEF FoldersKept
    <3>1. IsFolder(g) \/ g \in folderPast.late \/ folderPast.above[g] \cap folderPast.late # {}
      BY <2>7 DEF FolderInv, FoldersKept
    <3>2. IsFolder(g) => IsFolder(g)' BY <2>11 DEF IsFolder
    <3> QED BY <2>7, <3>1, <3>2
  <2>21. ASSUME ~folderPast'.crossed, NEW g \in FolderIds, NEW h \in FolderIds, folders'[g].parent = h
         PROVE  folders[g].parent = h \/ (folders[g].parent = f /\ folders[f].parent = h)
    <3>1. CASE folders[g].parent # f BY <2>9, <2>21, <3>1
    <3>2. CASE folders[g].parent = f
      <4>1. Inside(f) # {} /\ h = parent BY <2>9, <2>21, <3>2 DEF Inside
      <4>2. ~stale BY <2>7, <2>21
      <4> QED BY <3>2, <4>1, <4>2
    <3> QED BY <3>1, <3>2
  <2>22. Shallow'
    <3> SUFFICES ASSUME ~folderPast'.crossed,
                        NEW a \in FolderIds, NEW b \in FolderIds, NEW c \in FolderIds, NEW d \in FolderIds,
                        folders'[a].parent = b, folders'[b].parent = c, folders'[c].parent = d
                 PROVE  FALSE
      BY DEF Shallow
    <3>1. /\ folders[a].parent = b \/ (folders[a].parent = f /\ folders[f].parent = b)
          /\ folders[b].parent = c \/ (folders[b].parent = f /\ folders[f].parent = c)
          /\ folders[c].parent = d \/ (folders[c].parent = f /\ folders[f].parent = d)
      BY <2>21
    <3>2. ~folderPast.crossed BY <2>7
    <3> QED BY <2>1, <3>1, <3>2 DEF FolderInv, Shallow
  <2>23. RoomForFolders'
    <3> SUFFICES ASSUME ~folderPast'.crossed, NEW u \in FolderThreads, tidying'[u].step = "create",
                        tidying'[u].row.parent # Top,
                        NEW a \in FolderIds, NEW b \in FolderIds,
                        folders'[tidying'[u].row.parent].parent = a, folders'[a].parent = b
                 PROVE  FALSE
      BY DEF RoomForFolders, RoomBelow
    <3>1. u # t /\ tidying'[u] = tidying[u] /\ tidying[u] \in TidyStep
      BY <2>2, <2>5, <2>8 DEF FolderTypes
    <3>2. tidying[u].row \in FolderRow BY <3>1, TidyStepFields
    <3>3. PICK p \in FolderIds : p = tidying[u].row.parent BY <3>1, <3>2 DEF FolderRow
    <3>4. /\ folders[p].parent = a \/ (folders[p].parent = f /\ folders[f].parent = a)
          /\ folders[a].parent = b \/ (folders[a].parent = f /\ folders[f].parent = b)
      BY <2>21, <3>1, <3>3
    <3>5. RoomBelow(p) BY <2>7, <3>1, <3>3 DEF FolderInv, RoomForFolders
    <3> QED BY <2>1, <3>4, <3>5 DEF RoomBelow
  <2> QED BY <2>12, <2>13, <2>16, <2>17, <2>18, <2>19, <2>20, <2>22, <2>23, OrderedPrime DEF FolderInv
<1> QED BY <1>1, <1>2

LEMMA DeleteFolderKeeps ==
    ASSUME FolderInv, NEW t \in FolderThreads, DeleteFolder(t)
    PROVE  FolderInv'
<1>0. tidying[t] \in [step : {"files", "folders", "close"}, folder : FolderIds, parent : FolderIds \cup {Top}]
      /\ tidying[t].step = "close" /\ Tidying(t)
  BY TidyStepFields DEF FolderInv, FolderTypes, DeleteFolder
<1>1. PICK f \in FolderIds : tidying[t].folder = f BY <1>0
<1>2. f \in folderPast.asked /\ Inside(f) \subseteq folderPast.late BY <1>0, <1>1 DEF Tidying
<1> DEFINE gone == Below(f)
<1>3. /\ Tidy(t, NotTidying) /\ folderPast' = folderPast
      /\ folders' = [g \in FolderIds |-> IF g \in gone THEN NoFolder ELSE folders[g]]
      /\ place' = [a \in FolderFiles |-> IF place[a] \in gone THEN Top ELSE place[a]]
  BY <1>1 DEF DeleteFolder
<1>4. FolderTypes /\ folderPast \in FolderPast /\ Top \notin FolderIds /\ FoldersOrdered(folderPast)
      /\ TreeStands /\ folders \in [FolderIds -> FolderRow \cup {NoFolder}]
  BY AboveFacts DEF FolderInv
<1>5. gone \subseteq FolderIds BY DEF Below
<1>6. \A h \in FolderIds : folders[h].parent \in gone => h \in gone
  <2> SUFFICES ASSUME NEW h \in FolderIds, folders[h].parent \in gone, NEW S \in SUBSET FolderIds,
                      f \in S, \A i \in FolderIds : folders[i].parent \in S => i \in S
               PROVE  h \in S
    BY DEF Below
  <2>1. folders[h].parent \in S BY DEF Below
  <2> QED BY <2>1
<1>7. ASSUME NEW g \in gone PROVE g = f \/ g \in folderPast.late \/ folderPast.above[g] \cap folderPast.late # {}
  <2> DEFINE S == {f} \cup {h \in FolderIds : h \in folderPast.late \/ folderPast.above[h] \cap folderPast.late # {}}
  <2>1. ASSUME NEW h \in FolderIds, folders[h].parent \in S PROVE h \in S
    <3>1. CASE folders[h].parent = f BY <1>2, <3>1 DEF Inside
    <3>2. CASE folders[h].parent # f
      <4>1. folders[h].parent \in FolderIds BY <1>1, <2>1
      <4>2. folders[h].parent \in folderPast.above[h] BY <4>1, AboveFacts
      <4>3. folderPast.above[folders[h].parent] \subseteq folderPast.above[h] \cup {Top}
        BY <1>4, <4>1, <4>2 DEF FoldersOrdered
      <4>4. Top \notin folderPast.late BY <1>4 DEF FolderPast
      <4> QED BY <2>1, <3>2, <4>2, <4>3, <4>4
    <3> QED BY <3>1, <3>2
  <2>2. S \in SUBSET FolderIds /\ f \in S BY <1>1
  <2> HIDE DEF S
  <2>3. g \in S BY <1>7, <2>1, <2>2 DEF Below
  <2> QED BY <2>3 DEF S
<1> HIDE DEF gone
<1>8. \A g \in FolderIds : folders'[g] = IF g \in gone THEN NoFolder ELSE folders[g] BY <1>3
<1>9. NotTidying \in TidyStep BY DEF TidyStep
<1>10. /\ tidying' \in [FolderThreads -> TidyStep] /\ tidying'[t] = NotTidying
       /\ \A u \in FolderThreads : u # t => tidying'[u] = tidying[u]
  BY <1>3, <1>9, TidyOther
<1>11. FolderTypes'
  <2>1. folders' \in [FolderIds -> FolderRow \cup {NoFolder}] BY <1>3, <1>4
  <2>2. place' \in [FolderFiles -> FolderIds \cup {Top}] BY <1>3, <1>4 DEF FolderTypes
  <2> QED BY <1>3, <1>4, <1>10, <2>1, <2>2 DEF FolderTypes
<1>12. FoldersOrdered(folderPast') BY <1>3, <1>4
<1>13. \A g \in FolderIds, h \in FolderIds : folders'[g].parent = h => folders[g].parent = h
  BY <1>8, NoFolderIsNone
<1>14. TreeStands'
  <2> SUFFICES ASSUME NEW g \in FolderIds, folders'[g] # NoFolder
               PROVE  /\ g \in folderPast'.made
                      /\ folders'[g].parent \in {Top} \cup {h \in FolderIds : folders'[h] # NoFolder}
                      /\ folders'[g].parent \in folderPast'.above[g] \cup {Top}
    BY DEF TreeStands, IsFolder
  <2>1. folders'[g] = folders[g] /\ g \notin gone BY <1>8
  <2>2. /\ g \in folderPast.made /\ folders[g].parent \in folderPast.above[g] \cup {Top}
        /\ folders[g].parent \in {Top} \cup {h \in FolderIds : folders[h] # NoFolder}
    BY <1>4, <2>1 DEF TreeStands, IsFolder
  <2>3. folders[g].parent \notin gone BY <1>6, <2>1
  <2> QED BY <1>3, <1>8, <2>1, <2>2, <2>3
<1>15. FilesPlaced'
  <2> SUFFICES ASSUME NEW a \in FolderFiles
               PROVE  LET c == folderPast.chosen[a]
                      IN  /\ place'[a] \in {Top} \cup {h \in FolderIds : folders'[h] # NoFolder}
                          /\ c \in folderPast.made \cup {Top}
                          /\ place'[a] # c => /\ c \in FolderIds
                                              /\ c \in folderPast.asked \/ folders'[c] = NoFolder
                                              /\ place'[a] \in {Top} \cup folderPast.above[c]
    BY <1>3 DEF FilesPlaced, IsFolder
  <2> DEFINE c == folderPast.chosen[a]
  <2>1. /\ place[a] \in {Top} \cup {h \in FolderIds : folders[h] # NoFolder} /\ c \in folderPast.made \cup {Top}
        /\ place[a] # c => /\ c \in FolderIds /\ (c \in folderPast.asked \/ folders[c] = NoFolder)
                           /\ place[a] \in {Top} \cup folderPast.above[c]
    BY DEF FolderInv, FilesPlaced, IsFolder
  <2>2. place'[a] = IF place[a] \in gone THEN Top ELSE place[a] BY <1>3
  <2> HIDE DEF c
  <2>3. CASE place[a] \notin gone
    <3>1. place'[a] = place[a] BY <2>2, <2>3
    <3>2. place[a] \in {Top} \cup {h \in FolderIds : folders'[h] # NoFolder} BY <1>8, <2>1, <2>3
    <3>3. place[a] # c => c \in folderPast.asked \/ folders'[c] = NoFolder BY <1>8, <2>1
    <3> QED BY <2>1, <3>1, <3>2, <3>3 DEF c
  <2>4. CASE place[a] \in gone
    <3>1. place'[a] = Top BY <2>2, <2>4
    <3>2. c \in FolderIds BY <1>5, <2>1, <2>4
    <3>3. c \in folderPast.asked \/ folders'[c] = NoFolder
      <4>1. CASE place[a] = c BY <1>8, <2>4, <3>2, <4>1
      <4>2. CASE place[a] # c BY <1>8, <2>1, <3>2, <4>2
      <4> QED BY <4>1, <4>2
    <3> QED BY <2>1, <3>1, <3>2, <3>3 DEF c
  <2> QED BY <2>3, <2>4
<1>16. ASSUME NEW u \in FolderThreads PROVE Tidying(u)'
  <2>1. CASE u = t BY <1>10, <2>1 DEF Tidying, NotTidying
  <2>2. CASE u # t
    <3>1. tidying'[u] = tidying[u] /\ Tidying(u) BY <1>10, <2>2 DEF FolderInv
    <3>2. ASSUME tidying[u].step = "close"
          PROVE  {g \in FolderIds : folders'[g].parent = tidying[u].folder}
                    \subseteq {g \in FolderIds : folders[g].parent = tidying[u].folder}
      <4>1. tidying[u].folder \in FolderIds BY <1>4, <3>2, TidyStepFields DEF FolderTypes
      <4> QED BY <1>13, <4>1
    <3> QED BY <1>3, <3>1, <3>2 DEF Tidying, Inside
  <2> QED BY <2>1, <2>2
<1>17. OneMaker' BY <1>10 DEF FolderInv, OneMaker, NotTidying
<1>18. RoomForFolders'
  <2> SUFFICES ASSUME ~folderPast.crossed, NEW u \in FolderThreads, tidying'[u].step = "create",
                      tidying'[u].row.parent # Top,
                      NEW a \in FolderIds, NEW b \in FolderIds,
                      folders'[tidying'[u].row.parent].parent = a, folders'[a].parent = b
               PROVE  FALSE
    BY <1>3 DEF RoomForFolders, RoomBelow
  <2>1. u # t /\ tidying'[u] = tidying[u] /\ tidying[u] \in TidyStep
    BY <1>4, <1>10 DEF NotTidying, FolderTypes
  <2>2. tidying[u].row \in FolderRow BY <2>1, TidyStepFields
  <2>3. PICK p \in FolderIds : p = tidying[u].row.parent BY <2>1, <2>2 DEF FolderRow
  <2>4. folders[p].parent = a /\ folders[a].parent = b BY <1>13, <2>1, <2>3
  <2>5. RoomBelow(p) BY <2>1, <2>3 DEF FolderInv, RoomForFolders
  <2> QED BY <2>4, <2>5 DEF RoomBelow
<1>19. Shallow' BY <1>3, <1>13 DEF FolderInv, Shallow
<1>20. FoldersKept'
  <2> SUFFICES ASSUME NEW g \in folderPast.made \ folderPast.asked
               PROVE  \/ g \in {Top} \cup {h \in FolderIds : folders'[h] # NoFolder}
                      \/ g \in folderPast.late \/ folderPast.above[g] \cap folderPast.late # {}
    BY <1>3 DEF FoldersKept, IsFolder
  <2>1. \/ g \in {Top} \cup {h \in FolderIds : folders[h] # NoFolder}
        \/ g \in folderPast.late \/ folderPast.above[g] \cap folderPast.late # {}
    BY DEF FolderInv, FoldersKept, IsFolder
  <2>2. CASE g \in gone BY <1>2, <1>7, <2>2
  <2>3. CASE g \notin gone BY <1>8, <2>1, <2>3
  <2> QED BY <2>2, <2>3
<1> QED BY <1>11, <1>12, <1>14, <1>15, <1>16, <1>17, <1>18, <1>19, <1>20, OrderedPrime DEF FolderInv

LEMMA FolderNextKeeps == FolderInv /\ [FolderNext]_folderVars => FolderInv'
<1> SUFFICES ASSUME FolderInv, [FolderNext]_folderVars PROVE FolderInv'
  OBVIOUS
<1>1. CASE UNCHANGED folderVars
  <2>1. folders' = folders /\ place' = place /\ tidying' = tidying /\ folderPast' = folderPast
    BY <1>1 DEF folderVars
  <2>2. FolderTypes' /\ FoldersOrdered(folderPast') BY <2>1 DEF FolderInv, FolderTypes
  <2>3. TreeStands' /\ FilesPlaced' BY <2>1 DEF FolderInv, TreeStands, FilesPlaced, IsFolder
  <2>4. (\A t \in FolderThreads : Tidying(t))' BY <2>1 DEF FolderInv, Tidying, Inside
  <2>5. OneMaker' /\ RoomForFolders' BY <2>1 DEF FolderInv, OneMaker, RoomForFolders, RoomBelow
  <2>6. Shallow' /\ FoldersKept' BY <2>1 DEF FolderInv, Shallow, FoldersKept, IsFolder
  <2> QED BY <2>2, <2>3, <2>4, <2>5, <2>6, OrderedPrime DEF FolderInv
<1>2. ASSUME NEW t \in FolderThreads, InsertFolder(t) PROVE FolderInv'
  <2>1. CASE Inserted(t) BY <1>2, <2>1, InsertedKeeps
  <2>2. CASE ~Inserted(t)
    <3>1. TidyFails(t) BY <1>2, <2>2 DEF InsertFolder, Inserted
    <3> QED BY <3>1, TidyFailsKeeps
  <2> QED BY <2>1, <2>2
<1>3. ASSUME NEW t \in FolderThreads,
             \/ \E f \in FolderIds, parent \in FolderIds \cup {Top}, name \in FolderNames :
                   OpenCreate(t, f, parent, name)
             \/ \E f \in FolderIds, name \in FolderNames : OpenRename(t, f, name)
             \/ \E f \in FolderIds : OpenDelete(t, f)
             \/ \E a \in FolderFiles, f \in FolderIds \cup {Top} : OpenMove(t, a, f)
      PROVE  FolderInv'
  BY <1>3, OpenCreateKeeps, OpenRenameKeeps, OpenDeleteKeeps, OpenMoveKeeps
<1>4. ASSUME NEW t \in FolderThreads,
             SaveName(t) \/ LiftFiles(t) \/ LiftFolders(t) \/ DeleteFolder(t) \/ SavePlace(t)
      PROVE  FolderInv'
  BY <1>4, SaveNameKeeps, LiftFilesKeeps, LiftFoldersKeeps, DeleteFolderKeeps, SavePlaceKeeps
<1> QED BY <1>1, <1>2, <1>3, <1>4 DEF FolderNext

\* A ring of folders would have a member with the fewest above it, and its parent has fewer.
LEMMA OrderHasNoRing ==
    ASSUME FolderInv PROVE NeverInItself
<1> SUFFICES ASSUME NEW ring \in SUBSET FolderIds, ring # {}, \A f \in ring : folders[f].parent \in ring
             PROVE  FALSE
  BY DEF NeverInItself
<1> DEFINE over(f) == folderPast.above[f] \ {Top}
           counts == {Cardinality(over(f)) : f \in ring}
<1>1. IsFiniteSet(FolderIds) BY FolderAssumption
<1>2. \A f \in FolderIds : over(f) \subseteq FolderIds BY AboveFacts DEF FolderPast
<1>3. \A f \in FolderIds : IsFiniteSet(over(f)) /\ Cardinality(over(f)) \in Nat
  BY <1>1, <1>2, FS_Subset, FS_CardinalityType
<1>4. ASSUME NEW f \in ring
      PROVE  folders[f].parent \in ring /\ Cardinality(over(folders[f].parent)) < Cardinality(over(f))
  <2> DEFINE p == folders[f].parent
  <2>1. p \in ring /\ p \in FolderIds /\ p \in folderPast.above[f] /\ Top \notin FolderIds BY AboveFacts
  <2>2. p \notin folderPast.above[p] /\ folderPast.above[p] \subseteq folderPast.above[f] \cup {Top}
    BY <2>1 DEF FolderInv, FoldersOrdered
  <2> HIDE DEF p
  <2>3. over(p) \subseteq over(f) /\ p \in over(f) /\ p \notin over(p) BY <2>1, <2>2
  <2>4. IsFiniteSet(over(f)) /\ Cardinality(over(f)) \in Nat /\ Cardinality(over(p)) \in Nat BY <1>3, <2>1
  <2> HIDE DEF over
  <2>5. Cardinality(over(p)) <= Cardinality(over(f)) BY <2>3, <2>4, FS_Subset
  <2>6. Cardinality(over(p)) # Cardinality(over(f)) BY <2>3, <2>4, FS_Subset
  <2>7. Cardinality(over(p)) < Cardinality(over(f)) BY <2>4, <2>5, <2>6
  <2> QED BY <2>1, <2>7 DEF p
<1>5. counts \subseteq Nat BY <1>3
<1>6. counts # {} OBVIOUS
<1>7. PICK n \in counts : \A m \in counts : <<m, n>> \notin OpToRel(<, Nat)
  <2> HIDE DEF counts
  <2> QED BY <1>5, <1>6, NatLessThanWellFounded, WFMin
<1>8. PICK f \in ring : n = Cardinality(over(f)) OBVIOUS
<1>9. Cardinality(over(folders[f].parent)) \in counts /\ Cardinality(over(folders[f].parent)) < n
  BY <1>4, <1>8
<1> QED BY <1>5, <1>7, <1>9 DEF OpToRel

LEMMA FolderInvHolds == FolderInv => FoldersAreSound /\ FolderTypeOK
<1> SUFFICES ASSUME FolderInv PROVE FoldersAreSound /\ FolderTypeOK
  OBVIOUS
<1>1. FilesFollow
  <2> SUFFICES ASSUME NEW a \in FolderFiles, place[a] # folderPast.chosen[a]
               PROVE  /\ folderPast.chosen[a] \in folderPast.asked \/ ~IsFolder(folderPast.chosen[a])
                      /\ place[a] \in {Top} \cup folderPast.above[folderPast.chosen[a]]
    BY DEF FilesFollow
  <2>1. /\ folderPast.chosen[a] \in FolderIds
        /\ folderPast.chosen[a] \in folderPast.asked \/ folders[folderPast.chosen[a]] = NoFolder
        /\ place[a] \in {Top} \cup folderPast.above[folderPast.chosen[a]]
    BY DEF FolderInv, FilesPlaced
  <2>2. Top \notin FolderIds BY FolderAssumption
  <2> QED BY <2>1, <2>2 DEF IsFolder
<1>2. FolderTypeOK
  <2>1. ASSUME NEW f \in FolderIds, IsFolder(f)
        PROVE  IsFolder(folders[f].parent) /\ folders[f].name \in FolderNames
    <3>1. folders[f] # NoFolder BY <2>1, FolderAssumption DEF IsFolder
    <3>2. folders[f] \in FolderRow BY <3>1, RowOrNone DEF FolderInv
    <3> QED BY <3>1, <3>2 DEF FolderInv, TreeStands, FolderRow
  <2> QED BY <2>1 DEF FolderTypeOK, FolderInv, FilesPlaced
<1> QED BY <1>1, <1>2, OrderHasNoRing DEF FoldersAreSound, FolderInv

\* No folder is ever inside itself, none is deeper than three levels until a deletion moves
\* folders to a parent that is no longer its folder's, folders outlive the deletion of
\* others and files go up, never aside; for any folders, old ones included, and requests.
THEOREM FoldersStaySound == FolderInit /\ [][FolderNext]_folderVars => []FoldersAreSound
BY FolderInvInit, FolderNextKeeps, FolderInvHolds, PTL

-------------------------------------------------------------------------------
(* Versions: what the rows, the requests and the task hold *)

ObjectName == Nat \ {NoThumb}
MediumRow == [scope : Surfaces, file : ObjectName, thumb : Nat, current : Nat,
              status : {"pending", "processing", "completed", "failed"}]
VersionRow == [file : ObjectName, thumb : Nat]
EditStep ==
    {NotEditing} \cup [step : {"queue"}, job : Nat, number : Nat]
    \cup [step : {"insert", "point"}, kind : {"edit"}, number : Nat, file : ObjectName]
    \cup [step : {"insert", "point", "save"}, kind : {"restore"}, number : Nat, file : ObjectName,
          thumb : Nat, of : Nat, final : BOOLEAN]
    \cup [step : {"remove files"}, named : SUBSET Nat]
    \cup [step : {"remove versions", "remove row"}]
RunStep ==
    {NoRun} \cup [job : Nat, step : {"thumbnail", "file", "version thumbnail"}]
    \cup [job : Nat, step : {"asset"}, thumb : Nat]

VersionTypes ==
    /\ medium \in MediumRow \cup {NoMedium}
    /\ versions \in Seq(VersionRow) /\ Len(versions) <= MaxVersions
    /\ rendered \in Nat /\ objects \in SUBSET (1..rendered)
    /\ jobs \in SUBSET (0..MaxVersions) /\ runner \in RunStep
    /\ editors \in [VersionEditors -> EditStep]
    /\ versionPast \in [left : SUBSET Nat, doomed : Nat, restored : Nat, unqueued : BOOLEAN]

-------------------------------------------------------------------------------
(* Versions: the invariant *)

FilesOf(vs) == UNION {{vs[n].file, vs[n].thumb} : n \in DOMAIN vs}

\* A file that a removal need not delete any more.
Clean(x) == x = NoThumb \/ x \in versionPast.left \/ x > versionPast.doomed \/ x \notin objects

\* No task and no request will write this version's file again.
FileSettled(n) ==
    /\ n \in DOMAIN versions /\ n \notin jobs
    /\ \A u \in VersionEditors : editors[u].step \in {"point", "queue"} => editors[u].number # n

\* Rows come and go once.
RowsTogether ==
    /\ ~Uploaded => versions = <<>>
    /\ Uploaded => rendered # 0 /\ medium.current \in 0..Len(versions)
    /\ versionPast.restored # Original => rendered # 0
    /\ versionPast.doomed <= rendered

Removing(r) ==
    /\ versionPast.doomed # 0
    /\ Uploaded =>
         /\ r.step = "remove files" =>
              \A x \in {medium.file, medium.thumb} :
                 x \in r.named \/ x \in FilesOf(versions) \/ Clean(x)
         /\ r.step = "remove versions" =>
              \A x \in {medium.file, medium.thumb} : x \in FilesOf(versions) \/ Clean(x)
         /\ r.step = "remove row" =>
              \A x \in {medium.file, medium.thumb} \cup FilesOf(versions) : Clean(x)

Inserting(r) ==
    /\ versionPast.doomed = 0 => r.file \in objects
    /\ Uploaded => r.file \in {medium.file} \cup FilesOf(versions) \cup versionPast.left

Restoring(r) ==
    /\ versionPast.doomed = 0 => {r.file, r.thumb} \subseteq objects \cup {NoThumb}
    /\ Uploaded =>
         /\ {r.file, r.thumb} \subseteq FilesOf(versions) \cup versionPast.left \cup {NoThumb}
         /\ r.final => FileSettled(r.of) /\ r.of # Original /\ versions[r.of].file = r.file

Numbered(r) ==
    /\ r.step \in {"point", "save", "queue"} =>
          r.number \in 0..MaxVersions /\ (Uploaded => r.number \in 0..Len(versions))
    /\ r.step = "insert" => r.number # 0
    /\ r.step = "queue" => r.job = r.number

EditorTrue(t) ==
    LET r == editors[t]
    IN  /\ r.step \in {"remove files", "remove versions", "remove row"} => Removing(r)
        /\ r.step = "insert" => Inserting(r)
        /\ r.step \in {"insert", "point", "save"} /\ r.kind = "restore" => Restoring(r)
        /\ Numbered(r)

RunnerTrue ==
    runner # NoRun =>
        /\ runner.job \in jobs /\ (runner.step = "thumbnail" <=> runner.job = Process)
        /\ runner.step = "asset" =>
             /\ versionPast.doomed = 0 => runner.thumb \in objects \cup {NoThumb}
             /\ Uploaded => runner.thumb \in FilesOf(versions) \cup versionPast.left \cup {NoThumb}

RestoredStands ==
    Uploaded /\ versionPast.restored # Original =>
        /\ FileSettled(versionPast.restored)
        /\ medium.file = versions[versionPast.restored].file

VersionInv ==
    /\ VersionTypes /\ RowsTogether /\ (\A t \in VersionEditors : EditorTrue(t)) /\ RunnerTrue
    /\ FilesExist /\ NothingLeaks /\ RestoredStands /\ ProcessingEnds

-------------------------------------------------------------------------------
(* Versions: what each step does *)

\* A step that takes nothing away that a request counts on.
Gently ==
    /\ versions' \in Seq(VersionRow)
    /\ Uploaded' => Uploaded /\ Len(versions) <= Len(versions')
    /\ versionPast.left \subseteq versionPast'.left
    /\ versionPast.doomed # 0 => /\ versionPast'.doomed = versionPast.doomed
                                 /\ \A x \in objects' : x \in objects \/ x > versionPast.doomed
    /\ versionPast'.doomed = 0 => objects \subseteq objects'
    /\ Uploaded' =>
         /\ FilesOf(versions) \subseteq FilesOf(versions') \cup versionPast'.left
         /\ medium.file \in {medium'.file} \cup FilesOf(versions') \cup versionPast'.left
         /\ \A n : FileSettled(n) => FileSettled(n)' /\ versions'[n].file = versions[n].file
         /\ versionPast.doomed # 0 =>
              /\ \A x \in {medium'.file, medium'.thumb} :
                    \/ x \in {medium.file, medium.thumb} \cup FilesOf(versions')
                    \/ x \in versionPast'.left \/ x > versionPast.doomed \/ x = NoThumb
              /\ \A x \in FilesOf(versions') :
                    \/ x \in FilesOf(versions) \cup {medium.file}
                    \/ x \in versionPast'.left \/ x > versionPast.doomed \/ x = NoThumb

LEMMA NoMediumIsNone ==
    NoMedium \notin MediumRow
  BY VersionAssumption DEF NoMedium, MediumRow

\* A file that needs no deleting goes on needing none.
LEMMA CleanStays ==
    ASSUME versionPast.doomed # 0, Gently, NEW x, Clean(x)
    PROVE  Clean(x)'
  BY DEF Clean, Gently

\* What is true of a request stays true while another actor takes such a step.
LEMMA OthersStand ==
    ASSUME VersionInv, Gently, NEW u \in VersionEditors, editors'[u] = editors[u]
    PROVE  EditorTrue(u)'
<1>1. EditorTrue(u) BY DEF VersionInv
<1>2. PICK r : r = editors[u] OBVIOUS
<1>3. editors'[u] = r BY <1>2
<1>4. versions \in Seq(VersionRow) /\ Len(versions) \in Nat BY DEF VersionInv, VersionTypes
<1>5. ASSUME r.step \in {"remove files", "remove versions", "remove row"} PROVE Removing(r)'
  <2>1. Removing(r) BY <1>1, <1>2, <1>5 DEF EditorTrue
  <2>2. versionPast'.doomed = versionPast.doomed /\ versionPast.doomed # 0 BY <2>1 DEF Removing, Gently
  <2>3. \A x : Clean(x) => Clean(x)' BY <2>2, CleanStays
  <2>4. \A x : x \in versionPast'.left \/ x > versionPast.doomed \/ x = NoThumb => Clean(x)'
    BY <2>2 DEF Clean
  <2>5. Uploaded' => Uploaded BY DEF Gently
  <2>6. ASSUME Uploaded', r.step = "remove files", NEW x \in {medium'.file, medium'.thumb}
        PROVE  x \in r.named \/ x \in FilesOf(versions') \/ Clean(x)'
    <3>1. \/ x \in {medium.file, medium.thumb} \cup FilesOf(versions')
          \/ Clean(x)'
      BY <2>2, <2>4, <2>6 DEF Gently
    <3>2. CASE x \in {medium.file, medium.thumb}
      <4>1. x \in r.named \/ x \in FilesOf(versions) \/ Clean(x) BY <2>1, <2>5, <2>6, <3>2 DEF Removing
      <4>2. FilesOf(versions) \subseteq FilesOf(versions') \cup versionPast'.left BY <2>6 DEF Gently
      <4> QED BY <2>3, <2>4, <4>1, <4>2
    <3> QED BY <3>1, <3>2
  <2>7. ASSUME Uploaded', r.step = "remove versions", NEW x \in {medium'.file, medium'.thumb}
        PROVE  x \in FilesOf(versions') \/ Clean(x)'
    <3>1. \/ x \in {medium.file, medium.thumb} \cup FilesOf(versions')
          \/ Clean(x)'
      BY <2>2, <2>4, <2>7 DEF Gently
    <3>2. CASE x \in {medium.file, medium.thumb}
      <4>1. x \in FilesOf(versions) \/ Clean(x) BY <2>1, <2>5, <2>7, <3>2 DEF Removing
      <4>2. FilesOf(versions) \subseteq FilesOf(versions') \cup versionPast'.left BY <2>7 DEF Gently
      <4> QED BY <2>3, <2>4, <4>1, <4>2
    <3> QED BY <3>1, <3>2
  <2>8. ASSUME Uploaded', r.step = "remove row", NEW x \in {medium'.file, medium'.thumb} \cup FilesOf(versions')
        PROVE  Clean(x)'
    <3>1. \A y \in {medium.file, medium.thumb} \cup FilesOf(versions) : Clean(y)'
      BY <2>1, <2>3, <2>5, <2>8 DEF Removing
    <3>2. \A y \in FilesOf(versions') : Clean(y)' BY <2>2, <2>4, <2>8, <3>1 DEF Gently
    <3>3. CASE x \in {medium'.file, medium'.thumb}
      <4>1. x \in {medium.file, medium.thumb} \cup FilesOf(versions') \/ Clean(x)'
        BY <2>2, <2>4, <2>8, <3>3 DEF Gently
      <4> QED BY <3>1, <3>2, <4>1
    <3> QED BY <2>8, <3>2, <3>3
  <2> QED BY <2>2, <2>6, <2>7, <2>8 DEF Removing
<1>6. ASSUME r.step = "insert" PROVE Inserting(r)'
  <2>1. Inserting(r) BY <1>1, <1>2, <1>6 DEF EditorTrue
  <2>2. versionPast'.doomed = 0 => versionPast.doomed = 0 /\ objects \subseteq objects' BY DEF Gently
  <2>3. Uploaded' => r.file \in {medium'.file} \cup FilesOf(versions') \cup versionPast'.left
    BY <2>1 DEF Gently, Inserting
  <2> QED BY <2>1, <2>2, <2>3 DEF Inserting
<1>7. ASSUME r.step \in {"insert", "point", "save"}, r.kind = "restore" PROVE Restoring(r)'
  <2>1. Restoring(r) BY <1>1, <1>2, <1>7 DEF EditorTrue
  <2>2. versionPast'.doomed = 0 => versionPast.doomed = 0 /\ objects \subseteq objects' BY DEF Gently
  <2>3. Uploaded' => {r.file, r.thumb} \subseteq FilesOf(versions') \cup versionPast'.left \cup {NoThumb}
    BY <2>1 DEF Gently, Restoring
  <2>4. ASSUME Uploaded', r.final
        PROVE  FileSettled(r.of)' /\ r.of # Original /\ versions'[r.of].file = r.file
    <3>1. FileSettled(r.of) /\ r.of # Original /\ versions[r.of].file = r.file BY <2>1, <2>4 DEF Restoring, Gently
    <3> QED BY <2>4, <3>1 DEF Gently
  <2> QED BY <2>1, <2>2, <2>3, <2>4 DEF Restoring
<1>8. Numbered(r)'
  <2>1. Numbered(r) BY <1>1, <1>2 DEF EditorTrue
  <2>2. Uploaded' => Uploaded /\ Len(versions) <= Len(versions') BY DEF Gently
  <2>3. ASSUME r.step \in {"point", "save", "queue"}, Uploaded' PROVE r.number \in 0..Len(versions')
    <3>1. r.number \in 0..Len(versions) BY <2>1, <2>2, <2>3 DEF Numbered
    <3>2. Len(versions) <= Len(versions') /\ Len(versions) \in Nat BY <1>4, <2>2, <2>3
    <3>3. Len(versions') \in Nat BY DEF Gently
    <3> QED BY <3>1, <3>2, <3>3
  <2> QED BY <2>1, <2>3 DEF Numbered
<1> HIDE DEF Removing, Inserting, Restoring, Numbered
<1>9. (r = editors[u])' => EditorTrue(u)'
  BY <1>5, <1>6, <1>7, <1>8 DEF EditorTrue
<1> QED BY <1>3, <1>9

LEMMA VersionInvInit == VersionInit => VersionInv
<1> SUFFICES ASSUME VersionInit PROVE VersionInv
  OBVIOUS
<1>1. ~Uploaded BY DEF VersionInit, Uploaded
<1>2. VersionTypes
  <2>1. <<>> \in Seq(VersionRow) /\ Len(<<>>) = 0 OBVIOUS
  <2>2. VersionHistory \in [left : SUBSET Nat, doomed : Nat, restored : Nat, unqueued : BOOLEAN]
    BY DEF VersionHistory, Original
  <2> QED BY <2>1, <2>2, VersionAssumption DEF VersionInit, VersionTypes, EditStep, RunStep
<1>3. RowsTogether BY <1>1 DEF VersionInit, RowsTogether, VersionHistory, Original
<1>4. (\A t \in VersionEditors : EditorTrue(t)) /\ RunnerTrue
  BY DEF VersionInit, EditorTrue, NotEditing, RunnerTrue, Numbered
<1>5. FilesExist /\ NothingLeaks /\ RestoredStands /\ ProcessingEnds
  BY <1>1 DEF VersionInit, FilesExist, NothingLeaks, RestoredStands, ProcessingEnds, Named, VersionFiles
<1> QED BY <1>2, <1>3, <1>4, <1>5 DEF VersionInv

\* The fields of a request by its step.
LEMMA FieldsOfStep ==
    ASSUME NEW r \in EditStep
    PROVE  /\ r.step = "queue" => r.job \in Nat /\ r.number \in Nat
           /\ r.step \in {"insert", "point", "save"} =>
                /\ r.number \in Nat /\ r.file \in ObjectName /\ r.kind \in {"edit", "restore"}
                /\ [r EXCEPT !.step = "point"] \in EditStep
                /\ r.kind = "restore" => /\ r.thumb \in Nat /\ r.of \in Nat /\ r.final \in BOOLEAN
                                         /\ [r EXCEPT !.step = "save"] \in EditStep
           /\ r.step = "save" => r.kind = "restore"
<1>1. CASE r \in [step : {"insert", "point", "save"}, kind : {"restore"}, number : Nat, file : ObjectName,
                  thumb : Nat, of : Nat, final : BOOLEAN]
  <2>1. /\ [r EXCEPT !.step = "point"] \in [step : {"insert", "point", "save"}, kind : {"restore"},
                  number : Nat, file : ObjectName, thumb : Nat, of : Nat, final : BOOLEAN]
        /\ [r EXCEPT !.step = "save"] \in [step : {"insert", "point", "save"}, kind : {"restore"},
                  number : Nat, file : ObjectName, thumb : Nat, of : Nat, final : BOOLEAN]
    BY <1>1
  <2>2. [r EXCEPT !.step = "point"] \in EditStep /\ [r EXCEPT !.step = "save"] \in EditStep
    BY <2>1 DEF EditStep
  <2> QED BY <1>1, <2>2
<1>2. CASE r \in [step : {"insert", "point"}, kind : {"edit"}, number : Nat, file : ObjectName]
  <2>1. [r EXCEPT !.step = "point"] \in [step : {"insert", "point"}, kind : {"edit"}, number : Nat, file : ObjectName]
    BY <1>2
  <2>2. [r EXCEPT !.step = "point"] \in EditStep BY <2>1 DEF EditStep
  <2> QED BY <1>2, <2>2
<1>3. CASE r \in [step : {"queue"}, job : Nat, number : Nat] BY <1>3
<1>4. CASE r = NotEditing
  <2>1. r.step = "idle" BY <1>4 DEF NotEditing
  <2> QED BY <2>1
<1>5. CASE r \in [step : {"remove files"}, named : SUBSET Nat]
  <2>1. r.step = "remove files" BY <1>5
  <2> QED BY <2>1
<1>6. CASE r \in [step : {"remove versions", "remove row"}]
  <2>1. r.step \in {"remove versions", "remove row"} BY <1>6
  <2> QED BY <2>1
<1> QED BY <1>1, <1>2, <1>3, <1>4, <1>5, <1>6 DEF EditStep

LEMMA EditorSet ==
    ASSUME VersionInv, NEW t \in VersionEditors, NEW r \in EditStep, EditRequest(t, r)
    PROVE  /\ editors' \in [VersionEditors -> EditStep] /\ editors'[t] = r
           /\ \A u \in VersionEditors : u # t => editors'[u] = editors[u]
  BY DEF VersionInv, VersionTypes, EditRequest

\* A request that goes on for the same version unsettles none.
LEMMA SettledStays ==
    ASSUME VersionInv, NEW t \in VersionEditors, NEW r \in EditStep, EditRequest(t, r),
           versions' = versions, jobs' \subseteq jobs,
           r.step \in {"point", "queue"} =>
              editors[t].step \in {"point", "queue"} /\ editors[t].number = r.number
    PROVE  \A n : FileSettled(n) => FileSettled(n)'
  BY EditorSet DEF FileSettled

\* A step that changes no row and no file takes nothing away.
LEMMA StillGentle ==
    ASSUME VersionInv, medium' = medium, versions' = versions, objects' = objects,
           versionPast'.left = versionPast.left,
           versionPast.doomed # 0 => versionPast'.doomed = versionPast.doomed,
           \A n : FileSettled(n) => FileSettled(n)'
    PROVE  Gently
<1>1. versions' \in Seq(VersionRow) /\ Len(versions) \in Nat BY DEF VersionInv, VersionTypes
<1>2. Uploaded' <=> Uploaded BY DEF Uploaded
<1> QED BY <1>1, <1>2 DEF Gently

LEMMA RunnerStands ==
    ASSUME VersionInv, Gently, runner' = runner, jobs \subseteq jobs'
    PROVE  RunnerTrue'
<1> SUFFICES ASSUME runner # NoRun
             PROVE  /\ runner.job \in jobs' /\ (runner.step = "thumbnail" <=> runner.job = Process)
                    /\ runner.step = "asset" =>
                         /\ versionPast'.doomed = 0 => runner.thumb \in objects' \cup {NoThumb}
                         /\ Uploaded' => runner.thumb \in FilesOf(versions') \cup versionPast'.left \cup {NoThumb}
  BY DEF RunnerTrue
<1> QED BY DEF VersionInv, RunnerTrue, Gently

\* Steps of one request, when the rest is shown.
LEMMA EditingKeeps ==
    ASSUME VersionInv, NEW t \in VersionEditors, NEW r \in EditStep, EditRequest(t, r),
           Gently, EditorTrue(t)', RunnerTrue', VersionTypes', RowsTogether', FilesExist', NothingLeaks',
           RestoredStands', ProcessingEnds'
    PROVE  VersionInv'
<1>1. ASSUME NEW u \in VersionEditors PROVE EditorTrue(u)'
  <2>1. CASE u = t BY <2>1
  <2>2. CASE u # t
    <3>1. editors'[u] = editors[u] BY <2>2, EditorSet
    <3> QED BY <3>1, OthersStand
  <2> QED BY <2>1, <2>2
<1> QED BY <1>1 DEF VersionInv

\* A request that begins, ends or dies and has changed nothing yet.
LEMMA QuietEditKeeps ==
    ASSUME VersionInv, NEW t \in VersionEditors, NEW r \in EditStep, EditRequest(t, r),
           medium' = medium, versions' = versions, objects' = objects, rendered' = rendered,
           jobs' = jobs, runner' = runner,
           versionPast' \in [left : SUBSET Nat, doomed : Nat, restored : Nat, unqueued : BOOLEAN],
           versionPast'.left = versionPast.left, versionPast'.restored = versionPast.restored,
           versionPast.unqueued => versionPast'.unqueued,
           versionPast.doomed # 0 => versionPast'.doomed = versionPast.doomed,
           versionPast'.doomed <= rendered,
           r.step # "queue", r.step = "point" => FALSE,
           editors[t].step = "queue" /\ editors[t].job = Process => versionPast'.unqueued \/ ~Uploaded,
           EditorTrue(t)'
    PROVE  VersionInv'
<1>1. \A n : FileSettled(n) => FileSettled(n)' BY SettledStays
<1>2. Gently BY <1>1, StillGentle
<1>3. RunnerTrue' BY <1>2, RunnerStands
<1>4. VersionTypes' BY EditorSet DEF VersionInv, VersionTypes
<1>5. RowsTogether' BY DEF VersionInv, RowsTogether, Uploaded
<1>6. FilesExist' /\ NothingLeaks'
  <2>1. Named' = Named BY DEF Named, Uploaded, VersionFiles
  <2> QED BY <2>1 DEF VersionInv, FilesExist, NothingLeaks
<1>7. RestoredStands'
  <2> SUFFICES ASSUME Uploaded, versionPast.restored # Original
               PROVE  /\ FileSettled(versionPast.restored)'
                      /\ medium.file = versions[versionPast.restored].file
    BY DEF RestoredStands, Uploaded, FileSettled
  <2> QED BY <1>1 DEF VersionInv, RestoredStands
<1>8. ProcessingEnds'
  <2> SUFFICES ASSUME Uploaded, medium.status \in {"pending", "processing"}
               PROVE  \/ Process \in jobs \/ versionPast'.unqueued
                      \/ \E u \in VersionEditors : editors'[u].step = "queue" /\ editors'[u].job = Process
    BY DEF ProcessingEnds, Uploaded
  <2> QED BY EditorSet DEF VersionInv, ProcessingEnds
<1> QED BY <1>2, <1>3, <1>4, <1>5, <1>6, <1>7, <1>8, EditingKeeps

LEMMA FilesIn ==
    ASSUME VersionTypes, NEW n \in DOMAIN versions
    PROVE  /\ versions[n] \in VersionRow /\ versions[n].file \in FilesOf(versions)
           /\ versions[n].thumb \in FilesOf(versions)
<1>1. n \in 1..Len(versions) /\ versions \in Seq(VersionRow) BY DEF VersionTypes
<1> QED BY <1>1 DEF FilesOf

\* The files that the rows name.
LEMMA NamedIs ==
    ASSUME VersionInv
    PROVE  /\ Uploaded => Named = ({medium.file, medium.thumb} \cup FilesOf(versions)) \ {NoThumb}
           /\ ~Uploaded => Named = {}
<1>1. VersionFiles = FilesOf(versions) BY DEF VersionFiles, FilesOf
<1>2. ~Uploaded => VersionFiles = {} BY DEF VersionInv, RowsTogether, VersionFiles
<1> QED BY <1>1, <1>2 DEF Named

LEMMA OpenEditKeeps ==
    ASSUME VersionInv, NEW t \in VersionEditors, NEW surface \in Surfaces, OpenEdit(t, surface)
    PROVE  VersionInv'
<1>1. medium \in MediumRow /\ Uploaded /\ Len(versions) \in Nat BY DEF OpenEdit, Uploaded, VersionInv, VersionTypes
<1>2. PICK r \in EditStep :
        /\ r = [step |-> "insert", kind |-> "edit", number |-> Len(versions) + 1, file |-> medium.file]
        /\ r.step = "insert" /\ r.kind = "edit" /\ r.file = medium.file /\ r.number # 0
  <2>1. PICK n \in Nat \ {0} : n = Len(versions) + 1 BY <1>1
  <2>2. medium.file \in ObjectName BY <1>1 DEF MediumRow
  <2>3. [step |-> "insert", kind |-> "edit", number |-> n, file |-> medium.file] \in EditStep
    BY <2>2 DEF EditStep
  <2> QED BY <2>1, <2>3
<1>3. /\ editors[t] = NotEditing /\ EditRequest(t, r)
      /\ medium' = medium /\ versions' = versions /\ objects' = objects /\ rendered' = rendered
      /\ jobs' = jobs /\ runner' = runner /\ versionPast' = versionPast
  BY <1>2 DEF OpenEdit, BeginEditing
<1>4. editors'[t] = r BY <1>2, <1>3, EditorSet
<1>5. Inserting(r)'
  <2>1. versionPast.doomed = 0 => r.file \in objects
    <3>1. medium.file \in Named BY <1>1, NamedIs DEF MediumRow, ObjectName
    <3> QED BY <1>2, <3>1 DEF VersionInv, FilesExist
  <2>2. Uploaded' => r.file \in {medium'.file} BY <1>2, <1>3
  <2> QED BY <1>3, <2>1, <2>2 DEF Inserting
<1>6. EditorTrue(t)' BY <1>2, <1>4, <1>5 DEF EditorTrue, Numbered
<1>7. NotEditing.step = "idle" BY DEF NotEditing
<1>8. /\ versionPast \in [left : SUBSET Nat, doomed : Nat, restored : Nat, unqueued : BOOLEAN]
      /\ versionPast.doomed <= rendered
  BY DEF VersionInv, VersionTypes, RowsTogether
<1> QED BY <1>2, <1>3, <1>6, <1>7, <1>8, QuietEditKeeps

LEMMA OpenRestoreKeeps ==
    ASSUME VersionInv, NEW t \in VersionEditors, NEW n \in 1..MaxVersions, OpenRestore(t, n)
    PROVE  VersionInv'
<1>1. Uploaded /\ n \in DOMAIN versions /\ Len(versions) \in Nat BY DEF OpenRestore, VersionInv, VersionTypes
<1>2. PICK final \in BOOLEAN : final = (n \notin jobs /\ ~\E u \in VersionEditors :
                                     editors[u].step \in {"point", "queue"} /\ editors[u].number = n)
  OBVIOUS
<1>3. /\ versions[n] \in VersionRow /\ versions[n].file \in FilesOf(versions)
      /\ versions[n].thumb \in FilesOf(versions)
  BY <1>1, FilesIn DEF VersionInv
<1>4. PICK r \in EditStep :
        /\ r = [step |-> "insert", kind |-> "restore", number |-> Len(versions) + 1,
                file |-> versions[n].file, thumb |-> versions[n].thumb, of |-> n, final |-> final]
        /\ r.step = "insert" /\ r.kind = "restore" /\ r.file = versions[n].file
        /\ r.thumb = versions[n].thumb /\ r.of = n /\ r.final = final /\ r.number # 0
  <2>1. PICK m \in Nat \ {0} : m = Len(versions) + 1 BY <1>1
  <2>2. versions[n].file \in ObjectName /\ versions[n].thumb \in Nat /\ n \in Nat /\ final \in BOOLEAN
    BY <1>2, <1>3 DEF VersionRow
  <2>3. [step |-> "insert", kind |-> "restore", number |-> m,
         file |-> versions[n].file, thumb |-> versions[n].thumb, of |-> n, final |-> final]
          \in [step : {"insert", "point", "save"}, kind : {"restore"}, number : Nat, file : ObjectName,
               thumb : Nat, of : Nat, final : BOOLEAN]
    BY <2>2
  <2>4. [step |-> "insert", kind |-> "restore", number |-> m,
         file |-> versions[n].file, thumb |-> versions[n].thumb, of |-> n, final |-> final] \in EditStep
    BY <2>3 DEF EditStep
  <2> QED BY <2>1, <2>4
<1>5. /\ editors[t] = NotEditing /\ EditRequest(t, r)
      /\ medium' = medium /\ versions' = versions /\ objects' = objects /\ rendered' = rendered
      /\ jobs' = jobs /\ runner' = runner /\ versionPast' = versionPast
  <2>1. r = [step |-> "insert", kind |-> "restore", number |-> Len(versions) + 1,
             file |-> versions[n].file, thumb |-> versions[n].thumb, of |-> n,
             final |-> n \notin jobs /\ ~\E u \in VersionEditors :
                         editors[u].step \in {"point", "queue"} /\ editors[u].number = n]
    BY <1>2, <1>4
  <2> QED BY <2>1 DEF OpenRestore, BeginEditing
<1>6. editors'[t] = r BY <1>5, EditorSet
<1>7. versionPast.doomed = 0 => {r.file, r.thumb} \subseteq objects \cup {NoThumb}
  BY <1>1, <1>3, <1>4, NamedIs DEF VersionInv, FilesExist
<1>8. r.final => FileSettled(n)' /\ r.of # Original
  <2>1. r.final => FileSettled(n) BY <1>1, <1>2, <1>4 DEF FileSettled
  <2>2. \A m : FileSettled(m) => FileSettled(m)' BY <1>4, <1>5, SettledStays
  <2> QED BY <1>4, <2>1, <2>2 DEF Original
<1>9. r.file \in FilesOf(versions) /\ r.thumb \in FilesOf(versions) BY <1>3, <1>4
<1>10. Restoring(r)'
  <2>1. r.of = n /\ versions[n].file = r.file BY <1>4
  <2> QED BY <1>5, <1>7, <1>8, <1>9, <2>1 DEF Restoring
<1>11. Inserting(r)'
  <2>1. r.file # NoThumb BY <1>3, <1>4 DEF VersionRow, ObjectName
  <2> QED BY <1>5, <1>7, <1>9, <2>1 DEF Inserting
<1>12. EditorTrue(t)' BY <1>4, <1>6, <1>10, <1>11 DEF EditorTrue, Numbered
<1>13. NotEditing.step = "idle" BY DEF NotEditing
<1>14. /\ versionPast \in [left : SUBSET Nat, doomed : Nat, restored : Nat, unqueued : BOOLEAN]
       /\ versionPast.doomed <= rendered
  BY DEF VersionInv, VersionTypes, RowsTogether
<1> QED BY <1>4, <1>5, <1>12, <1>13, <1>14, QuietEditKeeps

LEMMA OpenRemovalKeeps ==
    ASSUME VersionInv, NEW t \in VersionEditors, NEW surface \in Surfaces, OpenRemoval(t, surface)
    PROVE  VersionInv'
<1>1. /\ medium \in MediumRow /\ Uploaded /\ rendered \in Nat /\ rendered # 0
      /\ versionPast \in [left : SUBSET Nat, doomed : Nat, restored : Nat, unqueued : BOOLEAN]
      /\ versionPast.doomed <= rendered
  BY DEF OpenRemoval, Uploaded, VersionInv, VersionTypes, RowsTogether
<1>2. PICK r \in EditStep : /\ r = [step |-> "remove files", named |-> {medium.file, medium.thumb}]
                            /\ r.step = "remove files" /\ r.named = {medium.file, medium.thumb}
  <2>1. {medium.file, medium.thumb} \in SUBSET Nat BY <1>1 DEF MediumRow, ObjectName
  <2>2. [step |-> "remove files", named |-> {medium.file, medium.thumb}] \in EditStep
    BY <2>1 DEF EditStep
  <2> QED BY <2>2
<1>3. /\ editors[t] = NotEditing /\ EditRequest(t, r)
      /\ medium' = medium /\ versions' = versions /\ objects' = objects /\ rendered' = rendered
      /\ jobs' = jobs /\ runner' = runner
      /\ versionPast' = [versionPast EXCEPT !.doomed = IF versionPast.doomed = 0 THEN rendered ELSE versionPast.doomed]
  BY <1>2 DEF OpenRemoval, BeginEditing
<1>4. /\ versionPast' \in [left : SUBSET Nat, doomed : Nat, restored : Nat, unqueued : BOOLEAN]
      /\ versionPast'.left = versionPast.left /\ versionPast'.restored = versionPast.restored
      /\ versionPast'.unqueued = versionPast.unqueued
      /\ (versionPast.doomed # 0 => versionPast'.doomed = versionPast.doomed)
      /\ versionPast'.doomed <= rendered /\ versionPast'.doomed # 0
  BY <1>1, <1>3
<1>5. editors'[t] = r BY <1>3, EditorSet
<1>6. Removing(r)' BY <1>2, <1>3, <1>4 DEF Removing
<1>7. EditorTrue(t)' BY <1>2, <1>5, <1>6 DEF EditorTrue, Numbered
<1>8. NotEditing.step = "idle" BY DEF NotEditing
<1> QED BY <1>2, <1>3, <1>4, <1>7, <1>8, QuietEditKeeps

LEMMA EditorDiesKeeps ==
    ASSUME VersionInv, NEW t \in VersionEditors, EditorDies(t)
    PROVE  VersionInv'
<1>1. /\ EditRequest(t, NotEditing) /\ NotEditing \in EditStep /\ NotEditing.step = "idle"
      /\ medium' = medium /\ versions' = versions /\ objects' = objects /\ rendered' = rendered
      /\ jobs' = jobs /\ runner' = runner
      /\ versionPast' = [versionPast EXCEPT !.unqueued = versionPast.unqueued \/
                                     (editors[t].step = "queue" /\ editors[t].job = Process)]
  BY DEF EditorDies, EditStep, NotEditing
<1>2. versionPast \in [left : SUBSET Nat, doomed : Nat, restored : Nat, unqueued : BOOLEAN]
      /\ versionPast.doomed <= rendered
  BY DEF VersionInv, VersionTypes, RowsTogether
<1>3. PICK b \in BOOLEAN : b = (versionPast.unqueued \/ (editors[t].step = "queue" /\ editors[t].job = Process))
  OBVIOUS
<1>4. versionPast' = [versionPast EXCEPT !.unqueued = b] BY <1>1, <1>3
<1>5. /\ versionPast' \in [left : SUBSET Nat, doomed : Nat, restored : Nat, unqueued : BOOLEAN]
      /\ versionPast'.left = versionPast.left /\ versionPast'.restored = versionPast.restored
      /\ versionPast'.unqueued = b /\ versionPast'.doomed = versionPast.doomed
  BY <1>2, <1>4
<1>6. editors'[t] = NotEditing BY <1>1, EditorSet
<1>7. EditorTrue(t)' BY <1>1, <1>6 DEF EditorTrue, Numbered
<1> QED BY <1>1, <1>2, <1>3, <1>5, <1>7, QuietEditKeeps

\* Steps of the worker, when the rest is shown.
LEMMA RunningKeeps ==
    ASSUME VersionInv, editors' = editors,
           Gently, RunnerTrue', VersionTypes', RowsTogether', FilesExist', NothingLeaks',
           RestoredStands', ProcessingEnds'
    PROVE  VersionInv'
<1>1. ASSUME NEW u \in VersionEditors PROVE EditorTrue(u)'
  <2>1. editors'[u] = editors[u] OBVIOUS
  <2> QED BY <2>1, OthersStand
<1> QED BY <1>1 DEF VersionInv

\* The files that the rows name after a step.
LEMMA NamedThen ==
    Named' = ((IF Uploaded' THEN {medium'.file, medium'.thumb} ELSE {}) \cup FilesOf(versions')) \ {NoThumb}
  BY DEF Named, VersionFiles, FilesOf

\* A step that keeps the file of the medium keeps what was restored.
LEMMA RestoredStays ==
    ASSUME VersionInv, Gently, versionPast'.restored = versionPast.restored,
           Uploaded' => medium'.file = medium.file
    PROVE  RestoredStands'
<1> SUFFICES ASSUME Uploaded', versionPast.restored # Original
             PROVE  /\ FileSettled(versionPast.restored)'
                    /\ medium'.file = versions'[versionPast.restored].file
  <2>1. PICK n : n = versionPast.restored OBVIOUS
  <2>2. (n = versionPast.restored)' BY <2>1
  <2>3. FileSettled(versionPast.restored)' <=> FileSettled(n)' BY <2>2 DEF FileSettled
  <2> QED BY <2>1, <2>2, <2>3 DEF RestoredStands, FileSettled
<1>1. Uploaded BY DEF Gently
<1>2. PICK n : n = versionPast.restored OBVIOUS
<1>3. FileSettled(n) /\ medium.file = versions[n].file BY <1>1, <1>2 DEF VersionInv, RestoredStands
<1>4. FileSettled(n)' /\ versions'[n].file = versions[n].file BY <1>3 DEF Gently
<1>5. (n = versionPast.restored)' BY <1>2
<1>6. FileSettled(versionPast.restored)' BY <1>4, <1>5 DEF FileSettled
<1> QED BY <1>2, <1>3, <1>4, <1>6

\* A step that keeps the status keeps the task that will end it.
LEMMA ProcessingStays ==
    ASSUME VersionInv, Uploaded' => Uploaded /\ medium'.status = medium.status,
           versionPast'.unqueued = versionPast.unqueued, Process \in jobs => Process \in jobs',
           \A u \in VersionEditors : editors[u].step = "queue" =>
              editors'[u] = editors[u] \/ editors[u].job \in jobs'
    PROVE  ProcessingEnds'
<1> SUFFICES ASSUME Uploaded', medium'.status \in {"pending", "processing"}
             PROVE  \/ Process \in jobs' \/ versionPast'.unqueued
                    \/ \E u \in VersionEditors : editors'[u].step = "queue" /\ editors'[u].job = Process
  BY DEF ProcessingEnds
<1>1. \/ Process \in jobs \/ versionPast.unqueued
      \/ \E u \in VersionEditors : editors[u].step = "queue" /\ editors[u].job = Process
  BY DEF VersionInv, ProcessingEnds
<1> QED BY <1>1

\* What the invariant says of each variable.
LEMMA VersionFacts ==
    ASSUME VersionInv
    PROVE  /\ rendered \in Nat /\ objects \subseteq Nat /\ Len(versions) \in Nat
           /\ versions \in Seq(VersionRow)
           /\ versionPast \in [left : SUBSET Nat, doomed : Nat, restored : Nat, unqueued : BOOLEAN]
           /\ versionPast.doomed <= rendered /\ versionPast.doomed \in Nat
           /\ Uploaded => medium \in MediumRow /\ medium.file \in ObjectName /\ medium.thumb \in Nat
           /\ ~Uploaded => versions = <<>>
           /\ FilesOf(versions) \subseteq Nat
           /\ \A u \in VersionEditors : editors[u] \in EditStep /\ EditorTrue(u)
<1>1. versions \in Seq(VersionRow) /\ rendered \in Nat /\ objects \subseteq 1..rendered
  BY DEF VersionInv, VersionTypes
<1>2. \A n \in DOMAIN versions : versions[n].file \in Nat /\ versions[n].thumb \in Nat
  <2> TAKE n \in DOMAIN versions
  <2>1. versions[n] \in VersionRow BY FilesIn DEF VersionInv
  <2> QED BY <2>1 DEF VersionRow, ObjectName
<1>3. FilesOf(versions) \subseteq Nat BY <1>2 DEF FilesOf
<1>4. objects \subseteq Nat /\ Len(versions) \in Nat BY <1>1
<1>5. Uploaded => medium \in MediumRow /\ medium.file \in ObjectName /\ medium.thumb \in Nat
  BY DEF VersionInv, VersionTypes, Uploaded, MediumRow
<1> QED BY <1>1, <1>3, <1>4, <1>5 DEF VersionInv, VersionTypes, RowsTogether

LEMMA QueueKeeps ==
    ASSUME VersionInv, NEW t \in VersionEditors, Queue(t)
    PROVE  VersionInv'
<1>1. /\ editors[t].step = "queue" /\ EditRequest(t, NotEditing) /\ NotEditing \in EditStep
      /\ NotEditing.step = "idle" /\ jobs' = jobs \cup {editors[t].job}
      /\ medium' = medium /\ versions' = versions /\ objects' = objects /\ rendered' = rendered
      /\ runner' = runner /\ versionPast' = versionPast
  BY DEF Queue, EditStep, NotEditing
<1>2. /\ editors' \in [VersionEditors -> EditStep] /\ editors'[t] = NotEditing
      /\ \A u \in VersionEditors : u # t => editors'[u] = editors[u]
  BY <1>1, EditorSet
<1>3. editors[t].job = editors[t].number /\ editors[t].number \in 0..MaxVersions
  BY <1>1, VersionFacts DEF EditorTrue, Numbered
<1>4. \A n : FileSettled(n) => FileSettled(n)'
  <2> SUFFICES ASSUME NEW n, FileSettled(n) PROVE FileSettled(n)'
    OBVIOUS
  <2>1. n # editors[t].job BY <1>1, <1>3 DEF FileSettled
  <2>2. \A u \in VersionEditors : editors'[u].step \in {"point", "queue"} => editors'[u].number # n
    BY <1>1, <1>2 DEF FileSettled
  <2> QED BY <1>1, <2>1, <2>2 DEF FileSettled
<1>5. Gently BY <1>1, <1>4, StillGentle
<1>6. EditorTrue(t)' BY <1>1, <1>2 DEF EditorTrue, Numbered
<1>7. RunnerTrue' BY <1>1, <1>5, RunnerStands
<1>8. VersionTypes' BY <1>1, <1>2, <1>3 DEF VersionInv, VersionTypes
<1>9. RowsTogether' BY <1>1 DEF VersionInv, RowsTogether, Uploaded
<1>10. FilesExist' /\ NothingLeaks'
  <2>1. Named' = Named BY <1>1 DEF Named, Uploaded, VersionFiles
  <2> QED BY <1>1, <2>1 DEF VersionInv, FilesExist, NothingLeaks
<1>11. RestoredStands' BY <1>1, <1>5, RestoredStays
<1>12. ProcessingEnds'
  <2>1. Uploaded' => Uploaded BY <1>1 DEF Uploaded
  <2> QED BY <1>1, <1>2, <2>1, ProcessingStays
<1> QED BY <1>1, <1>5, <1>6, <1>7, <1>8, <1>9, <1>10, <1>11, <1>12, EditingKeeps

LEMMA RowSaved ==
    ASSUME VersionInv, Uploaded,
           NEW status \in {"pending", "processing", "completed", "failed"}
    PROVE  /\ [medium EXCEPT !.status = status] \in MediumRow
           /\ [medium EXCEPT !.status = status].status = status
           /\ \A field \in {"file", "thumb", "current", "scope"} :
                 [medium EXCEPT !.status = status][field] = medium[field]
           /\ [medium EXCEPT !.status = status] # NoMedium
<1>1. medium \in MediumRow BY VersionFacts
<1>2. [medium EXCEPT !.status = status] \in MediumRow BY <1>1 DEF MediumRow
<1> QED BY <1>1, <1>2, NoMediumIsNone DEF MediumRow

\* A task that begins, fails or dies: nothing but a status, the queue and the runner change.
LEMMA QuietRunKeeps ==
    ASSUME VersionInv, editors' = editors, versions' = versions, objects' = objects,
           rendered' = rendered, versionPast' = versionPast, jobs' \subseteq jobs,
           medium' \in MediumRow \cup {NoMedium}, Uploaded' <=> Uploaded,
           Uploaded => medium'.file = medium.file /\ medium'.thumb = medium.thumb
                       /\ medium'.current = medium.current,
           runner' \in RunStep, RunnerTrue', ProcessingEnds'
    PROVE  VersionInv'
<1>1. \A n : FileSettled(n) => FileSettled(n)' BY DEF FileSettled
<1>2. Gently BY <1>1, VersionFacts DEF Gently
<1>3. VersionTypes' BY DEF VersionInv, VersionTypes
<1>4. RowsTogether' BY DEF VersionInv, RowsTogether
<1>5. FilesExist' /\ NothingLeaks'
  <2>1. Named' = Named BY DEF Named, VersionFiles
  <2> QED BY <2>1 DEF VersionInv, FilesExist, NothingLeaks
<1>6. RestoredStands' BY <1>2, RestoredStays
<1> QED BY <1>2, <1>3, <1>4, <1>5, <1>6, RunningKeeps

LEMMA StartTaskKeeps ==
    ASSUME VersionInv, NEW job \in 0..MaxVersions, StartTask(job)
    PROVE  VersionInv'
<1>1. /\ editors' = editors /\ versions' = versions /\ objects' = objects /\ rendered' = rendered
      /\ versionPast' = versionPast /\ runner = NoRun /\ job \in jobs
  BY DEF StartTask
<1>2. runner \in RunStep /\ job \in Nat /\ medium \in MediumRow \cup {NoMedium}
  BY DEF VersionInv, VersionTypes
<1>3. CASE HasRows(job) /\ job = Process
  <2>1. /\ Uploaded /\ runner' = [job |-> job, step |-> "thumbnail"]
        /\ medium' = [medium EXCEPT !.status = "processing"] /\ jobs' = jobs
    BY <1>3 DEF StartTask, HasRows
  <2>2. /\ medium' \in MediumRow /\ medium'.file = medium.file /\ medium'.thumb = medium.thumb
        /\ medium'.current = medium.current /\ Uploaded'
    BY <2>1, RowSaved DEF Uploaded
  <2>3. runner' \in RunStep BY <1>2, <2>1 DEF RunStep
  <2>4. RunnerTrue' BY <1>1, <1>3, <2>1 DEF RunnerTrue
  <2>5. ProcessingEnds' BY <1>1, <1>3, <2>1 DEF ProcessingEnds
  <2> QED BY <1>1, <2>1, <2>2, <2>3, <2>4, <2>5, QuietRunKeeps
<1>4. CASE HasRows(job) /\ job # Process
  <2>1. /\ runner' = [job |-> job, step |-> "file"] /\ medium' = medium /\ jobs' = jobs
    BY <1>4 DEF StartTask
  <2>2. Uploaded' <=> Uploaded BY <2>1 DEF Uploaded
  <2>3. runner' \in RunStep BY <1>2, <2>1 DEF RunStep
  <2>4. RunnerTrue' BY <1>1, <1>4, <2>1 DEF RunnerTrue
  <2>5. ProcessingEnds' BY <1>1, <2>1, <2>2, ProcessingStays
  <2> QED BY <1>1, <1>2, <2>1, <2>2, <2>3, <2>4, <2>5, QuietRunKeeps
<1>5. CASE ~HasRows(job)
  <2>1. jobs' = jobs \ {job} /\ runner' = runner /\ medium' = medium BY <1>5 DEF StartTask
  <2>2. Uploaded' <=> Uploaded BY <2>1 DEF Uploaded
  <2>3. RunnerTrue' BY <1>1, <2>1 DEF RunnerTrue
  <2>4. ProcessingEnds'
    <3>1. CASE Uploaded
      <4>1. job # Process BY <1>5, <3>1 DEF HasRows
      <4> QED BY <1>1, <2>1, <2>2, <4>1, ProcessingStays
    <3>2. CASE ~Uploaded BY <2>2, <3>2 DEF ProcessingEnds
    <3> QED BY <3>1, <3>2
  <2> QED BY <1>1, <1>2, <2>1, <2>2, <2>3, <2>4, QuietRunKeeps
<1> QED BY <1>3, <1>4, <1>5

LEMMA ProcessFailsKeeps ==
    ASSUME VersionInv, ProcessFails
    PROVE  VersionInv'
<1>1. /\ editors' = editors /\ versions' = versions /\ objects' = objects /\ rendered' = rendered
      /\ versionPast' = versionPast /\ runner' = NoRun /\ jobs' \subseteq jobs /\ NoRun \in RunStep
  BY DEF ProcessFails, TaskEnds, RunStep
<1>2. RunnerTrue' BY <1>1 DEF RunnerTrue
<1>3. medium \in MediumRow \cup {NoMedium} BY DEF VersionInv, VersionTypes
<1>4. CASE Uploaded
  <2>1. medium' = [medium EXCEPT !.status = "failed"] BY <1>4 DEF ProcessFails
  <2>2. /\ medium' \in MediumRow /\ medium'.file = medium.file /\ medium'.thumb = medium.thumb
        /\ medium'.current = medium.current /\ Uploaded' /\ medium'.status = "failed"
    BY <1>4, <2>1, RowSaved DEF Uploaded
  <2>3. ProcessingEnds' BY <2>2 DEF ProcessingEnds
  <2> QED BY <1>1, <1>2, <1>4, <2>2, <2>3, QuietRunKeeps
<1>5. CASE ~Uploaded
  <2>1. medium' = medium /\ ~Uploaded' BY <1>5 DEF ProcessFails, Uploaded
  <2>2. ProcessingEnds' BY <2>1 DEF ProcessingEnds
  <2> QED BY <1>1, <1>2, <1>3, <1>5, <2>1, <2>2, QuietRunKeeps
<1> QED BY <1>4, <1>5

LEMMA RenderFailsKeeps ==
    ASSUME VersionInv, RenderFails
    PROVE  VersionInv'
<1>1. /\ editors' = editors /\ versions' = versions /\ objects' = objects /\ rendered' = rendered
      /\ versionPast' = versionPast /\ runner' = NoRun /\ jobs' = jobs \ {runner.job}
      /\ NoRun \in RunStep /\ medium' = medium /\ runner # NoRun /\ runner.step # "thumbnail"
  BY DEF RenderFails, TaskEnds, RunStep
<1>2. RunnerTrue' BY <1>1 DEF RunnerTrue
<1>3. medium \in MediumRow \cup {NoMedium} BY DEF VersionInv, VersionTypes
<1>4. Uploaded' <=> Uploaded BY <1>1 DEF Uploaded
<1>5. runner.job # Process BY <1>1 DEF VersionInv, RunnerTrue
<1>6. ProcessingEnds' BY <1>1, <1>4, <1>5, ProcessingStays
<1> QED BY <1>1, <1>2, <1>3, <1>4, <1>6, QuietRunKeeps

LEMMA RunnerDiesKeeps ==
    ASSUME VersionInv, RunnerDies
    PROVE  VersionInv'
<1>1. /\ editors' = editors /\ versions' = versions /\ objects' = objects /\ rendered' = rendered
      /\ versionPast' = versionPast /\ runner' = NoRun /\ jobs' = jobs /\ medium' = medium
      /\ NoRun \in RunStep
  BY DEF RunnerDies, RunStep
<1>2. RunnerTrue' BY <1>1 DEF RunnerTrue
<1>3. medium \in MediumRow \cup {NoMedium} BY DEF VersionInv, VersionTypes
<1>4. Uploaded' <=> Uploaded BY <1>1 DEF Uploaded
<1>5. ProcessingEnds' BY <1>1, <1>4, ProcessingStays
<1> QED BY <1>1, <1>2, <1>3, <1>4, <1>5, QuietRunKeeps

\* A removal's step that deletes files.
LEMMA FilesGoKeeps ==
    ASSUME VersionInv, NEW t \in VersionEditors, NEW r \in EditStep, EditRequest(t, r),
           NEW gone, objects' = objects \ gone, versionPast.doomed # 0,
           medium' = medium, versions' = versions, rendered' = rendered, jobs' = jobs,
           runner' = runner, versionPast' = versionPast, editors[t].step # "queue",
           r.step \notin {"point", "queue"}, EditorTrue(t)'
    PROVE  VersionInv'
<1>1. /\ editors' \in [VersionEditors -> EditStep] /\ editors'[t] = r
      /\ \A u \in VersionEditors : u # t => editors'[u] = editors[u]
  BY EditorSet
<1>2. \A n : FileSettled(n) => FileSettled(n)' BY SettledStays
<1>3. Uploaded' <=> Uploaded BY DEF Uploaded
<1>4. Gently BY <1>2, <1>3, VersionFacts DEF Gently
<1>5. RunnerTrue' BY <1>4, RunnerStands
<1>6. VersionTypes' BY <1>1 DEF VersionInv, VersionTypes
<1>7. RowsTogether' BY <1>3 DEF VersionInv, RowsTogether
<1>8. FilesExist' BY DEF FilesExist
<1>9. NothingLeaks'
  <2>1. Named' = Named BY DEF Named, Uploaded, VersionFiles
  <2> QED BY <2>1 DEF VersionInv, NothingLeaks
<1>10. RestoredStands' BY <1>4, RestoredStays
<1>11. ProcessingEnds' BY <1>1, <1>3, ProcessingStays
<1> QED BY <1>4, <1>5, <1>6, <1>7, <1>8, <1>9, <1>10, <1>11, EditingKeeps

LEMMA RemoveFilesKeeps ==
    ASSUME VersionInv, NEW t \in VersionEditors, RemoveFiles(t)
    PROVE  VersionInv'
<1>1. PICK gone : gone = editors[t].named OBVIOUS
<1>2. PICK r \in EditStep : r = [step |-> "remove versions"] /\ r.step = "remove versions"
  <2>1. [step |-> "remove versions"] \in [step : {"remove versions", "remove row"}] OBVIOUS
  <2>2. [step |-> "remove versions"] \in EditStep BY <2>1 DEF EditStep
  <2> QED BY <2>2
<1>3. /\ EditRequest(t, r) /\ objects' = objects \ gone
      /\ medium' = medium /\ versions' = versions /\ rendered' = rendered /\ jobs' = jobs
      /\ runner' = runner /\ versionPast' = versionPast /\ editors[t].step = "remove files"
  BY <1>1, <1>2 DEF RemoveFiles
<1>4. versionPast.doomed # 0
      /\ (Uploaded => \A x \in {medium.file, medium.thumb} :
                         x \in gone \/ x \in FilesOf(versions) \/ Clean(x))
  BY <1>1, <1>3, VersionFacts DEF EditorTrue, Removing
<1>5. editors'[t] = r BY <1>3, EditorSet
<1>6. Uploaded' => \A x \in {medium'.file, medium'.thumb} : x \in FilesOf(versions') \/ Clean(x)'
  BY <1>3, <1>4 DEF Clean, Uploaded
<1>7. Removing(r)' BY <1>2, <1>3, <1>4, <1>6 DEF Removing
<1>8. EditorTrue(t)' BY <1>2, <1>5, <1>7 DEF EditorTrue, Numbered
<1> QED BY <1>2, <1>3, <1>4, <1>8, FilesGoKeeps

LEMMA RemoveVersionsKeeps ==
    ASSUME VersionInv, NEW t \in VersionEditors, RemoveVersions(t)
    PROVE  VersionInv'
<1>1. PICK gone : gone = FilesOf(versions) OBVIOUS
<1>2. PICK r \in EditStep : r = [step |-> "remove row"] /\ r.step = "remove row"
  <2>1. [step |-> "remove row"] \in [step : {"remove versions", "remove row"}] OBVIOUS
  <2>2. [step |-> "remove row"] \in EditStep BY <2>1 DEF EditStep
  <2> QED BY <2>2
<1>3. /\ EditRequest(t, r) /\ objects' = objects \ gone
      /\ medium' = medium /\ versions' = versions /\ rendered' = rendered /\ jobs' = jobs
      /\ runner' = runner /\ versionPast' = versionPast /\ editors[t].step = "remove versions"
  <2>1. FilesOfVersions = gone BY <1>1 DEF FilesOfVersions, VersionFiles, FilesOf
  <2> QED BY <1>2, <2>1 DEF RemoveVersions
<1>4. versionPast.doomed # 0
      /\ (Uploaded => \A x \in {medium.file, medium.thumb} : x \in gone \/ Clean(x))
  BY <1>1, <1>3, VersionFacts DEF EditorTrue, Removing
<1>5. editors'[t] = r BY <1>3, EditorSet
<1>6. Uploaded' => \A x \in {medium'.file, medium'.thumb} \cup FilesOf(versions') : Clean(x)'
  BY <1>1, <1>3, <1>4 DEF Clean, Uploaded
<1>7. Removing(r)' BY <1>2, <1>3, <1>4, <1>6 DEF Removing
<1>8. EditorTrue(t)' BY <1>2, <1>5, <1>7 DEF EditorTrue, Numbered
<1> QED BY <1>2, <1>3, <1>4, <1>8, FilesGoKeeps

LEMMA RemoveRowKeeps ==
    ASSUME VersionInv, NEW t \in VersionEditors, RemoveRow(t)
    PROVE  VersionInv'
<1>1. PICK more : more = {file \in Named \cap objects : file > versionPast.doomed} OBVIOUS
<1>2. /\ EditRequest(t, NotEditing) /\ NotEditing \in EditStep /\ NotEditing.step = "idle"
      /\ objects' = objects /\ medium' = NoMedium /\ versions' = <<>> /\ rendered' = rendered
      /\ jobs' = jobs /\ runner' = runner /\ editors[t].step = "remove row"
      /\ versionPast' = [versionPast EXCEPT !.left = versionPast.left \cup more]
  BY <1>1 DEF RemoveRow, EditStep, NotEditing, Unnamed
<1>3. more \subseteq Nat /\ more \subseteq objects BY <1>1, VersionFacts
<1>4. /\ versionPast' \in [left : SUBSET Nat, doomed : Nat, restored : Nat, unqueued : BOOLEAN]
      /\ versionPast'.left = versionPast.left \cup more /\ versionPast'.doomed = versionPast.doomed
      /\ versionPast'.restored = versionPast.restored /\ versionPast'.unqueued = versionPast.unqueued
  BY <1>2, <1>3, VersionFacts
<1>5. ~Uploaded' /\ versions' \in Seq(VersionRow) /\ Len(versions') = 0
  <2>1. <<>> \in Seq(VersionRow) /\ Len(<<>>) = 0 OBVIOUS
  <2> QED BY <1>2, <2>1 DEF Uploaded
<1>6. Gently BY <1>2, <1>4, <1>5 DEF Gently
<1>7. RunnerTrue' BY <1>2, <1>6, RunnerStands
<1>8. /\ editors' \in [VersionEditors -> EditStep] /\ editors'[t] = NotEditing
  BY <1>2, EditorSet
<1>9. EditorTrue(t)' BY <1>2, <1>8 DEF EditorTrue, Numbered
<1>10. VersionTypes'
  <2>1. MaxVersions \in Nat BY VersionAssumption
  <2>2. Len(versions') <= MaxVersions BY <1>5, <2>1
  <2> QED BY <1>2, <1>4, <1>5, <1>8, <2>2 DEF VersionInv, VersionTypes
<1>11. RowsTogether' BY <1>2, <1>4, <1>5 DEF VersionInv, RowsTogether
<1>12. versionPast.doomed # 0 /\ (Uploaded => \A x \in {medium.file, medium.thumb} \cup FilesOf(versions) : Clean(x))
  BY <1>2, VersionFacts DEF EditorTrue, Removing
<1>13. FilesExist' BY <1>4, <1>12 DEF FilesExist
<1>14. NothingLeaks'
  <2>1. ASSUME NEW x \in objects, x \in Named PROVE x \in versionPast.left \cup more
    <3>1. Uploaded BY <2>1, NamedIs
    <3>2. x # NoThumb /\ x \in {medium.file, medium.thumb} \cup FilesOf(versions) BY <2>1, <3>1, NamedIs
    <3>3. Clean(x) BY <1>12, <3>1, <3>2
    <3> QED BY <1>1, <2>1, <3>2, <3>3 DEF Clean
  <2>2. objects \ Named \subseteq versionPast.left BY DEF VersionInv, NothingLeaks
  <2>3. objects' \subseteq versionPast'.left BY <1>2, <1>4, <2>1, <2>2
  <2> QED BY <2>3 DEF NothingLeaks
<1>15. RestoredStands' /\ ProcessingEnds' BY <1>5 DEF RestoredStands, ProcessingEnds
<1> QED BY <1>2, <1>6, <1>7, <1>9, <1>10, <1>11, <1>13, <1>14, <1>15, EditingKeeps

\* A request that stops and leaves everything as it is.
LEMMA StopKeeps ==
    ASSUME VersionInv, NEW t \in VersionEditors, EditRequest(t, NotEditing),
           medium' = medium, versions' = versions, objects' = objects, rendered' = rendered,
           jobs' = jobs, runner' = runner, versionPast' = versionPast, editors[t].step # "queue"
    PROVE  VersionInv'
<1>1. NotEditing \in EditStep /\ NotEditing.step = "idle" BY DEF EditStep, NotEditing
<1>2. editors'[t] = NotEditing BY <1>1, EditorSet
<1>3. EditorTrue(t)' BY <1>1, <1>2 DEF EditorTrue, Numbered
<1> QED BY <1>1, <1>3, VersionFacts, QuietEditKeeps

LEMMA InsertVersionKeeps ==
    ASSUME VersionInv, NEW t \in VersionEditors, InsertVersion(t)
    PROVE  VersionInv'
<1>1. /\ editors[t].step = "insert" /\ Len(versions) < MaxVersions
      /\ medium' = medium /\ objects' = objects /\ rendered' = rendered /\ jobs' = jobs
      /\ runner' = runner /\ versionPast' = versionPast
  BY DEF InsertVersion
<1>2. CASE ~(Uploaded /\ NumberFree(editors[t].number))
  <2>1. EditRequest(t, NotEditing) /\ versions' = versions BY <1>2 DEF InsertVersion
  <2> QED BY <1>1, <2>1, StopKeeps
<1>3. CASE Uploaded /\ NumberFree(editors[t].number)
  <2>1. PICK q : q = editors[t] OBVIOUS
  <2>2. q \in EditStep /\ q.step = "insert" /\ EditorTrue(t) BY <1>1, <2>1, VersionFacts
  <2>3. q.number \in Nat /\ q.file \in ObjectName /\ q.kind \in {"edit", "restore"} BY <2>2, FieldsOfStep
  <2>4. Inserting(q) /\ Numbered(q) /\ (q.kind = "restore" => Restoring(q))
    BY <2>1, <2>2 DEF EditorTrue
  <2>5. PICK r \in EditStep : r = [q EXCEPT !.step = "point"] BY <2>2, FieldsOfStep
  <2>6. r.step = "point" /\ r.number = q.number /\ r.kind = q.kind
        /\ (q.kind = "restore" => r.file = q.file /\ r.thumb = q.thumb /\ r.of = q.of /\ r.final = q.final)
    BY <2>2, <2>5 DEF EditStep, NotEditing
  <2>7. PICK row \in VersionRow : row = [file |-> q.file, thumb |-> NoThumb]
                                  /\ row.file = q.file /\ row.thumb = NoThumb
    <3>1. NoThumb \in Nat BY DEF NoThumb
    <3>2. [file |-> q.file, thumb |-> NoThumb] \in VersionRow BY <2>3, <3>1 DEF VersionRow
    <3> QED BY <3>2
  <2>8. EditRequest(t, r) /\ versions' = Append(versions, row) /\ q.number = Len(versions) + 1
    BY <1>3, <2>1, <2>5, <2>7 DEF InsertVersion, NumberFree
  <2>9. /\ versions' \in Seq(VersionRow) /\ Len(versions') = Len(versions) + 1 /\ Len(versions) \in Nat
        /\ DOMAIN versions' = 1..(Len(versions) + 1) /\ DOMAIN versions = 1..Len(versions)
        /\ versions'[Len(versions) + 1] = row
        /\ \A n \in DOMAIN versions : versions'[n] = versions[n]
    BY <2>8, VersionFacts
  <2>10. FilesOf(versions') = FilesOf(versions) \cup {q.file, NoThumb}
    <3>1. FilesOf(versions) \subseteq FilesOf(versions') BY <2>9 DEF FilesOf
    <3>2. {q.file, NoThumb} \subseteq FilesOf(versions') BY <2>7, <2>9 DEF FilesOf
    <3>3. FilesOf(versions') \subseteq FilesOf(versions) \cup {q.file, NoThumb}
      <4>1. ASSUME NEW n \in DOMAIN versions', NEW x \in {versions'[n].file, versions'[n].thumb}
            PROVE  x \in FilesOf(versions) \cup {q.file, NoThumb}
        <5>1. CASE n = Len(versions) + 1 BY <2>7, <2>9, <4>1, <5>1
        <5>2. CASE n # Len(versions) + 1
          <6>1. n \in DOMAIN versions BY <2>9, <5>2
          <6> QED BY <2>9, <4>1, <6>1 DEF FilesOf
        <5> QED BY <5>1, <5>2
      <4> QED BY <4>1 DEF FilesOf
    <3> QED BY <3>1, <3>2, <3>3
  <2>11. Uploaded' /\ Uploaded BY <1>1, <1>3 DEF Uploaded
  <2>12. /\ editors' \in [VersionEditors -> EditStep] /\ editors'[t] = r
         /\ \A u \in VersionEditors : u # t => editors'[u] = editors[u]
    BY <2>8, EditorSet
  <2>13. ASSUME NEW n, FileSettled(n) PROVE FileSettled(n)' /\ versions'[n].file = versions[n].file
    <3>1. n \in DOMAIN versions /\ n \in DOMAIN versions' BY <2>9, <2>13 DEF FileSettled
    <3>2. r.number # n BY <2>6, <2>8, <2>9, <3>1
    <3>3. \A u \in VersionEditors : editors'[u].step \in {"point", "queue"} => editors'[u].number # n
      BY <2>12, <2>13, <3>2 DEF FileSettled
    <3> QED BY <1>1, <2>9, <2>13, <3>1, <3>3 DEF FileSettled
  <2>14. q.file \in {medium.file} \cup FilesOf(versions) \cup versionPast.left BY <2>4, <2>11 DEF Inserting
  <2>15. Gently
    <3>1. \A x \in FilesOf(versions') :
             x \in FilesOf(versions) \cup {medium.file} \/ x \in versionPast'.left \/ x = NoThumb
      BY <1>1, <2>10, <2>14
    <3>2. Len(versions) <= Len(versions') BY <2>9
    <3> QED BY <1>1, <2>9, <2>10, <2>11, <2>13, <3>1, <3>2 DEF Gently
  <2>16. RunnerTrue' BY <1>1, <2>15, RunnerStands
  <2>17. VersionTypes'
    <3>1. Len(versions') <= MaxVersions BY <1>1, <2>9, VersionAssumption
    <3> QED BY <1>1, <2>9, <2>12, <3>1 DEF VersionInv, VersionTypes
  <2>18. RowsTogether'
    <3>1. medium.current \in 0..Len(versions') /\ rendered # 0
      BY <2>9, <2>11 DEF VersionInv, RowsTogether
    <3> QED BY <1>1, <2>11, <3>1 DEF VersionInv, RowsTogether
  <2>19. EditorTrue(t)'
    <3>1. Numbered(r)'
      <4>1. r.number \in 0..MaxVersions /\ r.number \in 0..Len(versions')
        BY <1>1, <2>3, <2>6, <2>8, <2>9, VersionAssumption
      <4> QED BY <2>6, <4>1 DEF Numbered
    <3>2. r.kind = "restore" => Restoring(r)'
      <4> SUFFICES ASSUME r.kind = "restore" PROVE Restoring(r)'
        OBVIOUS
      <4>1. Restoring(q) /\ r.file = q.file /\ r.thumb = q.thumb /\ r.of = q.of /\ r.final = q.final
        BY <2>4, <2>6
      <4>2. r.final => FileSettled(r.of) /\ r.of # Original /\ versions[r.of].file = r.file
        BY <2>11, <4>1 DEF Restoring
      <4>3. r.final => FileSettled(r.of)' /\ versions'[r.of].file = r.file BY <2>13, <4>2
      <4>4. {r.file, r.thumb} \subseteq FilesOf(versions') \cup versionPast'.left \cup {NoThumb}
        BY <1>1, <2>10, <2>11, <4>1 DEF Restoring
      <4>5. versionPast'.doomed = 0 => {r.file, r.thumb} \subseteq objects' \cup {NoThumb}
        BY <1>1, <4>1 DEF Restoring
      <4> QED BY <4>2, <4>3, <4>4, <4>5 DEF Restoring
    <3> QED BY <2>6, <2>12, <3>1, <3>2 DEF EditorTrue
  <2>20. FilesExist' /\ NothingLeaks'
    <3>1. Named' = Named \cup {q.file}
      <4>1. q.file # NoThumb BY <2>3 DEF ObjectName
      <4> QED BY <1>1, <2>10, <2>11, <4>1, NamedIs, NamedThen
    <3>2. versionPast.doomed = 0 => q.file \in objects BY <2>4 DEF Inserting
    <3> QED BY <1>1, <3>1, <3>2 DEF VersionInv, FilesExist, NothingLeaks
  <2>21. RestoredStands' BY <1>1, <2>15, RestoredStays
  <2>22. ProcessingEnds'
    <3>1. \A u \in VersionEditors : editors[u].step = "queue" => editors'[u] = editors[u]
      BY <1>1, <2>12
    <3> QED BY <1>1, <2>11, <3>1, ProcessingStays
  <2> QED BY <2>8, <2>15, <2>16, <2>17, <2>18, <2>19, <2>20, <2>21, <2>22, EditingKeeps
<1> QED BY <1>2, <1>3

LEMMA PointAtVersionKeeps ==
    ASSUME VersionInv, NEW t \in VersionEditors, PointAtVersion(t)
    PROVE  VersionInv'
<1>1. /\ editors[t].step = "point" /\ versions' = versions /\ objects' = objects
      /\ rendered' = rendered /\ jobs' = jobs /\ runner' = runner /\ versionPast' = versionPast
  BY DEF PointAtVersion
<1>2. CASE ~Uploaded
  <2>1. EditRequest(t, NotEditing) /\ medium' = medium BY <1>2 DEF PointAtVersion
  <2> QED BY <1>1, <2>1, StopKeeps
<1>3. CASE Uploaded
  <2>1. PICK q : q = editors[t] OBVIOUS
  <2>2. q \in EditStep /\ q.step = "point" /\ EditorTrue(t) BY <1>1, <2>1, VersionFacts
  <2>3. q.number \in Nat /\ q.file \in ObjectName /\ q.kind \in {"edit", "restore"} BY <2>2, FieldsOfStep
  <2>4. Numbered(q) /\ (q.kind = "restore" => Restoring(q)) BY <2>1, <2>2 DEF EditorTrue
  <2>5. q.number \in 0..MaxVersions /\ q.number \in 0..Len(versions) BY <1>3, <2>2, <2>4 DEF Numbered
  <2>6. PICK r \in EditStep :
          r = IF q.kind = "restore" THEN [q EXCEPT !.step = "save"]
              ELSE [step |-> "queue", job |-> q.number, number |-> q.number]
    <3>1. q.kind = "restore" => [q EXCEPT !.step = "save"] \in EditStep BY <2>2, FieldsOfStep
    <3>2. [step |-> "queue", job |-> q.number, number |-> q.number] \in [step : {"queue"}, job : Nat, number : Nat]
      BY <2>3
    <3>3. [step |-> "queue", job |-> q.number, number |-> q.number] \in EditStep BY <3>2 DEF EditStep
    <3> QED BY <3>1, <3>3
  <2>7. /\ q.kind = "restore" => /\ r.step = "save" /\ r.number = q.number /\ r.kind = "restore"
                                 /\ r.file = q.file /\ r.thumb = q.thumb /\ r.of = q.of /\ r.final = q.final
        /\ q.kind # "restore" => r.step = "queue" /\ r.job = q.number /\ r.number = q.number
    BY <2>2, <2>6 DEF EditStep, NotEditing
  <2>8. EditRequest(t, r) /\ medium' = [medium EXCEPT !.current = q.number]
    BY <1>3, <2>1, <2>6 DEF PointAtVersion
  <2>9. /\ medium' \in MediumRow /\ medium'.file = medium.file /\ medium'.thumb = medium.thumb
        /\ medium'.current = q.number /\ medium'.status = medium.status /\ medium' # NoMedium
    <3>1. medium \in MediumRow BY <1>3, VersionFacts
    <3>2. medium' \in MediumRow BY <2>3, <2>8, <3>1 DEF MediumRow
    <3>3. medium' # NoMedium BY <3>2, NoMediumIsNone
    <3> QED BY <2>8, <3>1, <3>2, <3>3 DEF MediumRow
  <2>10. Uploaded' BY <2>9 DEF Uploaded
  <2>11. /\ editors' \in [VersionEditors -> EditStep] /\ editors'[t] = r
         /\ \A u \in VersionEditors : u # t => editors'[u] = editors[u]
    BY <2>8, EditorSet
  <2>12. \A n : FileSettled(n) => FileSettled(n)'
    <3>1. r.step \in {"point", "queue"} => editors[t].number = r.number
      BY <2>1, <2>3, <2>7
    <3> QED BY <1>1, <2>8, <3>1, SettledStays
  <2>13. Gently BY <1>1, <1>3, <2>9, <2>10, <2>12, VersionFacts DEF Gently
  <2>14. RunnerTrue' BY <1>1, <2>13, RunnerStands
  <2>15. VersionTypes' BY <1>1, <2>9, <2>11 DEF VersionInv, VersionTypes
  <2>16. RowsTogether' BY <1>1, <1>3, <2>5, <2>9, <2>10 DEF VersionInv, RowsTogether
  <2>17. EditorTrue(t)'
    <3>1. Numbered(r)' BY <1>1, <2>3, <2>5, <2>7 DEF Numbered
    <3>2. q.kind = "restore" => Restoring(r)'
      <4> SUFFICES ASSUME q.kind = "restore" PROVE Restoring(r)'
        OBVIOUS
      <4>1. Restoring(q) /\ r.file = q.file /\ r.thumb = q.thumb /\ r.of = q.of /\ r.final = q.final
        BY <2>4, <2>7
      <4>2. r.final => FileSettled(r.of)' /\ r.of # Original /\ versions'[r.of].file = r.file
        BY <1>1, <1>3, <2>12, <4>1 DEF Restoring
      <4> QED BY <1>1, <1>3, <4>1, <4>2 DEF Restoring
    <3> QED BY <2>3, <2>7, <2>11, <3>1, <3>2 DEF EditorTrue
  <2>18. FilesExist' /\ NothingLeaks'
    <3>1. Named' = Named BY <1>1, <1>3, <2>9, <2>10, NamedIs, NamedThen
    <3> QED BY <1>1, <3>1 DEF VersionInv, FilesExist, NothingLeaks
  <2>19. RestoredStands' BY <1>1, <2>9, <2>13, RestoredStays
  <2>20. ProcessingEnds' BY <1>1, <1>3, <2>9, <2>11, ProcessingStays
  <2> QED BY <2>8, <2>13, <2>14, <2>15, <2>16, <2>17, <2>18, <2>19, <2>20, EditingKeeps
<1> QED BY <1>2, <1>3

\* Only what is left behind is added to the history.
LEMMA Leaving ==
    ASSUME VersionInv, NEW more \in SUBSET Nat, versionPast' = Unnamed(more)
    PROVE  /\ versionPast' \in [left : SUBSET Nat, doomed : Nat, restored : Nat, unqueued : BOOLEAN]
           /\ versionPast'.left = versionPast.left \cup more /\ versionPast'.doomed = versionPast.doomed
           /\ versionPast'.restored = versionPast.restored /\ versionPast'.unqueued = versionPast.unqueued
<1>1. versionPast \in [left : SUBSET Nat, doomed : Nat, restored : Nat, unqueued : BOOLEAN] BY VersionFacts
<1>2. versionPast' = [versionPast EXCEPT !.left = versionPast.left \cup more] BY DEF Unnamed
<1> QED BY <1>1, <1>2

LEMMA SaveRestoredKeeps ==
    ASSUME VersionInv, NEW t \in VersionEditors, SaveRestored(t)
    PROVE  VersionInv'
<1>1. /\ editors[t].step = "save" /\ versions' = versions /\ objects' = objects
      /\ EditRequest(t, NotEditing) /\ NotEditing \in EditStep /\ NotEditing.step = "idle"
      /\ rendered' = rendered /\ jobs' = jobs /\ runner' = runner
  BY DEF SaveRestored, EditStep, NotEditing
<1>2. CASE ~Uploaded
  <2>1. medium' = medium /\ versionPast' = versionPast BY <1>2 DEF SaveRestored
  <2> QED BY <1>1, <2>1, StopKeeps
<1>3. CASE Uploaded
  <2>1. PICK q : q = editors[t] OBVIOUS
  <2>2. q \in EditStep /\ q.step = "save" /\ EditorTrue(t) BY <1>1, <2>1, VersionFacts
  <2>3. q.kind = "restore" /\ q.file \in ObjectName /\ q.thumb \in Nat /\ q.of \in Nat /\ q.final \in BOOLEAN
    BY <2>2, FieldsOfStep
  <2>4. Restoring(q) BY <2>1, <2>2, <2>3 DEF EditorTrue
  <2>5. medium \in MediumRow /\ medium.file \in ObjectName /\ medium.thumb \in Nat BY <1>3, VersionFacts
  <2>6. medium' = [medium EXCEPT !.file = q.file, !.thumb = q.thumb]
    BY <1>3, <2>1 DEF SaveRestored, Restored
  <2>7. /\ medium' \in MediumRow /\ medium'.file = q.file /\ medium'.thumb = q.thumb
        /\ medium'.current = medium.current /\ medium'.status = medium.status
    BY <2>3, <2>5, <2>6 DEF MediumRow
  <2>8. Uploaded' BY <2>7, NoMediumIsNone DEF Uploaded
  <2>9. PICK of \in Nat : of = IF q.final THEN q.of ELSE Original BY <2>3 DEF Original
  <2>10. versionPast' = [[versionPast EXCEPT !.left = versionPast.left \cup {medium.file, medium.thumb}]
                          EXCEPT !.restored = of]
    BY <1>3, <2>1, <2>9 DEF SaveRestored, Unnamed
  <2>11. /\ versionPast' \in [left : SUBSET Nat, doomed : Nat, restored : Nat, unqueued : BOOLEAN]
         /\ versionPast'.left = versionPast.left \cup {medium.file, medium.thumb}
         /\ versionPast'.doomed = versionPast.doomed
         /\ versionPast'.restored = of /\ versionPast'.unqueued = versionPast.unqueued
    <3>1. {medium.file, medium.thumb} \subseteq Nat BY <2>5 DEF ObjectName
    <3> QED BY <2>10, <3>1, VersionFacts
  <2>12. /\ editors' \in [VersionEditors -> EditStep] /\ editors'[t] = NotEditing
         /\ \A u \in VersionEditors : u # t => editors'[u] = editors[u]
    BY <1>1, EditorSet
  <2>13. \A n : FileSettled(n) => FileSettled(n)' BY <1>1, SettledStays
  <2>14. {q.file, q.thumb} \subseteq FilesOf(versions) \cup versionPast.left \cup {NoThumb}
    BY <1>3, <2>4 DEF Restoring
  <2>15. Gently
    <3>1. \A x \in {medium'.file, medium'.thumb} :
             x \in FilesOf(versions') \/ x \in versionPast'.left \/ x = NoThumb
      BY <1>1, <2>7, <2>11, <2>14
    <3> QED BY <1>1, <1>3, <2>8, <2>11, <2>13, <3>1, VersionFacts DEF Gently
  <2>16. RunnerTrue' BY <1>1, <2>15, RunnerStands
  <2>17. EditorTrue(t)' BY <1>1, <2>12 DEF EditorTrue, Numbered
  <2>18. VersionTypes' BY <1>1, <2>7, <2>11, <2>12 DEF VersionInv, VersionTypes
  <2>19. RowsTogether' BY <1>1, <1>3, <2>7, <2>8, <2>11 DEF VersionInv, RowsTogether
  <2>20. FilesExist'
    <3>1. versionPast.doomed = 0 => {q.file, q.thumb} \subseteq objects \cup {NoThumb} BY <2>4 DEF Restoring
    <3>2. versionPast.doomed = 0 => FilesOf(versions) \subseteq objects \cup {NoThumb}
      BY <1>3, NamedIs DEF VersionInv, FilesExist
    <3> QED BY <1>1, <2>7, <2>8, <2>11, <3>1, <3>2, NamedThen DEF FilesExist
  <2>21. NothingLeaks'
    <3>1. objects \subseteq {medium.file, medium.thumb} \cup FilesOf(versions) \cup versionPast.left
      BY <1>3, NamedIs DEF VersionInv, NothingLeaks
    <3>2. NoThumb \notin objects BY DEF VersionInv, VersionTypes, NoThumb
    <3> QED BY <1>1, <2>8, <2>11, <3>1, <3>2, NamedThen DEF NothingLeaks
  <2>22. RestoredStands'
    <3>1. CASE q.final
      <4>1. of = q.of BY <2>9, <3>1
      <4>2. FileSettled(of) /\ versions[of].file = q.file BY <1>3, <2>4, <3>1, <4>1 DEF Restoring
      <4>3. FileSettled(of)' BY <2>13, <4>2
      <4>4. FileSettled(versionPast.restored)' BY <2>11, <4>3 DEF FileSettled
      <4> QED BY <1>1, <2>7, <2>11, <4>2, <4>4 DEF RestoredStands
    <3>2. CASE ~q.final
      <4>1. versionPast'.restored = Original BY <2>9, <2>11, <3>2
      <4> QED BY <4>1 DEF RestoredStands
    <3> QED BY <2>3, <3>1, <3>2
  <2>23. ProcessingEnds' BY <1>1, <1>3, <2>7, <2>11, <2>12, ProcessingStays
  <2> QED BY <1>1, <2>15, <2>16, <2>17, <2>18, <2>19, <2>20, <2>21, <2>22, <2>23, EditingKeeps
<1> QED BY <1>2, <1>3

\* What is stored has a name that is later than any deletion.
LEMMA ObjectsStored ==
    ASSUME VersionInv, NEW more \in {{}, {NewObject}}, Store(more)
    PROVE  /\ objects' = objects \cup more /\ rendered' \in Nat /\ rendered <= rendered'
           /\ objects' \in SUBSET (1..rendered') /\ more \subseteq Nat
           /\ \A x \in more : x > versionPast.doomed /\ x # NoThumb
<1>1. Cardinality(more) \in {0, 1} /\ (more = {NewObject} => Cardinality(more) = 1)
  BY FS_EmptySet, FS_Singleton
<1>2. rendered \in Nat /\ objects \in SUBSET (1..rendered) /\ versionPast.doomed <= rendered /\ versionPast.doomed \in Nat
  BY VersionFacts DEF VersionInv, VersionTypes
<1>3. rendered' = rendered + Cardinality(more) /\ objects' = objects \cup more BY DEF Store
<1>4. more \subseteq {rendered + 1} /\ (more # {} => rendered' = rendered + 1)
  BY <1>1, <1>3 DEF NewObject
<1>5. rendered' \in Nat /\ rendered <= rendered' BY <1>1, <1>2, <1>3
<1>6. objects' \in SUBSET (1..rendered')
  <2>1. 1..rendered \subseteq 1..rendered' BY <1>2, <1>5
  <2>2. more \subseteq 1..rendered' BY <1>2, <1>4, <1>5
  <2> QED BY <1>2, <1>3, <2>1, <2>2
<1>7. \A x \in more : x > versionPast.doomed /\ x # NoThumb /\ x \in Nat
  <2> TAKE x \in more
  <2>1. x = rendered + 1 BY <1>4
  <2> QED BY <1>2, <2>1 DEF NoThumb
<1> QED BY <1>3, <1>5, <1>6, <1>7

\* The thumbnail saved is the one made, or the one there was.
LEMMA ThumbIs ==
    ASSUME NEW thumb \in {{}, {NewObject}}, NEW old
    PROVE  /\ thumb \subseteq {ThumbOr(thumb, old)} /\ ThumbOr(thumb, old) \in thumb \cup {old}
  BY DEF ThumbOr

\* What the worker stores and saves: no file of the medium, and of the versions only that of a
\* version whose task is queued.
LEMMA WorkKeeps ==
    ASSUME VersionInv, editors' = editors, jobs' \subseteq jobs,
           objects \subseteq objects', objects' \in SUBSET (1..rendered'), rendered' \in Nat,
           rendered <= rendered', \A x \in objects' : x \in objects \/ x > versionPast.doomed,
           versionPast' \in [left : SUBSET Nat, doomed : Nat, restored : Nat, unqueued : BOOLEAN],
           versionPast.left \subseteq versionPast'.left, versionPast'.doomed = versionPast.doomed,
           versionPast'.restored = versionPast.restored,
           versions' \in Seq(VersionRow), Len(versions') = Len(versions),
           medium' \in MediumRow \cup {NoMedium}, Uploaded' <=> Uploaded,
           ~Uploaded => versions' = <<>>,
           Uploaded =>
             /\ medium'.file = medium.file /\ medium'.current = medium.current
             /\ \A n \in DOMAIN versions : n \notin jobs => versions'[n].file = versions[n].file
             /\ FilesOf(versions) \subseteq FilesOf(versions') \cup versionPast'.left
             /\ \/ medium'.thumb \in {medium.thumb, NoThumb} \cup FilesOf(versions') \cup versionPast'.left
                \/ medium'.thumb > versionPast.doomed
             /\ \A x \in FilesOf(versions') :
                   x \in FilesOf(versions) \cup {NoThumb} \/ x > versionPast.doomed
             /\ versionPast.doomed = 0 =>
                   {medium'.thumb} \cup FilesOf(versions') \subseteq objects' \cup {NoThumb},
           NothingLeaks', runner' \in RunStep, RunnerTrue', ProcessingEnds'
    PROVE  VersionInv'
<1>1. DOMAIN versions' = DOMAIN versions
  <2>1. DOMAIN versions = 1..Len(versions) /\ DOMAIN versions' = 1..Len(versions') BY VersionFacts
  <2> QED BY <2>1
<1>2. ASSUME Uploaded, NEW n, FileSettled(n) PROVE FileSettled(n)' /\ versions'[n].file = versions[n].file
  BY <1>1, <1>2 DEF FileSettled
<1>3. Gently
  <2>1. versions' \in Seq(VersionRow) /\ (Uploaded' => Uploaded /\ Len(versions) <= Len(versions'))
        /\ versionPast.left \subseteq versionPast'.left
    BY VersionFacts
  <2>2. versionPast.doomed # 0 => /\ versionPast'.doomed = versionPast.doomed
                                  /\ \A x \in objects' : x \in objects \/ x > versionPast.doomed
    OBVIOUS
  <2>3. ASSUME Uploaded'
        PROVE  /\ FilesOf(versions) \subseteq FilesOf(versions') \cup versionPast'.left
               /\ medium.file \in {medium'.file} \cup FilesOf(versions') \cup versionPast'.left
               /\ \A n : FileSettled(n) => FileSettled(n)' /\ versions'[n].file = versions[n].file
    BY <1>2, <2>3
  <2>4. ASSUME Uploaded', versionPast.doomed # 0
        PROVE  \A x \in {medium'.file, medium'.thumb} :
                    \/ x \in {medium.file, medium.thumb} \cup FilesOf(versions')
                    \/ x \in versionPast'.left \/ x > versionPast.doomed \/ x = NoThumb
    BY <2>4
  <2>5. ASSUME Uploaded', versionPast.doomed # 0
        PROVE  \A x \in FilesOf(versions') :
                    \/ x \in FilesOf(versions) \cup {medium.file}
                    \/ x \in versionPast'.left \/ x > versionPast.doomed \/ x = NoThumb
    BY <2>5
  <2> QED BY <2>1, <2>2, <2>3, <2>4, <2>5 DEF Gently
<1>4. VersionTypes' BY DEF VersionInv, VersionTypes
<1>5. RowsTogether'
  <2>1. rendered # 0 => rendered' # 0 BY VersionFacts
  <2>2. versionPast'.doomed <= rendered' BY VersionFacts
  <2> QED BY <2>1, <2>2 DEF VersionInv, RowsTogether
<1>6. FilesExist'
  <2> SUFFICES ASSUME versionPast'.doomed = 0 PROVE Named' \subseteq objects'
    BY DEF FilesExist
  <2>1. CASE Uploaded
    <3>1. medium.file \in objects
      <4>1. medium.file \in Named BY <2>1, NamedIs, VersionFacts DEF ObjectName
      <4> QED BY <4>1 DEF VersionInv, FilesExist
    <3> QED BY <2>1, <3>1, NamedThen
  <2>2. CASE ~Uploaded
    <3>1. FilesOf(versions') = {} BY <2>2 DEF FilesOf
    <3> QED BY <2>2, <3>1, NamedThen
  <2> QED BY <2>1, <2>2
<1>7. RestoredStands' BY <1>3, RestoredStays
<1> QED BY <1>3, <1>4, <1>5, <1>6, <1>7, RunningKeeps

LEMMA SaveProcessedKeeps ==
    ASSUME VersionInv, NEW thumb \in {{}, {NewObject}}, SaveProcessed(thumb)
    PROVE  VersionInv'
<1>1. /\ runner # NoRun /\ runner.step = "thumbnail" /\ Store(thumb)
      /\ versions' = versions /\ editors' = editors /\ runner' = NoRun /\ NoRun \in RunStep
      /\ jobs' \subseteq jobs
  BY DEF SaveProcessed, TaskEnds, RunStep
<1>2. /\ objects' = objects \cup thumb /\ rendered' \in Nat /\ rendered <= rendered'
      /\ objects' \in SUBSET (1..rendered') /\ thumb \subseteq Nat
      /\ \A x \in thumb : x > versionPast.doomed /\ x # NoThumb
  BY <1>1, ObjectsStored
<1>3. RunnerTrue' BY <1>1 DEF RunnerTrue
<1>4. versions \in Seq(VersionRow) BY VersionFacts
<1>5. \A x \in objects' : x \in objects \/ x > versionPast.doomed BY <1>2
<1>6. objects \subseteq objects' BY <1>2
<1>7. CASE Uploaded
  <2>1. PICK new : new = ThumbOr(thumb, medium.thumb) OBVIOUS
  <2>2. thumb \subseteq {new} /\ new \in thumb \cup {medium.thumb} BY <2>1, ThumbIs
  <2>3. medium \in MediumRow /\ medium.file \in ObjectName /\ medium.thumb \in Nat BY <1>7, VersionFacts
  <2>4. new \in Nat BY <1>2, <2>2, <2>3
  <2>5. /\ medium' = [medium EXCEPT !.status = "completed", !.thumb = new]
        /\ versionPast' = Unnamed({medium.thumb})
    BY <1>7, <2>1 DEF SaveProcessed
  <2>6. /\ medium' \in MediumRow /\ medium'.file = medium.file /\ medium'.thumb = new
        /\ medium'.current = medium.current /\ medium'.status = "completed"
    BY <2>3, <2>4, <2>5 DEF MediumRow
  <2>7. Uploaded' BY <2>6, NoMediumIsNone DEF Uploaded
  <2>8. /\ versionPast' \in [left : SUBSET Nat, doomed : Nat, restored : Nat, unqueued : BOOLEAN]
        /\ versionPast'.left = versionPast.left \cup {medium.thumb} /\ versionPast'.doomed = versionPast.doomed
        /\ versionPast'.restored = versionPast.restored
    BY <2>3, <2>5, Leaving
  <2>9. ProcessingEnds' BY <2>6 DEF ProcessingEnds
  <2>10. \/ medium'.thumb \in {medium.thumb, NoThumb} \cup FilesOf(versions') \cup versionPast'.left
         \/ medium'.thumb > versionPast.doomed
    BY <1>2, <2>2, <2>6
  <2>11. versionPast.doomed = 0 =>
                   {medium'.thumb} \cup FilesOf(versions') \subseteq objects' \cup {NoThumb}
    <3>1. versionPast.doomed = 0 => {medium.thumb} \cup FilesOf(versions) \subseteq objects \cup {NoThumb}
      BY <1>7, NamedIs DEF VersionInv, FilesExist
    <3> QED BY <1>1, <1>2, <2>2, <2>6, <3>1
  <2>12. NothingLeaks'
    <3>1. objects \subseteq {medium.file, medium.thumb} \cup FilesOf(versions) \cup versionPast.left
      BY <1>7, NamedIs DEF VersionInv, NothingLeaks
    <3>2. NoThumb \notin objects' BY <1>2 DEF NoThumb
    <3> QED BY <1>1, <1>2, <2>2, <2>6, <2>7, <2>8, <3>1, <3>2, NamedThen DEF NothingLeaks
  <2>13. versionPast.left \subseteq versionPast'.left BY <2>8
  <2> QED BY <1>1, <1>2, <1>3, <1>4, <1>5, <1>6, <1>7, <2>6, <2>7, <2>8, <2>9, <2>10, <2>11, <2>12, <2>13, WorkKeeps
<1>8. CASE ~Uploaded
  <2>1. medium' = medium /\ jobs' = jobs /\ versionPast' = Unnamed(thumb) BY <1>8 DEF SaveProcessed
  <2>2. /\ versionPast' \in [left : SUBSET Nat, doomed : Nat, restored : Nat, unqueued : BOOLEAN]
        /\ versionPast'.left = versionPast.left \cup thumb /\ versionPast'.doomed = versionPast.doomed
        /\ versionPast'.restored = versionPast.restored
    BY <1>2, <2>1, Leaving
  <2>3. ~Uploaded' /\ versions' = <<>> BY <1>1, <1>8, <2>1, VersionFacts DEF Uploaded
  <2>4. ProcessingEnds' BY <2>3 DEF ProcessingEnds
  <2>5. NothingLeaks'
    <3>1. objects \subseteq versionPast.left BY <1>8, NamedIs DEF VersionInv, NothingLeaks
    <3> QED BY <1>2, <2>2, <3>1 DEF NothingLeaks
  <2>6. medium \in MediumRow \cup {NoMedium} BY DEF VersionInv, VersionTypes
  <2>7. versionPast.left \subseteq versionPast'.left BY <2>2
  <2> QED BY <1>1, <1>2, <1>3, <1>4, <1>5, <1>6, <1>8, <2>1, <2>2, <2>3, <2>4, <2>5, <2>6, <2>7, WorkKeeps
<1> QED BY <1>7, <1>8

\* The rows are gone, or the version is not there: what was made is left behind.
LEMMA WorkLost ==
    ASSUME VersionInv, NEW more \in {{}, {NewObject}}, Store(more), versionPast' = Unnamed(more),
           runner # NoRun, runner.step # "thumbnail", TaskEnds, versions' = versions,
           medium' = medium, editors' = editors
    PROVE  VersionInv'
<1>1. runner' = NoRun /\ jobs' = jobs \ {runner.job} /\ NoRun \in RunStep BY DEF TaskEnds, RunStep
<1>2. /\ objects' = objects \cup more /\ rendered' \in Nat /\ rendered <= rendered'
      /\ objects' \in SUBSET (1..rendered') /\ more \subseteq Nat
      /\ \A x \in more : x > versionPast.doomed /\ x # NoThumb
  BY ObjectsStored
<1>3. /\ versionPast' \in [left : SUBSET Nat, doomed : Nat, restored : Nat, unqueued : BOOLEAN]
      /\ versionPast'.left = versionPast.left \cup more /\ versionPast'.doomed = versionPast.doomed
      /\ versionPast'.restored = versionPast.restored /\ versionPast'.unqueued = versionPast.unqueued
  BY <1>2, Leaving
<1>4. Uploaded' <=> Uploaded BY DEF Uploaded
<1>5. RunnerTrue' BY <1>1 DEF RunnerTrue
<1>6. runner.job # Process BY DEF VersionInv, RunnerTrue
<1>7. ProcessingEnds' BY <1>1, <1>3, <1>4, <1>6, ProcessingStays
<1>8. NothingLeaks'
  <2>1. Named' = Named BY DEF Named, Uploaded, VersionFiles
  <2> QED BY <1>2, <1>3, <2>1 DEF VersionInv, NothingLeaks
<1>9. medium \in MediumRow \cup {NoMedium} BY DEF VersionInv, VersionTypes
<1>10. versionPast.left \subseteq versionPast'.left /\ objects \subseteq objects' /\ jobs' \subseteq jobs
       /\ \A x \in objects' : x \in objects \/ x > versionPast.doomed
  BY <1>1, <1>2, <1>3
<1>11. Uploaded /\ versionPast.doomed = 0 => {medium.thumb} \cup FilesOf(versions) \subseteq objects' \cup {NoThumb}
  BY <1>2, NamedIs DEF VersionInv, FilesExist
<1>12. versions \in Seq(VersionRow) /\ (~Uploaded => versions = <<>>) BY VersionFacts
<1>13. Uploaded =>
             /\ medium'.file = medium.file /\ medium'.current = medium.current
             /\ \A n \in DOMAIN versions : n \notin jobs => versions'[n].file = versions[n].file
             /\ FilesOf(versions) \subseteq FilesOf(versions') \cup versionPast'.left
             /\ \/ medium'.thumb \in {medium.thumb, NoThumb} \cup FilesOf(versions') \cup versionPast'.left
                \/ medium'.thumb > versionPast.doomed
             /\ \A x \in FilesOf(versions') :
                   x \in FilesOf(versions) \cup {NoThumb} \/ x > versionPast.doomed
             /\ versionPast.doomed = 0 =>
                   {medium'.thumb} \cup FilesOf(versions') \subseteq objects' \cup {NoThumb}
  BY <1>11
<1> QED BY <1>1, <1>2, <1>3, <1>4, <1>5, <1>7, <1>8, <1>9, <1>10, <1>12, <1>13, WorkKeeps

\* One version gets another row.
LEMMA RowReplaced ==
    ASSUME VersionInv, NEW n \in DOMAIN versions, NEW row \in VersionRow,
           versions' = [versions EXCEPT ![n] = row]
    PROVE  /\ versions' \in Seq(VersionRow) /\ Len(versions') = Len(versions) /\ versions'[n] = row
           /\ \A m \in DOMAIN versions : m # n => versions'[m] = versions[m]
           /\ {row.file, row.thumb} \subseteq FilesOf(versions')
           /\ FilesOf(versions') \subseteq FilesOf(versions) \cup {row.file, row.thumb}
           /\ FilesOf(versions) \subseteq FilesOf(versions') \cup {versions[n].file, versions[n].thumb}
<1>1. versions \in Seq(VersionRow) /\ DOMAIN versions = 1..Len(versions) /\ Len(versions) \in Nat BY VersionFacts
<1>2. versions' \in Seq(VersionRow) /\ Len(versions') = Len(versions) BY <1>1
<1>3. versions'[n] = row /\ DOMAIN versions' = DOMAIN versions
      /\ \A m \in DOMAIN versions : m # n => versions'[m] = versions[m]
  BY <1>1
<1>4. {row.file, row.thumb} \subseteq FilesOf(versions') BY <1>3 DEF FilesOf
<1>5. FilesOf(versions') \subseteq FilesOf(versions) \cup {row.file, row.thumb}
  <2>1. ASSUME NEW m \in DOMAIN versions', NEW x \in {versions'[m].file, versions'[m].thumb}
        PROVE  x \in FilesOf(versions) \cup {row.file, row.thumb}
    <3>1. CASE m = n BY <1>3, <2>1, <3>1
    <3>2. CASE m # n BY <1>3, <2>1, <3>2 DEF FilesOf
    <3> QED BY <3>1, <3>2
  <2> QED BY <2>1 DEF FilesOf
<1>6. FilesOf(versions) \subseteq FilesOf(versions') \cup {versions[n].file, versions[n].thumb}
  <2>1. ASSUME NEW m \in DOMAIN versions, NEW x \in {versions[m].file, versions[m].thumb}
        PROVE  x \in FilesOf(versions') \cup {versions[n].file, versions[n].thumb}
    <3>1. CASE m = n BY <2>1, <3>1
    <3>2. CASE m # n BY <1>3, <2>1, <3>2 DEF FilesOf
    <3> QED BY <3>1, <3>2
  <2> QED BY <2>1 DEF FilesOf
<1> QED BY <1>2, <1>3, <1>4, <1>5, <1>6

\* A file or a thumbnail of the version whose task is under way is replaced by what was made.
LEMMA VersionSavedKeeps ==
    ASSUME VersionInv, NEW more \in {{}, {NewObject}}, Store(more),
           runner # NoRun, HasRows(runner.job), runner.job # Process, runner.job \in jobs,
           NEW row \in VersionRow, versions' = [versions EXCEPT ![runner.job] = row],
           NEW lost \in SUBSET Nat, versionPast' = Unnamed(lost),
           {versions[runner.job].file, versions[runner.job].thumb}
              \subseteq {row.file, row.thumb} \cup lost,
           more \subseteq {row.file, row.thumb},
           {row.file, row.thumb} \subseteq more \cup {versions[runner.job].file, versions[runner.job].thumb},
           editors' = editors, medium' = medium, jobs' = jobs, runner' \in RunStep, runner' # NoRun,
           runner'.job = runner.job, runner'.step # "thumbnail",
           runner'.step = "asset" => runner'.thumb = row.thumb
    PROVE  VersionInv'
<1>1. Uploaded /\ Uploaded' /\ runner.job \in DOMAIN versions BY DEF HasRows, Uploaded
<1>2. PICK n \in DOMAIN versions : n = runner.job BY <1>1
<1>3. /\ versions' \in Seq(VersionRow) /\ Len(versions') = Len(versions) /\ versions'[n] = row
      /\ \A m \in DOMAIN versions : m # n => versions'[m] = versions[m]
      /\ {row.file, row.thumb} \subseteq FilesOf(versions')
      /\ FilesOf(versions') \subseteq FilesOf(versions) \cup {row.file, row.thumb}
      /\ FilesOf(versions) \subseteq FilesOf(versions') \cup {versions[n].file, versions[n].thumb}
  <2>1. versions' = [versions EXCEPT ![n] = row] BY <1>2
  <2> QED BY <2>1, RowReplaced
<1>4. /\ objects' = objects \cup more /\ rendered' \in Nat /\ rendered <= rendered'
      /\ objects' \in SUBSET (1..rendered') /\ more \subseteq Nat
      /\ \A x \in more : x > versionPast.doomed /\ x # NoThumb
  BY ObjectsStored
<1>5. /\ versionPast' \in [left : SUBSET Nat, doomed : Nat, restored : Nat, unqueued : BOOLEAN]
      /\ versionPast'.left = versionPast.left \cup lost /\ versionPast'.doomed = versionPast.doomed
      /\ versionPast'.restored = versionPast.restored /\ versionPast'.unqueued = versionPast.unqueued
  BY Leaving
<1>6. {versions[n].file, versions[n].thumb} \subseteq FilesOf(versions) /\ medium \in MediumRow
  BY <1>1, FilesIn, VersionFacts DEF VersionInv
<1>7. {row.file, row.thumb} \subseteq more \cup FilesOf(versions) BY <1>2, <1>6
<1>8. FilesOf(versions) \subseteq FilesOf(versions') \cup versionPast'.left
  <2>1. {versions[n].file, versions[n].thumb} \subseteq {row.file, row.thumb} \cup lost BY <1>2
  <2>2. FilesOf(versions) \subseteq FilesOf(versions') \cup {versions[n].file, versions[n].thumb} BY <1>3
  <2>3. {row.file, row.thumb} \subseteq FilesOf(versions') BY <1>3
  <2>4. lost \subseteq versionPast'.left BY <1>5
  <2>5. \A x \in {versions[n].file, versions[n].thumb} : x \in FilesOf(versions') \cup versionPast'.left
    BY <2>1, <2>3, <2>4
  <2> QED BY <2>2, <2>5
<1>9. \A x \in FilesOf(versions') : x \in FilesOf(versions) \cup {NoThumb} \/ x > versionPast.doomed
  BY <1>3, <1>4, <1>7
<1>10. versionPast.doomed = 0 => {medium.thumb} \cup FilesOf(versions') \subseteq objects' \cup {NoThumb}
  <2>1. versionPast.doomed = 0 => {medium.thumb} \cup FilesOf(versions) \subseteq objects \cup {NoThumb}
    BY <1>1, NamedIs DEF VersionInv, FilesExist
  <2>2. FilesOf(versions') \subseteq FilesOf(versions) \cup more BY <1>3, <1>7
  <2>3. more \subseteq objects' /\ objects \subseteq objects' BY <1>4
  <2> QED BY <2>1, <2>2, <2>3
<1>11. \A m \in DOMAIN versions : m \notin jobs => versions'[m].file = versions[m].file
  BY <1>2, <1>3
<1>12. NothingLeaks'
  <2>1. objects \subseteq {medium.file, medium.thumb} \cup FilesOf(versions) \cup versionPast.left
    BY <1>1, NamedIs DEF VersionInv, NothingLeaks
  <2>2. NoThumb \notin objects' BY <1>4 DEF NoThumb
  <2>3. objects' \subseteq {medium.file, medium.thumb} \cup FilesOf(versions') \cup versionPast'.left
    <3>1. more \subseteq FilesOf(versions')
      <4>1. {row.file, row.thumb} \subseteq FilesOf(versions') BY <1>3
      <4> QED BY <4>1
    <3>2. versionPast.left \subseteq versionPast'.left /\ objects' = objects \cup more BY <1>4, <1>5
    <3> QED BY <1>8, <2>1, <3>1, <3>2
  <2> QED BY <1>1, <2>2, <2>3, NamedThen DEF NothingLeaks
<1>13. ProcessingEnds' BY <1>1, <1>5, ProcessingStays
<1>14. RunnerTrue'
  <2>1. runner'.step = "asset" =>
             /\ versionPast'.doomed = 0 => runner'.thumb \in objects' \cup {NoThumb}
             /\ runner'.thumb \in FilesOf(versions')
    BY <1>3, <1>5, <1>10
  <2> QED BY <2>1 DEF RunnerTrue
<1>15. versionPast.left \subseteq versionPast'.left /\ objects \subseteq objects' /\ jobs' \subseteq jobs
       /\ \A x \in objects' : x \in objects \/ x > versionPast.doomed
  BY <1>4, <1>5
<1>16. Uploaded =>
             /\ medium'.file = medium.file /\ medium'.current = medium.current
             /\ \A m \in DOMAIN versions : m \notin jobs => versions'[m].file = versions[m].file
             /\ FilesOf(versions) \subseteq FilesOf(versions') \cup versionPast'.left
             /\ \/ medium'.thumb \in {medium.thumb, NoThumb} \cup FilesOf(versions') \cup versionPast'.left
                \/ medium'.thumb > versionPast.doomed
             /\ \A x \in FilesOf(versions') :
                   x \in FilesOf(versions) \cup {NoThumb} \/ x > versionPast.doomed
             /\ versionPast.doomed = 0 =>
                   {medium'.thumb} \cup FilesOf(versions') \subseteq objects' \cup {NoThumb}
  BY <1>8, <1>9, <1>10, <1>11
<1> QED BY <1>1, <1>3, <1>4, <1>5, <1>6, <1>12, <1>13, <1>14, <1>15, <1>16, WorkKeeps

LEMMA SaveVersionFileKeeps ==
    ASSUME VersionInv, SaveVersionFile
    PROVE  VersionInv'
<1>1. /\ runner # NoRun /\ runner.step = "file" /\ Store({NewObject})
      /\ medium' = medium /\ editors' = editors
  BY DEF SaveVersionFile
<1>2. runner.job \in jobs /\ runner.job # Process /\ runner \in RunStep
  BY <1>1 DEF VersionInv, VersionTypes, RunnerTrue
<1>3. CASE ~HasRows(runner.job)
  <2>1. versionPast' = Unnamed({NewObject}) /\ TaskEnds /\ versions' = versions
    BY <1>3 DEF SaveVersionFile
  <2>2. PICK more \in {{}, {NewObject}} : more = {NewObject} OBVIOUS
  <2> QED BY <1>1, <2>1, <2>2, WorkLost
<1>4. CASE HasRows(runner.job)
  <2>1. PICK n \in DOMAIN versions : n = runner.job BY <1>2, <1>4 DEF HasRows
  <2>2. versions[n] \in VersionRow /\ versions[n].file \in ObjectName /\ versions[n].thumb \in Nat
    BY FilesIn DEF VersionInv, VersionRow
  <2>3. NewObject \in ObjectName BY VersionFacts DEF NewObject, ObjectName, NoThumb
  <2>4. PICK row \in VersionRow : /\ row = [versions[n] EXCEPT !.file = NewObject]
                                  /\ row.file = NewObject /\ row.thumb = versions[n].thumb
    <3>1. [versions[n] EXCEPT !.file = NewObject] \in VersionRow BY <2>2, <2>3 DEF VersionRow
    <3> QED BY <2>2, <3>1 DEF VersionRow
  <2>5. versions' = [versions EXCEPT ![runner.job] = row] BY <1>4, <2>1, <2>4 DEF SaveVersionFile
  <2>6. versionPast' = Unnamed({versions[n].file}) /\ jobs' = jobs
        /\ runner' = [runner EXCEPT !.step = "version thumbnail"]
    BY <1>4, <2>1 DEF SaveVersionFile
  <2>7. runner \in [job : Nat, step : {"thumbnail", "file", "version thumbnail"}]
    BY <1>1, <1>2 DEF RunStep
  <2>8. runner' \in [job : Nat, step : {"thumbnail", "file", "version thumbnail"}]
        /\ runner'.job = runner.job /\ runner'.step = "version thumbnail"
    BY <2>6, <2>7
  <2>9. runner' # NoRun
    <3>1. NoRun.job = -1 BY DEF NoRun
    <3>2. runner'.job \in Nat BY <2>8
    <3> QED BY <3>1, <3>2
  <2>10. runner' \in RunStep BY <2>8 DEF RunStep
  <2>11. PICK lost \in SUBSET Nat : lost = {versions[n].file} BY <2>2 DEF ObjectName
  <2>12. PICK more \in {{}, {NewObject}} : more = {NewObject} OBVIOUS
  <2>13. /\ {versions[runner.job].file, versions[runner.job].thumb} \subseteq {row.file, row.thumb} \cup lost
         /\ more \subseteq {row.file, row.thumb}
         /\ {row.file, row.thumb} \subseteq more \cup {versions[runner.job].file, versions[runner.job].thumb}
    BY <2>1, <2>4, <2>11, <2>12
  <2> QED BY <1>1, <1>2, <1>4, <2>5, <2>6, <2>8, <2>9, <2>10, <2>11, <2>12, <2>13, VersionSavedKeeps
<1> QED BY <1>3, <1>4

LEMMA SaveVersionThumbKeeps ==
    ASSUME VersionInv, NEW thumb \in {{}, {NewObject}}, SaveVersionThumb(thumb)
    PROVE  VersionInv'
<1>1. /\ runner # NoRun /\ runner.step = "version thumbnail" /\ Store(thumb)
      /\ medium' = medium /\ editors' = editors
  BY DEF SaveVersionThumb
<1>2. runner.job \in jobs /\ runner.job # Process /\ runner \in RunStep
  BY <1>1 DEF VersionInv, VersionTypes, RunnerTrue
<1>3. CASE ~HasRows(runner.job)
  <2>1. versionPast' = Unnamed(thumb) /\ TaskEnds /\ versions' = versions
    BY <1>3 DEF SaveVersionThumb
  <2> QED BY <1>1, <2>1, WorkLost
<1>4. CASE HasRows(runner.job)
  <2>1. PICK n \in DOMAIN versions : n = runner.job BY <1>2, <1>4 DEF HasRows
  <2>2. versions[n] \in VersionRow /\ versions[n].file \in ObjectName /\ versions[n].thumb \in Nat
    BY FilesIn DEF VersionInv, VersionRow
  <2>3. PICK new : new = ThumbOr(thumb, versions[n].thumb) OBVIOUS
  <2>4. thumb \subseteq {new} /\ new \in thumb \cup {versions[n].thumb} BY <2>3, ThumbIs
  <2>5. new \in Nat BY <1>1, <2>2, <2>4, ObjectsStored
  <2>6. PICK row \in VersionRow : /\ row = [versions[n] EXCEPT !.thumb = new]
                                  /\ row.file = versions[n].file /\ row.thumb = new
    <3>1. [versions[n] EXCEPT !.thumb = new] \in VersionRow BY <2>2, <2>5 DEF VersionRow
    <3> QED BY <2>2, <3>1 DEF VersionRow
  <2>7. versions' = [versions EXCEPT ![runner.job] = row]
    BY <1>4, <2>1, <2>3, <2>6 DEF SaveVersionThumb
  <2>8. versions'[n] = row BY <2>1, <2>7
  <2>9. versionPast' = Unnamed({versions[n].thumb}) /\ jobs' = jobs
        /\ runner' = [job |-> n, step |-> "asset", thumb |-> versions'[n].thumb]
    BY <1>4, <2>1 DEF SaveVersionThumb
  <2>10. n \in Nat
    <3>1. DOMAIN versions = 1..Len(versions) BY VersionFacts
    <3> QED BY <3>1
  <2>11. runner' = [job |-> n, step |-> "asset", thumb |-> new] BY <2>6, <2>8, <2>9
  <2>12. runner' \in [job : Nat, step : {"asset"}, thumb : Nat] /\ runner'.job = runner.job
         /\ runner'.step = "asset" /\ runner'.thumb = row.thumb
    BY <2>1, <2>5, <2>6, <2>10, <2>11
  <2>13. runner' # NoRun
    <3>1. NoRun.job = -1 BY DEF NoRun
    <3> QED BY <2>11, <2>10, <3>1
  <2>14. runner' \in RunStep BY <2>12 DEF RunStep
  <2>15. PICK lost \in SUBSET Nat : lost = {versions[n].thumb} BY <2>2
  <2>16. /\ {versions[runner.job].file, versions[runner.job].thumb} \subseteq {row.file, row.thumb} \cup lost
         /\ thumb \subseteq {row.file, row.thumb}
         /\ {row.file, row.thumb} \subseteq thumb \cup {versions[runner.job].file, versions[runner.job].thumb}
    BY <2>1, <2>4, <2>6, <2>15
  <2> QED BY <1>1, <1>2, <1>4, <2>7, <2>9, <2>12, <2>13, <2>14, <2>15, <2>16, VersionSavedKeeps
<1> QED BY <1>3, <1>4

LEMMA SaveAssetThumbKeeps ==
    ASSUME VersionInv, SaveAssetThumb
    PROVE  VersionInv'
<1>1. /\ runner # NoRun /\ runner.step = "asset" /\ TaskEnds /\ runner' = NoRun
      /\ jobs' = jobs \ {runner.job} /\ NoRun \in RunStep
      /\ versions' = versions /\ objects' = objects /\ rendered' = rendered /\ editors' = editors
  BY DEF SaveAssetThumb, TaskEnds, RunStep
<1>2. runner.job \in jobs /\ runner.job # Process /\ runner \in RunStep
  BY <1>1 DEF VersionInv, VersionTypes, RunnerTrue
<1>3. runner.thumb \in Nat BY <1>1, <1>2 DEF RunStep
<1>4. RunnerTrue' BY <1>1 DEF RunnerTrue
<1>5. CASE ~Uploaded
  <2>1. medium' = medium /\ versionPast' = versionPast BY <1>5 DEF SaveAssetThumb
  <2>2. ~Uploaded' BY <1>5, <2>1 DEF Uploaded
  <2>3. ProcessingEnds' BY <2>2 DEF ProcessingEnds
  <2>4. medium \in MediumRow \cup {NoMedium} BY DEF VersionInv, VersionTypes
  <2>5. jobs' \subseteq jobs BY <1>1
  <2> QED BY <1>1, <1>4, <1>5, <2>1, <2>2, <2>3, <2>4, <2>5, QuietRunKeeps
<1>6. CASE Uploaded
  <2>1. medium \in MediumRow /\ medium.file \in ObjectName /\ medium.thumb \in Nat BY <1>6, VersionFacts
  <2>2. medium' = [medium EXCEPT !.thumb = runner.thumb] /\ versionPast' = Unnamed({medium.thumb})
    BY <1>6 DEF SaveAssetThumb
  <2>3. /\ medium' \in MediumRow /\ medium'.file = medium.file /\ medium'.thumb = runner.thumb
        /\ medium'.current = medium.current /\ medium'.status = medium.status
    BY <1>3, <2>1, <2>2 DEF MediumRow
  <2>4. Uploaded' BY <2>3, NoMediumIsNone DEF Uploaded
  <2>5. /\ versionPast' \in [left : SUBSET Nat, doomed : Nat, restored : Nat, unqueued : BOOLEAN]
        /\ versionPast'.left = versionPast.left \cup {medium.thumb} /\ versionPast'.doomed = versionPast.doomed
        /\ versionPast'.restored = versionPast.restored /\ versionPast'.unqueued = versionPast.unqueued
    BY <2>1, <2>2, Leaving
  <2>6. ProcessingEnds' BY <1>1, <1>2, <1>6, <2>3, <2>5, ProcessingStays
  <2>7. runner.thumb \in FilesOf(versions) \cup versionPast.left \cup {NoThumb}
        /\ (versionPast.doomed = 0 => runner.thumb \in objects \cup {NoThumb})
    BY <1>1, <1>6 DEF VersionInv, RunnerTrue
  <2>8. versionPast.doomed = 0 => {medium'.thumb} \cup FilesOf(versions') \subseteq objects' \cup {NoThumb}
    <3>1. versionPast.doomed = 0 => FilesOf(versions) \subseteq objects \cup {NoThumb}
      BY <1>6, NamedIs DEF VersionInv, FilesExist
    <3> QED BY <1>1, <2>3, <2>7, <3>1
  <2>9. NothingLeaks'
    <3>1. objects \subseteq {medium.file, medium.thumb} \cup FilesOf(versions) \cup versionPast.left
      BY <1>6, NamedIs DEF VersionInv, NothingLeaks
    <3>2. NoThumb \notin objects BY DEF VersionInv, VersionTypes, NoThumb
    <3> QED BY <1>1, <2>3, <2>4, <2>5, <3>1, <3>2, NamedThen DEF NothingLeaks
  <2>10. rendered \in Nat /\ objects \in SUBSET (1..rendered) /\ versions \in Seq(VersionRow)
    BY DEF VersionInv, VersionTypes
  <2>11. rendered <= rendered /\ versionPast.left \subseteq versionPast'.left /\ jobs' \subseteq jobs
    BY <1>1, <2>5, <2>10
  <2>12. medium'.thumb \in {medium.thumb, NoThumb} \cup FilesOf(versions') \cup versionPast'.left
    BY <1>1, <2>3, <2>5, <2>7
  <2>13. Uploaded =>
             /\ medium'.file = medium.file /\ medium'.current = medium.current
             /\ \A m \in DOMAIN versions : m \notin jobs => versions'[m].file = versions[m].file
             /\ FilesOf(versions) \subseteq FilesOf(versions') \cup versionPast'.left
             /\ \/ medium'.thumb \in {medium.thumb, NoThumb} \cup FilesOf(versions') \cup versionPast'.left
                \/ medium'.thumb > versionPast.doomed
             /\ \A x \in FilesOf(versions') :
                   x \in FilesOf(versions) \cup {NoThumb} \/ x > versionPast.doomed
             /\ versionPast.doomed = 0 =>
                   {medium'.thumb} \cup FilesOf(versions') \subseteq objects' \cup {NoThumb}
    BY <1>1, <2>3, <2>8, <2>12
  <2> QED BY <1>1, <1>4, <1>6, <2>3, <2>4, <2>5, <2>6, <2>9, <2>10, <2>11, <2>13, WorkKeeps
<1> QED BY <1>5, <1>6

\* Before the upload nobody has anything to do.
Untouched ==
    rendered = 0 =>
        /\ runner = NoRun /\ jobs = {} /\ \A t \in VersionEditors : editors[t] = NotEditing

MediumInv == VersionInv /\ Untouched

LEMMA CreateAssetKeeps ==
    ASSUME MediumInv, NEW t \in VersionEditors, NEW surface \in Surfaces, CreateAsset(t, surface)
    PROVE  VersionInv'
<1> USE DEF MediumInv
<1>1. /\ ~Uploaded /\ rendered = 0 /\ Store({NewObject})
      /\ medium' = [scope |-> surface, file |-> NewObject, thumb |-> NoThumb, current |-> Original,
                    status |-> "pending"]
      /\ versions' = versions /\ jobs' = jobs /\ runner' = runner /\ versionPast' = versionPast
  BY DEF CreateAsset
<1>2. /\ runner = NoRun /\ jobs = {} /\ \A u \in VersionEditors : editors[u] = NotEditing
      /\ NotEditing.step = "idle"
  BY <1>1 DEF Untouched, NotEditing
<1>3. PICK r \in EditStep : /\ r = [step |-> "queue", job |-> Process, number |-> Original]
                            /\ r.step = "queue" /\ r.job = 0 /\ r.number = 0
  <2>1. [step |-> "queue", job |-> 0, number |-> 0] \in [step : {"queue"}, job : Nat, number : Nat] OBVIOUS
  <2>2. [step |-> "queue", job |-> 0, number |-> 0] \in EditStep BY <2>1 DEF EditStep
  <2> QED BY <2>2 DEF Process, Original
<1>4. EditRequest(t, r) BY <1>3 DEF CreateAsset, BeginEditing
<1>5. /\ editors' \in [VersionEditors -> EditStep] /\ editors'[t] = r
      /\ \A u \in VersionEditors : u # t => editors'[u] = editors[u]
  BY <1>4, EditorSet
<1>6. PICK more \in {{}, {NewObject}} : more = {NewObject} OBVIOUS
<1>7. /\ objects' = objects \cup {NewObject} /\ rendered' \in Nat /\ rendered <= rendered'
      /\ objects' \in SUBSET (1..rendered') /\ NewObject = 1 /\ rendered' = 1
  <2>1. Cardinality({NewObject}) = 1 BY FS_Singleton
  <2> QED BY <1>1, <1>6, <2>1, ObjectsStored DEF NewObject, Store
<1>8. /\ medium' \in MediumRow /\ medium'.file = 1 /\ medium'.thumb = NoThumb /\ medium'.current = 0
  BY <1>1, <1>7 DEF MediumRow, ObjectName, NoThumb, Original
<1>9. Uploaded' BY <1>8, NoMediumIsNone DEF Uploaded
<1>10. versions = <<>> /\ versions' = <<>> /\ versionPast.doomed = 0 /\ versionPast.restored = Original
       /\ Len(versions') = 0 /\ DOMAIN versions' = {}
  <2>1. versions = <<>> /\ versionPast.doomed <= rendered /\ versionPast.doomed \in Nat BY <1>1, VersionFacts
  <2>2. Len(<<>>) = 0 /\ DOMAIN <<>> = {} OBVIOUS
  <2>3. versionPast.restored = Original BY <1>1 DEF VersionInv, RowsTogether
  <2> QED BY <1>1, <2>1, <2>2, <2>3
<1>11. VersionTypes' BY <1>1, <1>5, <1>7, <1>8 DEF VersionInv, VersionTypes
<1>12. RowsTogether'
  <2>1. medium'.current \in 0..Len(versions') BY <1>8, <1>10
  <2> QED BY <1>1, <1>7, <1>9, <1>10, <2>1 DEF RowsTogether
<1>13. ASSUME NEW u \in VersionEditors PROVE EditorTrue(u)'
  <2>1. CASE u = t
    <3>1. Numbered(r)'
      <4>1. 0 \in 0..MaxVersions /\ 0 \in 0..Len(versions') BY <1>10, VersionAssumption
      <4> QED BY <1>3, <4>1 DEF Numbered
    <3>2. EditorTrue(t)' BY <1>3, <1>5, <3>1 DEF EditorTrue
    <3> QED BY <2>1, <3>2
  <2>2. CASE u # t
    <3>1. editors'[u] = NotEditing BY <1>2, <1>5, <2>2
    <3> QED BY <1>2, <3>1 DEF EditorTrue, Numbered
  <2> QED BY <2>1, <2>2
<1>14. RunnerTrue' BY <1>1, <1>2 DEF RunnerTrue
<1>15. FilesOf(versions') = {} BY <1>10 DEF FilesOf
<1>16. FilesExist' BY <1>7, <1>8, <1>9, <1>15, NamedThen DEF FilesExist
<1>17. NothingLeaks'
  <2>1. objects = {} BY <1>1 DEF VersionInv, VersionTypes
  <2>2. Named' = {1} BY <1>8, <1>9, <1>15, NamedThen DEF NoThumb
  <2> QED BY <1>7, <2>1, <2>2 DEF NothingLeaks
<1>18. RestoredStands' BY <1>1, <1>10 DEF RestoredStands
<1>19. ProcessingEnds' BY <1>3, <1>5 DEF ProcessingEnds, Process
<1> QED BY <1>11, <1>12, <1>13, <1>14, <1>16, <1>17, <1>18, <1>19 DEF VersionInv

\* What has been stored once has been stored.
LEMMA NeverUntouchedAgain ==
    ASSUME VersionInv, VersionNext, rendered # 0
    PROVE  rendered' # 0
<1>1. ASSUME NEW more \in {{}, {NewObject}}, Store(more) PROVE rendered' # 0
  <2>1. rendered' \in Nat /\ rendered <= rendered' /\ rendered \in Nat BY <1>1, ObjectsStored, VersionFacts
  <2> QED BY <2>1
<1>2. {NewObject} \in {{}, {NewObject}} OBVIOUS
<1>3. SaveVersionFile => Store({NewObject}) BY DEF SaveVersionFile
<1>4. \A thumb \in {{}, {NewObject}} : SaveProcessed(thumb) \/ SaveVersionThumb(thumb) => Store(thumb)
  BY DEF SaveProcessed, SaveVersionThumb
<1>5. rendered' = rendered \/ Store({NewObject}) \/ \E thumb \in {{}, {NewObject}} : Store(thumb)
  BY <1>3, <1>4 DEF VersionNext, CreateAsset, OpenEdit, OpenRemoval, OpenRestore, Queue, InsertVersion,
     PointAtVersion, SaveRestored, RemoveFiles, RemoveVersions, RemoveRow, EditorDies, StartTask,
     ProcessFails, SaveAssetThumb, RenderFails, RunnerDies
<1> QED BY <1>1, <1>2, <1>5

\* Before the upload nothing but the upload can happen.
LEMMA OnlyCreation ==
    ASSUME MediumInv, VersionNext, rendered = 0
    PROVE  \E t \in VersionEditors, s \in Surfaces : CreateAsset(t, s)
<1> USE DEF MediumInv
<1>1. /\ runner = NoRun /\ jobs = {} /\ \A u \in VersionEditors : editors[u] = NotEditing
      /\ NotEditing.step = "idle"
  BY DEF Untouched, NotEditing
<1>2. ~Uploaded BY DEF VersionInv, RowsTogether
<1> QED BY <1>1, <1>2 DEF VersionNext, OpenEdit, OpenRemoval, OpenRestore, Queue, InsertVersion,
     PointAtVersion, SaveRestored, RemoveFiles, RemoveVersions, RemoveRow, EditorDies, StartTask,
     SaveProcessed, SaveVersionThumb, SaveVersionFile,
     ProcessFails, SaveAssetThumb, RenderFails, RunnerDies

LEMMA VersionStepKeeps ==
    ASSUME MediumInv, VersionNext
    PROVE  VersionInv'
<1>1. VersionInv BY DEF MediumInv
<1>2. ASSUME NEW t \in VersionEditors, NEW s \in Surfaces,
             CreateAsset(t, s) \/ OpenEdit(t, s) \/ OpenRemoval(t, s)
      PROVE  VersionInv'
  BY <1>1, <1>2, CreateAssetKeeps, OpenEditKeeps, OpenRemovalKeeps
<1>3. ASSUME NEW t \in VersionEditors, NEW n \in 1..MaxVersions, OpenRestore(t, n) PROVE VersionInv'
  BY <1>1, <1>3, OpenRestoreKeeps
<1>4. ASSUME NEW t \in VersionEditors,
             \/ Queue(t) \/ InsertVersion(t) \/ PointAtVersion(t) \/ SaveRestored(t)
             \/ RemoveFiles(t) \/ RemoveVersions(t) \/ RemoveRow(t) \/ EditorDies(t)
      PROVE  VersionInv'
  BY <1>1, <1>4, QueueKeeps, InsertVersionKeeps, PointAtVersionKeeps, SaveRestoredKeeps,
     RemoveFilesKeeps, RemoveVersionsKeeps, RemoveRowKeeps, EditorDiesKeeps
<1>5. ASSUME NEW job \in 0..MaxVersions, StartTask(job) PROVE VersionInv'
  BY <1>1, <1>5, StartTaskKeeps
<1>6. ASSUME NEW thumb \in {{}, {NewObject}}, SaveProcessed(thumb) \/ SaveVersionThumb(thumb)
      PROVE  VersionInv'
  BY <1>1, <1>6, SaveProcessedKeeps, SaveVersionThumbKeeps
<1>7. ProcessFails \/ SaveVersionFile \/ SaveAssetThumb \/ RenderFails \/ RunnerDies => VersionInv'
  BY <1>1, ProcessFailsKeeps, SaveVersionFileKeeps, SaveAssetThumbKeeps, RenderFailsKeeps, RunnerDiesKeeps
<1> QED BY <1>2, <1>3, <1>4, <1>5, <1>6, <1>7 DEF VersionNext

\* Every step keeps the invariant of a medium.
LEMMA VersionNextKeeps == MediumInv /\ [VersionNext]_versionVars => MediumInv'
<1> SUFFICES ASSUME MediumInv, [VersionNext]_versionVars PROVE MediumInv'
  OBVIOUS
<1>1. CASE VersionNext
  <2>1. VersionInv' BY <1>1, VersionStepKeeps
  <2>2. rendered' # 0
    <3>1. CASE rendered # 0 BY <1>1, <3>1, NeverUntouchedAgain DEF MediumInv
    <3>2. CASE rendered = 0
      <4>1. PICK t \in VersionEditors, s \in Surfaces : CreateAsset(t, s) BY <1>1, <3>2, OnlyCreation
      <4>2. rendered' = rendered + Cardinality({NewObject}) BY <4>1 DEF CreateAsset, Store
      <4>3. Cardinality({NewObject}) = 1 BY FS_Singleton
      <4> QED BY <3>2, <4>2, <4>3
    <3> QED BY <3>1, <3>2
  <2> QED BY <2>1, <2>2 DEF MediumInv, Untouched
<1>2. CASE UNCHANGED versionVars
  <2> USE <1>2 DEF versionVars
  <2>1. \A n : FileSettled(n) => FileSettled(n)' BY DEF FileSettled
  <2>2. Gently BY <2>1, StillGentle DEF MediumInv
  <2>3. \A u \in VersionEditors : EditorTrue(u)' BY <2>2, OthersStand DEF MediumInv
  <2>4. RunnerTrue' BY <2>2, RunnerStands DEF MediumInv
  <2>5. VersionTypes' BY DEF MediumInv, VersionInv, VersionTypes
  <2>6. Uploaded' <=> Uploaded BY DEF Uploaded
  <2>7. RowsTogether' BY <2>6 DEF MediumInv, VersionInv, RowsTogether
  <2>8. Named' = Named BY <2>6 DEF Named, VersionFiles
  <2>9. FilesExist' /\ NothingLeaks' BY <2>8 DEF MediumInv, VersionInv, FilesExist, NothingLeaks
  <2>10. RestoredStands' BY <2>2, RestoredStays DEF MediumInv
  <2>11. ProcessingEnds' BY <2>6, ProcessingStays DEF MediumInv
  <2>12. Untouched' BY DEF MediumInv, Untouched
  <2> QED BY <2>3, <2>4, <2>5, <2>7, <2>9, <2>10, <2>11, <2>12 DEF MediumInv, VersionInv
<1> QED BY <1>1, <1>2

LEMMA MediumInvInit == VersionInit => MediumInv
<1>1. VersionInit => Untouched BY DEF VersionInit, Untouched
<1> QED BY <1>1, VersionInvInit DEF MediumInv

LEMMA VersionInvHolds == MediumInv => VersionsAreSound /\ VersionTypeOK
<1> SUFFICES ASSUME MediumInv PROVE VersionsAreSound /\ VersionTypeOK
  OBVIOUS
<1>1. RestoreTrue BY DEF MediumInv, VersionInv, RestoredStands, RestoreTrue
<1>2. VersionTypeOK BY DEF MediumInv, VersionInv, VersionTypes, RowsTogether, VersionTypeOK
<1> QED BY <1>1, <1>2 DEF MediumInv, VersionInv, VersionsAreSound

\* A medium and its versions name files that exist until their deletion is asked for, which
\* leaves none behind but those replaced before it or stored after it; a restored version
\* is what is shown, and a medium being processed has what will end it; for any threads.
THEOREM VersionsStaySound == VersionInit /\ [][VersionNext]_versionVars => []VersionsAreSound
BY MediumInvInit, VersionNextKeeps, VersionInvHolds, PTL

-------------------------------------------------------------------------------
(* Drafts and rows of a post have their types *)

\* Rows of a post have the statuses there are.
LEMMA ChildRowsTyped == ChildInv => ChildTypeOK
BY DEF ChildInv, ChildTypes, ChildTypeOK

\* A page is of a draft there is, and media are those there may be.
LEMMA DraftRowsTyped == DraftInv => DraftTypeOK
<1> SUFFICES ASSUME DraftInv PROVE DraftTypeOK
    OBVIOUS
<1>1. DraftTypes BY DEF DraftInv
<1>2. page.post \in Nat /\ page.post <= Len(drafts) /\ Len(drafts) \in Nat BY <1>1 DEF DraftTypes
<1>3. page.post \in 0..Len(drafts) BY <1>2
<1> QED BY <1>1, <1>3 DEF DraftTypes, DraftTypeOK, Assets
===============================================================================
