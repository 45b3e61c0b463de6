------------------------------- MODULE Campaigns -------------------------------
(***************************************************************************)
(* One AI campaign: the background worker asks a provider for a plan and    *)
(* replaces the drafts that are not in the composer yet; people regenerate, *)
(* edit drafts and approve, which turns drafts into composer posts.  None   *)
(* of them takes a lock.                                                    *)
(***************************************************************************)
EXTENDS Integers, FiniteSets

CONSTANTS
    Items,          \* what a plan may contain, each for a platform of its own
    Approvers,      \* web threads that approve
    MaxGenerations, \* bound on the generations asked for
    TokenLimit,     \* BrandBrain.monthly_token_limit
    Tokens,         \* tokens of one answer
    MaxDraftEdits,       \* bound on the edits of drafts
    MaxCampaignFaults

ASSUME CampaignConstants ==
    /\ MaxGenerations \in Nat /\ TokenLimit \in Nat \ {0} /\ Tokens \in Nat
    /\ MaxDraftEdits \in Nat /\ MaxCampaignFaults \in Nat

VARIABLES
    campaign,  \* Campaign.status
    draft,     \* ContentDraft rows
    request,   \* regeneration (or creation) under way: none, checked, saved
    tasks,     \* generate_campaign_task in the queue, the one running included
    worker,    \* what the worker does: none, asking, recording
    approval,  \* thread -> its approval under way
    edit,      \* the draft an editor has read, if any
    connected, \* items whose platform has a connected account
    recorded,  \* tokens of the month in AIUsageEvent
    generation, editsDone, campaignFaults, \* counters
    posts,     \* history: posts made from each draft
    raced,     \* history: drafts two approvals held at once, or an edit unlinked
    overtaken  \* history: approved after a later generation was asked for

campaignVars == <<campaign, draft, request, tasks, worker, approval, edit, connected, recorded,
                  generation, editsDone, campaignFaults, posts, raced, overtaken>>

CampaignStatuses == {"generating", "pending_approval", "approved", "materialized", "failed"}
DraftKeys == (1..MaxGenerations) \X Items
NoApproval == [step |-> "none", list |-> {}]

Row(k, flagged) == [key |-> k, flagged |-> flagged, posted |-> FALSE]
CampaignFault == campaignFaults < MaxCampaignFaults /\ campaignFaults' = campaignFaults + 1

-------------------------------------------------------------------------------
(* Asking for a generation *)

\* Mutant: what is in the composer already does not matter.
MayRegenerateAlways == TRUE

MayRegenerate == \A d \in draft : ~d.posted

RegenerateCheck ==
    /\ request = "none" /\ tasks + generation < MaxGenerations /\ MayRegenerate
    /\ request' = "checked"
    /\ UNCHANGED <<campaign, draft, tasks, worker, approval, edit, connected, recorded,
                   generation, editsDone, campaignFaults, posts, raced,
                   overtaken>>

RegenerateSave ==
    /\ request = "checked" /\ request' = "saved" /\ campaign' = "generating"
    /\ UNCHANGED <<draft, tasks, worker, approval, edit, connected, recorded, generation,
                   editsDone, campaignFaults, posts, raced, overtaken>>

QueueGeneration ==
    /\ request = "saved" /\ request' = "none" /\ tasks' = tasks + 1
    /\ UNCHANGED <<campaign, draft, worker, approval, edit, connected, recorded, generation,
                   editsDone, campaignFaults, posts, raced, overtaken>>

RequestDies ==
    /\ request # "none" /\ request' = "none" /\ CampaignFault
    /\ UNCHANGED <<campaign, draft, tasks, worker, approval, edit, connected, recorded,
                   generation, editsDone, posts, raced, overtaken>>

-------------------------------------------------------------------------------
(* The worker *)

OverQuota == recorded >= TokenLimit

Ask ==
    /\ worker = "none" /\ tasks > 0
    /\ worker' = IF OverQuota THEN "none" ELSE "asking"
    /\ campaign' = IF OverQuota THEN "failed" ELSE "generating"
    /\ tasks' = IF OverQuota THEN tasks - 1 ELSE tasks
    /\ UNCHANGED <<draft, request, approval, edit, connected, recorded, generation, editsDone,
                   campaignFaults, posts, raced, overtaken>>

\* The providers fail one after the other, or an answer has no valid item: its
\* tokens are charged all the same, and no usage is written for them.
Refused ==
    /\ worker = "asking" /\ worker' = "none" /\ tasks' = tasks - 1
    /\ campaign' = "failed"
    /\ UNCHANGED <<draft, request, approval, edit, connected, recorded, generation, editsDone,
                   campaignFaults, posts, raced, overtaken>>

\* One transaction: the drafts that are no posts go, the new ones come.
Persist(flagged) ==
    /\ worker = "asking" /\ worker' = "recording"
    /\ generation < MaxGenerations /\ generation' = generation + 1
    /\ draft' = {d \in draft : d.posted}
                  \cup {Row(<<generation', i>>, i \in flagged) : i \in Items}
    /\ campaign' = "pending_approval"
    /\ UNCHANGED <<request, tasks, approval, edit, connected, recorded, editsDone,
                   campaignFaults, posts, raced, overtaken>>

RecordUsage ==
    /\ worker = "recording" /\ worker' = "none" /\ tasks' = tasks - 1
    /\ recorded' = recorded + Tokens
    /\ UNCHANGED <<campaign, draft, request, approval, edit, connected, generation, editsDone,
                   campaignFaults, posts, raced, overtaken>>

\* The lock on the task of a dead worker expires and it runs again.
WorkerDies ==
    /\ worker # "none" /\ worker' = "none" /\ CampaignFault
    /\ UNCHANGED <<campaign, draft, request, tasks, approval, edit, connected, recorded,
                   generation, editsDone, posts, raced, overtaken>>

-------------------------------------------------------------------------------
(* Approval *)

ApproveCheck(t) ==
    /\ approval[t] = NoApproval /\ campaign \in {"pending_approval", "approved"}
    /\ approval' = [approval EXCEPT ![t].step = "checked"]
    /\ UNCHANGED <<campaign, draft, request, tasks, worker, edit, connected, recorded,
                   generation, editsDone, campaignFaults, posts, raced,
                   overtaken>>

\* One query lists the drafts; a flag ends the approval.
ApproveList(t) ==
    /\ approval[t].step = "checked"
    /\ approval' = [approval EXCEPT ![t] =
                      IF \E d \in draft : d.flagged THEN NoApproval
                      ELSE [step |-> "listed", list |-> draft]]
    /\ UNCHANGED <<campaign, draft, request, tasks, worker, edit, connected, recorded,
                   generation, editsDone, campaignFaults, posts, raced,
                   overtaken>>

ToMake(list) == {d \in list : ~d.posted}

\* A row that is gone by now rolls everything back.
ApproveCommit(t) ==
    LET list == approval[t].list
        keys == {d.key : d \in ToMake(list)}
        made == {k \in keys : k[2] \in connected}
        others == {x \in Approvers \ {t} : approval[x].step = "listed"}
        rows == {d.key : d \in draft}
    IN  /\ approval[t].step = "listed"
        /\ approval' = [approval EXCEPT ![t] = NoApproval]
        /\ IF keys \subseteq rows
           THEN /\ draft' = {IF d.key \in made THEN [d EXCEPT !.posted = TRUE] ELSE d : d \in draft}
                /\ posts' = [k \in DraftKeys |-> posts[k] + Cardinality({k} \cap made)]
                /\ raced' = raced \cup {k \in made : \E x \in others :
                                           \E d \in approval[x].list : d.key = k /\ ~d.posted}
                /\ campaign' = IF keys # made THEN "pending_approval"
                               ELSE IF list = {} THEN "approved" ELSE "materialized"
                /\ overtaken' = \/ overtaken \/ tasks > 0 \/ request # "none"
                                 \/ \E k \in made : k[1] < generation
           ELSE UNCHANGED <<campaign, draft, posts, raced, overtaken>>
        /\ UNCHANGED <<request, tasks, worker, edit, connected, recorded, generation, editsDone, campaignFaults>>

\* Accounts are connected and disconnected.
ToggleAccount(i) ==
    /\ connected' = IF i \in connected THEN connected \ {i} ELSE connected \cup {i}
    /\ UNCHANGED <<campaign, draft, request, tasks, worker, approval, edit, recorded,
                   generation, editsDone, campaignFaults, posts, raced,
                   overtaken>>

-------------------------------------------------------------------------------
(* Editing a draft: read, and later save every column *)

EditDraft(d) ==
    /\ edit = {} /\ editsDone < MaxDraftEdits /\ editsDone' = editsDone + 1
    /\ d \in draft /\ ~d.posted /\ edit' = {d}
    /\ UNCHANGED <<campaign, draft, request, tasks, worker, approval, connected, recorded,
                   generation, campaignFaults, posts, raced, overtaken>>

\* A post made meanwhile is unlinked; a row deleted meanwhile is inserted again.
SaveDraft(flagged) ==
    \E d \in edit :
        /\ draft' = {x \in draft : x.key # d.key} \cup {Row(d.key, flagged)}
        /\ raced' = IF \E x \in draft : x.key = d.key /\ x.posted THEN raced \cup {d.key} ELSE raced
        /\ edit' = {}
        /\ UNCHANGED <<campaign, request, tasks, worker, approval, connected, recorded,
                       generation, editsDone, campaignFaults, posts,
                       overtaken>>

-------------------------------------------------------------------------------

\* create_campaign has saved the campaign and has to queue its task.
CampaignInit ==
    /\ campaign = "generating" /\ draft = {} /\ request = "saved"
    /\ tasks = 0 /\ worker = "none"
    /\ approval = [t \in Approvers |-> NoApproval]
    /\ edit = {} /\ connected = Items
    /\ recorded = 0 /\ generation = 0 /\ editsDone = 0 /\ campaignFaults = 0
    /\ posts = [k \in DraftKeys |-> 0] /\ raced = {} /\ overtaken = FALSE

CampaignNext ==
    \/ RegenerateCheck \/ RegenerateSave \/ QueueGeneration \/ RequestDies
    \/ Ask \/ Refused \/ RecordUsage \/ WorkerDies
    \/ \E flagged \in SUBSET Items : Persist(flagged)
    \/ \E t \in Approvers : ApproveCheck(t) \/ ApproveList(t) \/ ApproveCommit(t)
    \/ \E i \in Items : ToggleAccount(i)
    \/ \E d \in draft : EditDraft(d)
    \/ \E flagged \in BOOLEAN : SaveDraft(flagged)

CampaignSpec == CampaignInit /\ [][CampaignNext]_campaignVars

-------------------------------------------------------------------------------

CampaignTypeOK ==
    /\ campaign \in CampaignStatuses
    /\ draft \subseteq [key: DraftKeys, flagged: BOOLEAN, posted: BOOLEAN]
    /\ \A d, e \in draft : d.key = e.key => d = e
    /\ request \in {"none", "checked", "saved"} /\ worker \in {"none", "asking", "recording"}
    /\ \A t \in Approvers : approval[t].step \in {"none", "checked", "listed"}
    /\ edit \subseteq [key: DraftKeys, flagged: BOOLEAN, posted: {FALSE}]
    /\ connected \subseteq Items

\* A draft becomes one post, whatever is approved again after accounts were missing
\* or drafts were edited; only two approvals at once, or an edit saved over the
\* link to its post, make a second.
OnePostPerDraft == \A k \in DraftKeys \ raced : posts[k] <= 1

\* "Kampanye yang sudah masuk composer tidak dapat dibuat ulang": drafts of a later
\* generation stand beside posts of an earlier one only when the later one was
\* asked for before that approval was through.
RegenerationStopsAtComposer ==
    \A d, e \in draft : d.posted /\ d.key[1] < e.key[1] => overtaken

\* Both of the two above: what an approval makes of a campaign's drafts is made once,
\* and is not thrown away behind its back.
CampaignIsSound == OnePostPerDraft /\ RegenerationStopsAtComposer
===============================================================================
