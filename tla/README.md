# Verification of Ruang

Ruang plans, approves and publishes posts for social networks. People, API clients and
AI agents write posts, reviewers and clients approve them, queues give them a time, and
a background worker sends each one to its platforms. This directory holds TLA+ models
of that system, the configurations that TLC checks them with, and proofs that TLAPS
checks.

Most of the code reads a row, decides, and saves some or all of its columns with no
lock, while another process does the same; calls of platforms, AI providers and payment
services stand between two commits; processes are restarted in between. The models are
about exactly that: what of it can go wrong without anybody noticing, which accidents the
code leaves open, and that nothing else goes wrong.

Contents: [1 the system](#1-the-system), [2 how to read the modules](#2-how-to-read-the-modules),
[3 modules](#3-modules), [4 runs](#4-runs), [5 findings](#5-findings),
[6 proofs](#6-proofs), [7 not modelled](#7-not-modelled),
[8 observations](#8-observations), [9 plan](#9-plan).

## 1. The system

Processes: `gunicorn` serves requests (2 processes with 2 threads each); one
`process_tasks` worker runs background tasks, among them `run_publish_cycle` every 15
seconds; `manage.py run_publisher` is a second way to run the engine. Almost all
interaction is through rows of one database; a cache per process (API keys, feeds,
counters of the throttle), the browser's session row, and object storage are the
other shared state.

| Part (`src/apps/...`) | State | Operations | What makes it correct | Modules |
|---|---|---|---|---|
| `publisher` | `PlatformPost` rows, `PublishLog` | poll, claim, call the provider, save the outcome, retry, first comment | a row is sent once; a claimed row is settled; holds win; retries end | `Publisher`, `PublishingSystem`, `PublishOnce` |
| `src/providers` | sequences of requests to a platform | dispatch, staged uploads, polling, cleanup | what a platform accepted is told to the engine, once | `Providers`, `Grants` |
| `composer` | `Post`, `PlatformPost`, session, ideas, CSV session, feeds | compose, autosave, save, schedule, chip, import, convert | legal status steps; nothing unreviewed goes out; what is written arrives once | `PublishingSystem`, `PlatformPostStatus`, `Editorial`, `Drafting`, `Ideas`, `CsvImport`, `Feeds` |
| `approvals` | statuses, reminders, comments | submit, approve, reject, hold, resume, remind, escalate, comment | sign-off is of the present content; decisions stand; reminders are bounded | `Editorial`, `Reminders`, `Discussion` |
| `client_portal` | magic links, portal session | issue, open, decide, remove a client | a link opens one session once; a session serves its workspace while its client belongs there | `Portal`, `Editorial` |
| `calendar` | queues, slots, entries | next slot, prioritize, reorder, remove, drag | one post per slot; sent posts never move | `QueueSlots`, `PublishingSystem` |
| `api` | idempotency records, quotas, rate counters, log | create, upload, schedule, cancel | a key creates its resource once; limits hold; every change is logged | `Idempotency`, `AgentCalls`, `PublishingSystem` |
| `mcp` | none of its own | tools, in batches | as the REST API | `AgentCalls`, `AgentAccess`, `MediaLibrary` |
| `api_keys` | keys, cache of verified keys, throttle | verify, edit, revoke | a revoked key stops within its cache's life | `AgentAccess`, `AgentCalls` |
| `ai_automation` | campaigns, drafts, media jobs, provider connections | generate, regenerate, approve, edit, call the webhook | one post per draft; bounded calls; answers become fitting drafts | `Campaigns`, `MediaJobs`, `Generations` |
| `notifications` | deliveries | create, send, retry, give up | every delivery is accounted for | `Deliveries` |
| `inbox` | messages, SLA marks | poll, webhook, backfill, notify | no message missed, none told twice | `Inbox` |
| `social_accounts`, connection links of `onboarding` | accounts, tokens, session state, Mastodon clients | connect, select, reconnect, check, disconnect | what is connected was authorized for that place; tokens are not lost | `Connecting`, `Connections`, `Grants` |
| `media_library` | assets, uploads, folders, versions, objects | upload, finalize, delete, sweep, edit, restore, move | one asset with its object; media of posts stays; no orphaned file | `MediaLibrary`, `MediaFolders`, `MediaVersions` |
| `members`, `organizations` | memberships, invitations, deletion date and task | invite, accept, remove, set role, delete | an owner; members only; an announced deletion comes | `Organization` |
| `intelligence` | checkout attempts, activations, subscription key | checkout, activate, defer, recover, reconcile | paid once; an active key works | `Subscriptions` |
| `analytics` | snapshots, reconnect flag | hourly sync, backfill, derive | days are caught up; a grant gets its backfill; counts are counted once | `Analytics`, `Insights` |
| `oauth_server`, `credentials`, `settings_manager`, `common`, checklists of `onboarding`, configuration, templates, front end | | | sequential, presentation or a thin layer over a library | none |

How they interact: the composer, the API, MCP, the calendar, the approvals and the
campaigns all write statuses and times of the rows that the engine polls; the engine
calls a provider with the tokens that the health check and people renew; approvals
and inbox create notifications; posts hold assets that people and two sweeps delete;
members' permissions are looked up by the portal, the key cache and activation tasks.

The `hazards` of `PROJECT.json` name each place where a test would hardly reach, at its
line, with the properties that watch it.

## 2. How to read the modules

* A **state variable** is a table, a column, a position in a handler, or the content of a
  cache or session; the comment beside it says which. Variables marked *history* are
  not in the code: they count what happened (acceptances, posts made, notices sent) or
  record an accident, and no guard reads them.
* An **action** is everything a handler does up to the next point where another process
  can run: a transaction, a single statement, or the outcome of a remote call. A
  request that reads, decides and saves later is two actions with its decision held in
  between (`edit`, `req`, `slotOp`, `hand`, `billing`, ...); a saved whole row writes the
  copy it read.
* **Deaths** (`Crash`, `...Dies`) may come at any of these points: memory is lost, commits
  stay. Remote calls may be refused, or accepted with their answer lost.
* **Bounds** are constants named `Max...`, `Last...`: they appear in guards only, so the
  environment stops, never the system.
* A property's **exceptions** are named: a history variable (`lapse`, `loose`, `slipped`,
  `strays`, `raced`, `crossed`, `stranded`, ...) records the one interleaving in which the
  code does break the rule. The properties say that there is no other. Section 8 lists what
  these races cost.
* An operator marked **`Mutant:`** stands above the definition it would replace: a
  plausible slip of that code under which the run named in `PROJECT.json` fails.

## 3. Modules

### The publishing system

**`PlatformPostStatus`** - the statuses, `VALID_TRANSITIONS`, `PROTECTED_STATUSES`, the
composer's hop through draft, `derive_post_status`. (The docstring of
`derive_post_status` says a failed child among unfinished ones makes the post
"publishing"; the code falls through to the lowest status, and so does the module.)

**`Publisher`** - `apps/publisher/engine.py`, for any number of workers. `row` is status,
`scheduled_at`, `retry_count`, `next_retry_at`; `phase` the position in
`poll_and_publish`, `stage` that with one row, `copy` the object the worker holds, which
`save()` writes whole. `ClaimGroup` is the transaction with `select_for_update`;
`ProviderAccepts`, `SavePublished`, `LogPublished` are the points of the success path;
`BookkeepingFails` is the catch-all `except` taken after the platform accepted;
`OutcomeUnrecorded` a failing log insert inside that `except`; `RetryCheckHold` and
`RetryMark` the two statements of the retry loop.

**`PublishingSystem`** - the engine with the requests that write the same rows:
`Reschedule`, `ScheduleDrafts`, `CancelScheduled`, `RemoveFromQueue`, `RequestHold`,
`ResumeHold`, `Chip`, `ComposerSave` decide, `Write` writes later without looking again,
`ComposerFinish` propagates the time and sends changed children back; `Retime` is one SQL
update. `declared` is history: rows that a write showed as published and the engine had not.

**`PublishOnce`** - the abstract specification: each row has the right to be sent once, or
none; `Send` needs a right, and its answer uses one up; whatever else happens (`Settle`) takes
rights away, or gives a row one more by an accident of that very row. `PublishingSystem`
implements it (`INSTANCE PublishOnce WITH ...`, property `PublishesOnce`): a row's rights are
the calls workers have under way for it and one more while its status may still be claimed.
A claim that skips the locked re-check would make a right out of nothing, and breaks it.

**`Idempotency`** - claim, finalize, release and sweep of idempotency keys
(`apps/api/middleware.py`) under `POST /posts` and `POST /media`, with the daily quota
(`apps/api/limits.py`). Losing a claim is two steps (`Contend`, then `Replay` or `Refuse`);
creation and finalizing are separate transactions and each may fail.

### Approvals and calendar

**`Editorial`** - one post's rows through submit, approve in one or two stages, reject,
request changes, hold, resume, resubmit (`Review`), the portal's decisions among them,
composer saves (`SaveContent`, `RevertAndMove`, `QueueOrSubmit`), `PatchContent` of the API,
the chip menu, drag and schedule, and the engine's outcome. `content` is the version a
row would publish, `vetted` and `signed` the versions approved by reviewer and client.

**`QueueSlots`** - `apps/calendar/services.py` on one channel: `AddNextAvailable`,
`Prioritize` (the ladder as a recursive function), `Reorder`, `RemoveFromQueue`,
`DeleteQueue` under the channel's lock; `Drag`, `Schedule`, `EditSlot` and the engine
(`Fire`, `Settle`) without it.

**`Reminders`** - the hourly sweep of `apps/approvals/tasks.py` (`SweepLook`, `SweepSend`,
`SweepSave` from a copy) against submissions, stage changes and saves that reset it.

**`Discussion`** - comments, internal and external, their edits, deletion and mentions.
**`Portal`** - magic links from creation to consumption, the session's access, decisions
on posts the team moves meanwhile, removal of the client.

### Composer

**`Drafting`** - one compose page: autosaves, saves, uploads and previews that run side by
side and share a session row each reads at its start and writes whole at its end; beside
it (part `children`) two saves that take accounts from a post the engine publishes.
**`Ideas`** - the board: columns and ideas moved, edited, converted and deleted at once, by
pages that still show columns that are gone (`Shown`): an idea made for one gets none.
**`CsvImport`** - the three requests of an import and its rows, each in its transactions; a row
ends well, in an error that leaves nothing, or in one that leaves a post without all its
channels (`RowOutcomes`), and the import counts it and goes on.
**`Feeds`** - subscriptions, the cached list of entries, tabs that scroll through it.

### Agents and API keys

**`AgentAccess`** - verification of a key through each process's cache, permissions of its
issuer looked up at each call, edits and revocation in their transactions.
**`AgentCalls`** - REST calls and batched MCP messages: rate counters, the daily cap of an
account, the log; beside it (part `throttle`) the counter of failed logins.

### AI

**`Campaigns`** - creation, regeneration, the worker's generation, approvals, edits of
drafts, quota. **`MediaJobs`** - the webhook task with its counter under the runner's own
retries. **`Generations`** - the settings of providers edited and tested at once, the chain
of providers a generation asks, and what of an answer becomes drafts.

### Notifications and inbox

**`Deliveries`** - first dispatch by whoever notifies, then a sweep's batch; attempt, sending
and record are three steps. **`Inbox`** - the polling cycle, the backfill and the webhooks
store messages side by side, announce them, and report late ones. The platform's list is as
the providers read it: YouTube passes over a thread that was opened before the newest message
stored, with its replies (`Overlooked`); Facebook, Instagram and Mastodon read one page, LinkedIn
the comments of the newest posts, so that what comes in pushes out what was there (`listing`).

### Accounts, organization, billing

**`Connecting`** - OAuth flows of a member and of a client with a connection link: state and
page selection in the session (each request writes back the whole session it read), the
shared Mastodon registration, rows, default queue, link usage, access lost on the way.
**`Connections`** - one account's one-use refresh tokens in the hands of health check,
engine and composer. **`Grants`** - how long each platform's grant lives, what is stored of
it, who renews it. **`Organization`** - membership with its invitations, removals, roles and
assignments, and deletion after a grace period. **`Subscriptions`** - checkout, activation in
two phases, deferral to the worker, recovery, reconciliation; Intelligence and Stripe
external, modelled by the answers the code expects.

### Media, providers, analytics

**`MediaLibrary`** - a presigned upload from its object to its asset, its finalizers, the
reaper, deletions by people and by the sweep of orphans against posts that use assets.
**`MediaFolders`** - the tree under concurrent create, rename, move, delete.
**`MediaVersions`** - edits rendered by a worker, restorations, processing, deletion, and the
files in storage. **`Providers`** - `publish_post` of every provider as a plan of steps, of
which one makes the post. **`Analytics`** - hourly sync and backfill of one account and one
post, of five platforms that differ in what they answer: YouTube days with a lag, Facebook and
Instagram any day with a follower total, X the total of today alone, TikTok nothing. **`Insights`** - the derivation of gains, totals and growth from stored snapshots.

### Instances and compositions

`MCPublishing`, `MCIdempotency`, `MCEditorial`, `MCMediaLibrary` give constants small
values. **`MCServices`** composes the 27 modules after `Idempotency` into one specification: `part`
names the component that moves, `Still` is the value of the others' variables, and
`Only(x)` says that nobody else's change. One run then checks all of them; the components
share no state in it (what one needs of another, as the engine's outcomes in `Editorial`
or a removed member in `Portal`, is among its own actions).

### Abstractions

* Time is a small natural number. Contents, prompts, messages and files are identities or
  versions; a provider call is its outcome (`Providers` has its steps).
* A composer save is scoped to one account, as the per-account form is, in
  `PublishingSystem`; `Editorial` has every scope.
* `sync_post_scheduled_at` is computed from the rows at the write; its comparison with a
  cached value, which may skip a needless update, is left out.
* Rows are not created or deleted while the engine runs, except in `Drafting`.
* The engine's thread pools are unbounded: any rows of a cycle may be under way at once.
* `_revert_approved_to_review` reads a post's rows and saves each; `RevertAndMove` of `Editorial`
  and `ComposerFinish` of `PublishingSystem` take it as one step. So is a composer's read of
  the post, its save and its read of the row (`Compose...`): the whole-row write comes later.
* `usage` of `MediaLibrary` is `PostMedia`: thumbnails and covers named in `platform_extra` protect
  nothing from deletion (`_check_post_references`) and are left out.
* A request body is its fingerprint: bodies that differ have different hashes. A record
  does not reach its TTL of a day while the request that owns it is under way.

## 4. Runs

| Run | Instance | Result |
|---|---|---|
| `two_workers` | 2 workers, 2 sibling rows, 1 retry, a crash or database error | `AcceptanceBudget` holds: the inductive invariant of the proof |
| `requests` | 1 worker, 1 request of any of 9 kinds, 2 sibling rows in any of 4 statuses, 2 retries, a crash, lost answer or database error | `TypeOK`, `DuplicatesAccountedFor`, `OneCommentPerPublication`, `PublishingRowOwned`, `PublishesOnce`, `HoldStopsAllButClearedRetry`, `EngineObeysStateMachine` hold |
| `liveness` | 2 posts, a batch of 1, 1 retry, a crash, a reschedule or cancel | `DueRowIsServed`, `ClaimedRowResolves` hold |
| `idempotency` | 2 threads, 2 keys, 3 bodies, 3 requests, a limit of 1, a crash or database error | `OwnerKeepsClaim`, `CreatedOnce`, `AnswersAreTrue`, `QuotaOverrunBounded`, `PendingEnds` hold |
| `services` | 29 parts, each with two threads (or worker and people), one death or lost answer | 16 invariants and 2 action properties hold; see below |
| `backoff`, `early_retry`, `first_comment`, `hold_skipped`, `abandoned`, `ungated`, `lost_object` | the smallest instance that shows it | one property violated each; see section 5 |

What `services` checks, by property:

| Property | Parts | It says |
|---|---|---|
| `EditorialIsSound`, `DecisionsStand` | editorial | "edited content can't publish without a fresh review"; a rejection stands until resubmission |
| `QueueIsSound`, `HistoryKept` | slots | no double-booking by slot operations; times of sent posts do not move |
| `RemindersAreSound` | reminders | at most `MAX_REMINDERS` reminders, then one escalation, between two resets |
| `DeliveriesAreSound` | deliveries | messages answer to attempts, attempts are bounded, nothing pending is forgotten |
| `InboxIsSound` | inbox | what the list shows comes in, but for what a webhook, a broken batch or an old thread hides; nothing announced twice |
| `AutomationIsSound` | campaign, media, generation | one post per draft; bounded calls of the webhook; providers asked once each, fitting drafts |
| `AccountsAreSound` | connection, connecting, grants | the last token pair is kept; what is connected was asked for there; posts go out with live tokens |
| `MediaIsSound` | library, folders, versions | one asset with its object; posts keep their media; the tree stays a tree; no version without its file |
| `OrganizationIsSound` | organization | an owner; nobody stays in a workspace after a removal that no acceptance or assignment overlapped; deletions come |
| `SubscriptionIsSound` | subscription | an active key works; canceled is canceled; what is shown under way has a task |
| `PublishingIsTold` | publish | posts made are told to the engine but for lost answers; staged photos do not stay |
| `AnalyticsAreSound` | analytics | the days a platform reports, present grants and posts are caught up |
| `PagesAreSound` | insights | gains are counted once and no day early; periods share out the window; bars explain the header |
| `AccessIsSound` | keys, portal, discussion, calls, throttle | revocations reach every process within the cache's life; links open one session; calls are bounded and logged |
| `ComposingIsSound` | drafting, children, ideas, csv, feeds | one draft per page, whole posts, one post per row of a file and confirmation, no idea lost from the board but by its column's deletion |
| `ServicesTypeOK` | all | types |

**Bounds.** Two rows are the least at which siblings matter (holds, groups, derived status,
competition in a batch); two threads the least at which two requests race. `MaxFaults` is
1 where faults happen: a second one repeats the first's effect on another row, and the
proofs cover any number. `MaxCalls` of 3 lets two threads contend for a key and a retry
follow; `MaxDraftCalls`, `MaxCsvCalls`, `MaxIdeaOps`, `MaxOrgOps`, `MaxPortalOps` (4 or 5) let two
operations overlap and a third find what they left; three posts on two queues let a
prioritized post ladder another. `LastTick` of 7 outlasts the longest lease (4 ticks) and the
margin of renewal. The retry limits are the code's (3) or 2 where one repetition shows the
same. The posts of `Insights` are two days old at the first sync, so that they outlive the
window of four days. `Connecting` has one place of each kind, in two workspaces, and
`Generations` one model, whose name settles the provider unless a gateway is in front.
Where the number of states allowed no more, the proofs lift the bound.

**Deadlock** is off in runs whose requests are bounded and may all be over.

**Fairness.** `liveness`: weak fairness of a worker's steps (the task repeats every 15
seconds, its supervisor restarts a crashed worker) and of finishing a request that was
started. `idempotency`: a request under way goes on (a thread does not stop between two
statements unless its process dies), time passes, the hourly sweep runs. Nothing is
assumed of users, faults or the clock. Over a bounded clock, `DueRowIsServed` says that a
row does not stay due for ever, not by when it is served.

**What the publishing runs show.** `accepted[p] <= 1 + replays[p]`: a platform takes a row
more than once only after an accident of a named kind: a lost answer; saving or logging
that fails after the acceptance; a request that read the row before its claim and writes
its old status back; a retry loop that marks a row another cycle has in hand. The claim
itself, the crash path, and the overlap of the two queries add none. A hold stops every row,
except a retry already past its unlocked check. After a crash a PUBLISHING row has no worker
and no query selects it: `faults = 0` in `PublishingRowOwned` is needed. Two overlapping
workers may enqueue a first comment twice; a single one does not.

## 5. Findings

Each is a run in which TLC violates what a comment or docstring of the repository says;
`PROJECT.json` quotes the lines.

* `backoff`: a failed row is SCHEDULED with a past time, so the due query sends it at the
  next poll, before `next_retry_at`.
* `early_retry`: a failed row moved to a later time is sent at its old retry time.
* `first_comment`: a row published on a retry gets no first comment.
* `hold_skipped`: a composer save takes a row from on hold to scheduled in one write.
* `abandoned`: an upload into an unknown folder leaves its idempotency claim behind.
* `ungated`: the chip menu takes a draft to scheduled past the approval gate.
* `lost_object`: a second finalize that is refused deletes the object that the first
  registered.

## 6. Proofs

TLAPS proves the following for **every** value of the constants that the modules' named
assumptions allow (any rows, threads, faults, bounds and retry limits), where TLC has
checked small instances. The assumptions say that bounds are natural numbers, that
retry limits and leases are what the code's constants are (positive, ordered), and that
the names of different kinds of actors differ; TLC evaluates each of them in a run.

| Module | Theorem | Of |
|---|---|---|
| `PublishingProofs` | `TypeCorrect`, `BudgetHolds`, `NoUnexplainedDuplicate`, `HoldRespected`; `SystemPublishesOnce`: `PublishingSystem` implements `PublishOnce`; `PublishingRowIsOwned`, `CommentsPerPublication`, `EngineFollowsStateMachine`, on `OwnershipHolds` | engine with requests |
| `IdempotencyProofs` | `ClaimsAreExclusive`, `CreationIsUnique`, `AnswersAreSound`, `QuotaIsBounded` | creation protocol |
| `EditorialProofs` | `SignOffStaysCurrent`, `DecisionsStay`, `SentTimesStay`, `SlotsAreNotShared`, `PortalStaysSound`, `DiscussionStaysSound` | approvals, slots, portal, comments |
| `ComposingProofs` | `DraftsStayWhole`, `SiblingsStayKept`, `IdeasStayOnBoard`, `ImportsStayCounted`, `LibraryStaysSound`, `FoldersStaySound`, `VersionsStaySound` | drafts, rows of a post, ideas, bulk import, media library with folders and versions |
| `NotificationProofs` | `RemindersAreBounded`, `EveryDeliveryAccountedFor`, `InboxComplete`, `FeedsStaySound`, `AnalyticsStaySound`, `InsightsStaySound` | reminders, deliveries, inbox, feeds, metrics, the pages made of them |
| `AccountProofs` | `OrganizationKept`, `GrantStaysKept`, `GrantsStayGood`, `ConnectionsStaySound`, lemmas `PublishInvHolds`, `KeyInvHolds`, `CallInvHolds`, `ThrottleInvHolds` | organization, accounts, providers, keys, agents' calls |
| `IntelligenceProofs` | `SubscriptionKept`, `MediaCallsStayBounded`, `CampaignStaysSound`, `GenerationsStaySound` | subscription, media jobs, campaigns, providers of a generation |
| `ServicesProofs` | `EditorialInServices`, `DecisionsInServices`, `SlotHistoryInServices`, `QueueInServices`, `RemindersInServices`, `DeliveriesInServices`, `InboxInServices`, `OrganizationInServices`, `AccountsInServices`, `SubscriptionInServices`, `AutomationInServices`, `PublishingInServices`, `AccessInServices`, `ComposingInServices`, `MediaInServices`, `AnalyticsInServices`, `PagesInServices`, `TypesInServices` | the composed run's properties, lifted from the components |

**The shape of an argument.** A property is seldom inductive. Each component has an
inductive invariant (named `...Inv`), and three facts: the initial states have it, each
action keeps it (one step per action, one below it per conjunct that the action can disturb),
and it implies the property. The last step combines them with `PTL`. What the
invariants add, and why it is needed:

* **`AcceptanceBudget`** (duplicates). `DuplicatesAccountedFor` does not say that a row with
  a call under way will soon be accepted once more. The budget adds the workers calling for
  the row, and one if its status is outside `ProtectedStatuses`, so that it may be claimed
  again. A claim moves a unit from the second to the first (this needs the status re-check
  under the lock), an acceptance moves it to `accepted`, and whatever reopens a protected
  row is counted in `replays`. `CallStarts`, `CallEnds`, `CallingShrinks` count over the finite
  set of workers. `HoldRespected` needs no invariant: only two actions start a call.
* **Ownership**: `PublishingHeld` (without faults or requests a PUBLISHING row is in a stage of
  some worker), `StageMatchesRow` (what a single worker thinks of its row is what the table
  says), `NothingReopened`, and `CommentsBacked`, which counts the comments a worker still
  owes beside those it has enqueued.
* **The refinement.** A row's rights are computed from `row` and the workers' stages alone
  (`Rights`); every action maps to `Send`, to `Settle` or to a stutter. The acceptance step has to
  show that its call was a right, the claim that it turns one right into another, and every
  write of a request that it opens a closed row only together with that row's `replays`.
* **`Idempotency`**: an owner's record has age 0, without which the sweep could take it;
  `CreatedOnce` counts the creation that may still come for an open key (`BudgetStep`: each step
  leaves the account alone, turns the one to come into one made, or pays with a lapse);
  `Carries` says what a thread has made and not stored; the threads past the quota check are
  a finite set no larger than `Threads`.
* **`EditorialInv`**: besides the present sign-offs, what each decision under way was read
  from (`moves`), and that a row with changed content and no lapse has a revert pending. The
  row-level part is stated per row, so that an action is checked on one row at a time.
  **`SlotInv`** bounds what an operation read; `SentTimeKept` is proved of each step from it.
* **`SlotIInv`** (double booking). `NoDoubleBooking` alone is not inductive: an operation has
  decided on its times before it saves them. The invariant adds that one thread holds a
  channel's lock, and `Placed`: on an instant where an operation is about to put a post nobody
  waits, and it puts no other there, except on one given by hand. For `prioritize`, whose
  ladder is a recursive function over sets of posts, this needs the ladder to exist: a
  function that obeys the recursion is built up to each rank (`TurnsCanBeTaken`), by the least
  natural number for which it could not be; no induction theorem is used.
* **`ReminderInv`**: what was sent since the last reset equals what the row counts, plus the
  one sent and not saved; **`DeliveryInv`**: the same for attempts, acceptances and lost answers;
  **`InboxInv`**: the poll's mark never passes a message that is not stored, in hand or excused
  by name, and each message to announce is in exactly one hand.
* **`OrgInv`**: who checks before removing, and what a removal or an acceptance half done
  means for both tables: whoever is in the workspace is a member, or on the way to become one,
  or an entry of theirs overlapped a removal (`MembersOnly`), which is what makes the deletion
  of the workspace rows necessary; a deletion's request is followed through its statements.
* **`ConnectionInv`**: where the last pair is (`PairHeld`), and that a row's token is never newer
  than `granted`. **`GrantInv`** relates each platform's stored end and refresh token to the
  real ones. **`ConnectInv`** follows each authorization: who began it, which session
  or request holds it, that it is exchanged once, what each request in each step may assume
  of its session copy and its row.
* **`BillingIInv`** (subscription). Keys: every key that works, or whose rotation is on
  record, is one the provider honours (`GoodKeys`). Administrators: whoever still is one
  was entitled when the run began. Rows: two requests never fill the same empty row, and
  an activation's row carries its own session (`HandFits`, `RowsApart`, `AttemptSettled`).
  Cancellation: while something canceled is shown, or a request carries it to the row, the
  contract is canceled, a write has crossed, or something was bought since. Tasks: an
  activation shown under way has a task other than the one about to end.
* **`MediaInv`**: calls made and still to come are paid for by the first task, by the retries
  that queue another one and by the accidents (`CallsPaidFor`). **`CampaignInv`**: a draft that became a
  post says so, one that an approval holds has none (`PostsShown`), and beside a post no later
  draft is on its way unless an approval was overtaken (`LaterIsOvertaken`).
* **`GenerationInv`**: what one administrator alone has read of a connection is the connection
  (`CopiesAreCurrent`), a stored label is the one its endpoint and model give, and no two are
  one provider's (`ProvidersApart`), so that a chain of any connections and any operator's
  providers names nobody twice (`ConfiguredIsChain`, from `OrderedEnumerates`: ranks order a finite
  set). That a cut caption fits and a repaired hour lies in the campaign are lemmas about
  `FitCaption` and `ScheduleHour`. Assumed of the operator: a provider is configured once.
* **`PublishInv`** (in `AccountProofs`, a post on its way to its platform): while the request
  that makes the post is still to come, posts made are paid for by bad answers and photos on
  the page by those in hand. It needs of every plan that one step publishes and that only
  `"extra"` follows it, which `PlanMakesOnePost` proves for each platform and any number of
  media; a plan is flattened by a recursive function, so the flattening is first shown to
  exist (`FlattenedExists`) and to hold nothing but its parts' steps (`FlattenIsQuiet`).

* **`PortalInv`**: a request about to make a link has ended those it replaces unless it was
  crossed, one about to end a membership has ended its links, and after the end whatever
  still opens or is on its way was crossed. **`TalkInv`**: whom a request under way is about.
* **`KeyInv`**: an edit on its way to the row leaves what its editor cannot grant as it was
  read (`DecisionsKept`); a request between its look-up and its end was let in for a member or
  has lost what ended since (`IssuerFits`); an entry is no older than its time to live, and one
  of a former row either has a bust on its way, or was stored by a verification that raced the
  change, and a row waiting to be stored was read within `SlowStep` (`CachesFit`).
* **`CallInv`**: no more messages are let through than are charged, whoever asks (`CountsFit`), a
  call past its look at the daily cap still has room unless another crossed it (`RoomKept`), and
  the rows that count are a finite set. **`ThrottleInv`**: failures counted and attempts under
  way together stay below the limit and one for each thread.

* **`DraftInv`**: what each request of a page has read and the page knows, so that a second post
  is paid for by a save it was not told about. **`ChildInv`**: a row that a save has in hand was
  shown to its form. **`BoardInv`**: a copy of an idea in a request's hand is of a row that was
  there, and a column in a copy exists, was deleted meanwhile or was crossed. **`CsvInv`**: of each
  row, posts made and imports still before it are no more than confirmations, and of each
  import, what it counted adds up to the rows behind it.
* **`LibraryInv`**: an asset's object exists while some step may still name it. **`FolderInv`**: the
  rows have a measure that falls from each folder to its parent, so that no chain returns
  (`NeverInItself` is shown by the least number, not by a recursion over the chain).
  **`MediumInv`**: which files rows, requests and the task name, and which of them are sure to exist.
* **`FeedInv`**: a cached list is of the feeds there were when its request asked; the order of a list
  is a rank, a bijection of a finite set to its size, since the sorting operators are opaque to
  the provers. **`AnalyticsInv`**: without a failure, rows of today stand only when all days of the window that the platform reports were covered
  or while a task goes through them (`PassesCover`), for the platforms that report them, and a present grant without a backfill has
  one queued (`BackfillsQueued`).
* **`InsightInv`** only says where rows may lie; the argument is in the sums. `SumOver` is a fold of
  the community modules: its recursion over subsets is shown to have one solution (`SumsExist`,
  `SumsAgree`), its order not to matter (`SumTakes`), and from these rises telescope to the most
  that was reached (`RisesAddUp`), shares to the first value (`SumOfShares`), bars to what lies between
  the first and the last measurement (`BarsAddUp`). It assumes of the data that a count divides by
  any number of days of the window: the code divides floats, the model integers.

**What the proofs found.** A proof that fails for a good reason says something about model or
code. `IdeasOnBoard` did not hold with three planners, for the model gave a new column the key of
a deleted one; keys are UUIDs, so they are now never reused (`NewColumn`). "Folders cannot be
nested more than 3 levels deep" (`apps/media_library/services.py:42`) does not hold with six
requests: a deletion lifts subfolders to the parent it had read, which has moved below
meanwhile; `Shallow` therefore stops at the first such crossing, while `NeverInItself` holds
without exception. `SpreadDays` was a CASE whose guards overlapped for a post without a date; it
is decided in the code's order now. Assumptions that the code justifies and small instances
hid are named: `FeedAssumption`, `PeriodAssumption`, and what `IdeasAssumption`, `CsvAssumption`,
`FolderAssumption`, `VersionAssumption`, `PortalConstants`, `TalkConstants` and `AccessAssumption` (a key
is of some account) say of names and bounds.

* **`ServicesTyped`** joins what gives each part its types (`TypesInServices`). For most parts the
  invariant above does not bound what is only counted, so a second one, `...Shapes`, adds it:
  that no row was edited more often than its post (`EditorialShapes`), that what a slot operation
  is about to write are times of the channel (`OperationTyped`), that sessions and requests name
  authorizations there are (`ConnectShapes`), that until a post is made its photos are on the page
  (`PublishShapes`), that one checkout at most is in progress and keys are those that were given
  (`BillingShapes`), that what a cache keeps is not over (`AccessShapes`).

`ServicesProofs` proves of each part that a step of the composed run is a step of the
component (or leaves it alone), and lifts the component's theorem.

**Only model-checked.** Liveness (`DueRowIsServed`, `ClaimedRowResolves`, `PendingEnds`) and
`ENABLED` are out of the prover's reach. Every safety invariant and action property of a passing
run is a theorem.

## 7. Not modelled

* Publishing: `QueueEntry` cleanup, `Post.published_at`, the rate-limit row (read, but no
  dispatch returns what would write it), sending of the first comment itself, recurring posts
  (`generate_recurring_posts` is called by tests only).
* Composer: templates, categories, tags, thumbnails, rendering of previews, numbering of
  saved versions.
* Approvals: the log of actions; bulk variants, which loop over the modelled operations.
* API and MCP: requests without a key, reads, submission and deletion, the tools that read.
* AI: prompts, the rules of moderation (a draft is flagged or not), brand brain settings.
* Notifications: preferences and quiet hours (any set of channels is enumerated), digests.
  Inbox: sending of replies, assignment, notes, sentiment, saved replies.
* Intelligence: tools and their caches, billing contact, playground pages, usage events;
  `past_due`, which is copied and reconciled like the other statuses.
* Media: codecs, thumbnails' content, listings. Social accounts: visibility, the posts a
  disconnected account leaves. Analytics: engagement rates, charts, configuration.
* Organization: permissions by role, custom roles, archiving of workspaces.
* `oauth_server` (a thin layer over a library), `credentials`, `settings_manager`, `common`,
  the onboarding checklist, configuration, templates and scripts of the pages: sequential
  or presentation.

## 8. Observations

What the models make visible without contradicting a line of the repository.

* **Publishing.** Two overlapping workers may enqueue a first comment twice. The chip menu
  lets anyone with access to a post set "published" from publishing.
* **AI.** An `IndexError` on Gemini's empty `candidates` and an `AttributeError` on JSON arrays
  escape the router and `generate_campaign`: the campaign stays "generating" and the next
  provider is not asked. An answer without valid items fails without asking the next.
  Tokens of failed answers are not recorded. A test's verdict may be saved for a key
  edited meanwhile; the form saves a whole row. Suggested dates pile up on the last day.
* **Connecting.** The session is written whole, last write wins: two tabs lose or bring back
  each other's state or page selection; submitting a page list connects whatever
  selection the session then holds. `select_account` checks neither membership nor
  permission again. A queue that was not created after the row is not repaired.
* **Grants.** Facebook and Instagram never call the long-lived exchange; Threads keeps no
  refresh token; a page selection stores no end; an account in error is not checked again.
* **Portal and comments.** A decision that is overtaken is still reported as taken. Removal
  through the members page leaves links live. Internal replies under an external comment
  are shown to clients. Deleting a comment hides its replies.
* **Agents.** A 429 inside a batch loses the answers before it; permissions are looked up
  once per request; the daily cap counts rows by the day they were last touched.
* **API keys.** A revocation reaches other processes when their cache entry expires; an edit
  busts caches inside its transaction.
* **Composer.** After "Save Draft" the page does not learn the post's id, and its next
  autosave makes a second draft; so does a lost answer. Ideas save whole rows. An idea made for a column
  that is gone is on no board. An import that dies leaves its file and repeats its rows; a row
  that failed is counted as an error, whether or not it left a post. A feed that did not answer is missing from
  the list until the cache expires; two concurrent subscriptions end in an error.
* **Media.** Folders at the root may share a name; a deletion whose lift fails half way is an
  error; an edit does not build on the one before; a restored original is named by no
  version; replaced files are not deleted; an upload whose request dies stays "pending".
* **Subscriptions.** A key rotated while another request carries one to the row; a second
  administrator's deferral fails on the unique session; a cancellation read before an
  activation and written after it; a request that dies between its row and its task.
* **Providers.** LinkedIn, Facebook videos, Pinterest and TikTok post only the first of
  several media; Instagram's direct login sends a lone video as an image; TikTok reports
  published while it processes; content a platform calls invalid is retried, except for TikTok.
* **Inbox.** New replies in a thread older than the newest message stored, and whatever left
  the page a provider reads between two polls, never come in.
* **Organization.** An acceptance or assignment that overlaps a removal leaves its user in a
  workspace of an organization they are no member of.
* **Analytics.** The comment at `analytics/tasks.py:414` speaks of TikTok's lifetime totals, which
  the provider no longer gives. An hourly sync with an old token marks a reconnected account; a token
  refresh queues another backfill; a loss of views smaller than an earlier reset is never
  credited; account rows beside sums of posts may count twice.

## 9. Plan

1. Liveness of the approval reminders and the delivery sweep as fair runs.
