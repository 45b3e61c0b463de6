--------------------------- MODULE PublishingSystem ---------------------------
(***************************************************************************)
(* The publishing engine together with the web requests that reschedule,   *)
(* cancel, hold, resume and re-save the rows it works on.                   *)
(*                                                                         *)
(* A request first reads rows and checks them in memory, then writes the   *)
(* columns it decided on.  Requests run in other processes and take no row *)
(* lock, so any step of a worker may come between the two.                 *)
(***************************************************************************)
EXTENDS Publisher

CONSTANTS
    Editors,     \* web processes serving such requests
    EditKinds,   \* which of AllEdits users make
    ChipTargets, \* statuses users pick in the per-account chip endpoint
    MaxEdits     \* bound on the number of requests

AllEdits == {"reschedule", "schedule", "cancel", "dequeue", "hold", "resume",
             "retime", "chip", "composer"}

ASSUME EditConstantsAssumption ==
    /\ EditKinds \subseteq AllEdits
    /\ ChipTargets \subseteq Statuses
    /\ MaxEdits \in Nat

VARIABLES
    edit,    \* the request an editor is in the middle of, or NoEdit
    edits,   \* how many requests were started
    declared \* history: how often a request, not the engine, made the row published

vars == <<row, postSched, now, phase, stage, copy, faults, accepted, replays,
          comments, edit, edits, declared>>

\* A column the request does not save.
Keep == -2
KeepStatus == "keep"

\* What a request will write to a row.
Patch == [status: Statuses \cup {KeepStatus}, schedAt: Times \cup {Keep},
          retryCount: Nat \cup {Keep}, nextRetryAt: Times \cup {Keep}]

SetColumns(s, t) ==
    [status |-> s, schedAt |-> t, retryCount |-> Keep, nextRetryAt |-> Keep]

\* Mutant: a partial instance is saved with all its columns.
PatchedVerbatim(r, patch) == patch

Patched(r, patch) ==
    [status      |-> IF patch.status = KeepStatus THEN r.status ELSE patch.status,
     schedAt     |-> IF patch.schedAt = Keep THEN r.schedAt ELSE patch.schedAt,
     retryCount  |-> IF patch.retryCount = Keep THEN r.retryCount ELSE patch.retryCount,
     nextRetryAt |-> IF patch.nextRetryAt = Keep THEN r.nextRetryAt ELSE patch.nextRetryAt]

\* rows: what the request writes to; patch: what it writes; sync: whether
\* sync_post_scheduled_at follows; time: when the composer schedules for, if it
\* does; changed: whether the composer's save changes what reviewers approved.
Edit ==
    [step: {"idle", "write", "finish"}, rows: SUBSET PlatformPosts,
     patch: [PlatformPosts -> Patch], sync: BOOLEAN, time: Times, changed: BOOLEAN]

Each(patch) == [p \in PlatformPosts |-> patch]

NoEdit ==
    [step |-> "idle", rows |-> {}, patch |-> Each(SetColumns(KeepStatus, Keep)),
     sync |-> FALSE, time |-> None, changed |-> FALSE]

EditTimes == 0..MaxTime

-------------------------------------------------------------------------------
(* Reads *)

\* The first half of every request: it has read and checked the rows it will
\* write and holds its decision in memory.
Begin(e, kind, rows, patch, sync) ==
    /\ edit[e] = NoEdit
    /\ kind \in EditKinds /\ edits < MaxEdits
    /\ rows # {}
    /\ edit' = [edit EXCEPT ![e] = [step |-> "write", rows |-> rows, patch |-> patch,
                                    sync |-> sync, time |-> None, changed |-> FALSE]]
    /\ edits' = edits + 1
    /\ UNCHANGED <<publisherVars, declared>>

ChildrenIn(post, statuses) == {p \in Children(post) : row[p].status \in statuses}

\* Back to draft: the time is saved only when there was one to clear.
Unscheduled ==
    [p \in PlatformPosts |-> SetColumns("draft", IF row[p].schedAt = None THEN Keep ELSE None)]

\* Calendar drag-and-drop: it saves the status it read, whatever that was.
Reschedule(e, p, t) ==
    /\ row[p].status \in {"draft", "approved", "scheduled"}
    /\ LET status == IF row[p].status = "draft" THEN "scheduled" ELSE row[p].status
       IN  Begin(e, "reschedule", {p}, Each(SetColumns(status, t)), TRUE)

\* REST /schedule and MCP schedule_draft: every draft child.
ScheduleDrafts(e, post, t) ==
    Begin(e, "schedule", ChildrenIn(post, {"draft"}), Each(SetColumns("scheduled", t)), TRUE)

\* REST /cancel and MCP cancel_post: every scheduled child.
CancelScheduled(e, post) ==
    Begin(e, "cancel", ChildrenIn(post, {"scheduled"}), Unscheduled, TRUE)

\* remove_from_queue: one channel's child goes back to draft if it may; the post's
\* time is synced in any case.
RemoveFromQueue(e, p) ==
    LET leaves == row[p].status \notin ProtectedStatuses /\ CanTransition(row[p].status, "draft")
    IN  Begin(e, "dequeue", {p}, IF leaves THEN Unscheduled ELSE NoEdit.patch, TRUE)

\* Both approval requests name a whole post and move its eligible children.
RequestHold(e, post) ==
    Begin(e, "hold", ChildrenIn(post, {"approved"}), Each(SetColumns("on_hold", Keep)), FALSE)

ResumeHold(e, post) ==
    Begin(e, "resume", ChildrenIn(post, {"on_hold"}), Each(SetColumns("approved", Keep)), FALSE)

\* The per-account chip endpoint: any legal target, and no time with it.
Chip(e, p, target) ==
    /\ CanTransition(row[p].status, target)
    /\ Begin(e, "chip", {p}, Each(SetColumns(target, Keep)), FALSE)

\* A composer save scoped to one account.  _sync_platform_posts reads the row
\* and will save all of its columns back; with the schedule action (a time, or
\* now for publish_now) the Post already carries the new time.
ComposerSave(e, p, t, changed) ==
    /\ edit[e] = NoEdit
    /\ "composer" \in EditKinds /\ edits < MaxEdits
    /\ t # None => t >= now
    /\ edit' = [edit EXCEPT ![e] = [step |-> "write", rows |-> {p}, patch |-> Each(row[p]),
                                    sync |-> FALSE, time |-> t, changed |-> changed]]
    /\ edits' = edits + 1
    /\ postSched' = IF t = None THEN postSched
                    ELSE [postSched EXCEPT ![PostOf[p]] = t]
    /\ UNCHANGED <<row, now, workerVars, faults, accepted, replays, comments, declared>>

\* PATCH of scheduled_at: one UPDATE over the children scheduled right now.
Retime(post, t) ==
    LET r == [p \in PlatformPosts |->
                IF p \in ChildrenIn(post, {"scheduled"})
                THEN [row[p] EXCEPT !.schedAt = t] ELSE row[p]]
    IN  /\ "retime" \in EditKinds /\ edits < MaxEdits
        /\ DerivePostStatus({row[p].status : p \in Children(post)})
             \in EditablePostStatuses
        /\ edits' = edits + 1
        /\ row' = r
        /\ postSched' = [postSched EXCEPT ![post] = Synced(r, post)]
        /\ UNCHANGED <<edit, now, workerVars, faults, accepted, replays, comments, declared>>

-------------------------------------------------------------------------------
(* Writes *)

\* Reopens a row the engine is working on or is done with.
Reopens(r, patch) ==
    r.status \in ProtectedStatuses /\ Patched(r, patch).status \notin ProtectedStatuses

\* Shows a row as published that the engine does not have as published.
Declares(r, patch) == r.status # "published" /\ Patched(r, patch).status = "published"

\* The second half: the columns decided on go to the database unconditionally.
Write(e) ==
    LET ed == edit[e]
        r == [p \in PlatformPosts |->
                IF p \in ed.rows THEN Patched(row[p], ed.patch[p]) ELSE row[p]]
    IN  /\ ed.step = "write"
        /\ row' = r
        /\ replays' = [p \in PlatformPosts |->
                         IF p \in ed.rows /\ Reopens(row[p], ed.patch[p])
                         THEN replays[p] + 1 ELSE replays[p]]
        /\ declared' = [p \in PlatformPosts |->
                          IF p \in ed.rows /\ Declares(row[p], ed.patch[p])
                          THEN declared[p] + 1 ELSE declared[p]]
        /\ postSched' = [post \in Posts |->
                           IF ed.sync /\ \E p \in ed.rows : PostOf[p] = post
                           THEN Synced(r, post) ELSE postSched[post]]
        /\ edit' = [edit EXCEPT ![e] = IF ed.time = None /\ ~ed.changed THEN NoEdit
                                       ELSE [ed EXCEPT !.step = "finish"]]
        /\ UNCHANGED <<edits, now, workerVars, faults, accepted, comments>>

\* The rest of a composer save, the rows being saved: the time goes to the row
\* unless it is protected, approved children of a changed post go back to review,
\* and the row is read again to be moved to scheduled, through draft when there is
\* no direct edge, unless it was just sent to review.
ComposerFinish(e, p) ==
    LET ed == edit[e]
        timed(q) == IF q = p /\ ed.time # None /\ row[q].status \notin ProtectedStatuses
                    THEN [row[q] EXCEPT !.schedAt = ed.time] ELSE row[q]
        reverted == IF ed.changed THEN ChildrenIn(PostOf[p], {"approved"}) ELSE {}
        moves == /\ ed.time # None /\ p \notin reverted
                 /\ row[p].status # "scheduled"
                 /\ ReachesViaDraft(row[p].status, "scheduled")
    IN  /\ ed.step = "finish" /\ ed.rows = {p}
        /\ row' = [q \in PlatformPosts |->
                     IF q \in reverted THEN [timed(q) EXCEPT !.status = "pending_review"]
                     ELSE timed(q)]
        /\ edit' = [edit EXCEPT ![e] =
                      IF moves
                      THEN [NoEdit EXCEPT !.step = "write", !.rows = {p},
                                          !.patch = Each(SetColumns("scheduled", Keep))]
                      ELSE NoEdit]
        /\ UNCHANGED <<edits, postSched, now, workerVars, faults, accepted, replays,
                       comments, declared>>

-------------------------------------------------------------------------------

SystemInit ==
    /\ Init
    /\ edit = [e \in Editors |-> NoEdit]
    /\ edits = 0
    /\ declared = [p \in PlatformPosts |-> 0]

EditorStep(e) ==
    \/ \E p \in PlatformPosts, t \in EditTimes : Reschedule(e, p, t)
    \/ \E post \in Posts, t \in EditTimes : ScheduleDrafts(e, post, t)
    \/ \E post \in Posts :
          CancelScheduled(e, post) \/ RequestHold(e, post) \/ ResumeHold(e, post)
    \/ \E p \in PlatformPosts : RemoveFromQueue(e, p)
    \/ \E p \in PlatformPosts, target \in ChipTargets : Chip(e, p, target)
    \/ \E p \in PlatformPosts, t \in EditTimes \cup {None}, changed \in BOOLEAN :
          ComposerSave(e, p, t, changed)
    \/ Write(e)
    \/ \E p \in PlatformPosts : ComposerFinish(e, p)

Next ==
    \/ EngineNext /\ UNCHANGED <<edit, edits, declared>>
    \/ \E e \in Editors : EditorStep(e)
    \/ \E post \in Posts, t \in EditTimes : Retime(post, t)

Spec == SystemInit /\ [][Next]_vars

\* A worker process keeps running (the task is re-queued every 15 seconds) and a
\* request that was started is finished; users, faults and time owe nothing.
FairSpec ==
    /\ Spec
    /\ \A w \in Workers : WF_vars(WorkerStep(w) /\ UNCHANGED <<edit, edits, declared>>)
    /\ \A e \in Editors :
          WF_vars(Write(e) \/ \E p \in PlatformPosts : ComposerFinish(e, p))

-------------------------------------------------------------------------------
(* Type invariant *)

TypeOK ==
    /\ row \in [PlatformPosts -> Row]
    /\ postSched \in [Posts -> Times]
    /\ now \in 0..MaxTime
    /\ phase \in [Workers -> Phases]
    /\ stage \in [Workers -> [PlatformPosts -> Stages]]
    /\ copy \in [Workers -> [PlatformPosts -> Row]]
    /\ faults \in 0..MaxFaults
    /\ accepted \in [PlatformPosts -> Nat]
    /\ replays \in [PlatformPosts -> Nat]
    /\ comments \in [PlatformPosts -> Nat]
    /\ edit \in [Editors -> Edit]
    /\ edits \in 0..MaxEdits
    /\ declared \in [PlatformPosts -> Nat]

(* Safety *)

\* A row's content is accepted by its platform once, plus at most once for every
\* accident that reopened a row the engine had in hand or had finished: a lost
\* answer, bookkeeping that failed after the acceptance, a stale request or a
\* blind retry mark that hit a publishing or published row.  Nothing else in the
\* claim, retry, save and crash paths can post twice.
DuplicatesAccountedFor ==
    \A p \in PlatformPosts : accepted[p] <= 1 + replays[p]

\* The strengthening that is inductive: a call under way and a row that can
\* still be claimed each stand for one acceptance to come.
Calling(p) == {w \in Workers : stage[w][p] = "calling"}
Claimable(p) == IF row[p].status \in ProtectedStatuses THEN 0 ELSE 1

AcceptanceBudget ==
    \A p \in PlatformPosts :
        accepted[p] + Cardinality(Calling(p)) + Claimable(p) <= 1 + replays[p]

\* As long as nothing failed and no request came between, a row left PUBLISHING belongs
\* to a worker that will still settle it (nothing in the code would ever pick an orphan
\* up again), and a single worker sends it once, although group claims and retries pick
\* rows by different queries.
PublishingRowOwned ==
    faults = 0 /\ edits = 0 =>
        \A p \in PlatformPosts :
            /\ row[p].status = "publishing" =>
                  \E w \in Workers : stage[w][p] \in {"calling", "accepted"}
            /\ Cardinality(Workers) = 1 => accepted[p] <= 1

\* A single worker enqueues a first comment once per publication it was told of, and
\* once per time that somebody else wrote the row published (the chip menu may, and a
\* stale composer save).  Two workers do not: the one whose attempt had failed also
\* finds the row published when its group ends.
OneCommentPerPublication ==
    Cardinality(Workers) = 1 =>
        \A p \in PlatformPosts : comments[p] <= accepted[p] + declared[p]

\* The engine, its requests and its accidents implement PublishOnce.  A row's rights
\* are read off the tables and the workers: the provider calls under way for it, and
\* one if it can still be claimed.  So a call never starts but on a claim of a row
\* that nobody has marked as published meanwhile, each answer settles its own call,
\* and no save, crash, retry or request makes a row sendable again without an accident.
Rights(p) == Cardinality(Calling(p)) + Claimable(p)

Contract ==
    INSTANCE PublishOnce WITH
        Rows <- PlatformPosts,
        copies <- accepted,
        rights <- [p \in PlatformPosts |-> Rights(p)],
        accidents <- replays

PublishesOnce == Contract!Spec

-------------------------------------------------------------------------------
(* Action properties *)

StatusStepsLegal ==
    \A p \in PlatformPosts :
        row'[p].status # row[p].status =>
            CanTransition(row[p].status, row'[p].status) \/ replays'[p] > replays[p]

\* The engine writes statuses without asking the state machine, yet a single worker
\* that no request has come between takes the state machine's edges, and leaves them
\* only where an accident reopens a published row.
EngineObeysStateMachine ==
    [][Cardinality(Workers) = 1 /\ edits' = 0 => StatusStepsLegal]_vars

Starts(p) == \E w \in Workers : stage[w][p] # "calling" /\ stage'[w][p] = "calling"

\* A hold keeps every row of the post from being sent, by the due query and by
\* the re-check under the group's locks; the one row that may still go out is a
\* retry that had passed its own check, which is made without a lock.
HoldStopsAllButClearedRetry ==
    [][\A p \in PlatformPosts :
          Starts(p) /\ Held(PostOf[p]) =>
              \E w \in Workers : stage[w][p] = "cleared"]_vars

\* "Drop back to SCHEDULED so the next _process_retries tick picks it up once
\* next_retry_at passes": a retry waits for its backoff.
BackoffRespected ==
    [][\A p \in PlatformPosts : Starts(p) => row[p].nextRetryAt <= now]_vars

\* "Poll for PlatformPosts where scheduled_at <= now()": a row listed for a retry
\* is due at its present schedule.
RetriesAreDue ==
    [][\A w \in Workers, p \in PlatformPosts :
          stage[w][p] # "listed" /\ stage'[w][p] = "listed" =>
              EffectiveAt(p) # None /\ EffectiveAt(p) <= now]_vars

\* "There is deliberately no on_hold -> scheduled edge, so nothing publishes
\* straight out of a hold": no single write takes a row across it.
NoHoldStraightToScheduled ==
    [][\A p \in PlatformPosts :
          row[p].status = "on_hold" => row'[p].status # "scheduled"]_vars

\* "5. Post first comment after 2-minute delay": when no worker has a published
\* row in hand any more, its first comment is enqueued.
FirstCommentFollows ==
    \A p \in PlatformPosts :
        /\ row[p].status = "published" /\ faults = 0 /\ edits = 0
        /\ \A w \in Workers : stage[w][p] = "none"
        => comments[p] > 0

-------------------------------------------------------------------------------
(* Liveness *)

Due(p) == p \in DueRows

\* A due row does not stay due for ever: it is claimed, whatever crashes, failing
\* siblings and the batch limit come in between.
DueRowIsServed == \A p \in PlatformPosts : []<>~Due(p)

\* Without a fault, a claimed row gets its outcome.
ClaimedRowResolves ==
    \A p \in PlatformPosts :
        row[p].status = "publishing" ~> (row[p].status # "publishing" \/ faults > 0)

===============================================================================
