------------------------------- MODULE Publisher -------------------------------
(***************************************************************************)
(* The publishing engine: worker processes that poll the database for due  *)
(* PlatformPosts, claim them post by post, call the social platforms, and  *)
(* retry what failed.                                                      *)
(*                                                                         *)
(* A row's columns are changed by the database statement each action       *)
(* performs.  Between two statements a worker holds an in-memory copy of   *)
(* the row, and saving that copy writes every column back.                 *)
(***************************************************************************)
EXTENDS Integers, FiniteSets, PlatformPostStatus

CONSTANTS
    PlatformPosts, \* the rows
    Posts,         \* their parents
    PostOf,        \* PlatformPost -> Post
    Workers,       \* processes running poll_and_publish
    BatchSize,     \* MAX_CONCURRENT_PUBLISHES, the due query's LIMIT
    MaxRetries,    \* MAX_RETRIES
    Backoff,       \* RETRY_BACKOFF, indexed from 0
    BackoffLast,   \* its last index
    StartStatuses, StartTimes, \* rows the initial states are drawn from
    MaxTime,       \* bound on the clock
    FaultKinds,    \* which of AllFaults happen
    MaxFaults      \* bound on how many

AllFaults == {"crash", "lost_ack", "db_error"}

ASSUME ConstantsAssumption ==
    /\ PostOf \in [PlatformPosts -> Posts]
    /\ IsFiniteSet(Workers)
    /\ BatchSize \in Nat /\ MaxRetries \in Nat /\ BackoffLast \in Nat
    /\ Backoff \in [0..BackoffLast -> Nat]
    /\ StartStatuses \subseteq {"draft", "approved", "on_hold", "scheduled"}
    /\ MaxTime \in Nat /\ MaxFaults \in Nat
    /\ StartTimes \subseteq 0..MaxTime
    /\ FaultKinds \subseteq AllFaults

None == -1 \* a NULL datetime column
Times == Nat \cup {None}

Row == [status: Statuses, schedAt: Times, retryCount: Nat, nextRetryAt: Times]

\* What a worker holds for a row it has no copy of.
NoCopy == [status |-> "draft", schedAt |-> None, retryCount |-> 0, nextRetryAt |-> None]

VARIABLES
    row,       \* the PlatformPost table
    postSched, \* Post.scheduled_at
    now,       \* the clock
    phase,     \* where in poll_and_publish a worker is
    stage,     \* what a worker is doing with a row
    copy,      \* a worker's in-memory copy of a row
    faults,    \* how many faults have happened
    accepted,  \* history: how often the platform accepted the row's content
    replays,   \* history: how often an accident reopened a handled row
    comments   \* first-comment tasks enqueued for the row

dbVars == <<row, postSched>>
workerVars == <<phase, stage, copy>>
publisherVars == <<row, postSched, now, phase, stage, copy, faults, accepted,
                   replays, comments>>

Phases == {"idle", "groups", "retries"}

\* due: picked by the due query; listed: picked by the retry query; cleared:
\* past the retry loop's hold check; calling: the provider call is under way;
\* accepted: the provider said yes; saved: PUBLISHED is in the database;
\* finished: the attempt is over.
Stages == {"none", "due", "listed", "cleared", "calling", "accepted", "saved",
           "finished"}

InHand == {"cleared", "calling", "accepted", "saved", "finished"}

-------------------------------------------------------------------------------
(* Queries *)

Children(post) == {p \in PlatformPosts : PostOf[p] = post}

\* The least of a set of times, NULL when there is none.
Earliest(times) ==
    IF times = {} THEN None ELSE CHOOSE m \in times : \A n \in times : m <= n

\* sync_post_scheduled_at over the rows r: the earliest child time.
Synced(r, post) == Earliest({r[p].schedAt : p \in Children(post)} \ {None})

EffectiveAt(p) ==
    IF row[p].schedAt # None THEN row[p].schedAt ELSE postSched[PostOf[p]]

Held(post) == \E p \in Children(post) : row[p].status = "on_hold"

DueRows ==
    {p \in PlatformPosts :
        /\ row[p].status = "scheduled"
        /\ EffectiveAt(p) # None /\ EffectiveAt(p) <= now
        /\ ~Held(PostOf[p])}

\* The earliest BatchSize of the due rows, in one of the orders ties allow.
DueBatches ==
    {b \in SUBSET DueRows :
        /\ Cardinality(b) = IF Cardinality(DueRows) <= BatchSize
                            THEN Cardinality(DueRows) ELSE BatchSize
        /\ \A p \in b, q \in DueRows \ b : EffectiveAt(p) <= EffectiveAt(q)}

\* Mutant: the claim trusts the due query and does not look at the status again.
ClaimableUnchecked(w, post) == {p \in Children(post) : stage[w][p] = "due"}

\* What a group claims under the row locks.
ClaimableRows(w, post) ==
    {p \in Children(post) : stage[w][p] = "due" /\ row[p].status = "scheduled"}

\* Mutant: the hold is not looked for again under the locks.
NeverGivenUp(post) == FALSE

\* The group is given up when the locked rows show a hold.
GivenUp(post) == Held(post)

\* Mutant: every row of the group gets its comment, published or not.
CommentAll(w, post) == {p \in Children(post) : stage[w][p] = "finished"}

\* The rows of a finished group whose first comment is enqueued, on refresh.
CommentRows(w, post) ==
    {p \in Children(post) : stage[w][p] = "finished" /\ row[p].status = "published"}

\* Mutant: the retry query without its status filter.
RetryRowsAnyStatus ==
    {p \in PlatformPosts :
        /\ row[p].retryCount > 0 /\ row[p].retryCount <= MaxRetries
        /\ row[p].nextRetryAt # None /\ row[p].nextRetryAt <= now
        /\ ~Held(PostOf[p])}

RetryRows ==
    {p \in PlatformPosts :
        /\ row[p].status = "scheduled"
        /\ row[p].retryCount > 0 /\ row[p].retryCount <= MaxRetries
        /\ row[p].nextRetryAt # None /\ row[p].nextRetryAt <= now
        /\ ~Held(PostOf[p])}

-------------------------------------------------------------------------------
(* Full-row saves of an in-memory copy *)

\* Mutant: the status is forgotten and the claimed row stays as it is.
FailSilently(c) == [c EXCEPT !.status = "publishing"]

FailPermanently(c) == [c EXCEPT !.status = "failed"]

\* Mutant: retry_count is never counted up.
RetryUncounted(c) == [c EXCEPT !.status = "scheduled", !.nextRetryAt = now + Backoff[0]]

\* Mutant: the retry waits as a draft.
RetryAsDraft(c) == [c EXCEPT !.status = "draft", !.retryCount = @ + 1]

ScheduleRetry(c) ==
    IF c.retryCount >= MaxRetries
    THEN FailPermanently(c)
    ELSE [c EXCEPT !.status = "scheduled",
                   !.retryCount = @ + 1,
                   !.nextRetryAt = now + Backoff[IF c.retryCount <= BackoffLast
                                                 THEN c.retryCount
                                                 ELSE BackoffLast]]

\* Mutant: the copy is saved before its status is set.
SavedBeforeStatus(c) == c

Published(c) == [c EXCEPT !.status = "published"]

SaveRow(p, r) == row' = [row EXCEPT ![p] = r]
Goto(w, p, s) == stage' = [stage EXCEPT ![w][p] = s]
Accept(p) == accepted' = [accepted EXCEPT ![p] = @ + 1]
Replay(p) == replays' = [replays EXCEPT ![p] = @ + 1]
Fault(kind) == kind \in FaultKinds /\ faults < MaxFaults /\ faults' = faults + 1

-------------------------------------------------------------------------------
(* The worker's cycle *)

Init ==
    /\ row \in [PlatformPosts ->
                  {r \in [status: StartStatuses, schedAt: StartTimes \cup {None},
                          retryCount: {0}, nextRetryAt: {None}] :
                      (r.schedAt # None) = (r.status = "scheduled")}]
    /\ postSched = [post \in Posts |-> Synced(row, post)]
    /\ now = 0
    /\ phase = [w \in Workers |-> "idle"]
    /\ stage = [w \in Workers |-> [p \in PlatformPosts |-> "none"]]
    /\ copy = [w \in Workers |-> [p \in PlatformPosts |-> NoCopy]]
    /\ faults = 0
    /\ accepted = [p \in PlatformPosts |-> 0]
    /\ replays = [p \in PlatformPosts |-> 0]
    /\ comments = [p \in PlatformPosts |-> 0]

\* _get_due_platform_posts, at the head of poll_and_publish.
Poll(w) ==
    /\ phase[w] = "idle"
    /\ \E batch \in DueBatches :
          stage' = [stage EXCEPT ![w] =
                      [p \in PlatformPosts |-> IF p \in batch THEN "due" ELSE "none"]]
    /\ phase' = [phase EXCEPT ![w] = "groups"]
    /\ UNCHANGED <<dbVars, now, copy, faults, accepted, replays, comments>>

\* The locked head of _publish_post_group, in one transaction: give the group
\* up if a sibling is held, else mark PUBLISHING what is still scheduled.
ClaimGroup(w, post) ==
    LET claimed == IF GivenUp(post) THEN {} ELSE ClaimableRows(w, post)
    IN  /\ phase[w] = "groups"
        /\ \E p \in Children(post) : stage[w][p] = "due"
        /\ row' = [p \in PlatformPosts |->
                     IF p \in claimed THEN [row[p] EXCEPT !.status = "publishing"]
                     ELSE row[p]]
        /\ stage' = [stage EXCEPT ![w] =
                       [p \in PlatformPosts |->
                          CASE p \in claimed -> "calling"
                            [] p \in Children(post) /\ p \notin claimed -> "none"
                            [] OTHER -> stage[w][p]]]
        /\ copy' = [copy EXCEPT ![w] =
                      [p \in PlatformPosts |->
                         IF p \in claimed THEN row[p] ELSE copy[w][p]]]
        /\ UNCHANGED <<postSched, now, phase, faults, accepted, replays, comments>>

-------------------------------------------------------------------------------
(* _publish_platform_post, one step per outcome of a call or a statement *)

ProviderAccepts(w, p) ==
    /\ stage[w][p] = "calling"
    /\ Accept(p)
    /\ Goto(w, p, "accepted")
    /\ UNCHANGED <<dbVars, now, phase, copy, faults, replays, comments>>

\* The platform accepted, but the answer is lost and counts as a failure.
ProviderLosesAck(w, p) ==
    /\ stage[w][p] = "calling"
    /\ Fault("lost_ack")
    /\ Accept(p)
    /\ Replay(p)
    /\ SaveRow(p, ScheduleRetry(copy[w][p]))
    /\ Goto(w, p, "finished")
    /\ UNCHANGED <<postSched, now, phase, copy, comments>>

ProviderFails(w, p) ==
    /\ stage[w][p] = "calling"
    /\ SaveRow(p, ScheduleRetry(copy[w][p]))
    /\ Goto(w, p, "finished")
    /\ UNCHANGED <<postSched, now, phase, copy, faults, accepted, replays, comments>>

\* The provider raises an error that is not retryable.
ProviderRefuses(w, p) ==
    /\ stage[w][p] = "calling"
    /\ SaveRow(p, FailPermanently(copy[w][p]))
    /\ Goto(w, p, "finished")
    /\ UNCHANGED <<postSched, now, phase, copy, faults, accepted, replays, comments>>

\* The attempt ran into an error and the PublishLog insert that records it failed
\* too: the error leaves _publish_platform_post before any retry is scheduled.
OutcomeUnrecorded(w, p) ==
    /\ stage[w][p] \in {"calling", "accepted", "saved"}
    /\ Fault("db_error")
    /\ Goto(w, p, "finished")
    /\ UNCHANGED <<dbVars, now, phase, copy, accepted, replays, comments>>

SavePublished(w, p) ==
    /\ stage[w][p] = "accepted"
    /\ SaveRow(p, Published(copy[w][p]))
    /\ Goto(w, p, "saved")
    /\ UNCHANGED <<postSched, now, phase, copy, faults, accepted, replays, comments>>

LogPublished(w, p) ==
    /\ stage[w][p] = "saved"
    /\ Goto(w, p, "finished")
    /\ UNCHANGED <<dbVars, now, phase, copy, faults, accepted, replays, comments>>

\* Saving PUBLISHED, or the PublishLog insert after it, fails: the catch-all
\* handler schedules a retry of a post the platform already has.
BookkeepingFails(w, p) ==
    /\ stage[w][p] \in {"accepted", "saved"}
    /\ Fault("db_error")
    /\ Replay(p)
    /\ SaveRow(p, ScheduleRetry(copy[w][p]))
    /\ Goto(w, p, "finished")
    /\ UNCHANGED <<postSched, now, phase, copy, accepted, comments>>

\* The tail of _publish_post_group: every attempt of the group is over, and the
\* rows found PUBLISHED on refresh get their first-comment task.
FinishGroup(w, post) ==
    /\ phase[w] = "groups"
    /\ \A p \in Children(post) : stage[w][p] \in {"none", "finished"}
    /\ \E p \in Children(post) : stage[w][p] = "finished"
    /\ comments' = [p \in PlatformPosts |->
                      IF p \in CommentRows(w, post) THEN comments[p] + 1 ELSE comments[p]]
    /\ stage' = [stage EXCEPT ![w] =
                   [p \in PlatformPosts |->
                      IF PostOf[p] = post THEN "none" ELSE stage[w][p]]]
    /\ UNCHANGED <<dbVars, now, phase, copy, faults, accepted, replays>>

-------------------------------------------------------------------------------
(* _process_retries *)

StartRetries(w) ==
    /\ phase[w] = "groups"
    /\ \A p \in PlatformPosts : stage[w][p] = "none"
    /\ phase' = [phase EXCEPT ![w] = "retries"]
    /\ stage' = [stage EXCEPT ![w] =
                   [p \in PlatformPosts |-> IF p \in RetryRows THEN "listed" ELSE "none"]]
    /\ copy' = [copy EXCEPT ![w] =
                  [p \in PlatformPosts |-> IF p \in RetryRows THEN row[p] ELSE NoCopy]]
    /\ UNCHANGED <<dbVars, now, faults, accepted, replays, comments>>

\* The loop takes one row at a time and looks for a hold first...
RetryCheckHold(w, p) ==
    /\ phase[w] = "retries"
    /\ stage[w][p] = "listed"
    /\ \A q \in PlatformPosts : stage[w][q] \notin InHand
    /\ Goto(w, p, IF Held(PostOf[p]) THEN "none" ELSE "cleared")
    /\ UNCHANGED <<dbVars, now, phase, copy, faults, accepted, replays, comments>>

\* ...then writes PUBLISHING over whatever status the row has by now.
RetryMark(w, p) ==
    /\ stage[w][p] = "cleared"
    /\ IF row[p].status \in ProtectedStatuses THEN Replay(p) ELSE UNCHANGED replays
    /\ row' = [row EXCEPT ![p].status = "publishing"]
    /\ Goto(w, p, "calling")
    /\ UNCHANGED <<postSched, now, phase, copy, faults, accepted, comments>>

RetryDone(w, p) ==
    /\ phase[w] = "retries"
    /\ stage[w][p] = "finished"
    /\ Goto(w, p, "none")
    /\ UNCHANGED <<dbVars, now, phase, copy, faults, accepted, replays, comments>>

EndCycle(w) ==
    /\ phase[w] = "retries"
    /\ \A p \in PlatformPosts : stage[w][p] = "none"
    /\ phase' = [phase EXCEPT ![w] = "idle"]
    /\ copy' = [copy EXCEPT ![w] = [p \in PlatformPosts |-> NoCopy]]
    /\ UNCHANGED <<dbVars, now, stage, faults, accepted, replays, comments>>

-------------------------------------------------------------------------------
\* A worker dies and is restarted: its memory is gone, its committed writes stay.
Crash(w) ==
    /\ phase[w] # "idle"
    /\ Fault("crash")
    /\ phase' = [phase EXCEPT ![w] = "idle"]
    /\ stage' = [stage EXCEPT ![w] = [p \in PlatformPosts |-> "none"]]
    /\ copy' = [copy EXCEPT ![w] = [p \in PlatformPosts |-> NoCopy]]
    /\ UNCHANGED <<dbVars, now, accepted, replays, comments>>

Tick ==
    /\ now < MaxTime
    /\ now' = now + 1
    /\ UNCHANGED <<dbVars, workerVars, faults, accepted, replays, comments>>

Attempt(w, p) ==
    \/ ProviderAccepts(w, p) \/ ProviderLosesAck(w, p) \/ ProviderFails(w, p)
    \/ ProviderRefuses(w, p) \/ OutcomeUnrecorded(w, p)
    \/ SavePublished(w, p) \/ LogPublished(w, p) \/ BookkeepingFails(w, p)

Cycle(w) ==
    \/ Poll(w) \/ StartRetries(w) \/ EndCycle(w)
    \/ \E post \in Posts : ClaimGroup(w, post) \/ FinishGroup(w, post)
    \/ \E p \in PlatformPosts :
          RetryCheckHold(w, p) \/ RetryMark(w, p) \/ RetryDone(w, p)

WorkerStep(w) == Cycle(w) \/ \E p \in PlatformPosts : Attempt(w, p)

EngineNext == Tick \/ \E w \in Workers : WorkerStep(w) \/ Crash(w)
===============================================================================
