------------------------------- MODULE Analytics -------------------------------
(***************************************************************************)
(* The metrics of one account and of one of its posts: apps/analytics.  The *)
(* background worker runs an hourly sync, and a backfill after each change  *)
(* of the token, one task at a time; people reconnect the account and hours *)
(* pass while a task works on the copy of the account it read at its start. *)
(***************************************************************************)
EXTENDS Integers

CONSTANTS DayHours,    \* bound: hours of a day (24 in the code)
          RecentDays,  \* _ACCOUNT_METRICS_RECENT_DAYS
          LastSyncHour,    \* bound on the clock
          MaxAccountChanges,  \* bound on reconnects and token refreshes
          MaxSyncFaults       \* bound on failed calls, lost scopes and deaths of the worker

ASSUME AnalyticsAssumption ==
    /\ DayHours \in Nat \ {0} /\ RecentDays \in Nat \ {0} /\ LastSyncHour \in Nat
    /\ MaxAccountChanges \in Nat /\ MaxSyncFaults \in Nat

VARIABLES
    metered,    \* the SocialAccount row, and whether its grant may read metrics
    backfills,  \* backfill_account_analytics in the queue, the one running included
    sync,       \* the task the worker runs, with its copy of the account
    rows,       \* day -> keys of its AccountInsightsSnapshot rows
    video,      \* captured_at of the post's rows, by the call that writes them
    clock,      \* the hour, the last day whose metrics the platform has
    accountChanges, syncFaults, \* counters
    told        \* history of the hour, the day and the grant

analyticsVars == <<metered, backfills, sync, rows, video, clock, accountChanges, syncFaults, told>>

DayOf(hour) == hour \div DayHours
Today == DayOf(clock.hour)
Days == (1 - RecentDays)..DayOf(LastSyncHour)
NotYet == -99
NoSync == [kind |-> "none"]

\* Mutant: every row of the post counts for the schedule.
AllRows == {"data", "analytics"}

\* _POST_NON_CADENCE_METRICS_BY_PLATFORM leaves out what the batched call writes.
CadenceRows == {"data"}

\* _POST_SYNC_CADENCE: hourly on the first day, rarer after it, then no more.
SyncHorizon == 2 * DayHours
Interval(age) == IF age < DayHours THEN 1 ELSE DayHours

\* _post_cadence_due; the post was published in hour 0.
DueAt(hour) ==
    /\ hour < SyncHorizon
    /\ \A key \in CadenceRows : video[key] = NotYet \/ hour - video[key] >= Interval(hour)

\* instagram also stands for instagram_login. TikTok's account metrics are disabled: its
\* answer is empty and no call is made. X tells its live follower total and nothing else.
\* Neither is asked for past days.
MeteredPlatforms == {"youtube", "tiktok", "x", "facebook", "instagram"}
DaysBack(platform) == IF platform \in {"tiktok", "x"} THEN 1 ELSE RecentDays
HasFollowers(platform) == platform \in {"x", "instagram"}
NeedsFollowers(seen) == metered.platform \in {"facebook", "instagram"} /\ seen.followers = 0

\* The follower total of an answer; NoTotal where it has none, or that call failed.
NoTotal == -1
Totals == CASE metered.platform \in {"youtube", "tiktok"} -> {NoTotal}
            [] metered.platform \in {"x", "facebook"}     -> {0, 1}
            [] OTHER                                       -> {NoTotal, 0, 1}

SyncFault == syncFaults < MaxSyncFaults /\ syncFaults' = syncFaults + 1

-------------------------------------------------------------------------------
(* The account, changed by requests and by token refreshes *)

AccountChange == accountChanges < MaxAccountChanges /\ accountChanges' = accountChanges + 1

\* A fresh grant; post_save queues a backfill in the same transaction.
Reconnect(followers) ==
    /\ AccountChange /\ (metered.platform \in {"facebook", "instagram"} \/ followers = 1)
    /\ metered' = [metered EXCEPT !.flag = FALSE, !.scope = TRUE, !.followers = followers]
    /\ backfills' = backfills + 1
    /\ sync' = IF sync = NoSync THEN NoSync ELSE [sync EXCEPT !.superseded = TRUE]
    /\ told' = [told EXCEPT !.refused = FALSE, !.filled = FALSE]
    /\ UNCHANGED <<rows, video, clock, syncFaults>>

\* A refresh saves the token among its update_fields, which the signal cannot tell
\* from a reconnect.
RefreshToken ==
    /\ AccountChange /\ backfills' = backfills + 1
    /\ UNCHANGED <<metered, sync, rows, video, clock, syncFaults, told>>

\* The platform stops giving this grant its metrics.
LoseScope ==
    /\ metered.scope /\ metered' = [metered EXCEPT !.scope = FALSE] /\ SyncFault
    /\ UNCHANGED <<backfills, sync, rows, video, clock, accountChanges, told>>

\* An hour passes; at midnight the platform has finished some more days.
Hour ==
    /\ clock.hour < LastSyncHour
    /\ \E ready \in clock.ready..DayOf(clock.hour + 1) :
          /\ DayOf(clock.hour + 1) = Today \/ metered.platform # "youtube" => ready = clock.ready
          /\ clock' = [clock EXCEPT !.hour = @ + 1, !.ready = ready]
    /\ told' = [told EXCEPT !.ran = FALSE,
                            !.passed = @ /\ DayOf(clock.hour + 1) = Today,
                            !.failed = @ /\ DayOf(clock.hour + 1) = Today]
    /\ UNCHANGED <<metered, backfills, sync, rows, video, accountChanges, syncFaults>>

-------------------------------------------------------------------------------
(* The tasks *)

Begin(kind, place) ==
    sync' = [kind |-> kind, at |-> place, today |-> Today, back |-> 0, total |-> FALSE,
             flag |-> metered.flag, followers |-> metered.followers, superseded |-> FALSE]

\* An account flagged for reconnection, or with rows for today, keeps what it has.
StartCron ==
    /\ sync = NoSync /\ ~told.ran
    /\ LET asks == rows[Today] = {} \/ NeedsFollowers(metered)
       IN  /\ Begin("cron", IF ~metered.flag /\ asks THEN "account" ELSE "post")
           /\ told' = [told EXCEPT !.ran = TRUE, !.began = @ \cup {Today},
                                   !.passed = @ \/ (~metered.flag /\ ~asks)]
    /\ UNCHANGED <<metered, backfills, rows, video, clock, accountChanges, syncFaults>>

StartBackfill ==
    /\ sync = NoSync /\ backfills > 0 /\ Begin("backfill", "account")
    /\ told' = [told EXCEPT !.began = @ \cup {Today}]
    /\ UNCHANGED <<metered, backfills, rows, video, clock, accountChanges, syncFaults>>

Target == sync.today - sync.back
SyncAt(place) == sync # NoSync /\ sync.at = place
DaysLeft == SyncAt("account") /\ sync.back < DaysBack(metered.platform)

\* _sync_account_metrics leaves a day alone that has rows.
HasDay == rows[Target] # {} /\ ~(sync.back = 0 /\ NeedsFollowers(sync))

SkipDay ==
    /\ DaysLeft /\ HasDay
    /\ sync' = [sync EXCEPT !.back = @ + 1]
    /\ UNCHANGED <<metered, backfills, rows, video, clock, accountChanges, syncFaults, told>>

\* What the token of the copy may do; that of a former grant may do either.
MayRead == sync.superseded \/ metered.scope
MayBeRefused == sync.superseded \/ ~metered.scope

\* YouTube's answer is empty until the platform has the day; Meta's always has some views,
\* 0 of them if nothing else.
AnswerHasMetrics ==
    \/ metered.platform = "youtube" /\ Target <= clock.ready
    \/ metered.platform \in {"facebook", "instagram"}

\* An answer for the day, whose follower total is kept for the day of the task.
FetchDay(followers) ==
    /\ DaysLeft /\ ~HasDay /\ (MayRead \/ metered.platform = "tiktok")
    /\ followers \in Totals
    /\ rows' = IF AnswerHasMetrics THEN [rows EXCEPT ![Target] = @ \cup {"metrics"}] ELSE rows
    /\ LET new == followers > 0 /\ sync.followers # followers
           total == followers # NoTotal /\ HasFollowers(metered.platform)
       IN  /\ sync' = [sync EXCEPT !.back = @ + 1, !.total = @ \/ total,
                                   !.followers = IF new THEN followers ELSE @]
           /\ metered' = [metered EXCEPT !.followers = IF new THEN followers ELSE @]
    /\ UNCHANGED <<backfills, video, clock, accountChanges, syncFaults, told>>

\* _mark_needs_reconnect trusts the copy's flag.
Mark == metered' = [metered EXCEPT !.flag = @ \/ ~sync.flag]
Refusal(t) ==
    [t EXCEPT !.failed = TRUE, !.refused = TRUE]

ToPost(flag) ==
    sync' = [sync EXCEPT !.at = "post", !.back = 0, !.total = FALSE, !.flag = flag]

\* The metrics of the account are given up; the post is still tried.
AccountRefused ==
    /\ DaysLeft /\ ~HasDay /\ MayBeRefused /\ metered.platform # "tiktok"
    /\ Mark /\ told' = Refusal(told) /\ ToPost(TRUE)
    /\ UNCHANGED <<backfills, rows, video, clock, accountChanges, syncFaults>>

AccountFails ==
    /\ DaysLeft /\ ~HasDay /\ SyncFault /\ metered.platform # "tiktok"
    /\ ToPost(sync.flag) /\ told' = [told EXCEPT !.failed = TRUE]
    /\ UNCHANGED <<metered, backfills, rows, video, clock, accountChanges>>

\* What _sync_youtube_post_analytics meets: nothing to do, or rows for the post as soon
\* as any day is ready; a refusal marks the account, whose days were all read.
BatchOutcomes ==
    IF metered.platform # "youtube" THEN {"nothing"}
    ELSE {"failure"} \cup (IF MayRead THEN {"nothing"} ELSE {})
         \cup (IF MayRead /\ clock.ready >= 0 THEN {"rows"} ELSE {})
         \cup (IF MayBeRefused THEN {"refusal"} ELSE {})

\* After the days: the live total, for the day of the task alone, and the batched
\* YouTube call.
FinishAccount(batch) ==
    /\ SyncAt("account") /\ ~DaysLeft /\ batch \in BatchOutcomes
    /\ rows' = IF sync.total THEN [rows EXCEPT ![sync.today] = @ \cup {"followers"}] ELSE rows
    /\ video' = IF batch = "rows" THEN [video EXCEPT !.analytics = clock.hour] ELSE video
    /\ IF batch = "refusal" THEN Mark /\ ToPost(TRUE) ELSE UNCHANGED metered /\ ToPost(sync.flag)
    /\ IF batch = "failure" THEN SyncFault ELSE UNCHANGED syncFaults
    /\ told' = [told EXCEPT !.passed = @ \/ (sync.kind = "cron" /\ sync.today = Today),
                            !.refused = @ \/ batch = "refusal"]
    /\ UNCHANGED <<backfills, clock, accountChanges>>

\* The backfill syncs the post whatever the schedule, the hourly task when it is due.
Wanted == IF sync.kind = "cron" THEN DueAt(clock.hour) ELSE clock.hour < SyncHorizon

Done == sync' = NoSync /\ backfills' = backfills - (IF sync.kind = "backfill" THEN 1 ELSE 0)
Served(t) ==
    [t EXCEPT !.filled = @ \/ (sync.kind = "backfill" /\ ~sync.superseded)]

SyncPost ==
    /\ SyncAt("post") /\ Wanted /\ MayRead
    /\ video' = [video EXCEPT !.data = clock.hour]
    /\ told' = Served(told)
    /\ Done /\ UNCHANGED <<metered, rows, clock, accountChanges, syncFaults>>

UpToDate(hour) == hour < SyncHorizon => video.data # NotYet /\ hour - video.data < Interval(hour)

PostNotDue ==
    /\ SyncAt("post") /\ ~Wanted
    /\ told' = Served([told EXCEPT !.neglected = @ \/ (sync.kind = "cron" /\ ~UpToDate(clock.hour))])
    /\ Done /\ UNCHANGED <<metered, rows, video, clock, accountChanges, syncFaults>>

\* A post that cannot be read leaves its rows as they are.
PostRefused ==
    /\ SyncAt("post") /\ Wanted /\ MayBeRefused /\ Mark
    /\ told' = Served(Refusal(told))
    /\ Done /\ UNCHANGED <<rows, video, clock, accountChanges, syncFaults>>

PostFails ==
    /\ SyncAt("post") /\ Wanted /\ SyncFault
    /\ told' = Served(told)
    /\ Done /\ UNCHANGED <<metered, rows, video, clock, accountChanges>>

\* The lock on the task expires and it runs again.
SyncDies ==
    /\ sync # NoSync /\ SyncFault /\ sync' = NoSync
    /\ told' = [told EXCEPT !.failed = TRUE]
    /\ UNCHANGED <<metered, backfills, rows, video, clock, accountChanges>>

-------------------------------------------------------------------------------

AnalyticsInit ==
    /\ \E platform \in MeteredPlatforms :
          metered = [platform |-> platform, flag |-> FALSE, scope |-> TRUE,
                     followers |-> IF platform \in {"facebook", "instagram"} THEN 0 ELSE 1]
    /\ backfills = 1 /\ sync = NoSync
    /\ rows = [d \in Days |-> {}]
    /\ video = [data |-> NotYet, analytics |-> NotYet]
    /\ clock = [hour |-> 0, ready |-> -1] /\ accountChanges = 0 /\ syncFaults = 0
    /\ told = [ran |-> FALSE, passed |-> FALSE, failed |-> FALSE, began |-> {},
               refused |-> FALSE, filled |-> FALSE, neglected |-> FALSE]

AnalyticsNext ==
    \/ \E followers \in {0, 1} : Reconnect(followers)
    \/ RefreshToken \/ LoseScope \/ Hour
    \/ StartCron \/ StartBackfill \/ SkipDay
    \/ \E followers \in {NoTotal, 0, 1} : FetchDay(followers)
    \/ AccountRefused \/ AccountFails
    \/ \E batch \in {"nothing", "rows", "refusal", "failure"} : FinishAccount(batch)
    \/ SyncPost \/ PostNotDue \/ PostRefused \/ PostFails \/ SyncDies

-------------------------------------------------------------------------------

AnalyticsTypeOK ==
    /\ metered.flag \in BOOLEAN /\ metered.scope \in BOOLEAN
    /\ metered.followers \in {0, 1} /\ backfills \in 0..(MaxAccountChanges + 1)
    /\ sync # NoSync => sync.kind \in {"cron", "backfill"} /\ sync.at \in {"account", "post"}
    /\ \A d \in Days : rows[d] \subseteq {"metrics", "followers"}
    /\ clock.ready < Today + 1 /\ syncFaults \in 0..MaxSyncFaults

\* "lets finalized data backfill into the snapshot table instead of being lost": once the
\* hourly task is through the account on a day without a failure, no day of its window
\* that the platform has is without rows; X has today alone, and TikTok none.
RecentDaysCaughtUp ==
    told.passed /\ ~told.failed =>
        \A d \in (Today - RecentDays + 1)..Today :
            \/ metered.platform = "youtube" /\ d > clock.ready
            \/ metered.platform = "x" /\ d < Today
            \/ metered.platform = "tiktok"
            \/ rows[d] # {}

\* "never into a backfilled past date (which would fabricate flat history)": a live
\* follower total stands only under a day on which a task began.
NoInventedHistory == \A d \in Days : "followers" \in rows[d] => d \in told.began

\* "Reconnecting clears the flag and runs a one-shot backfill": the flag stands only if
\* a call was refused since, by a task that may have begun under the former grant, and
\* the present grant has had its backfill or has one in the queue.
GrantsGetAnalytics ==
    /\ metered.flag => told.refused
    /\ backfills > 0 \/ told.filled

\* "starving the Data API of refreshes": after an hourly task that had no trouble with
\* the post, its data are younger than the schedule's interval, until the horizon.
PostStaysFresh == ~told.neglected

AnalyticsHold ==
    RecentDaysCaughtUp /\ NoInventedHistory /\ GrantsGetAnalytics /\ PostStaysFresh
===============================================================================
