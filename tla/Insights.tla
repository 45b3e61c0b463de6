--------------------------------- MODULE Insights ---------------------------------
(***************************************************************************)
(* What the analytics pages make of the stored snapshots of one metric:     *)
(* daily gains out of cumulative counts of posts, the choice between them   *)
(* and the account's own rows, totals of two periods, growth of followers.  *)
(***************************************************************************)
EXTENDS Integers, FiniteSets, Folds

CONSTANTS
    Measured,       \* published posts of the account
    PublishDays,    \* days one may have been published, Undated without a date
    Period,         \* days of a period; two are fetched
    LastInsightDay,
    CountStep,      \* what counts are multiples of
    MaxCount, MaxFollowers, MaxPostSyncs, MaxAccountSyncs, MaxFollowerSyncs

\* A count divides by any number of days of the window: a part of it is exact, as it is
\* in the code's floats up to rounding.
ASSUME PeriodAssumption ==
    /\ Period \in Nat \ {0} /\ LastInsightDay \in Nat /\ CountStep \in Nat
    /\ \A n \in 1..(2 * Period) : \E part \in 0..CountStep : CountStep = n * part
    /\ {MaxCount, MaxFollowers, MaxPostSyncs, MaxAccountSyncs, MaxFollowerSyncs} \subseteq Nat
    /\ IsFiniteSet(Measured) /\ PublishDays \subseteq Int

VARIABLES
    metric,        \* the metric looked at: "views" of posts, or "followers"
    today,
    publishedOn,   \* day each post was published
    postRows,      \* PostInsightsSnapshot: cumulative counts, by post and day
    accountRows,   \* AccountInsightsSnapshot: what the platform says of each day
    followerRows,  \* AccountInsightsSnapshot of the followers' total
    syncNo, accountSyncs

insightVars == <<metric, today, publishedOn, postRows, accountRows, followerRows,
                 syncNo, accountSyncs>>

Undated == -1
InsightDays == 0..LastInsightDay
NotMeasured == [value |-> -1, captured |-> 0]
Counts == {CountStep * n : n \in 0..MaxCount}

Least(days) == CHOOSE d \in days : \A e \in days : d <= e
Greatest(values) == CHOOSE v \in values : \A w \in values : w <= v
SumOver(series, days) ==
    MapThenFoldSet(+, 0, LAMBDA d : series[d], LAMBDA s : CHOOSE d \in s : TRUE, days)

Measurement == [value : Counts \cup {-1}, captured : 0..(MaxPostSyncs + MaxAccountSyncs)]

-------------------------------------------------------------------------------
(* analytics/services.py: the window of two periods that ends today *)

FirstDay == today - 2 * Period + 1
Window == FirstDay..today
CurrentDays == (today - Period + 1)..today
PreviousDays == FirstDay..(today - Period)

SnapshotDays(p) == {d \in InsightDays \cap Window : postRows[p][d] # NotMeasured}

\* Mutant: the last value is what the next is compared with, after a reset too.
LastValue(p, d) == postRows[p][Greatest({e \in SnapshotDays(p) : e < d})].value

\* A drop does not lower what the next value is compared with.
HighWater(p, d) == Greatest({postRows[p][e].value : e \in {x \in SnapshotDays(p) : x < d}})

\* Mutant: spread over the days of the window.
SpreadSinceStart(p) == FirstDay..Least(SnapshotDays(p))

\* Days the first snapshot in the window is spread over: those since publication, or
\* its own when that is not known; none when the post is older than the window.
SpreadDays(p) ==
    LET first == Least(SnapshotDays(p))
    IN  IF publishedOn[p] = Undated \/ publishedOn[p] > first THEN {first}
        ELSE IF publishedOn[p] < FirstDay THEN {}
        ELSE publishedOn[p]..first

Spread(p, d) ==
    IF SnapshotDays(p) # {} /\ d \in SpreadDays(p)
    THEN postRows[p][Least(SnapshotDays(p))].value \div Cardinality(SpreadDays(p)) ELSE 0

Rise(p, d) ==
    LET days == SnapshotDays(p)
    IN  IF d \in days /\ d # Least(days) /\ postRows[p][d].value > HighWater(p, d)
        THEN postRows[p][d].value - HighWater(p, d) ELSE 0

\* What post p adds to day d, 0 for nothing.
Gain(p, d) == Spread(p, d) + Rise(p, d)

\* Days that get an entry in the result, of 0 perhaps.
Credits(p, d) ==
    LET days == SnapshotDays(p)
    IN  /\ days # {}
        /\ \/ d \in SpreadDays(p)
           \/ d \in days /\ d # Least(days) /\ postRows[p][d].value > HighWater(p, d)

CreditedDays == {d \in Window : \E p \in Measured : Credits(p, d)}

\* _post_summed_series_for_metric
PostSummed(d) == SumOver([p \in Measured |-> Gain(p, d)], Measured)

AccountDays == {d \in InsightDays \cap Window : accountRows[d] # NotMeasured}

LatestOf(captures) == Greatest({0} \cup captures)
PostsCaptured ==
    LatestOf(UNION {{postRows[p][d].captured : d \in SnapshotDays(p)} : p \in Measured})
AccountCaptured == LatestOf({accountRows[d].captured : d \in AccountDays})

\* Mutant: posts are summed only for an account that reports nothing itself.
OnlyWithoutAccount == AccountDays = {}

\* The posts' sums are used where the account has no rows, or has older ones.
UseFallback == AccountDays = {} \/ PostsCaptured > AccountCaptured

\* account_analytics_bundle: one value for each day of the window.
Series ==
    LET fallback == IF UseFallback THEN CreditedDays ELSE {}
        measured == AccountDays
    IN  [d \in Window |-> IF d \in fallback THEN PostSummed(d)
                         ELSE IF d \in measured THEN accountRows[d].value ELSE 0]

\* analytics/derive.py
\* Mutant: the previous period reaches into the current one.
SplitOneOff == <<CurrentDays, PreviousDays \cup {today - Period + 1}>>

Split == <<CurrentDays, PreviousDays>>

-------------------------------------------------------------------------------
(* follower_growth_metric, where only a running total is known *)

TotalDays(days) == {d \in InsightDays \cap days : followerRows[d] # -1}

\* window_delta
WindowDelta(days) ==
    LET totals == TotalDays(days)
        gain == followerRows[Greatest(totals)] - followerRows[Least(totals)]
    IN  IF Cardinality(totals) < 2 \/ gain < 0 THEN 0 ELSE gain

\* Mutant: a day is compared with the day before, whether that was measured or not.
DayBefore(d) == TotalDays(Window \cap {d - 1})

MeasuredBefore(d) == TotalDays({e \in Window : e < d})

\* The chart's bar of one day.
DailyGrowth(d) ==
    LET earlier == MeasuredBefore(d)
        gain == followerRows[d] - followerRows[Greatest(earlier)]
    IN  IF d \notin TotalDays(CurrentDays) \/ earlier = {} THEN 0
        ELSE IF gain < 0 THEN 0 ELSE gain

-------------------------------------------------------------------------------

\* A sync stores what the platform says now under today's date, over an earlier one.
StorePostRow(p, count) ==
    /\ metric = "views" /\ today >= publishedOn[p]
    /\ syncNo - accountSyncs < MaxPostSyncs
    /\ syncNo' = syncNo + 1
    /\ postRows' = [postRows EXCEPT ![p][today] =
                        [value |-> count, captured |-> syncNo + 1]]
    /\ UNCHANGED <<metric, today, publishedOn, accountRows, followerRows, accountSyncs>>

StoreAccountRow(count) ==
    /\ metric = "views" /\ accountSyncs < MaxAccountSyncs
    /\ syncNo' = syncNo + 1 /\ accountSyncs' = accountSyncs + 1
    /\ accountRows' = [accountRows EXCEPT ![today] =
                           [value |-> count, captured |-> syncNo + 1]]
    /\ UNCHANGED <<metric, today, publishedOn, postRows, followerRows>>

StoreFollowers(total) ==
    /\ metric = "followers" /\ accountSyncs < MaxFollowerSyncs
    /\ accountSyncs' = accountSyncs + 1 /\ syncNo' = syncNo + 1
    /\ followerRows' = [followerRows EXCEPT ![today] = total]
    /\ UNCHANGED <<metric, today, publishedOn, postRows, accountRows>>

InsightDayPasses ==
    /\ today < LastInsightDay /\ today' = today + 1
    /\ UNCHANGED <<metric, publishedOn, postRows, accountRows, followerRows,
                   syncNo, accountSyncs>>

InsightInit ==
    /\ metric \in {"views", "followers"} /\ today = 0 /\ syncNo = 0 /\ accountSyncs = 0
    /\ publishedOn \in [Measured -> PublishDays]
    /\ postRows = [p \in Measured |-> [d \in InsightDays |-> NotMeasured]]
    /\ accountRows = [d \in InsightDays |-> NotMeasured]
    /\ followerRows = [d \in InsightDays |-> -1]

InsightNext ==
    \/ \E p \in Measured, count \in Counts : StorePostRow(p, count)
    \/ \E count \in Counts : StoreAccountRow(count)
    \/ \E total \in 0..MaxFollowers : StoreFollowers(total)
    \/ InsightDayPasses

-------------------------------------------------------------------------------

InsightTypeOK ==
    /\ today \in InsightDays
    /\ publishedOn \in [Measured -> PublishDays]
    /\ postRows \in [Measured -> [InsightDays -> Measurement]]
    /\ accountRows \in [InsightDays -> Measurement]
    /\ followerRows \in [InsightDays -> (0..MaxFollowers) \cup {-1}]
    /\ syncNo \in Nat /\ accountSyncs \in 0..(MaxAccountSyncs + MaxFollowerSyncs)

\* The most a post had within the window, less what it had before it if it is older.
HadInWindow(p) ==
    LET days == SnapshotDays(p)
        top == Greatest({postRows[p][d].value : d \in days})
    IN  IF days = {} THEN 0
        ELSE IF publishedOn[p] # Undated /\ publishedOn[p] < FirstDay
             THEN top - postRows[p][Least(days)].value ELSE top

\* Of a post's count nothing is shown twice and nothing is lost: a count that drops
\* and recovers is not a gain again, and a day without a sync loses nothing.
EachCountCreditedOnce ==
    \A p \in Measured :
       SumOver([d \in Window |-> Gain(p, d)], Window) = HadInWindow(p)

\* Nothing is shown for a day before the post was published.
NothingBeforePublication ==
    \A p \in Measured, d \in Window : d < publishedOn[p] => Gain(p, d) = 0

\* "Keeps the main page consistent with the per-post drawer": when posts were synced
\* last, the page has their gains of every day.
PageKeepsUpWithPosts ==
    PostsCaptured > AccountCaptured =>
       LET series == Series
       IN  \A d \in Window : PostSummed(d) > 0 => series[d] = PostSummed(d)

\* The two periods that a card compares have as many days, share none and leave none
\* of the fetched days out.
PeriodsAddUp ==
    LET series == Series
    IN  /\ SumOver(series, Split[1]) + SumOver(series, Split[2]) = SumOver(series, Window)
        /\ Cardinality(Split[1]) = Cardinality(Split[2])

\* The bars of the chart add up to no less than the number in the header, whatever
\* days were not measured; and while followers only grow, each is counted in one period.
ChartExplainsGrowth ==
    LET bars == SumOver([d \in CurrentDays |-> DailyGrowth(d)], CurrentDays)
        days == TotalDays(Window)
        growing == \A d, e \in days : d < e => followerRows[d] <= followerRows[e]
    IN  /\ bars >= WindowDelta(CurrentDays)
        /\ growing => bars + WindowDelta(PreviousDays) = WindowDelta(Window)

InsightsHold == EachCountCreditedOnce /\ NothingBeforePublication
                /\ PageKeepsUpWithPosts /\ PeriodsAddUp /\ ChartExplainsGrowth
===============================================================================
