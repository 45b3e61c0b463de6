--------------------------- MODULE PublishingProofs ---------------------------
(***************************************************************************)
(* Theorems about PublishingSystem for every number of rows, workers and   *)
(* editors and every bound.                                                *)
(***************************************************************************)
EXTENDS PublishingSystem, FiniteSetTheorems, WellFoundedInduction, TLAPS

-------------------------------------------------------------------------------
(* Operators *)

\* A set of times without NULL has a least one, so Earliest returns a time.
LEMMA EarliestTime ==
    ASSUME NEW times, times \subseteq Nat
    PROVE  Earliest(times) \in Times
<1>1. CASE times = {}
    BY <1>1 DEF Earliest, Times
<1>2. CASE times # {}
    <2> DEFINE less == OpToRel(<, Nat)
    <2>1. IsWellFoundedOn(less, Nat)
        BY NatLessThanWellFounded
    <2>2. \A n, m \in Nat : n < m => <<n, m>> \in less
        BY DEF OpToRel
    <2> HIDE DEF less
    <2>3. PICK m \in times : \A n \in times : ~(<<n, m>> \in less)
        BY <1>2, <2>1, WFMin
    <2>4. ASSUME NEW n \in times PROVE m <= n
        <3>1. n \in Nat /\ m \in Nat
            OBVIOUS
        <3>2. ~(n < m)
            BY <2>2, <2>3, <3>1, Zenon
        <3> QED BY <3>1, <3>2, SMT
    <2>5. Earliest(times) \in times
        BY <1>2, <2>4 DEF Earliest
    <2> QED BY <2>5 DEF Times
<1> QED BY <1>1, <1>2

LEMMA SyncedTime ==
    ASSUME NEW r \in [PlatformPosts -> Row], NEW post
    PROVE  Synced(r, post) \in Times
<1> DEFINE times == {r[p].schedAt : p \in Children(post)} \ {None}
<1>1. times \subseteq Nat
    BY DEF Children, Row, Times, None
<1>2. Earliest(times) \in Times
    BY <1>1, EarliestTime
<1> QED BY <1>2 DEF Synced

\* The in-memory updates of a failed attempt give rows again.
LEMMA RetryRow ==
    ASSUME NEW c \in Row, now \in Nat
    PROVE  FailPermanently(c) \in Row /\ ScheduleRetry(c) \in Row
<1>1. FailPermanently(c) \in Row
    BY DEF FailPermanently, Row, Statuses
<1>2. CASE c.retryCount < MaxRetries
    <2> DEFINE i == IF c.retryCount <= BackoffLast THEN c.retryCount ELSE BackoffLast
    <2>1. i \in 0..BackoffLast
        BY ConstantsAssumption DEF Row
    <2>2. now + Backoff[i] \in Times
        BY <2>1, ConstantsAssumption DEF Times
    <2>3. ScheduleRetry(c) =
            [c EXCEPT !.status = "scheduled", !.retryCount = c.retryCount + 1,
                      !.nextRetryAt = now + Backoff[i]]
        BY <1>2, ConstantsAssumption DEF ScheduleRetry, Row
    <2> HIDE DEF i
    <2>4. c.retryCount + 1 \in Nat /\ "scheduled" \in Statuses
        BY DEF Row, Statuses
    <2> QED BY <1>1, <2>2, <2>3, <2>4 DEF Row
<1>3. CASE c.retryCount >= MaxRetries
    BY <1>1, <1>3 DEF ScheduleRetry
<1> QED BY <1>1, <1>2, <1>3, ConstantsAssumption DEF Row

\* Applying a request's patch to a row gives a row.
LEMMA PatchedRow ==
    ASSUME NEW r \in Row, NEW patch \in Patch
    PROVE  Patched(r, patch) \in Row
BY DEF Patched, Patch, Row, Times, Keep, KeepStatus, None

LEMMA ColumnsPatch ==
    ASSUME NEW s \in Statuses \cup {KeepStatus}, NEW t \in Times \cup {Keep}
    PROVE  SetColumns(s, t) \in Patch
BY DEF SetColumns, Patch

LEMMA RowsArePatches == Row \subseteq Patch
BY DEF Row, Patch

LEMMA EachPatch ==
    ASSUME NEW patch \in Patch
    PROVE  Each(patch) \in [PlatformPosts -> Patch]
BY DEF Each

LEMMA NoEditType == NoEdit \in Edit
<1>1. SetColumns(KeepStatus, Keep) \in Patch
    BY ColumnsPatch DEF Times
<1>2. Each(SetColumns(KeepStatus, Keep)) \in [PlatformPosts -> Patch]
    BY <1>1, EachPatch
<1> QED BY <1>2 DEF NoEdit, Edit, Times

\* The claim's and the worker's partial updates of a row.
LEMMA PublishedRow ==
    ASSUME NEW c \in Row
    PROVE  Published(c) \in Row /\ [c EXCEPT !.status = "publishing"] \in Row
BY DEF Published, Row, Statuses

LEMMA TimedRow ==
    ASSUME NEW c \in Row, NEW t \in Times
    PROVE  [c EXCEPT !.schedAt = t] \in Row
BY DEF Row

-------------------------------------------------------------------------------
(* Type correctness *)

LEMMA InitialRow ==
    [status: StartStatuses, schedAt: StartTimes \cup {None}, retryCount: {0},
     nextRetryAt: {None}] \subseteq Row
<1> DEFINE times == StartTimes \cup {None}
           never == {None}
           zero == {0}
<1>1. StartStatuses \subseteq Statuses /\ StartTimes \subseteq Nat
    BY ConstantsAssumption DEF Statuses
<1>2. times \subseteq Times
    BY <1>1 DEF Times
<1>3. never \subseteq Times
    BY DEF Times
<1>4. zero \subseteq Nat
    OBVIOUS
<1> HIDE DEF times, never, zero
<1>5. [status: StartStatuses, schedAt: times, retryCount: zero, nextRetryAt: never]
         \subseteq Row
    BY <1>1, <1>2, <1>3, <1>4 DEF Row
<1> QED BY <1>5 DEF times, never, zero

LEMMA TypeInit == SystemInit => TypeOK
<1> SUFFICES ASSUME SystemInit PROVE TypeOK
    OBVIOUS
<1> USE DEF SystemInit, Init
<1>1. row \in [PlatformPosts -> Row]
    BY InitialRow
<1>2. postSched \in [Posts -> Times]
    BY <1>1, SyncedTime
<1>3. phase \in [Workers -> Phases] /\ stage \in [Workers -> [PlatformPosts -> Stages]]
    BY DEF Phases, Stages
<1>4. copy \in [Workers -> [PlatformPosts -> Row]]
    BY DEF NoCopy, Row, Statuses, Times, None
<1>5. edit \in [Editors -> Edit]
    BY NoEditType
<1>6. now \in 0..MaxTime /\ faults \in 0..MaxFaults /\ edits \in 0..MaxEdits
    BY ConstantsAssumption, EditConstantsAssumption
<1>7. /\ accepted \in [PlatformPosts -> Nat]
      /\ replays \in [PlatformPosts -> Nat]
      /\ comments \in [PlatformPosts -> Nat]
      /\ declared \in [PlatformPosts -> Nat]
    OBVIOUS
<1> QED BY <1>1, <1>2, <1>3, <1>4, <1>5, <1>6, <1>7 DEF TypeOK

\* The steps of a worker's cycle outside the provider call.
LEMMA TypeCycle ==
    ASSUME TypeOK, NEW w \in Workers, Cycle(w), UNCHANGED <<edit, edits, declared>>
    PROVE  TypeOK'
<1> USE DEF TypeOK, dbVars, Goto, SaveRow, Accept, Replay
<1>0. NoCopy \in Row
    BY DEF NoCopy, Row, Statuses, Times, None
<1>1. CASE Poll(w)
    BY <1>1 DEF Poll, Phases, Stages
<1>2. CASE StartRetries(w)
    <2>1. stage' \in [Workers -> [PlatformPosts -> Stages]]
        BY <1>2 DEF StartRetries, Stages
    <2>2. copy' \in [Workers -> [PlatformPosts -> Row]]
        BY <1>0, <1>2 DEF StartRetries
    <2>3. phase' \in [Workers -> Phases]
        BY <1>2 DEF StartRetries, Phases
    <2> QED BY <1>2, <2>1, <2>2, <2>3 DEF StartRetries
<1>3. CASE EndCycle(w)
    BY <1>0, <1>3 DEF EndCycle, Phases
<1>4. ASSUME NEW post \in Posts, ClaimGroup(w, post) PROVE TypeOK'
    <2> DEFINE claimed == IF GivenUp(post) THEN {} ELSE ClaimableRows(w, post)
    <2>1. row' \in [PlatformPosts -> Row]
        <3>1. row' = [p \in PlatformPosts |->
                        IF p \in claimed THEN [row[p] EXCEPT !.status = "publishing"]
                        ELSE row[p]]
            BY <1>4 DEF ClaimGroup
        <3> HIDE DEF claimed
        <3> QED BY <3>1, PublishedRow
    <2>2. stage' \in [Workers -> [PlatformPosts -> Stages]]
        <3>1. stage' = [stage EXCEPT ![w] =
                          [p \in PlatformPosts |->
                             CASE p \in claimed -> "calling"
                               [] p \in Children(post) /\ p \notin claimed -> "none"
                               [] OTHER -> stage[w][p]]]
            BY <1>4 DEF ClaimGroup
        <3> HIDE DEF claimed
        <3>2. \A p \in PlatformPosts :
                 (CASE p \in claimed -> "calling"
                    [] p \in Children(post) /\ p \notin claimed -> "none"
                    [] OTHER -> stage[w][p]) \in Stages
            BY DEF Stages
        <3> QED BY <3>1, <3>2
    <2>3. copy' \in [Workers -> [PlatformPosts -> Row]]
        <3>1. copy' = [copy EXCEPT ![w] =
                         [p \in PlatformPosts |->
                            IF p \in claimed THEN row[p] ELSE copy[w][p]]]
            BY <1>4 DEF ClaimGroup
        <3> HIDE DEF claimed
        <3> QED BY <3>1
    <2> QED BY <1>4, <2>1, <2>2, <2>3 DEF ClaimGroup
<1>5. ASSUME NEW post \in Posts, FinishGroup(w, post) PROVE TypeOK'
    <2>1. stage' \in [Workers -> [PlatformPosts -> Stages]]
        BY <1>5 DEF FinishGroup, Stages
    <2>2. comments' \in [PlatformPosts -> Nat]
        BY <1>5 DEF FinishGroup
    <2> QED BY <1>5, <2>1, <2>2 DEF FinishGroup
<1>6. ASSUME NEW p \in PlatformPosts, RetryCheckHold(w, p) PROVE TypeOK'
    BY <1>6 DEF RetryCheckHold, Stages
<1>7. ASSUME NEW p \in PlatformPosts, RetryMark(w, p) PROVE TypeOK'
    <2>1. row' \in [PlatformPosts -> Row]
        BY <1>7 DEF RetryMark, Row, Statuses
    <2>2. stage' \in [Workers -> [PlatformPosts -> Stages]]
        BY <1>7 DEF RetryMark, Stages
    <2>3. replays' \in [PlatformPosts -> Nat]
        <3>1. replays' = replays \/ replays' = [replays EXCEPT ![p] = replays[p] + 1]
            BY <1>7 DEF RetryMark
        <3> QED BY <3>1
    <2> QED BY <1>7, <2>1, <2>2, <2>3 DEF RetryMark
<1>8. ASSUME NEW p \in PlatformPosts, RetryDone(w, p) PROVE TypeOK'
    BY <1>8 DEF RetryDone, Stages
<1> QED BY <1>1, <1>2, <1>3, <1>4, <1>5, <1>6, <1>7, <1>8 DEF Cycle

\* The steps of a provider call: what it saves is an updated copy of the row.
LEMMA TypeAttempt ==
    ASSUME TypeOK, NEW w \in Workers, NEW p \in PlatformPosts, Attempt(w, p),
           UNCHANGED <<edit, edits, declared>>
    PROVE  TypeOK'
<1> USE DEF TypeOK, dbVars, Goto
<1>1. ASSUME NEW s \in Stages, Goto(w, p, s)
      PROVE  stage' \in [Workers -> [PlatformPosts -> Stages]]
    BY <1>1
<1>2. ASSUME NEW r \in Row, SaveRow(p, r)
      PROVE  row' \in [PlatformPosts -> Row]
    BY <1>2 DEF SaveRow
<1>3. Accept(p) => accepted' \in [PlatformPosts -> Nat]
    BY DEF Accept
<1>4. Replay(p) => replays' \in [PlatformPosts -> Nat]
    BY DEF Replay
<1>5. ASSUME NEW kind, Fault(kind) PROVE faults' \in 0..MaxFaults
    BY <1>5, ConstantsAssumption DEF Fault
<1>6. /\ FailPermanently(copy[w][p]) \in Row
      /\ ScheduleRetry(copy[w][p]) \in Row
      /\ Published(copy[w][p]) \in Row
    <2>1. copy[w][p] \in Row /\ now \in Nat
        BY ConstantsAssumption
    <2> QED BY <2>1, RetryRow, PublishedRow
<1>7. {"accepted", "saved", "finished"} \subseteq Stages
    BY DEF Stages
<1> HIDE DEF Goto
<1>8. CASE ProviderAccepts(w, p)
    BY <1>1, <1>3, <1>7, <1>8 DEF ProviderAccepts
<1>9. CASE ProviderLosesAck(w, p)
    BY <1>1, <1>2, <1>3, <1>4, <1>5, <1>6, <1>7, <1>9 DEF ProviderLosesAck
<1>10. CASE ProviderFails(w, p)
    BY <1>1, <1>2, <1>6, <1>7, <1>10 DEF ProviderFails
<1>11. CASE ProviderRefuses(w, p)
    BY <1>1, <1>2, <1>6, <1>7, <1>11 DEF ProviderRefuses
<1>12. CASE OutcomeUnrecorded(w, p)
    BY <1>1, <1>5, <1>7, <1>12 DEF OutcomeUnrecorded
<1>13. CASE SavePublished(w, p)
    BY <1>1, <1>2, <1>6, <1>7, <1>13 DEF SavePublished
<1>14. CASE LogPublished(w, p)
    BY <1>1, <1>7, <1>14 DEF LogPublished
<1>15. CASE BookkeepingFails(w, p)
    BY <1>1, <1>2, <1>4, <1>5, <1>6, <1>7, <1>15 DEF BookkeepingFails
<1> QED BY <1>8, <1>9, <1>10, <1>11, <1>12, <1>13, <1>14, <1>15 DEF Attempt

\* A request that starts holds a well-typed decision.
LEMMA BeginType ==
    ASSUME TypeOK, NEW e \in Editors, NEW kind, NEW rows \in SUBSET PlatformPosts,
           NEW patch \in [PlatformPosts -> Patch], NEW sync \in BOOLEAN,
           Begin(e, kind, rows, patch, sync)
    PROVE  TypeOK'
<1>1. [step |-> "write", rows |-> rows, patch |-> patch, sync |-> sync, time |-> None,
       changed |-> FALSE] \in Edit
    BY DEF Edit, Times
<1>2. edit' \in [Editors -> Edit]
    BY <1>1 DEF Begin, TypeOK
<1>3. edits' \in 0..MaxEdits
    BY EditConstantsAssumption DEF Begin, TypeOK
<1> QED BY <1>2, <1>3 DEF Begin, TypeOK, publisherVars

LEMMA EditTime == EditTimes \subseteq Times
BY ConstantsAssumption DEF EditTimes, Times

\* What Write does to the tables keeps their types.
LEMMA TypeWrite ==
    ASSUME TypeOK, NEW e \in Editors, Write(e)
    PROVE  TypeOK'
<1> DEFINE ed == edit[e]
           r == [p \in PlatformPosts |->
                   IF p \in ed.rows THEN Patched(row[p], ed.patch[p]) ELSE row[p]]
<1>1. ed \in Edit /\ ed.patch \in [PlatformPosts -> Patch]
    BY DEF TypeOK, Edit
<1>2. r \in [PlatformPosts -> Row]
    BY <1>1, PatchedRow DEF TypeOK
<1>3. \A post \in Posts : Synced(r, post) \in Times
    BY <1>2, SyncedTime
<1>4. row' = r
    BY DEF Write
<1>5. postSched' \in [Posts -> Times]
    <2>1. postSched' = [post \in Posts |->
                          IF ed.sync /\ \E p \in ed.rows : PostOf[p] = post
                          THEN Synced(r, post) ELSE postSched[post]]
        BY DEF Write
    <2> HIDE DEF r, ed
    <2> QED BY <1>3, <2>1 DEF TypeOK
<1>6. replays' \in [PlatformPosts -> Nat]
    <2>1. replays' = [p \in PlatformPosts |->
                        IF p \in ed.rows /\ Reopens(row[p], ed.patch[p])
                        THEN replays[p] + 1 ELSE replays[p]]
        BY DEF Write
    <2> HIDE DEF ed
    <2> QED BY <2>1 DEF TypeOK
<1>7. edit' \in [Editors -> Edit]
    <2>1. [ed EXCEPT !.step = "finish"] \in Edit
        BY <1>1 DEF Edit
    <2>2. edit' = [edit EXCEPT ![e] = IF ed.time = None /\ ~ed.changed THEN NoEdit
                                      ELSE [ed EXCEPT !.step = "finish"]]
        BY DEF Write
    <2> HIDE DEF ed
    <2> QED BY <2>1, <2>2, NoEditType DEF TypeOK
<1>8. declared' \in [PlatformPosts -> Nat]
    <2>1. declared' = [p \in PlatformPosts |->
                         IF p \in ed.rows /\ Declares(row[p], ed.patch[p])
                         THEN declared[p] + 1 ELSE declared[p]]
        BY DEF Write
    <2> HIDE DEF ed
    <2> QED BY <2>1 DEF TypeOK
<1> HIDE DEF r, ed
<1> QED BY <1>2, <1>4, <1>5, <1>6, <1>7, <1>8 DEF Write, TypeOK, workerVars

LEMMA TypeRetime ==
    ASSUME TypeOK, NEW post \in Posts, NEW t \in EditTimes, Retime(post, t)
    PROVE  TypeOK'
<1> DEFINE r == [p \in PlatformPosts |->
                   IF p \in ChildrenIn(post, {"scheduled"})
                   THEN [row[p] EXCEPT !.schedAt = t] ELSE row[p]]
<1>1. r \in [PlatformPosts -> Row]
    BY EditTime, TimedRow DEF TypeOK
<1>2. row' = r /\ postSched' = [postSched EXCEPT ![post] = Synced(r, post)]
    BY DEF Retime
<1>3. Synced(r, post) \in Times
    BY <1>1, SyncedTime
<1>4. edits' \in 0..MaxEdits
    BY EditConstantsAssumption DEF Retime, TypeOK
<1> HIDE DEF r
<1> QED BY <1>1, <1>2, <1>3, <1>4 DEF Retime, TypeOK, workerVars

LEMMA TypeComposerSave ==
    ASSUME TypeOK, NEW e \in Editors, NEW p \in PlatformPosts,
           NEW t \in EditTimes \cup {None}, NEW changed \in BOOLEAN,
           ComposerSave(e, p, t, changed)
    PROVE  TypeOK'
<1>1. t \in Times
    BY EditTime DEF Times
<1>2. Each(row[p]) \in [PlatformPosts -> Patch]
    BY RowsArePatches, EachPatch DEF TypeOK
<1>3. edit' \in [Editors -> Edit]
    <2>1. [step |-> "write", rows |-> {p}, patch |-> Each(row[p]), sync |-> FALSE,
           time |-> t, changed |-> changed] \in Edit
        BY <1>1, <1>2 DEF Edit
    <2> QED BY <2>1 DEF ComposerSave, TypeOK
<1>4. postSched' \in [Posts -> Times]
    BY <1>1 DEF ComposerSave, TypeOK
<1>5. edits' \in 0..MaxEdits
    BY EditConstantsAssumption DEF ComposerSave, TypeOK
<1> QED BY <1>3, <1>4, <1>5 DEF ComposerSave, TypeOK, workerVars

LEMMA TypeComposerFinish ==
    ASSUME TypeOK, NEW e \in Editors, NEW p \in PlatformPosts, ComposerFinish(e, p)
    PROVE  TypeOK'
<1> DEFINE ed == edit[e]
           timed(q) == IF q = p /\ ed.time # None /\ row[q].status \notin ProtectedStatuses
                       THEN [row[q] EXCEPT !.schedAt = ed.time] ELSE row[q]
           reverted == IF ed.changed THEN ChildrenIn(PostOf[p], {"approved"}) ELSE {}
<1>1. row' \in [PlatformPosts -> Row]
    <2>1. row' = [q \in PlatformPosts |->
                    IF q \in reverted THEN [timed(q) EXCEPT !.status = "pending_review"]
                    ELSE timed(q)]
        BY DEF ComposerFinish
    <2>2. ASSUME NEW q \in PlatformPosts
          PROVE  timed(q) \in Row /\ [timed(q) EXCEPT !.status = "pending_review"] \in Row
        <3>1. ed.time \in Times /\ row[q] \in Row
            BY DEF TypeOK, Edit
        <3>2. timed(q) \in Row
            BY <3>1, TimedRow
        <3> HIDE DEF timed
        <3> QED BY <3>2 DEF Row, Statuses
    <2> HIDE DEF timed, reverted
    <2> QED BY <2>1, <2>2
<1>2. edit' \in [Editors -> Edit]
    <2>1. SetColumns("scheduled", Keep) \in Patch
        BY ColumnsPatch DEF Statuses
    <2>2. Each(SetColumns("scheduled", Keep)) \in [PlatformPosts -> Patch]
        BY <2>1, EachPatch
    <2>3. [NoEdit EXCEPT !.step = "write", !.rows = {p},
                         !.patch = Each(SetColumns("scheduled", Keep))] \in Edit
        BY <2>2, NoEditType DEF Edit
    <2> QED BY <2>3, NoEditType DEF ComposerFinish, TypeOK
<1> QED BY <1>1, <1>2 DEF ComposerFinish, TypeOK, workerVars

LEMMA TypeEditor ==
    ASSUME TypeOK, NEW e \in Editors, EditorStep(e)
    PROVE  TypeOK'
<1>1. ASSUME NEW statuses, NEW post
      PROVE  ChildrenIn(post, statuses) \subseteq PlatformPosts
    BY DEF ChildrenIn, Children
<1>2. ASSUME NEW t \in EditTimes, NEW s \in Statuses
      PROVE  Each(SetColumns(s, t)) \in [PlatformPosts -> Patch]
    BY EditTime, ColumnsPatch, EachPatch
<1>3. ASSUME NEW s \in Statuses
      PROVE  Each(SetColumns(s, Keep)) \in [PlatformPosts -> Patch]
    BY ColumnsPatch, EachPatch
<1>4. {"draft", "scheduled", "approved", "on_hold"} \subseteq Statuses
    BY DEF Statuses
<1>5. Unscheduled \in [PlatformPosts -> Patch]
    BY <1>4, ColumnsPatch DEF Unscheduled, Times
<1>6. ASSUME NEW p \in PlatformPosts, NEW t \in EditTimes, Reschedule(e, p, t)
      PROVE  TypeOK'
    <2> DEFINE s == IF row[p].status = "draft" THEN "scheduled" ELSE row[p].status
    <2>1. s \in Statuses
        BY <1>4 DEF TypeOK, Row
    <2>2. Begin(e, "reschedule", {p}, Each(SetColumns(s, t)), TRUE)
        BY <1>6 DEF Reschedule
    <2> HIDE DEF s
    <2> QED BY <1>2, <2>1, <2>2, BeginType
<1>7. ASSUME NEW post \in Posts, NEW t \in EditTimes, ScheduleDrafts(e, post, t)
      PROVE  TypeOK'
    BY <1>1, <1>2, <1>4, <1>7, BeginType DEF ScheduleDrafts
<1>8. ASSUME NEW post \in Posts, CancelScheduled(e, post) PROVE TypeOK'
    BY <1>1, <1>5, <1>8, BeginType DEF CancelScheduled
<1>9. ASSUME NEW p \in PlatformPosts, RemoveFromQueue(e, p) PROVE TypeOK'
    <2>1. NoEdit.patch \in [PlatformPosts -> Patch]
        BY NoEditType DEF Edit
    <2> QED BY <1>5, <1>9, <2>1, BeginType DEF RemoveFromQueue
<1>10. ASSUME NEW post \in Posts, RequestHold(e, post) \/ ResumeHold(e, post)
       PROVE  TypeOK'
    BY <1>1, <1>3, <1>4, <1>10, BeginType DEF RequestHold, ResumeHold
<1>11. ASSUME NEW p \in PlatformPosts, NEW target \in ChipTargets, Chip(e, p, target)
       PROVE  TypeOK'
    BY <1>3, <1>11, BeginType, EditConstantsAssumption DEF Chip
<1> QED BY <1>6, <1>7, <1>8, <1>9, <1>10, <1>11, TypeComposerSave, TypeComposerFinish,
           TypeWrite
        DEF EditorStep

\* Every reachable state is well typed, for any number of rows, workers and
\* requests: columns hold statuses and times, stages and copies stay rows.
THEOREM TypeCorrect == Spec => []TypeOK
<1>1. TypeOK /\ [Next]_vars => TypeOK'
    <2> SUFFICES ASSUME TypeOK, [Next]_vars PROVE TypeOK'
        OBVIOUS
    <2>1. CASE EngineNext /\ UNCHANGED <<edit, edits, declared>>
        <3>1. CASE Tick
            BY <2>1, <3>1, ConstantsAssumption DEF Tick, TypeOK, dbVars, workerVars
        <3>2. ASSUME NEW w \in Workers, WorkerStep(w) PROVE TypeOK'
            BY <2>1, <3>2, TypeCycle, TypeAttempt DEF WorkerStep
        <3>3. ASSUME NEW w \in Workers, Crash(w) PROVE TypeOK'
            BY <2>1, <3>3, ConstantsAssumption
               DEF Crash, Fault, TypeOK, dbVars, Phases, Stages, NoCopy, Row, Statuses,
                   Times, None
        <3> QED BY <2>1, <3>1, <3>2, <3>3 DEF EngineNext
    <2>2. ASSUME NEW e \in Editors, EditorStep(e) PROVE TypeOK'
        BY <2>2, TypeEditor
    <2>3. ASSUME NEW post \in Posts, NEW t \in EditTimes, Retime(post, t) PROVE TypeOK'
        BY <2>3, TypeRetime
    <2>4. CASE UNCHANGED vars
        BY <2>4 DEF vars, TypeOK
    <2> QED BY <2>1, <2>2, <2>3, <2>4 DEF Next
<1> QED BY <1>1, TypeInit, PTL DEF Spec

-------------------------------------------------------------------------------
(* The acceptance budget *)

\* One row's part of AcceptanceBudget.
Budget(p) == accepted[p] + Cardinality(Calling(p)) + Claimable(p) <= 1 + replays[p]

\* What a step does to a row's rights when no copy is taken, and when one is.
RightsKept(p) ==
    /\ accepted'[p] = accepted[p]
    /\ \/ replays'[p] = replays[p] /\ Rights(p)' <= Rights(p)
       \/ replays'[p] = replays[p] + 1 /\ Rights(p)' <= Rights(p) + 1

RightUsed(p) ==
    /\ Rights(p) > 0
    /\ accepted'[p] = accepted[p] + 1
    /\ \/ replays'[p] = replays[p] /\ Rights(p)' < Rights(p)
       \/ replays'[p] = replays[p] + 1 /\ Rights(p)' <= Rights(p)

LEMMA CallingCount ==
    ASSUME NEW p
    PROVE  /\ IsFiniteSet(Calling(p)) /\ Cardinality(Calling(p)) \in Nat
           /\ IsFiniteSet(Calling(p)') /\ Cardinality(Calling(p)') \in Nat
<1>1. Calling(p) \in SUBSET Workers /\ Calling(p)' \in SUBSET Workers
    BY DEF Calling
<1> QED BY <1>1, FS_Subset, FS_CardinalityType, ConstantsAssumption

\* No worker that was not already calling starts to.
NoneStarts(p) == \A w \in Workers : stage'[w][p] = "calling" => stage[w][p] = "calling"

LEMMA CallingShrinks ==
    ASSUME NEW p, NoneStarts(p)
    PROVE  Cardinality(Calling(p)') <= Cardinality(Calling(p))
<1>1. Calling(p)' \in SUBSET Calling(p)
    BY DEF Calling, NoneStarts
<1> QED BY <1>1, FS_Subset, CallingCount

LEMMA CallEnds ==
    ASSUME NEW p, NoneStarts(p),
           NEW w \in Workers, stage[w][p] = "calling", stage'[w][p] # "calling"
    PROVE  Cardinality(Calling(p)') + 1 <= Cardinality(Calling(p))
<1>1. Calling(p)' \in SUBSET (Calling(p) \ {w}) /\ w \in Calling(p)
    BY DEF Calling, NoneStarts
<1>2. /\ IsFiniteSet(Calling(p) \ {w})
      /\ Cardinality(Calling(p) \ {w}) = Cardinality(Calling(p)) - 1
    BY <1>1, FS_RemoveElement, CallingCount
<1>3. Cardinality(Calling(p)') <= Cardinality(Calling(p) \ {w})
    BY <1>1, <1>2, FS_Subset
<1> QED BY <1>2, <1>3, CallingCount

LEMMA CallStarts ==
    ASSUME NEW p, NEW w \in Workers,
           \A v \in Workers \ {w} : stage'[v][p] = "calling" => stage[v][p] = "calling"
    PROVE  Cardinality(Calling(p)') <= Cardinality(Calling(p)) + 1
<1>1. Calling(p)' \in SUBSET (Calling(p) \cup {w})
    BY DEF Calling
<1>2. IsFiniteSet(Calling(p)) /\ Cardinality(Calling(p)) \in Nat
    BY CallingCount
<1>3. /\ IsFiniteSet(Calling(p) \cup {w})
      /\ Cardinality(Calling(p) \cup {w}) =
            IF w \in Calling(p) THEN Cardinality(Calling(p))
            ELSE Cardinality(Calling(p)) + 1
    BY <1>2, FS_AddElement
<1>4. Cardinality(Calling(p)') <= Cardinality(Calling(p) \cup {w})
    BY <1>1, <1>3, FS_Subset
<1>5. Cardinality(Calling(p)') \in Nat
    BY CallingCount
<1> QED BY <1>2, <1>3, <1>4, <1>5

LEMMA RightsCount ==
    ASSUME NEW p
    PROVE  /\ Claimable(p) \in {0, 1} /\ Claimable(p)' \in {0, 1}
           /\ Rights(p) = Cardinality(Calling(p)) + Claimable(p)
           /\ Rights(p)' = Cardinality(Calling(p)') + Claimable(p)'
           /\ Rights(p) \in Nat /\ Rights(p)' \in Nat
<1>1. Claimable(p) \in {0, 1} /\ Claimable(p)' \in {0, 1}
    BY DEF Claimable
<1>2. /\ Rights(p) = Cardinality(Calling(p)) + Claimable(p)
      /\ Rights(p)' = Cardinality(Calling(p)') + Claimable(p)'
    BY DEF Rights
<1> QED BY <1>1, <1>2, CallingCount

\* A step that starts no call, opens nothing and is not an acceptance.
LEMMA NothingStarts ==
    ASSUME NEW p \in PlatformPosts, TypeOK, TypeOK', NoneStarts(p),
           accepted'[p] = accepted[p],
           \/ replays'[p] = replays[p] /\ Claimable(p)' <= Claimable(p)
           \/ replays'[p] = replays[p] + 1
    PROVE  RightsKept(p)
<1>1. Cardinality(Calling(p)') <= Cardinality(Calling(p))
    BY CallingShrinks
<1> QED BY <1>1, CallingCount, RightsCount DEF RightsKept

\* A call that ends without an acceptance may make the row claimable again.
LEMMA CallFails ==
    ASSUME NEW p \in PlatformPosts, TypeOK, TypeOK', NoneStarts(p),
           NEW w \in Workers, stage[w][p] = "calling", stage'[w][p] # "calling",
           accepted'[p] = accepted[p], replays'[p] = replays[p]
    PROVE  RightsKept(p)
<1>1. Cardinality(Calling(p)') + 1 <= Cardinality(Calling(p))
    BY CallEnds
<1> QED BY <1>1, CallingCount, RightsCount DEF RightsKept

\* A call that ends as an acceptance, with its answer or without.
LEMMA CallAccepted ==
    ASSUME NEW p \in PlatformPosts, TypeOK, TypeOK', NoneStarts(p),
           NEW w \in Workers, stage[w][p] = "calling", stage'[w][p] # "calling",
           accepted'[p] = accepted[p] + 1,
           \/ replays'[p] = replays[p] /\ Claimable(p)' = Claimable(p)
           \/ replays'[p] = replays[p] + 1
    PROVE  RightUsed(p)
<1>1. Cardinality(Calling(p)') + 1 <= Cardinality(Calling(p))
    BY CallEnds
<1> QED BY <1>1, CallingCount, RightsCount DEF RightUsed

\* A call that starts uses up the row's claim, or counts as a replay.
LEMMA ClaimUsed ==
    ASSUME NEW p \in PlatformPosts, TypeOK, TypeOK', NEW w \in Workers,
           \A v \in Workers \ {w} : stage'[v][p] = "calling" => stage[v][p] = "calling",
           accepted'[p] = accepted[p], row'[p].status \in ProtectedStatuses,
           \/ replays'[p] = replays[p] /\ row[p].status \notin ProtectedStatuses
           \/ replays'[p] = replays[p] + 1
    PROVE  RightsKept(p)
<1>1. Cardinality(Calling(p)') <= Cardinality(Calling(p)) + 1
    BY CallStarts
<1>2. /\ Claimable(p)' = 0
      /\ replays'[p] = replays[p] => Claimable(p) = 1
    BY DEF Claimable, TypeOK
<1> QED BY <1>1, <1>2, CallingCount, RightsCount DEF RightsKept

\* A step of one attempt touches one row, and that row's rights cover it.
LEMMA RightsAttempt ==
    ASSUME TypeOK, TypeOK', NEW w \in Workers, NEW q \in PlatformPosts, Attempt(w, q),
           NEW p \in PlatformPosts
    PROVE  RightsKept(p) \/ (p = q /\ RightUsed(p))
<1> DEFINE moves == Goto(w, q, "accepted") \/ Goto(w, q, "saved") \/ Goto(w, q, "finished")
<1>1. /\ moves
      /\ NoneStarts(p) /\ stage'[w][q] # "calling"
    <2>1. moves
        BY DEF Attempt, ProviderAccepts, ProviderLosesAck, ProviderFails,
               ProviderRefuses, OutcomeUnrecorded, SavePublished, LogPublished,
               BookkeepingFails
    <2>2. ASSUME NEW s \in {"accepted", "saved", "finished"}, Goto(w, q, s)
          PROVE  NoneStarts(p) /\ stage'[w][q] # "calling"
        BY <2>2 DEF NoneStarts, TypeOK, Goto
    <2> QED BY <2>1, <2>2
<1>2. CASE p # q
    <2>1. /\ accepted'[p] = accepted[p] /\ replays'[p] = replays[p] /\ row'[p] = row[p]
        BY <1>2 DEF Attempt, ProviderAccepts, ProviderLosesAck, ProviderFails,
               ProviderRefuses, OutcomeUnrecorded, SavePublished, LogPublished,
               BookkeepingFails, SaveRow, Accept, Replay, dbVars, TypeOK
    <2>2. Claimable(p)' <= Claimable(p)
        BY <2>1 DEF Claimable
    <2> QED BY <1>1, <1>2, <2>1, <2>2, NothingStarts
<1>3. CASE p = q
    <2> USE <1>3
    <2>1. CASE ProviderAccepts(w, q)
        <3>1. /\ stage[w][p] = "calling" /\ NoneStarts(p) /\ stage'[w][p] # "calling"
            BY <1>1, <2>1 DEF ProviderAccepts
        <3>2. /\ accepted'[p] = accepted[p] + 1 /\ replays'[p] = replays[p]
              /\ Claimable(p)' = Claimable(p)
            BY <2>1 DEF ProviderAccepts, Accept, Claimable, dbVars, TypeOK
        <3> QED BY <3>1, <3>2, CallAccepted
    <2>2. CASE ProviderLosesAck(w, q)
        <3>1. /\ stage[w][p] = "calling" /\ NoneStarts(p) /\ stage'[w][p] # "calling"
            BY <1>1, <2>2 DEF ProviderLosesAck
        <3>2. accepted'[p] = accepted[p] + 1 /\ replays'[p] = replays[p] + 1
            BY <2>2 DEF ProviderLosesAck, Accept, Replay, TypeOK
        <3> QED BY <3>1, <3>2, CallAccepted
    <2>3. CASE ProviderFails(w, q) \/ ProviderRefuses(w, q)
        <3>1. /\ stage[w][p] = "calling" /\ NoneStarts(p) /\ stage'[w][p] # "calling"
            BY <1>1, <2>3 DEF ProviderFails, ProviderRefuses
        <3>2. accepted'[p] = accepted[p] /\ replays'[p] = replays[p]
            BY <2>3 DEF ProviderFails, ProviderRefuses
        <3> QED BY <3>1, <3>2, CallFails
    <2>4. CASE SavePublished(w, q) \/ LogPublished(w, q) \/ OutcomeUnrecorded(w, q)
        <3>1. NoneStarts(p)
            BY <1>1, <2>4 DEF SavePublished, LogPublished, OutcomeUnrecorded
        <3>2. accepted'[p] = accepted[p] /\ replays'[p] = replays[p]
            BY <2>4 DEF SavePublished, LogPublished, OutcomeUnrecorded
        <3>3. Claimable(p)' <= Claimable(p)
            <4>1. row'[p] = row[p] \/ row'[p].status = "published"
                BY <2>4 DEF SavePublished, LogPublished, OutcomeUnrecorded, SaveRow,
                            Published, dbVars, TypeOK, Row
            <4> QED BY <4>1 DEF Claimable, ProtectedStatuses
        <3> QED BY <3>1, <3>2, <3>3, NothingStarts
    <2>5. CASE BookkeepingFails(w, q)
        <3>1. NoneStarts(p)
            BY <1>1, <2>5 DEF BookkeepingFails
        <3>2. accepted'[p] = accepted[p] /\ replays'[p] = replays[p] + 1
            BY <2>5 DEF BookkeepingFails, Replay, TypeOK
        <3> QED BY <3>1, <3>2, NothingStarts
    <2> QED BY <2>1, <2>2, <2>3, <2>4, <2>5 DEF Attempt
<1> QED BY <1>2, <1>3

\* The attempt of one row leaves the rights of all others alone.
LEMMA OthersAlone ==
    ASSUME TypeOK, TypeOK', NEW w \in Workers, NEW q \in PlatformPosts, Attempt(w, q),
           NEW p \in PlatformPosts, p # q
    PROVE  accepted'[p] = accepted[p] /\ replays'[p] = replays[p] /\ Rights(p)' = Rights(p)
<1>1. /\ accepted'[p] = accepted[p] /\ replays'[p] = replays[p] /\ row'[p] = row[p]
    BY DEF Attempt, ProviderAccepts, ProviderLosesAck, ProviderFails,
           ProviderRefuses, OutcomeUnrecorded, SavePublished, LogPublished,
           BookkeepingFails, SaveRow, Accept, Replay, dbVars, TypeOK
<1>2. \A v \in Workers : stage'[v][p] = stage[v][p]
    <2>1. ASSUME NEW st, Goto(w, q, st) PROVE \A v \in Workers : stage'[v][p] = stage[v][p]
        BY <2>1 DEF Goto, TypeOK
    <2> QED BY <2>1 DEF Attempt, ProviderAccepts, ProviderLosesAck, ProviderFails,
           ProviderRefuses, OutcomeUnrecorded, SavePublished, LogPublished,
           BookkeepingFails
<1>3. Calling(p)' = Calling(p) /\ Claimable(p)' = Claimable(p)
    BY <1>1, <1>2 DEF Calling, Claimable
<1> QED BY <1>1, <1>3 DEF Rights

\* The rest of the cycle: only a group claim and a retry mark start calls.
LEMMA RightsCycle ==
    ASSUME TypeOK, TypeOK', NEW w \in Workers, Cycle(w),
           NEW p \in PlatformPosts
    PROVE  RightsKept(p)
<1>1. ASSUME NEW post \in Posts, ClaimGroup(w, post) PROVE RightsKept(p)
    <2> DEFINE claimed == IF GivenUp(post) THEN {} ELSE ClaimableRows(w, post)
    <2>1. /\ row' = [x \in PlatformPosts |->
                       IF x \in claimed THEN [row[x] EXCEPT !.status = "publishing"]
                       ELSE row[x]]
          /\ stage' = [stage EXCEPT ![w] =
                         [x \in PlatformPosts |->
                            CASE x \in claimed -> "calling"
                              [] x \in Children(post) /\ x \notin claimed -> "none"
                              [] OTHER -> stage[w][x]]]
          /\ UNCHANGED <<accepted, replays>>
        BY <1>1 DEF ClaimGroup
    <2>2. p \in claimed => row[p].status = "scheduled"
        BY DEF ClaimableRows
    <2> HIDE DEF claimed
    <2>3. CASE p \in claimed
        <3>1. row[p].status \notin ProtectedStatuses /\ row'[p].status \in ProtectedStatuses
            BY <2>1, <2>2, <2>3 DEF ProtectedStatuses, TypeOK, Row
        <3>2. \A v \in Workers \ {w} : stage'[v][p] = stage[v][p]
            BY <2>1 DEF TypeOK
        <3> QED BY <2>1, <3>1, <3>2, ClaimUsed
    <2>4. CASE p \notin claimed
        <3>1. NoneStarts(p)
            BY <2>1, <2>4 DEF NoneStarts, TypeOK
        <3>2. Claimable(p)' <= Claimable(p)
            BY <2>1, <2>4 DEF Claimable
        <3> QED BY <2>1, <3>1, <3>2, NothingStarts
    <2> QED BY <2>3, <2>4
<1>2. ASSUME NEW q \in PlatformPosts, RetryMark(w, q) PROVE RightsKept(p)
    <2>1. CASE p = q
        <3>1. row'[p].status \in ProtectedStatuses /\ accepted'[p] = accepted[p]
            BY <1>2, <2>1 DEF RetryMark, ProtectedStatuses, TypeOK, Row
        <3>2. \/ replays'[p] = replays[p] /\ row[p].status \notin ProtectedStatuses
              \/ replays'[p] = replays[p] + 1
            BY <1>2, <2>1 DEF RetryMark, Replay, TypeOK
        <3>3. \A v \in Workers \ {w} : stage'[v][p] = stage[v][p]
            BY <1>2 DEF RetryMark, Goto, TypeOK
        <3> QED BY <3>1, <3>2, <3>3, ClaimUsed
    <2>2. CASE p # q
        <3>1. NoneStarts(p)
            BY <1>2, <2>2 DEF RetryMark, Goto, NoneStarts, TypeOK
        <3>2. row'[p] = row[p] /\ replays'[p] = replays[p] /\ accepted'[p] = accepted[p]
            BY <1>2, <2>2 DEF RetryMark, Replay, TypeOK
        <3>3. Claimable(p)' <= Claimable(p)
            BY <3>2 DEF Claimable
        <3> QED BY <3>1, <3>2, <3>3, NothingStarts
    <2> QED BY <2>1, <2>2
<1>3. ASSUME NoneStarts(p), UNCHANGED <<row, accepted, replays>> PROVE RightsKept(p)
    <2>1. Claimable(p)' <= Claimable(p)
        BY <1>3 DEF Claimable
    <2> QED BY <1>3, <2>1, NothingStarts
<1>4. CASE Poll(w)
    BY <1>3, <1>4 DEF Poll, dbVars, NoneStarts, TypeOK
<1>5. CASE StartRetries(w)
    BY <1>3, <1>5 DEF StartRetries, dbVars, NoneStarts, TypeOK
<1>6. CASE EndCycle(w)
    BY <1>3, <1>6 DEF EndCycle, dbVars, NoneStarts
<1>7. ASSUME NEW post \in Posts, FinishGroup(w, post) PROVE RightsKept(p)
    BY <1>3, <1>7 DEF FinishGroup, dbVars, NoneStarts, TypeOK
<1>8. ASSUME NEW q \in PlatformPosts, RetryCheckHold(w, q) \/ RetryDone(w, q)
      PROVE  RightsKept(p)
    <2>1. UNCHANGED <<row, accepted, replays>>
        BY <1>8 DEF RetryCheckHold, RetryDone, dbVars
    <2>2. PICK s \in {"none", "cleared"} : stage' = [stage EXCEPT ![w][q] = s]
        BY <1>8 DEF RetryCheckHold, RetryDone, Goto
    <2>3. NoneStarts(p)
        BY <2>2 DEF NoneStarts, TypeOK
    <2> QED BY <1>3, <2>1, <2>3
<1> QED BY <1>1, <1>2, <1>4, <1>5, <1>6, <1>7, <1>8 DEF Cycle

\* Requests start no call; a write that reopens a protected row is a replay.
LEMMA RightsEditor ==
    ASSUME TypeOK, TypeOK', NEW e \in Editors, EditorStep(e),
           NEW p \in PlatformPosts
    PROVE  RightsKept(p)
<1>1. UNCHANGED <<stage, accepted>>
    <2>1. ASSUME NEW kind, NEW rows, NEW patch, NEW sync, Begin(e, kind, rows, patch, sync)
          PROVE  UNCHANGED <<stage, accepted>>
        BY <2>1 DEF Begin, publisherVars
    <2>2. Write(e) => UNCHANGED <<stage, accepted>>
        BY DEF Write, workerVars
    <2> QED BY <2>1, <2>2 DEF EditorStep, Reschedule, ScheduleDrafts, CancelScheduled,
               RequestHold, ResumeHold, RemoveFromQueue, Chip, ComposerSave,
               ComposerFinish, workerVars
<1>2. NoneStarts(p)
    BY <1>1 DEF NoneStarts
<1>3. CASE Write(e)
    <2>1. row'[p] = IF p \in edit[e].rows THEN Patched(row[p], edit[e].patch[p]) ELSE row[p]
        BY <1>3 DEF Write
    <2>2. replays'[p] = IF p \in edit[e].rows /\ Reopens(row[p], edit[e].patch[p])
                        THEN replays[p] + 1 ELSE replays[p]
        BY <1>3 DEF Write
    <2>3. \/ replays'[p] = replays[p] /\ Claimable(p)' <= Claimable(p)
          \/ replays'[p] = replays[p] + 1
        BY <2>1, <2>2 DEF Reopens, Claimable
    <2> QED BY <1>1, <1>2, <2>3, NothingStarts
<1>4. CASE \E q \in PlatformPosts : ComposerFinish(e, q)
    <2>1. \/ row'[p].status = row[p].status
          \/ row[p].status = "approved"
        BY <1>4 DEF ComposerFinish, ChildrenIn, TypeOK, Row
    <2>2. Claimable(p)' <= Claimable(p) /\ replays' = replays
        BY <1>4, <2>1 DEF Claimable, ComposerFinish, ProtectedStatuses
    <2> QED BY <1>1, <1>2, <2>2, NothingStarts
<1>5. CASE UNCHANGED <<row, replays>>
    <2>1. Claimable(p)' <= Claimable(p)
        BY <1>5 DEF Claimable
    <2> QED BY <1>1, <1>2, <1>5, <2>1, NothingStarts
<1>6. \/ Write(e) \/ \E q \in PlatformPosts : ComposerFinish(e, q)
      \/ UNCHANGED <<row, replays>>
    BY DEF EditorStep, Reschedule, ScheduleDrafts, CancelScheduled, RequestHold,
           ResumeHold, RemoveFromQueue, Chip, Begin, ComposerSave, publisherVars
<1> QED BY <1>3, <1>4, <1>5, <1>6

LEMMA RightsRetime ==
    ASSUME TypeOK, TypeOK', NEW post \in Posts, NEW t \in EditTimes, Retime(post, t),
           NEW p \in PlatformPosts
    PROVE  RightsKept(p)
<1>1. row'[p].status = row[p].status
    BY DEF Retime, TypeOK, Row
<1>2. Claimable(p)' <= Claimable(p)
    BY <1>1 DEF Claimable
<1>3. NoneStarts(p) /\ accepted' = accepted /\ replays' = replays
    BY DEF Retime, NoneStarts, workerVars
<1> QED BY <1>2, <1>3, NothingStarts

LEMMA BudgetInit == SystemInit => AcceptanceBudget
<1> SUFFICES ASSUME SystemInit, NEW p \in PlatformPosts PROVE Budget(p)
    BY DEF AcceptanceBudget, Budget
<1>1. accepted[p] = 0 /\ replays[p] = 0
    BY DEF SystemInit, Init
<1>2. Calling(p) = {}
    BY DEF SystemInit, Init, Calling
<1>3. Claimable(p) \in {0, 1}
    BY DEF Claimable
<1> QED BY <1>1, <1>2, <1>3, FS_EmptySet DEF Budget

\* Every step keeps a row's rights or uses one; only the row whose attempt takes
\* the step uses one.
LEMMA RightsStep ==
    ASSUME TypeOK, TypeOK', [Next]_vars
    PROVE  \/ \A p \in PlatformPosts : RightsKept(p)
           \/ \E w \in Workers, q \in PlatformPosts : Attempt(w, q)
<1> SUFFICES ASSUME ~ \E w \in Workers, q \in PlatformPosts : Attempt(w, q),
                    NEW p \in PlatformPosts
             PROVE  RightsKept(p)
    OBVIOUS
<1>2. ASSUME NoneStarts(p), UNCHANGED <<row, accepted, replays>> PROVE RightsKept(p)
    <2>1. Claimable(p)' <= Claimable(p)
        BY <1>2 DEF Claimable
    <2> QED BY <1>2, <2>1, NothingStarts
<1>3. CASE EngineNext
    <2>1. CASE Tick
        BY <1>2, <2>1 DEF Tick, dbVars, workerVars, NoneStarts
    <2>2. ASSUME NEW w \in Workers, WorkerStep(w) PROVE RightsKept(p)
        BY <2>2, RightsCycle DEF WorkerStep
    <2>3. ASSUME NEW w \in Workers, Crash(w) PROVE RightsKept(p)
        BY <1>2, <2>3 DEF Crash, dbVars, NoneStarts, TypeOK
    <2> QED BY <1>3, <2>1, <2>2, <2>3 DEF EngineNext
<1>4. ASSUME NEW e \in Editors, EditorStep(e) PROVE RightsKept(p)
    BY <1>4, RightsEditor
<1>5. ASSUME NEW post \in Posts, NEW t \in EditTimes, Retime(post, t) PROVE RightsKept(p)
    BY <1>5, RightsRetime
<1>6. CASE UNCHANGED vars
    BY <1>2, <1>6 DEF vars, NoneStarts
<1> QED BY <1>3, <1>4, <1>5, <1>6 DEF Next

LEMMA BudgetNext ==
    ASSUME TypeOK, TypeOK', AcceptanceBudget, [Next]_vars
    PROVE  AcceptanceBudget'
<1> SUFFICES ASSUME NEW p \in PlatformPosts PROVE Budget(p)'
    BY DEF AcceptanceBudget, Budget
<1>1. Budget(p)
    BY DEF AcceptanceBudget, Budget
<1>2. RightsKept(p) \/ RightUsed(p)
    BY RightsStep, RightsAttempt
<1>3. accepted[p] \in Nat /\ replays[p] \in Nat
    BY DEF TypeOK
<1> QED BY <1>1, <1>2, <1>3, CallingCount, RightsCount DEF Budget, RightsKept, RightUsed

\* What has been accepted, what is being sent and what can still be claimed never
\* exceed one publication and one more per accident: the claim under the row
\* locks, the two pick-up queries and every failure path respect this budget.
THEOREM BudgetHolds == Spec => []AcceptanceBudget
<1>1. TypeOK /\ TypeOK' /\ AcceptanceBudget /\ [Next]_vars => AcceptanceBudget'
    BY BudgetNext
<1> QED BY <1>1, BudgetInit, TypeCorrect, PTL DEF Spec

\* No row's content is accepted twice unless an accident reopened the row.
THEOREM NoUnexplainedDuplicate == Spec => []DuplicatesAccountedFor
<1>1. TypeOK /\ AcceptanceBudget => DuplicatesAccountedFor
    <2> SUFFICES ASSUME TypeOK, AcceptanceBudget, NEW p \in PlatformPosts
                 PROVE  accepted[p] <= 1 + replays[p]
        BY DEF DuplicatesAccountedFor
    <2>1. Budget(p)
        BY DEF AcceptanceBudget, Budget
    <2>2. Claimable(p) \in {0, 1} /\ accepted[p] \in Nat /\ replays[p] \in Nat
        BY DEF Claimable, TypeOK
    <2> QED BY <2>1, <2>2, CallingCount DEF Budget
<1> QED BY <1>1, TypeCorrect, BudgetHolds, PTL

-------------------------------------------------------------------------------
(* Holds *)

\* The only two steps that start a call: a claim, which finds no hold under the
\* locks, and the mark of a retry that was cleared before.
LEMMA StartsAreClaimsOrRetries ==
    ASSUME TypeOK, Next, NEW p \in PlatformPosts, Starts(p)
    PROVE  \/ \E w \in Workers, post \in Posts :
                 p \in Children(post) /\ ~Held(post) /\ ClaimGroup(w, post)
           \/ \E w \in Workers : stage[w][p] = "cleared"
<1>1. PICK w \in Workers : stage[w][p] # "calling" /\ stage'[w][p] = "calling"
    BY DEF Starts
<1>2. CASE EngineNext
    <2>1. PICK v \in Workers : WorkerStep(v) \/ Crash(v)
        BY <1>1, <1>2 DEF EngineNext, Tick, workerVars
    <2>2. v = w
        <3>1. \E f : stage' = [stage EXCEPT ![v] = f]
            BY <2>1 DEF WorkerStep, Cycle, Poll, StartRetries, EndCycle, ClaimGroup,
                   FinishGroup, RetryCheckHold, RetryMark, RetryDone, Attempt,
                   ProviderAccepts, ProviderLosesAck, ProviderFails, ProviderRefuses,
                   OutcomeUnrecorded, SavePublished, LogPublished, BookkeepingFails, Goto,
                   Crash, TypeOK
        <3> QED BY <1>1, <3>1 DEF TypeOK
    <2>3. ASSUME NEW post \in Posts, ClaimGroup(w, post)
          PROVE  p \in Children(post) /\ ~Held(post)
        <3>1. stage'[w][p] = CASE p \in IF GivenUp(post) THEN {} ELSE ClaimableRows(w, post)
                                    -> "calling"
                               [] p \in Children(post)
                                  /\ p \notin IF GivenUp(post) THEN {}
                                              ELSE ClaimableRows(w, post)
                                    -> "none"
                               [] OTHER -> stage[w][p]
            BY <2>3 DEF ClaimGroup, TypeOK
        <3>2. p \in IF GivenUp(post) THEN {} ELSE ClaimableRows(w, post)
            BY <1>1, <3>1
        <3> QED BY <3>2 DEF GivenUp, ClaimableRows
    <2>4. ASSUME NEW q \in PlatformPosts, RetryMark(w, q) PROVE stage[w][p] = "cleared"
        BY <1>1, <2>4 DEF RetryMark, Goto, TypeOK
    <2>5. ASSUME Poll(w) \/ StartRetries(w) \/ EndCycle(w) \/ Crash(w) PROVE FALSE
        BY SMTT(30), <1>1, <2>5 DEF Poll, StartRetries, EndCycle, Crash, TypeOK
    <2>6. ASSUME NEW post \in Posts, FinishGroup(w, post) PROVE FALSE
        BY <1>1, <2>6 DEF FinishGroup, TypeOK
    <2>7. ASSUME NEW q \in PlatformPosts, RetryCheckHold(w, q) \/ RetryDone(w, q)
          PROVE  FALSE
        BY <1>1, <2>7 DEF RetryCheckHold, RetryDone, Goto, TypeOK
    <2>8. ASSUME NEW q \in PlatformPosts, Attempt(w, q) PROVE FALSE
        BY <1>1, <2>8 DEF Attempt, ProviderAccepts, ProviderLosesAck, ProviderFails,
               ProviderRefuses, OutcomeUnrecorded, SavePublished, LogPublished,
               BookkeepingFails, Goto, TypeOK
    <2> QED BY <2>1, <2>2, <2>3, <2>4, <2>5, <2>6, <2>7, <2>8 DEF WorkerStep, Cycle
<1>3. ASSUME NEW e \in Editors, EditorStep(e) PROVE FALSE
    BY <1>1, <1>3 DEF EditorStep, Reschedule, ScheduleDrafts, CancelScheduled,
           RequestHold, ResumeHold, RemoveFromQueue, Chip, Begin, ComposerSave,
           ComposerFinish, Write, publisherVars, workerVars
<1>4. ASSUME NEW post \in Posts, NEW t \in EditTimes, Retime(post, t) PROVE FALSE
    BY <1>1, <1>4 DEF Retime, workerVars
<1> QED BY <1>2, <1>3, <1>4 DEF Next

\* While a sibling is on hold the engine sends no row of the post, but for a retry
\* that had passed its check before the hold.
THEOREM HoldRespected == Spec => HoldStopsAllButClearedRetry
<1>1. TypeOK /\ [Next]_vars =>
        [\A p \in PlatformPosts :
            Starts(p) /\ Held(PostOf[p]) => \E w \in Workers : stage[w][p] = "cleared"]_vars
    <2> SUFFICES ASSUME TypeOK, Next, NEW p \in PlatformPosts,
                        Starts(p), Held(PostOf[p])
                 PROVE  \E w \in Workers : stage[w][p] = "cleared"
        OBVIOUS
    <2> QED BY StartsAreClaimsOrRetries DEF Children
<1> QED BY <1>1, TypeCorrect, PTL DEF Spec, HoldStopsAllButClearedRetry

-------------------------------------------------------------------------------
(* PublishingSystem implements PublishOnce: initial states map to initial states,
   and every step to a copy sent or to rights settled. *)

\* What the refinement maps rights to.
AllRights == [p \in PlatformPosts |-> Rights(p)]

LEMMA AllRightsType ==
    /\ AllRights \in [PlatformPosts -> Nat] /\ AllRights' \in [PlatformPosts -> Nat]
    /\ AllRights' = [p \in PlatformPosts |-> Rights(p)']
<1>1. AllRights' = [p \in PlatformPosts |-> Rights(p)']
    BY DEF AllRights
<1> QED BY <1>1, RightsCount DEF AllRights

LEMMA ContractSettles ==
    ASSUME TypeOK, TypeOK', \A p \in PlatformPosts : RightsKept(p)
    PROVE  Contract!Next
<1> DEFINE rows == {p \in PlatformPosts : replays'[p] = replays[p] + 1}
<1>1. /\ accepted \in [PlatformPosts -> Nat] /\ replays \in [PlatformPosts -> Nat]
      /\ accepted' \in [PlatformPosts -> Nat] /\ replays' \in [PlatformPosts -> Nat]
    BY DEF TypeOK
<1>2. accepted' = accepted
    BY <1>1 DEF RightsKept
<1>3. replays' = [p \in PlatformPosts |-> IF p \in rows THEN replays[p] + 1 ELSE replays[p]]
    BY <1>1 DEF RightsKept
<1>4. \A p \in PlatformPosts :
         Rights(p)' <= IF p \in rows THEN Rights(p) + 1 ELSE Rights(p)
    BY <1>1 DEF RightsKept
<1>5. \A p \in PlatformPosts :
         AllRights'[p] <= IF p \in rows THEN AllRights[p] + 1 ELSE AllRights[p]
    BY <1>4, AllRightsType DEF AllRights
<1>6. rows \in SUBSET PlatformPosts
    OBVIOUS
<1> HIDE DEF rows
<1>7. Contract!Settle(rows)
    BY <1>2, <1>3, <1>5, AllRightsType DEF Contract!Settle, AllRights
<1> QED BY <1>6, <1>7 DEF Contract!Next

LEMMA ContractSends ==
    ASSUME TypeOK, TypeOK', NEW w \in Workers, NEW q \in PlatformPosts, Attempt(w, q),
           RightUsed(q)
    PROVE  Contract!Next
<1> DEFINE answered == replays'[q] = replays[q]
           left == Rights(q)'
<1>1. /\ accepted \in [PlatformPosts -> Nat] /\ replays \in [PlatformPosts -> Nat]
      /\ accepted' \in [PlatformPosts -> Nat] /\ replays' \in [PlatformPosts -> Nat]
    BY DEF TypeOK
<1>2. \A p \in PlatformPosts \ {q} :
         accepted'[p] = accepted[p] /\ replays'[p] = replays[p] /\ Rights(p)' = Rights(p)
    BY OthersAlone
<1>3. accepted' = [accepted EXCEPT ![q] = @ + 1]
    BY <1>1, <1>2 DEF RightUsed
<1>4. replays' = IF answered THEN replays ELSE [replays EXCEPT ![q] = @ + 1]
    BY <1>1, <1>2 DEF RightUsed
<1>5. /\ left \in 0..Rights(q) /\ Rights(q) > 0
      /\ answered => left < Rights(q)
    BY <1>1, RightsCount DEF RightUsed
<1>6. AllRights' = [AllRights EXCEPT ![q] = left]
    BY <1>2, AllRightsType DEF AllRights
<1>7. AllRights[q] = Rights(q)
    BY DEF AllRights
<1> HIDE DEF left, answered
<1>8. \E l \in 0..AllRights[q] :
         /\ answered => l < AllRights[q]
         /\ AllRights' = [AllRights EXCEPT ![q] = l]
    BY <1>5, <1>6, <1>7
<1>9. AllRights[q] > 0
    BY <1>5, <1>7
<1>10. Contract!Send(q, answered)
    BY <1>3, <1>4, <1>8, <1>9 DEF Contract!Send, AllRights
<1>11. answered \in BOOLEAN
    BY DEF answered
<1> QED BY <1>10, <1>11 DEF Contract!Next

LEMMA ContractStep ==
    ASSUME TypeOK, TypeOK', [Next]_vars
    PROVE  Contract!Next
<1>1. CASE \A p \in PlatformPosts : RightsKept(p)
    BY <1>1, ContractSettles
<1>2. ASSUME NEW w \in Workers, NEW q \in PlatformPosts, Attempt(w, q) PROVE Contract!Next
    <2>1. CASE RightUsed(q)
        BY <1>2, <2>1, ContractSends
    <2>2. CASE ~RightUsed(q)
        BY <1>2, <2>2, RightsAttempt, ContractSettles
    <2> QED BY <2>1, <2>2
<1> QED BY <1>1, <1>2, RightsStep

LEMMA ContractInit == SystemInit => Contract!Init
<1> SUFFICES ASSUME SystemInit PROVE Contract!Init
    OBVIOUS
<1>1. /\ accepted = [p \in PlatformPosts |-> 0]
      /\ replays = [p \in PlatformPosts |-> 0]
    BY DEF SystemInit, Init
<1>2. ASSUME NEW p \in PlatformPosts PROVE Rights(p) \in 0..1
    <2>1. Calling(p) = {}
        BY DEF SystemInit, Init, Calling
    <2>2. Cardinality(Calling(p)) = 0
        BY <2>1, FS_EmptySet
    <2> QED BY <2>2, RightsCount
<1>3. [p \in PlatformPosts |-> Rights(p)] \in [PlatformPosts -> 0..1]
    BY <1>2
<1> QED BY <1>1, <1>3 DEF Contract!Init

\* The engine with its retries, requests and accidents implements the contract: every
\* copy a platform takes was sent by right, a call that starts takes the place of a
\* claim, and nothing but an accident of the row itself gives a right back.
THEOREM SystemPublishesOnce == Spec => PublishesOnce
<1>1. TypeOK /\ TypeOK' /\ [Next]_vars => [Contract!Next]_(Contract!contractVars)
    BY ContractStep
<1> QED BY <1>1, ContractInit, TypeCorrect, PTL
       DEF Spec, PublishesOnce, Contract!Spec

-------------------------------------------------------------------------------
(* The effect of a step on one row *)

\* A step of worker w about row q leaves everybody else's stages alone.
LEMMA GotoEffect ==
    ASSUME TypeOK, NEW w \in Workers, NEW q \in PlatformPosts, NEW s, Goto(w, q, s)
    PROVE  /\ stage'[w][q] = s
           /\ \A v \in Workers, p \in PlatformPosts :
                 v # w \/ p # q => stage'[v][p] = stage[v][p]
BY DEF Goto, TypeOK

LEMMA SaveEffect ==
    ASSUME TypeOK, NEW q \in PlatformPosts, NEW r, SaveRow(q, r)
    PROVE  row'[q] = r /\ \A p \in PlatformPosts \ {q} : row'[p] = row[p]
BY DEF SaveRow, TypeOK

\* A failed attempt goes back to the schedule or is given up.
LEMMA RetryStatus ==
    ASSUME NEW c \in Row
    PROVE  ScheduleRetry(c).status \in {"scheduled", "failed"}
BY DEF ScheduleRetry, FailPermanently, Row

\* The six ways an attempt goes on, told by stage, row and counters.
Accepting(w, q) ==
    /\ stage[w][q] = "calling" /\ stage'[w][q] = "accepted"
    /\ row'[q] = row[q] /\ accepted'[q] = accepted[q] + 1
    /\ replays'[q] = replays[q] /\ faults' = faults
Failing(w, q) ==
    /\ stage[w][q] = "calling" /\ stage'[w][q] = "finished"
    /\ row'[q].status \in {"scheduled", "failed"}
    /\ \/ accepted'[q] = accepted[q] /\ replays'[q] = replays[q] /\ faults' = faults
       \/ accepted'[q] = accepted[q] + 1 /\ replays'[q] = replays[q] + 1 /\ faults' = faults + 1
Dropping(w, q) ==
    /\ stage[w][q] \in {"calling", "accepted", "saved"} /\ stage'[w][q] = "finished"
    /\ row'[q] = row[q] /\ accepted'[q] = accepted[q]
    /\ replays'[q] = replays[q] /\ faults' = faults + 1
Saving(w, q) ==
    /\ stage[w][q] = "accepted" /\ stage'[w][q] = "saved"
    /\ row'[q].status = "published" /\ accepted'[q] = accepted[q]
    /\ replays'[q] = replays[q] /\ faults' = faults
Logging(w, q) ==
    /\ stage[w][q] = "saved" /\ stage'[w][q] = "finished"
    /\ row'[q] = row[q] /\ accepted'[q] = accepted[q]
    /\ replays'[q] = replays[q] /\ faults' = faults
Reopening(w, q) ==
    /\ stage[w][q] \in {"accepted", "saved"} /\ stage'[w][q] = "finished"
    /\ row'[q].status \in {"scheduled", "failed"} /\ accepted'[q] = accepted[q]
    /\ replays'[q] = replays[q] + 1 /\ faults' = faults + 1

\* Nothing about row p moves.
Untouched(p) ==
    /\ row'[p] = row[p] /\ accepted'[p] = accepted[p] /\ replays'[p] = replays[p]
    /\ \A v \in Workers : stage'[v][p] = stage[v][p]

LEMMA AttemptEffect ==
    ASSUME TypeOK, NEW w \in Workers, NEW q \in PlatformPosts, Attempt(w, q)
    PROVE  /\ \/ Accepting(w, q) \/ Failing(w, q) \/ Dropping(w, q)
              \/ Saving(w, q) \/ Logging(w, q) \/ Reopening(w, q)
           /\ \A v \in Workers \ {w} : stage'[v][q] = stage[v][q]
           /\ \A p \in PlatformPosts \ {q} : Untouched(p)
           /\ comments' = comments
<1>1. copy[w][q] \in Row
    BY DEF TypeOK
<1>2. ScheduleRetry(copy[w][q]).status \in {"scheduled", "failed"}
    BY <1>1, RetryStatus
<1>3. /\ FailPermanently(copy[w][q]).status = "failed"
      /\ Published(copy[w][q]).status = "published"
    BY <1>1 DEF FailPermanently, Published, Row
<1>4. /\ Accept(q) => accepted'[q] = accepted[q] + 1
                       /\ \A p \in PlatformPosts \ {q} : accepted'[p] = accepted[p]
      /\ Replay(q) => replays'[q] = replays[q] + 1
                       /\ \A p \in PlatformPosts \ {q} : replays'[p] = replays[p]
    BY DEF Accept, Replay, TypeOK
<1>5. CASE ProviderAccepts(w, q)
    BY <1>4, <1>5, GotoEffect DEF ProviderAccepts, Accepting, Untouched, dbVars
<1>6. CASE ProviderLosesAck(w, q)
    BY <1>2, <1>4, <1>6, GotoEffect, SaveEffect DEF ProviderLosesAck, Failing, Untouched, Fault
<1>7. CASE ProviderFails(w, q)
    BY <1>2, <1>7, GotoEffect, SaveEffect DEF ProviderFails, Failing, Untouched
<1>8. CASE ProviderRefuses(w, q)
    BY <1>3, <1>8, GotoEffect, SaveEffect DEF ProviderRefuses, Failing, Untouched
<1>9. CASE OutcomeUnrecorded(w, q)
    BY <1>9, GotoEffect DEF OutcomeUnrecorded, Dropping, Untouched, Fault, dbVars
<1>10. CASE SavePublished(w, q)
    BY <1>3, <1>10, GotoEffect, SaveEffect DEF SavePublished, Saving, Untouched
<1>11. CASE LogPublished(w, q)
    BY <1>11, GotoEffect DEF LogPublished, Logging, Untouched, dbVars
<1>12. CASE BookkeepingFails(w, q)
    BY <1>2, <1>4, <1>12, GotoEffect, SaveEffect
       DEF BookkeepingFails, Reopening, Untouched, Fault
<1> QED BY <1>5, <1>6, <1>7, <1>8, <1>9, <1>10, <1>11, <1>12 DEF Attempt

-------------------------------------------------------------------------------
(* The inductive invariants *)

InCall == {"calling", "accepted"}

\* What phase and group a worker is in bounds what it does with the rows.
WorkersInStep ==
    \A w \in Workers :
        /\ phase[w] = "idle" => \A p \in PlatformPosts : stage[w][p] = "none"
        /\ \A p, q \in PlatformPosts :
              stage[w][p] = "due" /\ PostOf[p] = PostOf[q] => stage[w][q] \in {"none", "due"}

NoRequestYet == edits = 0 => \A e \in Editors : edit[e] = NoEdit

PublishingHeld ==
    faults = 0 /\ edits = 0 =>
        \A p \in PlatformPosts :
            row[p].status = "publishing" => \E w \in Workers : stage[w][p] \in InCall

\* The status a single worker's stage goes with.
Fits(s, status) ==
    /\ s \in {"listed", "cleared"} => status = "scheduled"
    /\ s \in InCall => status = "publishing"
    /\ s = "saved" => status = "published"

StageMatchesRow ==
    Cardinality(Workers) = 1 /\ edits = 0 =>
        \A w \in Workers, p \in PlatformPosts : Fits(stage[w][p], row[p].status)

NothingReopened ==
    Cardinality(Workers) = 1 /\ edits = 0 /\ faults = 0 =>
        \A p \in PlatformPosts : replays[p] = 0

\* The comment a worker will still enqueue for a row.
Owes(w, p) ==
    IF \/ stage[w][p] \in {"accepted", "saved"}
       \/ stage[w][p] \in {"calling", "finished"} /\ row[p].status = "published"
    THEN 1 ELSE 0

CommentsBacked ==
    Cardinality(Workers) = 1 =>
        \A w \in Workers, p \in PlatformPosts :
            comments[p] + Owes(w, p) <= accepted[p] + declared[p]

-------------------------------------------------------------------------------
(* The steps of a cycle, seen from one row *)

\* The claim of a group takes the row.
Claiming(w, p) ==
    /\ stage[w][p] = "due" /\ stage'[w][p] = "calling"
    /\ row[p].status = "scheduled" /\ row'[p].status = "publishing"
    /\ UNCHANGED <<accepted, replays, comments>>

\* A retry writes PUBLISHING over whatever it finds.
Marking(w, p) ==
    /\ stage[w][p] = "cleared" /\ stage'[w][p] = "calling"
    /\ row'[p].status = "publishing"
    /\ IF row[p].status \in ProtectedStatuses THEN Replay(p) ELSE UNCHANGED replays
    /\ UNCHANGED <<accepted, comments>>

\* The worker looks at the row, or lets go of it.
Passing(w, p) ==
    /\ row'[p] = row[p] /\ accepted'[p] = accepted[p] /\ replays'[p] = replays[p]
    /\ stage[w][p] \notin InCall
    /\ \/ stage'[w][p] \in {"none", "due"} /\ comments'[p] = comments[p]
       \/ /\ stage[w][p] = "finished" /\ stage'[w][p] = "none"
          /\ row[p].status = "published" /\ comments'[p] = comments[p] + 1
       \/ /\ stage'[w][p] = "listed" /\ row[p].status = "scheduled"
          /\ comments'[p] = comments[p]
       \/ /\ stage[w][p] = "listed" /\ stage'[w][p] = "cleared"
          /\ comments'[p] = comments[p]

Leaving(w, p) ==
    /\ row'[p] = row[p] /\ accepted'[p] = accepted[p] /\ replays'[p] = replays[p]
    /\ stage'[w][p] = stage[w][p] /\ comments'[p] = comments[p]

CycleOutcome(w, p) == Claiming(w, p) \/ Marking(w, p) \/ Passing(w, p) \/ Leaving(w, p)

LEMMA ClaimEffect ==
    ASSUME TypeOK, WorkersInStep, NEW w \in Workers, NEW post \in Posts,
           ClaimGroup(w, post), NEW p \in PlatformPosts
    PROVE  /\ CycleOutcome(w, p)
           /\ \A v \in Workers \ {w} : stage'[v][p] = stage[v][p]
<1> DEFINE claimed == IF GivenUp(post) THEN {} ELSE ClaimableRows(w, post)
<1>1. /\ row' = [x \in PlatformPosts |->
                   IF x \in claimed THEN [row[x] EXCEPT !.status = "publishing"]
                   ELSE row[x]]
      /\ stage' = [stage EXCEPT ![w] =
                     [x \in PlatformPosts |->
                        CASE x \in claimed -> "calling"
                          [] x \in Children(post) /\ x \notin claimed -> "none"
                          [] OTHER -> stage[w][x]]]
      /\ UNCHANGED <<accepted, replays, comments>>
    BY DEF ClaimGroup
<1>2. /\ claimed \subseteq Children(post)
      /\ p \in claimed => row[p].status = "scheduled" /\ stage[w][p] = "due"
    BY DEF ClaimableRows
<1>3. p \in Children(post) => stage[w][p] \notin InCall
    BY DEF ClaimGroup, Children, WorkersInStep, InCall
<1> HIDE DEF claimed
<1>4. \A v \in Workers \ {w} : stage'[v][p] = stage[v][p]
    BY <1>1 DEF TypeOK
<1>5. CASE p \in claimed
    BY <1>1, <1>2, <1>4, <1>5 DEF CycleOutcome, Claiming, TypeOK, Row
<1>6. CASE p \in Children(post) \ claimed
    BY <1>1, <1>3, <1>4, <1>6 DEF CycleOutcome, Passing, TypeOK
<1>7. CASE p \notin Children(post)
    BY <1>1, <1>2, <1>4, <1>7 DEF CycleOutcome, Leaving, TypeOK
<1> QED BY <1>4, <1>5, <1>6, <1>7

LEMMA CycleEffect ==
    ASSUME TypeOK, WorkersInStep, NEW w \in Workers, Cycle(w), NEW p \in PlatformPosts
    PROVE  /\ CycleOutcome(w, p)
           /\ \A v \in Workers \ {w} : stage'[v][p] = stage[v][p]
           /\ faults' = faults
<1> USE DEF CycleOutcome, InCall
<1>0. faults' = faults
    BY DEF Cycle, Poll, StartRetries, EndCycle, ClaimGroup, FinishGroup, RetryCheckHold,
           RetryMark, RetryDone
<1>1. CASE Poll(w)
    <2>1. stage[w][p] = "none"
        BY <1>1 DEF Poll, WorkersInStep
    <2>2. stage'[w][p] \in {"none", "due"} /\ \A v \in Workers \ {w} : stage'[v] = stage[v]
        BY <1>1 DEF Poll, TypeOK
    <2> QED BY <1>0, <1>1, <2>1, <2>2 DEF Poll, Passing, dbVars
<1>2. CASE StartRetries(w)
    <2>1. /\ stage'[w][p] = IF p \in RetryRows THEN "listed" ELSE "none"
          /\ \A v \in Workers \ {w} : stage'[v] = stage[v]
        BY <1>2 DEF StartRetries, TypeOK
    <2>2. stage[w][p] = "none" /\ UNCHANGED <<row, accepted, replays, comments>>
        BY <1>2 DEF StartRetries, dbVars
    <2>3. p \in RetryRows => row[p].status = "scheduled"
        BY DEF RetryRows
    <2> QED BY <1>0, <2>1, <2>2, <2>3 DEF Passing
<1>3. CASE EndCycle(w)
    BY <1>0, <1>3 DEF EndCycle, Leaving, dbVars
<1>4. ASSUME NEW post \in Posts, ClaimGroup(w, post)
      PROVE  CycleOutcome(w, p) /\ \A v \in Workers \ {w} : stage'[v][p] = stage[v][p]
    BY <1>4, ClaimEffect
<1>5. ASSUME NEW post \in Posts, FinishGroup(w, post)
      PROVE  CycleOutcome(w, p) /\ \A v \in Workers \ {w} : stage'[v][p] = stage[v][p]
    <2>1. /\ stage'[w][p] = IF PostOf[p] = post THEN "none" ELSE stage[w][p]
          /\ \A v \in Workers \ {w} : stage'[v] = stage[v]
        BY <1>5 DEF FinishGroup, TypeOK
    <2>2. comments'[p] = IF p \in CommentRows(w, post) THEN comments[p] + 1 ELSE comments[p]
        BY <1>5 DEF FinishGroup
    <2>3. /\ PostOf[p] = post => stage[w][p] \in {"none", "finished"}
          /\ p \in CommentRows(w, post) =>
                PostOf[p] = post /\ stage[w][p] = "finished" /\ row[p].status = "published"
        BY <1>5 DEF FinishGroup, CommentRows, Children
    <2>4. UNCHANGED <<row, accepted, replays>>
        BY <1>5 DEF FinishGroup, dbVars
    <2> QED BY <2>1, <2>2, <2>3, <2>4 DEF Passing, Leaving
<1>6. ASSUME NEW q \in PlatformPosts, RetryCheckHold(w, q)
      PROVE  CycleOutcome(w, p) /\ \A v \in Workers \ {w} : stage'[v][p] = stage[v][p]
    <2>1. PICK s \in {"none", "cleared"} : Goto(w, q, s)
        BY <1>6 DEF RetryCheckHold
    <2> QED BY <1>6, <2>1, GotoEffect DEF RetryCheckHold, Passing, Leaving, dbVars
<1>7. ASSUME NEW q \in PlatformPosts, RetryMark(w, q)
      PROVE  CycleOutcome(w, p) /\ \A v \in Workers \ {w} : stage'[v][p] = stage[v][p]
    <2>1. CASE p = q
        BY <1>7, <2>1, GotoEffect DEF RetryMark, Marking, TypeOK, Row
    <2>2. CASE p # q
        BY <1>7, <2>2, GotoEffect DEF RetryMark, Leaving, Replay, TypeOK
    <2> QED BY <2>1, <2>2
<1>8. ASSUME NEW q \in PlatformPosts, RetryDone(w, q)
      PROVE  CycleOutcome(w, p) /\ \A v \in Workers \ {w} : stage'[v][p] = stage[v][p]
    BY <1>8, GotoEffect DEF RetryDone, Passing, Leaving, dbVars
<1> QED BY <1>0, <1>1, <1>2, <1>3, <1>4, <1>5, <1>6, <1>7, <1>8 DEF Cycle

-------------------------------------------------------------------------------
(* The invariants hold initially and are kept *)

LEMMA OwnershipInit ==
    SystemInit => /\ WorkersInStep /\ NoRequestYet /\ PublishingHeld /\ StageMatchesRow
                  /\ NothingReopened /\ CommentsBacked
<1> SUFFICES ASSUME SystemInit
             PROVE  /\ WorkersInStep /\ NoRequestYet /\ PublishingHeld /\ StageMatchesRow
                    /\ NothingReopened /\ CommentsBacked
    OBVIOUS
<1>1. \A w \in Workers, p \in PlatformPosts : stage[w][p] = "none"
    BY DEF SystemInit, Init
<1>2. \A p \in PlatformPosts : row[p].status \in StartStatuses
    BY DEF SystemInit, Init
<1>3. \A p \in PlatformPosts :
         accepted[p] = 0 /\ replays[p] = 0 /\ comments[p] = 0 /\ declared[p] = 0
    BY DEF SystemInit, Init
<1>4. WorkersInStep
    BY <1>1 DEF WorkersInStep
<1>5. NoRequestYet
    BY DEF NoRequestYet, SystemInit
<1>6. PublishingHeld
    BY <1>2, ConstantsAssumption DEF PublishingHeld
<1>7. StageMatchesRow
    BY <1>1 DEF StageMatchesRow, Fits, InCall
<1>8. NothingReopened
    BY <1>3 DEF NothingReopened
<1>9. CommentsBacked
    BY <1>1, <1>3 DEF CommentsBacked, Owes
<1> QED BY <1>4, <1>5, <1>6, <1>7, <1>8, <1>9

\* Requests leave the workers' memory alone, and one that started is counted.
LEMMA EditorEffect ==
    ASSUME TypeOK, TypeOK', NEW e \in Editors, EditorStep(e)
    PROVE  /\ UNCHANGED <<workerVars, faults, accepted, comments>>
           /\ NoRequestYet => edits' # 0
           /\ \/ Write(e) \/ \E q \in PlatformPosts : ComposerFinish(e, q)
              \/ UNCHANGED <<row, replays, declared>>
<1>1. UNCHANGED <<workerVars, faults, accepted, comments>>
    BY DEF EditorStep, Reschedule, ScheduleDrafts, CancelScheduled, RequestHold,
           ResumeHold, RemoveFromQueue, Chip, Begin, ComposerSave, Write,
           ComposerFinish, publisherVars, workerVars
<1>2. \/ edits' = edits + 1 /\ UNCHANGED <<row, replays, declared>>
      \/ edits' = edits /\ Write(e)
      \/ edits' = edits /\ \E q \in PlatformPosts : ComposerFinish(e, q)
    BY DEF EditorStep, Reschedule, ScheduleDrafts, CancelScheduled, RequestHold,
           ResumeHold, RemoveFromQueue, Chip, Begin, ComposerSave, Write,
           ComposerFinish, publisherVars
<1>3. edits \in Nat
    BY EditConstantsAssumption DEF TypeOK
<1>4. Write(e) => edit[e].step = "write"
    BY DEF Write
<1>5. (\E q \in PlatformPosts : ComposerFinish(e, q)) => edit[e].step = "finish"
    BY DEF ComposerFinish
<1>6. NoRequestYet => edits' # 0
    BY <1>2, <1>3, <1>4, <1>5 DEF NoRequestYet, NoEdit
<1> QED BY <1>1, <1>2, <1>6

LEMMA RetimeEffect ==
    ASSUME TypeOK, NEW post \in Posts, NEW t \in EditTimes, Retime(post, t)
    PROVE  /\ UNCHANGED <<edit, workerVars, faults, accepted, replays, comments, declared>>
           /\ edits' # 0
           /\ \A p \in PlatformPosts : row'[p].status = row[p].status
<1>1. edits' # 0
    BY EditConstantsAssumption DEF Retime, TypeOK
<1>2. \A p \in PlatformPosts : row'[p].status = row[p].status
    BY DEF Retime, TypeOK, Row
<1> QED BY <1>1, <1>2 DEF Retime

\* One worker's part of WorkersInStep.
InStep(w) ==
    /\ phase[w] = "idle" => \A p \in PlatformPosts : stage[w][p] = "none"
    /\ \A p, q \in PlatformPosts :
          stage[w][p] = "due" /\ PostOf[p] = PostOf[q] => stage[w][q] \in {"none", "due"}

LEMMA GotoInStep ==
    ASSUME TypeOK, NEW w \in Workers, InStep(w), NEW q \in PlatformPosts,
           stage[w][q] \notin {"none", "due"}, NEW s, s # "due", Goto(w, q, s),
           phase' = phase
    PROVE  InStep(w)'
BY GotoEffect DEF InStep

LEMMA CycleInStep ==
    ASSUME TypeOK, NEW w \in Workers, InStep(w), WorkerStep(w) \/ Crash(w)
    PROVE  InStep(w)'
<1>1. CASE Poll(w)
    BY <1>1 DEF Poll, InStep, TypeOK
<1>2. CASE StartRetries(w)
    BY <1>2 DEF StartRetries, InStep, TypeOK
<1>3. CASE EndCycle(w)
    BY <1>3 DEF EndCycle, InStep, TypeOK
<1>4. CASE Crash(w)
    BY <1>4 DEF Crash, InStep, TypeOK
<1>5. ASSUME NEW post \in Posts, ClaimGroup(w, post) PROVE InStep(w)'
    <2>1. \A p \in PlatformPosts :
             IF p \in Children(post) THEN stage'[w][p] \in {"calling", "none"}
             ELSE stage'[w][p] = stage[w][p]
        BY <1>5 DEF ClaimGroup, ClaimableRows, TypeOK
    <2>2. phase'[w] # "idle"
        BY <1>5 DEF ClaimGroup
    <2> QED BY <2>1, <2>2 DEF InStep, Children
<1>6. ASSUME NEW post \in Posts, FinishGroup(w, post) PROVE InStep(w)'
    <2>1. \A p \in PlatformPosts :
             stage'[w][p] = IF PostOf[p] = post THEN "none" ELSE stage[w][p]
        BY <1>6 DEF FinishGroup, TypeOK
    <2>2. phase'[w] # "idle"
        BY <1>6 DEF FinishGroup
    <2> QED BY <2>1, <2>2 DEF InStep
<1>7. ASSUME NEW q \in PlatformPosts, RetryCheckHold(w, q) \/ RetryMark(w, q) \/ RetryDone(w, q)
      PROVE  InStep(w)'
    BY <1>7, GotoInStep DEF RetryCheckHold, RetryMark, RetryDone
<1>8. ASSUME NEW q \in PlatformPosts, Attempt(w, q) PROVE InStep(w)'
    BY <1>8, GotoInStep DEF Attempt, ProviderAccepts, ProviderLosesAck, ProviderFails,
       ProviderRefuses, OutcomeUnrecorded, SavePublished, LogPublished, BookkeepingFails
<1> QED BY <1>1, <1>2, <1>3, <1>4, <1>5, <1>6, <1>7, <1>8 DEF WorkerStep, Cycle

LEMMA WorkersInStepNext ==
    ASSUME TypeOK, TypeOK', WorkersInStep, [Next]_vars
    PROVE  WorkersInStep'
<1>1. \A w \in Workers : InStep(w)
    BY DEF WorkersInStep, InStep
<1>2. CASE UNCHANGED <<phase, stage>>
    BY <1>2 DEF WorkersInStep
<1>3. ASSUME NEW w \in Workers, WorkerStep(w) \/ Crash(w)
      PROVE  WorkersInStep'
    <2>1. ASSUME NEW v \in Workers \ {w} PROVE InStep(v)'
        <3>1. phase'[v] = phase[v] /\ stage'[v] = stage[v]
            BY <1>3 DEF WorkerStep, Cycle, Poll, StartRetries, EndCycle, ClaimGroup,
               FinishGroup, RetryCheckHold, RetryMark, RetryDone, Attempt, ProviderAccepts,
               ProviderLosesAck, ProviderFails, ProviderRefuses, OutcomeUnrecorded,
               SavePublished, LogPublished, BookkeepingFails, Goto, Crash, TypeOK
        <3> QED BY <1>1, <3>1 DEF InStep
    <2>2. InStep(w)'
        BY <1>1, <1>3, CycleInStep
    <2> QED BY <2>1, <2>2 DEF WorkersInStep, InStep
<1>4. ASSUME NEW e \in Editors, EditorStep(e) PROVE UNCHANGED <<phase, stage>>
    BY <1>4, EditorEffect DEF workerVars
<1>5. ASSUME NEW post \in Posts, NEW t \in EditTimes, Retime(post, t)
      PROVE  UNCHANGED <<phase, stage>>
    BY <1>5, RetimeEffect DEF workerVars
<1> QED BY <1>2, <1>3, <1>4, <1>5 DEF Next, EngineNext, Tick, workerVars, vars

\* A request is counted when it begins.
LEMMA NoRequestNext ==
    ASSUME TypeOK, TypeOK', NoRequestYet, [Next]_vars
    PROVE  NoRequestYet'
<1>1. CASE UNCHANGED <<edit, edits>>
    BY <1>1 DEF NoRequestYet
<1>2. ASSUME NEW e \in Editors, EditorStep(e) PROVE NoRequestYet'
    BY <1>2, EditorEffect DEF NoRequestYet
<1>3. ASSUME NEW post \in Posts, NEW t \in EditTimes, Retime(post, t) PROVE NoRequestYet'
    BY <1>3, RetimeEffect DEF NoRequestYet
<1> QED BY <1>1, <1>2, <1>3 DEF Next, vars

AttemptOutcome(w, p) ==
    \/ Accepting(w, p) \/ Failing(w, p) \/ Dropping(w, p)
    \/ Saving(w, p) \/ Logging(w, p) \/ Reopening(w, p)

\* A worker's step, seen from any row.
LEMMA WorkerEffect ==
    ASSUME TypeOK, TypeOK', WorkersInStep, NEW w \in Workers, WorkerStep(w),
           NEW p \in PlatformPosts
    PROVE  /\ CycleOutcome(w, p) \/ (AttemptOutcome(w, p) /\ comments' = comments)
           /\ \A v \in Workers \ {w} : stage'[v][p] = stage[v][p]
           /\ faults' = 0 => faults = 0
<1>1. CASE Cycle(w)
    BY <1>1, CycleEffect
<1>2. ASSUME NEW q \in PlatformPosts, Attempt(w, q)
      PROVE  /\ CycleOutcome(w, p) \/ (AttemptOutcome(w, p) /\ comments' = comments)
             /\ \A v \in Workers \ {w} : stage'[v][p] = stage[v][p]
             /\ faults' = 0 => faults = 0
    <2>1. faults' = 0 => faults = 0
        <3>1. faults \in Nat /\ (faults' = faults \/ faults' = faults + 1)
            BY <1>2, ConstantsAssumption DEF TypeOK, Attempt, ProviderAccepts,
               ProviderLosesAck, ProviderFails, ProviderRefuses, OutcomeUnrecorded,
               SavePublished, LogPublished, BookkeepingFails, Fault
        <3> QED BY <3>1
    <2>2. CASE p = q
        BY <1>2, <2>1, <2>2, AttemptEffect DEF AttemptOutcome
    <2>3. CASE p # q
        BY <1>2, <2>1, <2>3, AttemptEffect DEF Untouched, CycleOutcome, Leaving
    <2> QED BY <2>2, <2>3
<1> QED BY <1>1, <1>2 DEF WorkerStep

\* Everything that is not a worker's step leaves stages, tasks and answers alone,
\* but for a crash, which is counted.
Elsewhere ==
    /\ UNCHANGED <<accepted, comments>>
    /\ NoRequestYet /\ edits' = 0 => edits = 0 /\ UNCHANGED <<row, replays, declared>>
    /\ \/ UNCHANGED <<stage, faults>>
       \/ /\ faults' # 0 /\ UNCHANGED <<row, replays, declared, edits>>
          /\ \E w \in Workers :
                stage' = [stage EXCEPT ![w] = [p \in PlatformPosts |-> "none"]]

LEMMA StepCases ==
    ASSUME TypeOK, TypeOK', [Next]_vars
    PROVE  \/ \E w \in Workers : WorkerStep(w) /\ UNCHANGED <<edit, edits, declared>>
           \/ Elsewhere
<1> USE DEF Elsewhere
<1>1. CASE Tick /\ UNCHANGED <<edit, edits, declared>>
    BY <1>1 DEF Tick, dbVars, workerVars
<1>2. ASSUME NEW w \in Workers, Crash(w), UNCHANGED <<edit, edits, declared>>
      PROVE  Elsewhere
    <2>1. faults' = faults + 1 /\ faults \in Nat
        BY <1>2, ConstantsAssumption DEF Crash, Fault, TypeOK
    <2>2. stage' = [stage EXCEPT ![w] = [p \in PlatformPosts |-> "none"]]
        BY <1>2 DEF Crash
    <2>3. UNCHANGED <<row, accepted, replays, comments, edits, declared>>
        BY <1>2 DEF Crash, dbVars
    <2>4. faults' # 0
        BY <2>1
    <2> QED BY <2>2, <2>3, <2>4
<1>3. ASSUME NEW e \in Editors, EditorStep(e) PROVE Elsewhere
    BY <1>3, EditorEffect DEF workerVars
<1>4. ASSUME NEW post \in Posts, NEW t \in EditTimes, Retime(post, t) PROVE Elsewhere
    BY <1>4, RetimeEffect DEF workerVars
<1>5. CASE UNCHANGED vars
    BY <1>5 DEF vars
<1> QED BY <1>1, <1>2, <1>3, <1>4, <1>5 DEF Next, EngineNext

LEMMA OnlyWorker ==
    ASSUME Cardinality(Workers) = 1, NEW v \in Workers, NEW w \in Workers
    PROVE  v = w
<1>1. PICK x : Workers = {x}
    BY FS_Singleton, ConstantsAssumption
<1> QED BY <1>1

\* As long as nothing fails and nobody interferes, whoever leaves a publishing row
\* has settled it.
LEMMA PublishingHeldNext ==
    ASSUME TypeOK, TypeOK', WorkersInStep, NoRequestYet, PublishingHeld, [Next]_vars
    PROVE  PublishingHeld'
<1> SUFFICES ASSUME faults' = 0, edits' = 0, NEW p \in PlatformPosts,
                    row'[p].status = "publishing"
             PROVE  \E v \in Workers : stage'[v][p] \in InCall
    BY DEF PublishingHeld
<1>1. ASSUME NEW w \in Workers, WorkerStep(w), UNCHANGED edits
      PROVE  \E v \in Workers : stage'[v][p] \in InCall
    <2>1. /\ CycleOutcome(w, p) \/ (AttemptOutcome(w, p) /\ comments' = comments)
          /\ \A v \in Workers \ {w} : stage'[v][p] = stage[v][p]
          /\ faults = 0 /\ edits = 0
        BY <1>1, WorkerEffect
    <2>2. row[p].status = "publishing" => \E v \in Workers : stage[v][p] \in InCall
        BY <2>1 DEF PublishingHeld
    <2>3. CASE stage'[w][p] \in InCall
        BY <2>3
    <2>4. CASE row'[p] = row[p] /\ stage[w][p] \notin InCall
        BY <2>1, <2>2, <2>4
    <2>5. CASE row'[p] = row[p] /\ stage'[w][p] = stage[w][p]
        BY <2>1, <2>2, <2>5
    <2>6. faults \in Nat
        BY ConstantsAssumption DEF TypeOK
    <2> QED BY <2>1, <2>3, <2>4, <2>5, <2>6
            DEF CycleOutcome, Claiming, Marking, Passing, Leaving, AttemptOutcome, InCall,
                Accepting, Failing, Dropping, Saving, Logging, Reopening
<1>2. CASE Elsewhere
    BY <1>2 DEF Elsewhere, PublishingHeld
<1> QED BY <1>1, <1>2, StepCases

\* A single worker finds a row the way it left it.
LEMMA StageMatchesNext ==
    ASSUME TypeOK, TypeOK', WorkersInStep, NoRequestYet, StageMatchesRow, [Next]_vars
    PROVE  StageMatchesRow'
<1> SUFFICES ASSUME Cardinality(Workers) = 1, edits' = 0,
                    NEW w \in Workers, NEW p \in PlatformPosts
             PROVE  Fits(stage'[w][p], row'[p].status)
    BY DEF StageMatchesRow, Fits
<1>1. ASSUME WorkerStep(w), UNCHANGED edits PROVE Fits(stage'[w][p], row'[p].status)
    <2>1. CycleOutcome(w, p) \/ (AttemptOutcome(w, p) /\ comments' = comments)
        BY <1>1, WorkerEffect
    <2>2. Fits(stage[w][p], row[p].status)
        BY <1>1 DEF StageMatchesRow
    <2> QED BY <2>1, <2>2
            DEF CycleOutcome, Claiming, Marking, Passing, Leaving, AttemptOutcome, InCall,
                Accepting, Failing, Dropping, Saving, Logging, Reopening, Fits
<1>2. CASE Elsewhere
    <2>1. Fits(stage[w][p], row[p].status) /\ row' = row
        BY <1>2 DEF Elsewhere, StageMatchesRow
    <2>2. stage'[w][p] \in {stage[w][p], "none"}
        BY <1>2 DEF Elsewhere, TypeOK
    <2> QED BY <2>1, <2>2 DEF Fits, InCall
<1> QED BY <1>1, <1>2, StepCases, OnlyWorker

\* Without accidents a single worker never marks a protected row.
LEMMA NothingReopenedNext ==
    ASSUME TypeOK, TypeOK', WorkersInStep, NoRequestYet, StageMatchesRow, NothingReopened,
           [Next]_vars
    PROVE  NothingReopened'
<1> SUFFICES ASSUME Cardinality(Workers) = 1, edits' = 0, faults' = 0,
                    NEW p \in PlatformPosts
             PROVE  replays'[p] = 0
    BY DEF NothingReopened
<1>1. ASSUME NEW w \in Workers, WorkerStep(w), UNCHANGED edits PROVE replays'[p] = 0
    <2>1. /\ CycleOutcome(w, p) \/ (AttemptOutcome(w, p) /\ comments' = comments)
          /\ faults = 0
        BY <1>1, WorkerEffect
    <2>2. replays[p] = 0 /\ Fits(stage[w][p], row[p].status)
        BY <1>1, <2>1 DEF NothingReopened, StageMatchesRow
    <2>3. faults' # faults + 1
        BY <2>1
    <2> QED BY <2>1, <2>2, <2>3
            DEF CycleOutcome, Claiming, Marking, Passing, Leaving, AttemptOutcome, InCall,
                Accepting, Failing, Dropping, Saving, Logging, Reopening, Fits,
                ProtectedStatuses
<1>2. CASE Elsewhere
    BY <1>2 DEF Elsewhere, NothingReopened
<1> QED BY <1>1, <1>2, StepCases

\* A row that a request shows as published is counted, unless it was.
LEMMA EditorDeclares ==
    ASSUME TypeOK, TypeOK', NEW e \in Editors, EditorStep(e), NEW p \in PlatformPosts
    PROVE  \/ declared'[p] = declared[p] + 1
           \/ /\ declared'[p] = declared[p]
              /\ row'[p].status = "published" => row[p].status = "published"
<1>1. CASE Write(e)
    <2>1. row'[p] = IF p \in edit[e].rows THEN Patched(row[p], edit[e].patch[p]) ELSE row[p]
        BY <1>1 DEF Write
    <2>2. declared'[p] = IF p \in edit[e].rows /\ Declares(row[p], edit[e].patch[p])
                         THEN declared[p] + 1 ELSE declared[p]
        BY <1>1 DEF Write
    <2> QED BY <2>1, <2>2 DEF Declares
<1>2. ASSUME NEW q \in PlatformPosts, ComposerFinish(e, q)
      PROVE  /\ declared'[p] = declared[p]
             /\ row'[p].status = "published" => row[p].status = "published"
    BY <1>2 DEF ComposerFinish, TypeOK, Row
<1> QED BY <1>1, <1>2, EditorEffect

LEMMA CommentsBackedNext ==
    ASSUME TypeOK, TypeOK', WorkersInStep, CommentsBacked, [Next]_vars
    PROVE  CommentsBacked'
<1> SUFFICES ASSUME Cardinality(Workers) = 1, NEW w \in Workers, NEW p \in PlatformPosts
             PROVE  comments'[p] + Owes(w, p)' <= accepted'[p] + declared'[p]
    BY DEF CommentsBacked
<1>1. /\ comments[p] + Owes(w, p) <= accepted[p] + declared[p]
      /\ Owes(w, p) \in {0, 1} /\ Owes(w, p)' \in {0, 1}
      /\ comments[p] \in Nat /\ accepted[p] \in Nat /\ declared[p] \in Nat
    BY DEF CommentsBacked, Owes, TypeOK
<1>2. ASSUME comments'[p] = comments[p], accepted'[p] = accepted[p],
             \/ declared'[p] = declared[p] + 1
             \/ declared'[p] = declared[p] /\ Owes(w, p)' <= Owes(w, p)
      PROVE  comments'[p] + Owes(w, p)' <= accepted'[p] + declared'[p]
    BY <1>1, <1>2
<1>3. ASSUME WorkerStep(w), UNCHANGED declared
      PROVE  comments'[p] + Owes(w, p)' <= accepted'[p] + declared'[p]
    <2>1. CycleOutcome(w, p) \/ (AttemptOutcome(w, p) /\ comments' = comments)
        BY <1>3, WorkerEffect
    <2>2. CASE Accepting(w, p) /\ comments' = comments
        BY <1>1, <1>3, <2>2 DEF Accepting
    <2>3. CASE Failing(w, p) /\ comments' = comments
        BY <1>1, <1>3, <2>3 DEF Failing, Owes
    <2>4. CASE (Dropping(w, p) \/ Saving(w, p) \/ Logging(w, p)) /\ comments' = comments
        BY <1>2, <1>3, <2>4 DEF Dropping, Saving, Logging, Owes
    <2>5. CASE Reopening(w, p) /\ comments' = comments
        BY <1>2, <1>3, <2>5 DEF Reopening, Owes
    <2>6. CASE Claiming(w, p) \/ Marking(w, p)
        BY <1>2, <1>3, <2>6 DEF Claiming, Marking, Owes
    <2>7. CASE Passing(w, p)
        BY <1>1, <1>3, <2>7 DEF Passing, Owes
    <2>8. CASE Leaving(w, p)
        BY <1>2, <1>3, <2>8 DEF Leaving, Owes
    <2> QED BY <2>1, <2>2, <2>3, <2>4, <2>5, <2>6, <2>7, <2>8
            DEF CycleOutcome, AttemptOutcome
<1>4. CASE Tick /\ UNCHANGED <<edit, edits, declared>>
    BY <1>2, <1>4 DEF Tick, dbVars, workerVars, Owes
<1>5. ASSUME Crash(w), UNCHANGED <<edit, edits, declared>>
      PROVE  comments'[p] + Owes(w, p)' <= accepted'[p] + declared'[p]
    BY <1>2, <1>5 DEF Crash, dbVars, Owes, TypeOK
<1>6. ASSUME NEW e \in Editors, EditorStep(e)
      PROVE  comments'[p] + Owes(w, p)' <= accepted'[p] + declared'[p]
    BY <1>1, <1>2, <1>6, EditorEffect, EditorDeclares DEF workerVars, Owes
<1>7. ASSUME NEW post \in Posts, NEW t \in EditTimes, Retime(post, t)
      PROVE  comments'[p] + Owes(w, p)' <= accepted'[p] + declared'[p]
    BY <1>2, <1>7, RetimeEffect DEF workerVars, Owes
<1>8. CASE UNCHANGED vars
    BY <1>2, <1>8 DEF vars, Owes
<1> QED BY <1>3, <1>4, <1>5, <1>6, <1>7, <1>8, OnlyWorker DEF Next, EngineNext

-------------------------------------------------------------------------------
(* The theorems *)

\* Whoever the row stage says has a row in hand really has it, requests are counted
\* from their first read, and the engine's bookkeeping of its own steps is right, in
\* every reachable state.
THEOREM OwnershipHolds ==
    Spec => [](/\ WorkersInStep /\ NoRequestYet /\ PublishingHeld /\ StageMatchesRow
               /\ NothingReopened /\ CommentsBacked)
<1> DEFINE Inv == /\ WorkersInStep /\ NoRequestYet /\ PublishingHeld /\ StageMatchesRow
                  /\ NothingReopened /\ CommentsBacked
<1>1. SystemInit => Inv
    BY OwnershipInit
<1>2. TypeOK /\ TypeOK' /\ Inv /\ [Next]_vars => Inv'
    BY WorkersInStepNext, NoRequestNext, PublishingHeldNext, StageMatchesNext,
       NothingReopenedNext, CommentsBackedNext
<1> QED BY <1>1, <1>2, TypeCorrect, PTL DEF Spec

\* As long as nothing fails and no request comes between, a row that is PUBLISHING has
\* a worker that will settle it, for any number of workers, and a single worker sends
\* it once.
THEOREM PublishingRowIsOwned == Spec => []PublishingRowOwned
<1>1. TypeOK /\ AcceptanceBudget /\ PublishingHeld /\ NothingReopened => PublishingRowOwned
    <2> SUFFICES ASSUME TypeOK, AcceptanceBudget, PublishingHeld, NothingReopened,
                        faults = 0, edits = 0, NEW p \in PlatformPosts
                 PROVE  /\ row[p].status = "publishing" =>
                              \E w \in Workers : stage[w][p] \in {"calling", "accepted"}
                        /\ Cardinality(Workers) = 1 => accepted[p] <= 1
        BY DEF PublishingRowOwned
    <2>1. /\ Claimable(p) \in {0, 1} /\ accepted[p] \in Nat /\ replays[p] \in Nat
          /\ accepted[p] + Cardinality(Calling(p)) + Claimable(p) <= 1 + replays[p]
        BY DEF AcceptanceBudget, Claimable, TypeOK
    <2>2. Cardinality(Workers) = 1 => accepted[p] <= 1
        BY <2>1, CallingCount DEF NothingReopened
    <2> QED BY <2>2 DEF PublishingHeld, InCall
<1> QED BY <1>1, TypeCorrect, BudgetHolds, OwnershipHolds, PTL

\* A single worker enqueues no more first comments than the platform took posts and
\* others wrote the row published.
THEOREM CommentsPerPublication == Spec => []OneCommentPerPublication
<1>1. TypeOK /\ CommentsBacked => OneCommentPerPublication
    <2> SUFFICES ASSUME TypeOK, CommentsBacked, Cardinality(Workers) = 1,
                        NEW p \in PlatformPosts
                 PROVE  comments[p] <= accepted[p] + declared[p]
        BY DEF OneCommentPerPublication
    <2>1. PICK w : Workers = {w}
        BY FS_Singleton, ConstantsAssumption
    <2>2. comments[p] + Owes(w, p) <= accepted[p] + declared[p] /\ Owes(w, p) \in {0, 1}
        BY <2>1 DEF CommentsBacked, Owes
    <2> QED BY <2>2 DEF TypeOK
<1> QED BY <1>1, TypeCorrect, OwnershipHolds, PTL

\* A single worker that no request came between takes only the state machine's edges,
\* but where an accident reopens a published row.
THEOREM EngineFollowsStateMachine == Spec => EngineObeysStateMachine
<1>1. ASSUME TypeOK, TypeOK', WorkersInStep, NoRequestYet, StageMatchesRow, [Next]_vars,
             Cardinality(Workers) = 1, edits' = 0
      PROVE  StatusStepsLegal
    <2> SUFFICES ASSUME NEW p \in PlatformPosts, row'[p].status # row[p].status
                 PROVE  CanTransition(row[p].status, row'[p].status) \/ replays'[p] > replays[p]
        BY DEF StatusStepsLegal
    <2>1. ASSUME NEW w \in Workers, WorkerStep(w), UNCHANGED edits
          PROVE  CanTransition(row[p].status, row'[p].status) \/ replays'[p] > replays[p]
        <3>1. CycleOutcome(w, p) \/ (AttemptOutcome(w, p) /\ comments' = comments)
            BY <1>1, <2>1, WorkerEffect
        <3>2. Fits(stage[w][p], row[p].status)
            BY <1>1, <2>1 DEF StageMatchesRow
        <3>3. CASE Reopening(w, p)
            BY <1>1, <3>3 DEF Reopening, TypeOK
        <3>4. /\ CanTransition("scheduled", "publishing")
              /\ CanTransition("publishing", "published")
              /\ CanTransition("publishing", "scheduled")
              /\ CanTransition("publishing", "failed")
            BY DEF CanTransition, ValidTransitions
        <3> QED BY <3>1, <3>2, <3>3, <3>4
                DEF CycleOutcome, Claiming, Marking, Passing, Leaving, AttemptOutcome,
                    InCall, Accepting, Failing, Dropping, Saving, Logging, Fits
    <2>2. CASE Elsewhere
        BY <1>1, <2>2 DEF Elsewhere
    <2> QED BY <1>1, <2>1, <2>2, StepCases
<1>2. /\ TypeOK /\ TypeOK' /\ WorkersInStep /\ NoRequestYet /\ StageMatchesRow /\ [Next]_vars
      => [Cardinality(Workers) = 1 /\ edits' = 0 => StatusStepsLegal]_vars
    BY <1>1
<1> QED BY <1>2, TypeCorrect, OwnershipHolds, PTL DEF Spec, EngineObeysStateMachine
===============================================================================
