------------------------------ MODULE QueueSlots ------------------------------
(***************************************************************************)
(* The queues of one channel: posts take the channel's posting slots by     *)
(* next available, by priority (which ladders the others), by removal and   *)
(* by reordering, all under a lock on the channel.  Drag-and-drop, manual   *)
(* schedules, slot settings and the publishing engine take no such lock.    *)
(***************************************************************************)
EXTENDS Integers, FiniteSets, FiniteSetsExt, Functions, PlatformPostStatus

CONSTANTS
    QueuedPosts,  \* posts with one row on this channel each
    Queues,       \* the queues of the channel
    Booked,       \* queue, post and instant of the posts that hold a slot at first
    SlotThreads,  \* web threads
    Horizon,      \* last instant the slot walk looks at
    LastNow,      \* bound on the clock
    MaxSlotOps    \* bound on the number of requests

ASSUME QueueConstants ==
    /\ IsFiniteSet(QueuedPosts)
    /\ Horizon \in Nat /\ LastNow \in 0..Horizon /\ MaxSlotOps \in Nat
    /\ Booked \subseteq Queues \X QueuedPosts \X (1..Horizon)
    /\ \A x, y \in Booked : x[2] = y[2] \/ x[3] = y[3] => x = y

VARIABLES
    qrow,    \* PlatformPost: status and scheduled_at
    entries, \* QueueEntry: which queue holds which post
    slots,   \* instants of the channel's active posting slots
    qnow,    \* the clock
    slotOp,  \* what a thread has decided and not yet written
    loose,   \* history: posts on an instant chosen by hand, for them or for the post
             \* they took it from, or that nobody kept for them while they were sent
    slotOps

slotVars == <<qrow, entries, slots, qnow, slotOp, loose, slotOps>>

NoTime == -1
Instants == 1..Horizon
QueueStatuses == {"draft", "approved", "scheduled", "publishing", "published", "failed"}

\* kind: the operation; times: the instants it will write; read: the status each
\* of those rows had; had: the instant; post: the post it was asked for.
NoOp == [kind |-> "none", queue |-> "none", post |-> "none",
         times |-> << >>, read |-> << >>, had |-> << >>]

Protected(p) == qrow[p].status \in ProtectedStatuses
Future(p) == qrow[p].at > qnow

-------------------------------------------------------------------------------
(* Slots *)

\* Instants other posts of the channel hold.
Occupied(without) ==
    {qrow[p].at : p \in {x \in QueuedPosts \ without : ~Protected(x) /\ Future(x)}}

Upcoming == {s \in slots : s > qnow}
Free(without) == Upcoming \ Occupied(without)

\* The queue's entries a ladder may move.
Movable(q, post) ==
    {p \in QueuedPosts \ {post} : <<q, p>> \in entries /\ ~Protected(p) /\ Future(p)}

\* The walk over the slots stops two after the number of movable posts; those on
\* one of these slots climb, one dragged elsewhere or further off stays.
Ladder(q, post) ==
    LET n == Cardinality(Movable(q, post)) + 2
    IN  {s \in Upcoming : Cardinality({x \in Upcoming : x < s}) < n}
Movers(q, post) == {p \in Movable(q, post) : qrow[p].at \in Ladder(q, post)}

\* No slot is left before the horizon: QueueFullError rolls everything back.
Full == Horizon + 1
First(S) == IF S = {} THEN Full ELSE Min(S)

\* Slots a mover may take: those no post that stays holds.
Rungs(q, post) ==
    Upcoming \ (Occupied({post}) \ {qrow[p].at : p \in Movers(q, post)})

\* From the latest mover down, each takes the first rung after its own that none
\* before it took; the first slot of all is for the post itself.  Movers that hold
\* the same instant, one of them put there by hand, go by their rank in the queue.
Climb(q, post, rank) ==
    LET movers == Movers(q, post)
        goesFirst(p, r) == \/ qrow[p].at > qrow[r].at
                           \/ qrow[p].at = qrow[r].at /\ rank[p] < rank[r]
        to[p \in movers] ==
            First({s \in Rungs(q, post) : s > qrow[p].at}
                    \ {to[x] : x \in {y \in movers : goesFirst(y, p)}})
    IN  [p \in movers \cup {post} |-> IF p = post THEN First(Upcoming) ELSE to[p]]

\* Where a prioritized post and the posts it displaces go.
Prioritized(q, post, rank) ==
    IF First(Upcoming) \in {qrow[p].at : p \in Movable(q, post)}
    THEN Climb(q, post, rank)
    ELSE [p \in {post} |-> First(Free({post}))]

Rankings == Bijection(QueuedPosts, 1..Cardinality(QueuedPosts))

-------------------------------------------------------------------------------
(* Operations under the channel lock: decide, then write and release *)

\* Mutant: the lock is on the queue.
QueueUnlocked(q) == \A t \in SlotThreads : slotOp[t].queue # q

\* SELECT ... FOR UPDATE on the channel: no other slot operation is under way.
ChannelUnlocked(q) == \A t \in SlotThreads : slotOp[t].queue = "none"

Take(t, kind, q, post, times) ==
    /\ slotOp[t] = NoOp /\ ChannelUnlocked(q)
    /\ slotOps < MaxSlotOps /\ slotOps' = slotOps + 1
    /\ \A p \in DOMAIN times : times[p] # Full
    /\ slotOp' = [slotOp EXCEPT ![t] =
                     [kind |-> kind, queue |-> q, post |-> post, times |-> times,
                      read |-> [p \in DOMAIN times |-> qrow[p].status],
                      had |-> [p \in DOMAIN times |-> qrow[p].at]]]
    /\ UNCHANGED <<qrow, entries, slots, qnow, loose>>

\* Mutant: no guard at all.
AddAnyNextAvailable(t, q, p) == Take(t, "add", q, p, [x \in {p} |-> First(Free({p}))])

\* Next available, from the composer or as a reslot: a post that is sent or being
\* sent keeps its time.
AddNextAvailable(t, q, p) ==
    /\ ~Protected(p)
    /\ Take(t, "add", q, p, [x \in {p} |-> First(Free({p}))])

\* Priority has no such guard for the post itself.
Prioritize(t, q, p) ==
    \E rank \in Rankings : Take(t, "prioritize", q, p, Prioritized(q, p, rank))

\* The instants the named entries hold are dealt out in the order of the drag.
Reorder(t, q, p, r) ==
    /\ p # r /\ {<<q, p>>, <<q, r>>} \subseteq entries
    /\ \A x \in {p, r} : ~Protected(x) /\ qrow[x].at # NoTime
    /\ LET early == Min({qrow[p].at, qrow[r].at})
           late == Max({qrow[p].at, qrow[r].at})
       IN  Take(t, "reorder", q, p, [x \in {p, r} |-> IF x = p THEN early ELSE late])

\* The composer moves the post to scheduled in the transaction that adds it.
AfterWrite(t, p) ==
    LET composed == slotOp[t].kind \in {"add", "prioritize"} /\ p = slotOp[t].post
        s == qrow[p].status
    IN  [status |-> IF composed /\ ReachesViaDraft(s, "scheduled") THEN "scheduled" ELSE s,
         at |-> slotOp[t].times[p]]

WriteSlots(t) ==
    /\ slotOp[t].queue # "none"
    /\ qrow' = [p \in QueuedPosts |->
                  IF p \in DOMAIN slotOp[t].times THEN AfterWrite(t, p) ELSE qrow[p]]
    /\ entries' = entries \cup {<<slotOp[t].queue, slotOp[t].post>>}
    /\ loose' = LET posts == DOMAIN slotOp[t].times
                     byHand == {slotOp[t].had[r] : r \in posts \cap loose}
                 IN  (loose \ posts) \cup {p \in posts : slotOp[t].times[p] \in byHand}
    /\ slotOp' = [slotOp EXCEPT ![t] = NoOp]
    /\ UNCHANGED <<slots, qnow, slotOps>>

\* Removal leaves a gap: an unsent post goes back to draft and loses its time and,
\* with the transition to draft, its entries in the channel's other queues.
RemoveFromQueue(q, p) ==
    LET drafted == ~Protected(p) /\ CanTransition(qrow[p].status, "draft")
    IN  /\ <<q, p>> \in entries /\ ChannelUnlocked(q)
        /\ slotOps < MaxSlotOps /\ slotOps' = slotOps + 1
        /\ qrow' = IF drafted THEN [qrow EXCEPT ![p] = [status |-> "draft", at |-> NoTime]]
                   ELSE qrow
        /\ entries' = {e \in entries : e[2] # p \/ (~drafted /\ e[1] # q)}
        /\ UNCHANGED <<slots, qnow, slotOp, loose>>

-------------------------------------------------------------------------------
(* What takes no lock *)

\* Drag-and-drop reads a row, and later writes its status and the new time.
Drag(t, p, at) ==
    /\ slotOp[t] = NoOp
    /\ slotOps < MaxSlotOps /\ slotOps' = slotOps + 1
    /\ qrow[p].status \in {"draft", "approved", "scheduled"}
    /\ slotOp' = [slotOp EXCEPT ![t] =
                     [NoOp EXCEPT !.kind = "drag", !.post = p,
                                  !.times = [x \in {p} |-> at],
                                  !.read = [x \in {p} |-> qrow[p].status]]]
    /\ UNCHANGED <<qrow, entries, slots, qnow, loose>>

WriteDrag(t) ==
    LET p == slotOp[t].post
        s == slotOp[t].read[p]
    IN  /\ slotOp[t].kind = "drag"
        /\ qrow' = [qrow EXCEPT ![p] =
                      [status |-> IF s = "draft" THEN "scheduled" ELSE s,
                       at |-> slotOp[t].times[p]]]
        /\ loose' = loose \cup {p}
        /\ slotOp' = [slotOp EXCEPT ![t] = NoOp]
        /\ UNCHANGED <<entries, slots, qnow, slotOps>>

\* Schedule in the composer: one update over rows that are not protected.
Schedule(p, at) ==
    /\ slotOps < MaxSlotOps /\ slotOps' = slotOps + 1
    /\ at > qnow /\ ~Protected(p) /\ ReachesViaDraft(qrow[p].status, "scheduled")
    /\ qrow' = [qrow EXCEPT ![p] = [status |-> "scheduled", at |-> at]]
    /\ loose' = loose \cup {p}
    /\ UNCHANGED <<entries, slots, qnow, slotOp>>

\* A deleted queue takes its entries along; its posts keep their times.
DeleteQueue(q) ==
    /\ slotOps < MaxSlotOps /\ slotOps' = slotOps + 1
    /\ entries' = {e \in entries : e[1] # q}
    /\ UNCHANGED <<qrow, slots, qnow, slotOp, loose>>

\* Slots are added, deleted, moved, and switched off and on.
EditSlot(s) ==
    /\ slotOps < MaxSlotOps /\ slotOps' = slotOps + 1
    /\ slots' = IF s \in slots THEN slots \ {s} ELSE slots \cup {s}
    /\ UNCHANGED <<qrow, entries, qnow, slotOp, loose>>

Fire(p) ==
    /\ qrow[p].status = "scheduled" /\ qrow[p].at # NoTime /\ qrow[p].at <= qnow
    /\ qrow' = [qrow EXCEPT ![p].status = "publishing"]
    /\ UNCHANGED <<entries, slots, qnow, slotOp, loose, slotOps>>

\* The engine settles a row; success also drops the post's entries on the channel.
Settle(p, outcome) ==
    /\ qrow[p].status = "publishing"
    /\ qrow' = [qrow EXCEPT ![p].status = outcome]
    /\ entries' = IF outcome = "published" THEN {e \in entries : e[2] # p} ELSE entries
    /\ loose' = IF outcome # "published" /\ Future(p) THEN loose \cup {p} ELSE loose
    /\ UNCHANGED <<slots, qnow, slotOp, slotOps>>

SlotTick ==
    /\ qnow < LastNow /\ qnow' = qnow + 1
    /\ UNCHANGED <<qrow, entries, slots, slotOp, loose, slotOps>>

-------------------------------------------------------------------------------

SlotInit ==
    /\ qrow = [p \in QueuedPosts |->
                 IF \E x \in Booked : x[2] = p
                 THEN [status |-> "scheduled", at |-> (CHOOSE x \in Booked : x[2] = p)[3]]
                 ELSE [status |-> "draft", at |-> NoTime]]
    /\ entries = {<<x[1], x[2]>> : x \in Booked}
    /\ slots = Instants
    /\ qnow = 0
    /\ slotOp = [t \in SlotThreads |-> NoOp]
    /\ loose = {}
    /\ slotOps = 0

SlotNext ==
    \/ \E t \in SlotThreads :
          \/ \E q \in Queues, p \in QueuedPosts :
                AddNextAvailable(t, q, p) \/ Prioritize(t, q, p)
          \/ \E q \in Queues, p, r \in QueuedPosts : Reorder(t, q, p, r)
          \/ WriteSlots(t)
          \/ \E p \in QueuedPosts, at \in Instants : Drag(t, p, at)
          \/ WriteDrag(t)
    \/ \E q \in Queues, p \in QueuedPosts : RemoveFromQueue(q, p)
    \/ \E p \in QueuedPosts :
          \/ \E at \in Instants : Schedule(p, at)
          \/ Fire(p)
          \/ \E outcome \in {"published", "failed", "scheduled"} : Settle(p, outcome)
    \/ \E q \in Queues : DeleteQueue(q)
    \/ \E s \in Instants : EditSlot(s)
    \/ SlotTick

SlotSpec == SlotInit /\ [][SlotNext]_slotVars

-------------------------------------------------------------------------------

PartialFunctions(D, R) == UNION {[S -> R] : S \in SUBSET D}

SlotTypeOK ==
    /\ qrow \in [QueuedPosts -> [status: QueueStatuses, at: Instants \cup {NoTime}]]
    /\ entries \subseteq Queues \X QueuedPosts
    /\ slots \subseteq Instants
    /\ qnow \in 0..LastNow
    /\ \A t \in SlotThreads :
          /\ slotOp[t].times \in PartialFunctions(QueuedPosts, Instants)
          /\ slotOp[t].read \in PartialFunctions(QueuedPosts, QueueStatuses)
    /\ loose \subseteq QueuedPosts
    /\ slotOps \in 0..MaxSlotOps

\* "no double-booking": of two posts that wait for the same future instant one is
\* there by hand (a drag, a manual schedule, or the place of a post that was), or
\* came back from a failed attempt to an instant moved while it was being sent.
NoDoubleBooking ==
    \A p, r \in QueuedPosts :
        /\ p # r /\ qrow[p].at = qrow[r].at
        /\ \A x \in {p, r} : ~Protected(x) /\ Future(x)
        => loose \cap {p, r} # {}

\* "A published/publishing post's schedule is history - never re-slot it": the
\* time of such a row moves only by a write that was decided when the row was
\* neither, or when the post itself is prioritized.
SentTimeKept ==
    \A p \in QueuedPosts :
       Protected(p) /\ qrow'[p].at # qrow[p].at =>
           \E t \in SlotThreads :
              /\ p \in DOMAIN slotOp[t].times
              /\ \/ slotOp[t].read[p] \notin ProtectedStatuses
                 \/ slotOp[t].kind = "prioritize" /\ slotOp[t].post = p
===============================================================================
