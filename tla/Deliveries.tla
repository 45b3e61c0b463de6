------------------------------ MODULE Deliveries ------------------------------
(***************************************************************************)
(* Deliveries of one notification over its channels: the first attempt is   *)
(* made by the process that notifies, the others by the minutely sweep,     *)
(* which works through a batch it read at its start (one sweep at a time:   *)
(* the task row is locked).  Either may die between an attempt, its sending *)
(* and the record of its outcome.                                           *)
(***************************************************************************)
EXTENDS Integers, FiniteSets

CONSTANTS
    Channels,         \* channels a user may have switched on
    MaxAttempts,      \* MAX_RETRY_ATTEMPTS
    RetryBatch,       \* RETRY_BATCH_LIMIT
    LastMinute,       \* bound on the clock
    MaxDeliveryDeaths \* bound on the deaths

ASSUME DeliveryConstants ==
    /\ Channels \subseteq {"in_app", "email", "webhook"}
    /\ MaxAttempts \in Nat \ {0} /\ RetryBatch \in Nat \ {0}
    /\ LastMinute \in Nat /\ MaxDeliveryDeaths \in Nat

VARIABLES
    delivery, \* NotificationDelivery of each channel
    todo,     \* who -> channels it has still to dispatch
    inHand,   \* who -> the delivery it is dispatching, as it holds it in memory
    minute,
    accepted, \* history: messages each channel took
    lostAcks, \* history: messages taken whose sender never learned it, by channel
    deliveryDeaths

deliveryVars == <<delivery, todo, inHand, minute, accepted, lostAcks, deliveryDeaths>>

Actors == {"notify", "sweep"}
Unset == -1
NoDelivery == [status |-> "none", attempts |-> 0, retryAt |-> Unset]
EmptyHand == [channel |-> "none", attempts |-> 0, step |-> "none"]

\* RETRY_BACKOFF_MINUTES, in steps of the clock
Backoff(attempts) == IF attempts <= 1 THEN 1 ELSE 2

Idle(w) == todo[w] = {} /\ inHand[w] = EmptyHand

-------------------------------------------------------------------------------

\* notify: the channels come from preferences, defaults and quiet hours.
Notify(channels) ==
    /\ \A c \in Channels : delivery[c] = NoDelivery
    /\ Idle("notify") /\ channels # {}
    /\ todo' = [todo EXCEPT !["notify"] = channels]
    /\ UNCHANGED <<delivery, inHand, minute, accepted, lostAcks, deliveryDeaths>>

\* Mutant: whatever is pending is swept, however often it was tried.
PendingDeliveries == {c \in Channels : delivery[c].status = "pending"}

\* What the sweep's query selects.
DueDeliveries ==
    {c \in Channels :
        /\ delivery[c].status = "pending"
        /\ delivery[c].retryAt # Unset /\ delivery[c].retryAt <= minute
        /\ delivery[c].attempts < MaxAttempts}

Sweep(batch) ==
    /\ Idle("sweep") /\ batch # {} /\ batch \subseteq DueDeliveries
    /\ Cardinality(batch) <= RetryBatch
    /\ batch # DueDeliveries => Cardinality(batch) = RetryBatch
    /\ todo' = [todo EXCEPT !["sweep"] = batch]
    /\ UNCHANGED <<delivery, inHand, minute, accepted, lostAcks, deliveryDeaths>>

\* notify creates the row as it comes to the channel; the attempt is saved first.
BeginDispatch(w, c) ==
    /\ c \in todo[w] /\ inHand[w] = EmptyHand
    /\ LET attempts == delivery[c].attempts + 1
       IN  /\ delivery' = [delivery EXCEPT ![c] = [@ EXCEPT !.status = "pending",
                                                            !.attempts = attempts]]
           /\ inHand' = [inHand EXCEPT ![w] =
                           [channel |-> c, attempts |-> attempts, step |-> "send"]]
    /\ todo' = [todo EXCEPT ![w] = @ \ {c}]
    /\ UNCHANGED <<minute, accepted, lostAcks, deliveryDeaths>>

\* Mail is taken or not, and the sender may miss that it was; in-app is there
\* already; no notification carries an address for the webhook, which is skipped.
Send(w, taken, known) ==
    LET c == inHand[w].channel
    IN  /\ inHand[w].step = "send"
        /\ CASE c = "email" -> known \/ taken
             [] c = "in_app" -> known /\ taken
             [] c = "webhook" -> known /\ ~taken
        /\ accepted' = IF taken THEN [accepted EXCEPT ![c] = @ + 1] ELSE accepted
        /\ lostAcks' = IF known THEN lostAcks ELSE [lostAcks EXCEPT ![c] = @ + 1]
        /\ inHand' = [inHand EXCEPT ![w].step =
                        IF known /\ (taken \/ c = "webhook") THEN "delivered" ELSE "failed"]
        /\ UNCHANGED <<delivery, todo, minute, deliveryDeaths>>

RecordDelivered(w) ==
    /\ inHand[w].step = "delivered"
    /\ delivery' = [delivery EXCEPT ![inHand[w].channel].status = "delivered"]
    /\ inHand' = [inHand EXCEPT ![w] = EmptyHand]
    /\ UNCHANGED <<todo, minute, accepted, lostAcks, deliveryDeaths>>

Exhausted(attempts) == attempts >= MaxAttempts

RecordFailed(w) ==
    LET c == inHand[w].channel
        n == inHand[w].attempts
    IN  /\ inHand[w].step = "failed"
        /\ delivery' = [delivery EXCEPT ![c] =
                          IF Exhausted(n) THEN [@ EXCEPT !.status = "failed"]
                          ELSE [@ EXCEPT !.status = "pending", !.retryAt = minute + Backoff(n)]]
        /\ inHand' = [inHand EXCEPT ![w] = EmptyHand]
        /\ UNCHANGED <<todo, minute, accepted, lostAcks, deliveryDeaths>>

\* The process dies with what it had in hand and what it had still to do.
DieDelivering(w) ==
    LET c == inHand[w].channel
    IN  /\ ~Idle(w) /\ deliveryDeaths < MaxDeliveryDeaths
        /\ deliveryDeaths' = deliveryDeaths + 1
        /\ lostAcks' = IF inHand[w].step = "delivered" /\ c # "webhook"
                       THEN [lostAcks EXCEPT ![c] = @ + 1] ELSE lostAcks
        /\ inHand' = [inHand EXCEPT ![w] = EmptyHand]
        /\ todo' = [todo EXCEPT ![w] = {}]
        /\ UNCHANGED <<delivery, minute, accepted>>

MinuteTick ==
    /\ minute < LastMinute /\ minute' = minute + 1
    /\ UNCHANGED <<delivery, todo, inHand, accepted, lostAcks, deliveryDeaths>>

-------------------------------------------------------------------------------

DeliveryInit ==
    /\ delivery = [c \in Channels |-> NoDelivery]
    /\ todo = [w \in Actors |-> {}]
    /\ inHand = [w \in Actors |-> EmptyHand]
    /\ minute = 0
    /\ accepted = [c \in Channels |-> 0]
    /\ lostAcks = [c \in Channels |-> 0]
    /\ deliveryDeaths = 0

DeliveryNext ==
    \/ \E channels \in SUBSET Channels : Notify(channels) \/ Sweep(channels)
    \/ \E w \in Actors :
          \/ \E c \in Channels : BeginDispatch(w, c)
          \/ \E taken, known \in BOOLEAN : Send(w, taken, known)
          \/ RecordDelivered(w) \/ RecordFailed(w) \/ DieDelivering(w)
    \/ MinuteTick

DeliverySpec == DeliveryInit /\ [][DeliveryNext]_deliveryVars

-------------------------------------------------------------------------------

DeliveryTypeOK ==
    /\ \A c \in Channels :
          /\ delivery[c].status \in {"none", "pending", "delivered", "failed"}
          /\ delivery[c].attempts \in 0..MaxAttempts
          /\ delivery[c].retryAt \in -1..(LastMinute + 2)
    /\ todo \in [Actors -> SUBSET Channels]
    /\ minute \in 0..LastMinute /\ deliveryDeaths \in 0..MaxDeliveryDeaths

\* A person gets a message twice only when the first time went unrecorded (a lost
\* answer, a death before the record), and no delivery is tried more often than
\* MAX_RETRY_ATTEMPTS, sweeps, deaths and lost answers together; one that is pending
\* is in somebody's hand or due for another attempt, unless a process died with it.
DeliveriesAccountedFor ==
    \A c \in Channels :
        /\ accepted[c] <= 1 + lostAcks[c]
        /\ accepted[c] <= delivery[c].attempts
        /\ delivery[c].attempts <= MaxAttempts
        /\ delivery[c].status = "delivered" /\ c # "webhook" => accepted[c] = 1 + lostAcks[c]
        /\ delivery[c].status = "pending" /\ deliveryDeaths = 0 =>
              \/ delivery[c].retryAt # Unset /\ delivery[c].attempts < MaxAttempts
              \/ \E w \in Actors : inHand[w].channel = c
===============================================================================
