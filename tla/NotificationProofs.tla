-------------------------- MODULE NotificationProofs --------------------------
(***************************************************************************)
(* Theorems about what people are sent and shown: the deliveries of a       *)
(* notification over its channels, the reminders of a post that waits for   *)
(* review, the messages of an inbox, the feeds of a workspace, the metrics   *)
(* of an account and the pages made of them.                                *)
(***************************************************************************)
EXTENDS Deliveries, Reminders, Inbox, Feeds, Analytics, Insights, SequenceTheorems,
        FiniteSetTheorems, WellFoundedInduction, TLAPS

-------------------------------------------------------------------------------
(* Deliveries: who holds which one *)

Steps == {"none", "send", "delivered", "failed"}
Hand == [channel: Channels \cup {"none"}, attempts: Nat, step: Steps]

DeliveryTypes ==
    /\ delivery \in [Channels -> [status: {"none", "pending", "delivered", "failed"},
                                  attempts: Nat, retryAt: Int]]
    /\ todo \in [Actors -> SUBSET Channels]
    /\ inHand \in [Actors -> Hand]
    /\ minute \in Nat /\ deliveryDeaths \in Nat
    /\ accepted \in [Channels -> Nat]
    /\ lostAcks \in [Channels -> Nat]

Holds(w, c) == inHand[w].channel = c

\* What is in a hand is a delivery under way, with the attempt that was saved.
HandsMatch ==
    \A w \in Actors :
        /\ inHand[w] # EmptyHand => inHand[w].channel \in Channels /\ inHand[w].step # "none"
        /\ \A c \in Channels : Holds(w, c) =>
              /\ delivery[c].status = "pending"
              /\ inHand[w].attempts = delivery[c].attempts
              /\ inHand[w].step \in {"send", "delivered", "failed"}
              /\ c \notin todo[w]
              /\ w = "notify" <=> delivery[c].retryAt = Unset

\* The notifier goes on to rows nobody has, the sweep to rows that wait for a retry.
TodosMatch ==
    /\ \A c \in todo["notify"] : delivery[c] = NoDelivery
    /\ \A c \in todo["sweep"] : /\ delivery[c].status = "pending"
                                /\ delivery[c].retryAt # Unset
                                /\ delivery[c].attempts < MaxAttempts

\* Somebody knows that the channel took the message and has not saved it yet.
Knows(c) == \E w \in Actors : Holds(w, c) /\ inHand[w].step = "delivered"
Sending(c) == \E w \in Actors : Holds(w, c) /\ inHand[w].step = "send"

\* One channel's messages: those taken are the ones nobody learned of, and one more
\* once it is known; every one of them had an attempt of its own.
MessagesCounted(c) ==
    /\ IF c # "webhook" /\ (delivery[c].status = "delivered" \/ Knows(c))
       THEN accepted[c] = 1 + lostAcks[c] ELSE accepted[c] = lostAcks[c]
    /\ IF Sending(c) THEN accepted[c] < delivery[c].attempts
       ELSE accepted[c] <= delivery[c].attempts
    /\ delivery[c].status = "none" => delivery[c] = NoDelivery
    /\ delivery[c].attempts <= MaxAttempts
    /\ delivery[c].status = "pending" /\ deliveryDeaths = 0 =>
          \/ delivery[c].retryAt # Unset /\ delivery[c].attempts < MaxAttempts
          \/ \E w \in Actors : Holds(w, c)

DeliveryInv ==
    DeliveryTypes /\ HandsMatch /\ TodosMatch /\ \A c \in Channels : MessagesCounted(c)

LEMMA DeliveryInvInit == DeliveryInit => DeliveryInv
<1> SUFFICES ASSUME DeliveryInit PROVE DeliveryInv
    OBVIOUS
<1> USE DeliveryConstants DEF DeliveryInit, NoDelivery, EmptyHand, Unset
<1>1. DeliveryTypes
    BY DEF DeliveryTypes, Hand, Steps
<1>2. HandsMatch
    BY DEF HandsMatch, Holds, Actors
<1>3. TodosMatch
    BY DEF TodosMatch, Actors
<1>4. ASSUME NEW c \in Channels PROVE MessagesCounted(c)
    BY DEF MessagesCounted, Knows, Sending, Holds, Actors
<1> QED BY <1>1, <1>2, <1>3, <1>4 DEF DeliveryInv

\* A delivery that is in one actor's hand is in no other's hand or list.
LEMMA OneHolder ==
    ASSUME HandsMatch, TodosMatch, NEW w \in Actors, NEW c \in Channels, Holds(w, c)
    PROVE  \A v \in Actors \ {w} : ~Holds(v, c) /\ c \notin todo[v]
BY DEF HandsMatch, TodosMatch, Actors, NoDelivery, Unset

LEMMA OneList ==
    ASSUME HandsMatch, TodosMatch, NEW w \in Actors, NEW c \in todo[w]
    PROVE  \A v \in Actors \ {w} : c \notin todo[v]
BY DEF HandsMatch, TodosMatch, Actors, NoDelivery, Unset

\* What is still to do is in nobody's hand.
LEMMA ListedIsFree ==
    ASSUME HandsMatch, TodosMatch, NEW w \in Actors, NEW c \in todo[w], todo[w] \subseteq Channels
    PROVE  \A v \in Actors : ~Holds(v, c)
BY DEF HandsMatch, TodosMatch, Actors, NoDelivery, Unset

LEMMA DeliveryTypesNext ==
    ASSUME DeliveryInv, [DeliveryNext]_deliveryVars
    PROVE  DeliveryTypes'
<1> USE DEF DeliveryTypes, Actors
<1>0. DeliveryTypes /\ HandsMatch
    BY DEF DeliveryInv
<1>1. ASSUME NEW channels \in SUBSET Channels, Notify(channels) \/ Sweep(channels)
      PROVE  DeliveryTypes'
    BY <1>0, <1>1 DEF Notify, Sweep
<1>2. ASSUME NEW w \in Actors, NEW c \in Channels, BeginDispatch(w, c) PROVE DeliveryTypes'
    <2>1. delivery[c].attempts + 1 \in Nat /\ c \in Channels
        BY <1>0
    <2>2. [channel |-> c, attempts |-> delivery[c].attempts + 1, step |-> "send"] \in Hand
        BY <2>1 DEF Hand, Steps
    <2>3. delivery' = [delivery EXCEPT ![c] = [@ EXCEPT !.status = "pending",
                                                       !.attempts = delivery[c].attempts + 1]]
        BY <1>2 DEF BeginDispatch
    <2>4. delivery' \in [Channels -> [status: {"none", "pending", "delivered", "failed"},
                                      attempts: Nat, retryAt: Int]]
        BY <1>0, <2>1, <2>3
    <2> QED BY <1>0, <1>2, <2>2, <2>4 DEF BeginDispatch
<1>3. ASSUME NEW w \in Actors, NEW taken \in BOOLEAN, NEW known \in BOOLEAN,
             Send(w, taken, known)
      PROVE  DeliveryTypes'
    <2>1. inHand' \in [Actors -> Hand]
        BY <1>0, <1>3 DEF Send, Hand, Steps
    <2>2. inHand[w].channel \in Channels
        BY <1>0, <1>3 DEF HandsMatch, Send, EmptyHand
    <2> QED BY <1>0, <1>3, <2>1, <2>2 DEF Send
<1>4. ASSUME NEW w \in Actors, RecordDelivered(w) PROVE DeliveryTypes'
    BY ZenonT(30), <1>0, <1>4 DEF RecordDelivered, EmptyHand, Hand, Steps
<1>5. ASSUME NEW w \in Actors, RecordFailed(w) PROVE DeliveryTypes'
    <2>1. minute + Backoff(inHand[w].attempts) \in Int
        BY <1>0 DEF Backoff
    <2>2. delivery' \in [Channels -> [status: {"none", "pending", "delivered", "failed"},
                                      attempts: Nat, retryAt: Int]]
        BY ZenonT(30), <1>0, <1>5, <2>1 DEF RecordFailed
    <2> QED BY <1>0, <1>5, <2>2 DEF RecordFailed, EmptyHand, Hand, Steps
<1>6. ASSUME NEW w \in Actors, DieDelivering(w) PROVE DeliveryTypes'
    <2>1. lostAcks' \in [Channels -> Nat]
        BY <1>0, <1>6 DEF DieDelivering, HandsMatch, EmptyHand
    <2> QED BY <1>0, <1>6, <2>1 DEF DieDelivering, EmptyHand, Hand, Steps
<1>7. CASE MinuteTick
    BY <1>0, <1>7 DEF MinuteTick
<1>8. CASE UNCHANGED deliveryVars
    BY <1>0, <1>8 DEF deliveryVars
<1> QED BY <1>1, <1>2, <1>3, <1>4, <1>5, <1>6, <1>7, <1>8 DEF DeliveryNext

\* The channel an actor works on, if any, is its own; the other keeps what it has.
LEMMA DeliveryOthers ==
    ASSUME DeliveryTypes, NEW w \in Actors, NEW c \in Channels,
           \/ BeginDispatch(w, c)
           \/ /\ Holds(w, c)
              /\ \/ \E taken, known \in BOOLEAN : Send(w, taken, known)
                 \/ RecordDelivered(w) \/ RecordFailed(w)
    PROVE  /\ \A d \in Channels \ {c} : /\ delivery'[d] = delivery[d]
                                        /\ accepted'[d] = accepted[d]
                                        /\ lostAcks'[d] = lostAcks[d]
                                        /\ d \in todo'[w] <=> d \in todo[w]
           /\ \A v \in Actors \ {w} : inHand'[v] = inHand[v] /\ todo'[v] = todo[v]
           /\ deliveryDeaths' = deliveryDeaths
BY ZenonT(30) DEF DeliveryTypes, Holds, BeginDispatch, Send, RecordDelivered, RecordFailed

\* The other channels are where they were.
LEMMA OthersKept ==
    ASSUME DeliveryInv, NEW w \in Actors, NEW c \in Channels,
           inHand[w].channel \in {c, "none"}, inHand'[w].channel \in {c, "none"},
           \A d \in Channels \ {c} : /\ delivery'[d] = delivery[d]
                                     /\ accepted'[d] = accepted[d]
                                     /\ lostAcks'[d] = lostAcks[d],
           \A v \in Actors \ {w} : inHand'[v] = inHand[v],
           deliveryDeaths' = deliveryDeaths,
           NEW d \in Channels \ {c}
    PROVE  MessagesCounted(d)'
<1>1. "none" \notin Channels
    BY DeliveryConstants
<1>2. \A v \in Actors : /\ Holds(v, d)' <=> Holds(v, d)
                        /\ Holds(v, d) => inHand'[v] = inHand[v]
    BY <1>1 DEF Holds
<1>3. /\ Knows(d)' <=> Knows(d)
      /\ Sending(d)' <=> Sending(d)
    BY <1>2 DEF Knows, Sending
<1>4. MessagesCounted(d)
    BY DEF DeliveryInv
<1> QED BY <1>2, <1>3, <1>4 DEF MessagesCounted

LEMMA DeliveryNextKeeps ==
    ASSUME DeliveryInv, [DeliveryNext]_deliveryVars
    PROVE  DeliveryInv'
<1>0. /\ DeliveryTypes /\ HandsMatch /\ TodosMatch
      /\ \A c \in Channels : MessagesCounted(c)
      /\ DeliveryTypes'
    BY DeliveryTypesNext DEF DeliveryInv
<1> USE <1>0 DEF DeliveryInv
<1>1. ASSUME UNCHANGED <<delivery, todo, inHand, accepted, lostAcks, deliveryDeaths>>
      PROVE  DeliveryInv'
    BY <1>1 DEF HandsMatch, TodosMatch, MessagesCounted, Holds, Knows, Sending
<1>2. ASSUME NEW channels \in SUBSET Channels, Notify(channels) \/ Sweep(channels)
      PROVE  DeliveryInv'
    <2>1. UNCHANGED <<delivery, inHand, accepted, lostAcks, deliveryDeaths>>
        BY <1>2 DEF Notify, Sweep
    <2>2. TodosMatch'
        BY <1>2 DEF Notify, Sweep, TodosMatch, DueDeliveries, Actors, DeliveryTypes
    <2>3. HandsMatch'
        BY <1>2, <2>1 DEF Notify, Sweep, HandsMatch, Idle, Holds, EmptyHand, DeliveryTypes
    <2> QED BY <2>1, <2>2, <2>3 DEF MessagesCounted, Holds, Knows, Sending
<1>3. ASSUME NEW w \in Actors, NEW c \in Channels, BeginDispatch(w, c) PROVE DeliveryInv'
    <2>1. \A v \in Actors : ~Holds(v, c)
        BY <1>3, ListedIsFree DEF BeginDispatch, DeliveryTypes
    <2>2. \A v \in Actors \ {w} : c \notin todo[v]
        BY <1>3, OneList DEF BeginDispatch
    <2>3. /\ delivery'[c].status = "pending" /\ delivery'[c].retryAt = delivery[c].retryAt
          /\ delivery'[c].attempts = delivery[c].attempts + 1
          /\ inHand'[w] = [channel |-> c, attempts |-> delivery[c].attempts + 1, step |-> "send"]
          /\ accepted' = accepted /\ lostAcks' = lostAcks
          /\ todo'[w] = todo[w] \ {c} /\ inHand[w] = EmptyHand
        BY <1>3 DEF BeginDispatch, DeliveryTypes
    <2>4. /\ delivery[c].attempts < MaxAttempts /\ delivery[c].status # "delivered"
          /\ w = "notify" <=> delivery[c].retryAt = Unset
        BY <1>3, DeliveryConstants DEF BeginDispatch, TodosMatch, Actors, NoDelivery, Unset
    <2>5. HandsMatch'
        BY <2>1, <2>2, <2>3, <2>4, <1>3, DeliveryOthers DEF HandsMatch, Holds, EmptyHand
    <2>6. TodosMatch'
        BY <2>2, <2>3, <1>3, DeliveryOthers DEF TodosMatch, Actors, DeliveryTypes
    <2>7. MessagesCounted(c)'
        <3>1. \A v \in Actors : Holds(v, c)' <=> v = w
            BY <2>1, <2>3, <1>3, DeliveryOthers DEF Holds
        <3>2. Sending(c)' /\ ~Knows(c)'
            BY <2>3, <3>1 DEF Sending, Knows
        <3>3. ~Sending(c) /\ ~Knows(c)
            BY <2>1 DEF Sending, Knows
        <3>4. /\ accepted[c] = lostAcks[c] /\ accepted[c] <= delivery[c].attempts
              /\ accepted[c] \in Nat /\ delivery[c].attempts \in Nat
            BY <2>4, <3>3 DEF MessagesCounted, DeliveryTypes
        <3> QED BY <2>3, <2>4, <3>1, <3>2, <3>4, DeliveryConstants DEF MessagesCounted
    <2>8. ASSUME NEW d \in Channels \ {c} PROVE MessagesCounted(d)'
        BY <2>3, <1>3, DeliveryOthers, OthersKept DEF EmptyHand
    <2> QED BY <2>5, <2>6, <2>7, <2>8
<1>4. ASSUME NEW w \in Actors, NEW c \in Channels, inHand[w].channel = c,
             NEW taken \in BOOLEAN, NEW known \in BOOLEAN, Send(w, taken, known)
      PROVE  DeliveryInv'
    <2>1. Holds(w, c) /\ \A v \in Actors \ {w} : ~Holds(v, c)
        BY <1>4, OneHolder DEF Holds
    <2>2. /\ delivery' = delivery /\ todo' = todo /\ deliveryDeaths' = deliveryDeaths
          /\ inHand'[w].channel = c /\ inHand'[w].attempts = inHand[w].attempts
          /\ inHand'[w].step = IF known /\ (taken \/ c = "webhook") THEN "delivered" ELSE "failed"
          /\ accepted'[c] = IF taken THEN accepted[c] + 1 ELSE accepted[c]
          /\ lostAcks'[c] = IF known THEN lostAcks[c] ELSE lostAcks[c] + 1
        BY <1>4 DEF Send, DeliveryTypes, Hand, Steps
    <2>10. /\ c = "email" => known \/ taken
           /\ c = "in_app" => known /\ taken
           /\ c = "webhook" => known /\ ~taken
        BY <1>4 DEF Send
    <2>3. \A v \in Actors : Holds(v, c)' <=> v = w
        BY <2>1, <2>2, <1>4, DeliveryOthers DEF Holds
    <2>4. ~Sending(c)' /\ (Knows(c)' <=> inHand'[w].step = "delivered")
        BY <2>2, <2>3 DEF Sending, Knows
    <2>5. Sending(c) /\ ~Knows(c)
        BY <2>1, <1>4 DEF Sending, Knows, Send
    <2>6. delivery[c].status = "pending"
        BY <2>1 DEF HandsMatch
    <2>7. MessagesCounted(c)'
        <3>1. c \in {"in_app", "email", "webhook"}
            BY DeliveryConstants
        <3>2. /\ accepted[c] = lostAcks[c] /\ accepted[c] < delivery[c].attempts
              /\ accepted[c] \in Nat /\ delivery[c].attempts \in Nat
            BY <2>5, <2>6 DEF MessagesCounted, DeliveryTypes
        <3>3. /\ IF c # "webhook" /\ Knows(c)' THEN accepted'[c] = 1 + lostAcks'[c]
                 ELSE accepted'[c] = lostAcks'[c]
              /\ accepted'[c] <= delivery[c].attempts
            BY <2>2, <2>4, <2>10, <3>1, <3>2
        <3> QED BY <2>2, <2>3, <2>4, <2>6, <3>3 DEF MessagesCounted
    <2>8. ASSUME NEW d \in Channels \ {c} PROVE MessagesCounted(d)'
        BY <2>1, <2>2, <1>4, DeliveryOthers, OthersKept DEF Holds
    <2>9. HandsMatch'
        <3>1. \A v \in Actors \ {w} : inHand'[v] = inHand[v]
            BY <2>1, <1>4, DeliveryOthers
        <3>2. inHand'[w].step \in {"delivered", "failed"}
            BY <2>2
        <3> QED BY <2>1, <2>2, <3>1, <3>2 DEF HandsMatch, Holds
    <2> QED BY <2>2, <2>7, <2>8, <2>9 DEF TodosMatch
<1>5. ASSUME NEW w \in Actors, NEW c \in Channels, inHand[w].channel = c,
             RecordDelivered(w) \/ RecordFailed(w)
      PROVE  DeliveryInv'
    <2>1. Holds(w, c) /\ \A v \in Actors \ {w} : ~Holds(v, c) /\ c \notin todo[v]
        BY <1>5, OneHolder DEF Holds
    <2>2. /\ inHand'[w] = EmptyHand /\ UNCHANGED <<todo, accepted, lostAcks, deliveryDeaths>>
          /\ \A v \in Actors \ {w} : inHand'[v] = inHand[v]
          /\ \A d \in Channels \ {c} : delivery'[d] = delivery[d]
        BY <1>5 DEF RecordDelivered, RecordFailed, DeliveryTypes
    <2>3. \A v \in Actors : ~Holds(v, c)'
        BY <2>1, <2>2, DeliveryConstants DEF Holds, EmptyHand
    <2>4. ~Sending(c)' /\ ~Knows(c)'
        BY <2>3 DEF Sending, Knows
    <2>5. delivery'[c].attempts = delivery[c].attempts /\ delivery[c].status = "pending"
        <3>1. delivery[c].status = "pending"
            BY <2>1 DEF HandsMatch
        <3>2. CASE RecordDelivered(w)
            BY <1>5, <3>1, <3>2 DEF RecordDelivered, DeliveryTypes
        <3>3. CASE RecordFailed(w)
            BY <1>5, <3>1, <3>3 DEF RecordFailed, DeliveryTypes
        <3> QED BY <1>5, <3>2, <3>3
    <2>6. MessagesCounted(c)'
        <3>1. CASE RecordDelivered(w)
            <4>1. Knows(c) /\ ~Sending(c)
                BY <2>1, <3>1 DEF RecordDelivered, Knows, Sending
            <4>2. delivery'[c].status = "delivered"
                BY <1>5, <3>1 DEF RecordDelivered, DeliveryTypes
            <4> QED BY <2>2, <2>4, <2>5, <4>1, <4>2 DEF MessagesCounted
        <3>2. CASE RecordFailed(w)
            <4>1. ~Knows(c) /\ ~Sending(c)
                BY <2>1, <3>2 DEF RecordFailed, Knows, Sending
            <4>2. minute + Backoff(inHand[w].attempts) \in Nat
                BY DEF Backoff, DeliveryTypes
            <4>3. IF inHand[w].attempts >= MaxAttempts THEN delivery'[c].status = "failed"
                  ELSE delivery'[c].status = "pending" /\ delivery'[c].retryAt # Unset
                BY <1>5, <3>2, <4>2 DEF RecordFailed, Exhausted, DeliveryTypes, Unset
            <4>4. inHand[w].attempts = delivery[c].attempts
                BY <2>1 DEF HandsMatch
            <4>5. delivery[c].attempts \in Nat /\ MaxAttempts \in Nat
                BY DeliveryConstants DEF DeliveryTypes
            <4> QED BY <2>2, <2>4, <2>5, <4>1, <4>3, <4>4, <4>5 DEF MessagesCounted
        <3> QED BY <1>5, <3>1, <3>2
    <2>7. ASSUME NEW d \in Channels \ {c} PROVE MessagesCounted(d)'
        BY <2>1, <2>2, <1>5, OthersKept DEF Holds, EmptyHand
    <2>8. HandsMatch'
        <3>1. ASSUME NEW v \in Actors \ {w}, NEW d \in Channels, Holds(v, d)'
              PROVE  d # c /\ Holds(v, d)
            BY <2>1, <2>2, <3>1 DEF Holds
        <3>2. \A v \in Actors \ {w} : inHand'[v] = inHand[v] /\ todo'[v] = todo[v]
            BY <2>2
        <3>3. inHand'[w] = EmptyHand /\ \A d \in Channels : ~Holds(w, d)'
            BY <2>2, DeliveryConstants DEF Holds, EmptyHand
        <3> QED BY <2>2, <3>1, <3>2, <3>3 DEF HandsMatch
    <2>9. TodosMatch'
        <3>1. c \notin todo[w]
            BY <2>1 DEF HandsMatch
        <3>2. \A v \in Actors : c \notin todo[v]
            BY <2>1, <3>1
        <3> QED BY <2>2, <3>2 DEF TodosMatch, Actors, DeliveryTypes
    <2> QED BY <2>6, <2>7, <2>8, <2>9
<1>6. ASSUME NEW w \in Actors, DieDelivering(w) PROVE DeliveryInv'
    <2>1. /\ inHand'[w] = EmptyHand /\ todo'[w] = {} /\ UNCHANGED <<delivery, accepted>>
          /\ \A v \in Actors \ {w} : inHand'[v] = inHand[v] /\ todo'[v] = todo[v]
          /\ deliveryDeaths' # 0
        BY <1>6, DeliveryConstants DEF DieDelivering, DeliveryTypes
    <2>2. \A v \in Actors, d \in Channels : Holds(v, d)' <=> v # w /\ Holds(v, d)
        BY <2>1, DeliveryConstants DEF Holds, EmptyHand
    <2>3. HandsMatch'
        BY <2>1, <2>2 DEF HandsMatch, Holds, EmptyHand
    <2>4. TodosMatch'
        BY <2>1 DEF TodosMatch, Actors
    <2>5. ASSUME NEW d \in Channels PROVE MessagesCounted(d)'
        <3>1. CASE Holds(w, d)
            <4>1. ~Sending(d)' /\ ~Knows(d)' /\ delivery[d].status = "pending"
                BY <2>2, <3>1, OneHolder DEF Sending, Knows, HandsMatch
            <4>2. Knows(d) <=> inHand[w].step = "delivered"
                BY <3>1, OneHolder DEF Knows
            <4>3. lostAcks'[d] = IF inHand[w].step = "delivered" /\ d # "webhook"
                                 THEN lostAcks[d] + 1 ELSE lostAcks[d]
                BY <1>6, <3>1 DEF DieDelivering, Holds, DeliveryTypes
            <4>4. accepted[d] \in Nat /\ lostAcks[d] \in Nat /\ delivery[d].attempts \in Nat
                BY DEF DeliveryTypes
            <4> QED BY <2>1, <4>1, <4>2, <4>3, <4>4 DEF MessagesCounted
        <3>2. CASE ~Holds(w, d)
            <4>1. \A v \in Actors : /\ Holds(v, d)' <=> Holds(v, d)
                                    /\ Holds(v, d) => inHand'[v] = inHand[v]
                BY <2>1, <2>2, <3>2
            <4>2. /\ Knows(d)' <=> Knows(d)
                  /\ Sending(d)' <=> Sending(d)
                BY <4>1 DEF Knows, Sending
            <4>3. lostAcks'[d] = lostAcks[d]
                BY <1>6, <3>2 DEF DieDelivering, Holds, DeliveryTypes
            <4> QED BY <2>1, <4>2, <4>3 DEF MessagesCounted
        <3> QED BY <3>1, <3>2
    <2> QED BY <2>3, <2>4, <2>5
<1>7. ASSUME NEW w \in Actors,
             (\E taken, known \in BOOLEAN : Send(w, taken, known))
               \/ RecordDelivered(w) \/ RecordFailed(w)
      PROVE  inHand[w].channel \in Channels
    <2>1. inHand[w].step # "none"
        BY <1>7 DEF Send, RecordDelivered, RecordFailed
    <2> QED BY <2>1 DEF HandsMatch, EmptyHand
<1>8. CASE MinuteTick \/ UNCHANGED deliveryVars
    BY <1>1, <1>8 DEF MinuteTick, deliveryVars
<1> QED BY <1>2, <1>3, <1>4, <1>5, <1>6, <1>7, <1>8 DEF DeliveryNext

LEMMA DeliveryInvAccounts == DeliveryInv => DeliveriesAccountedFor
<1> SUFFICES ASSUME DeliveryInv, NEW c \in Channels
             PROVE  /\ accepted[c] <= 1 + lostAcks[c]
                    /\ accepted[c] <= delivery[c].attempts
                    /\ delivery[c].attempts <= MaxAttempts
                    /\ delivery[c].status = "delivered" /\ c # "webhook"
                          => accepted[c] = 1 + lostAcks[c]
                    /\ delivery[c].status = "pending" /\ deliveryDeaths = 0 =>
                          \/ delivery[c].retryAt # Unset /\ delivery[c].attempts < MaxAttempts
                          \/ \E w \in Actors : inHand[w].channel = c
    BY DEF DeliveriesAccountedFor
<1>1. /\ MessagesCounted(c) /\ accepted[c] \in Nat /\ lostAcks[c] \in Nat
      /\ delivery[c].attempts \in Nat
    BY DEF DeliveryInv, DeliveryTypes
<1> QED BY <1>1 DEF MessagesCounted, Holds

\* A message is never taken twice but for an answer or a record that was lost, no
\* channel is tried more than MAX_RETRY_ATTEMPTS times, and a pending delivery is in a
\* hand or due again unless a process died with it.
THEOREM EveryDeliveryAccountedFor == DeliverySpec => []DeliveriesAccountedFor
BY DeliveryInvInit, DeliveryNextKeeps, DeliveryInvAccounts, PTL DEF DeliverySpec

-------------------------------------------------------------------------------
(* Reminders: what was sent is what the row says, until a sweep saves it *)

ReminderCounts == [count: 0..MaxReminders, last: Int, escalated: BOOLEAN]

ReminderTypes ==
    /\ hour \in Nat
    /\ reminder \in [Stage -> ReminderCounts]
    /\ sweep \in [step: {"none", "look", "send", "save"}, stage: Stage, now: Nat, read: ReminderCounts]
    /\ round \in [Stage -> [reminders: Nat, escalations: Nat, last: Int, clean: BOOLEAN]]

\* What a round sent, r being what the row says of it.
Told(s, r) ==
    /\ round[s].reminders = r.count
    /\ round[s].escalations = IF r.escalated THEN 1 ELSE 0
    /\ r.escalated => r.count = MaxReminders

\* What it sent when the sweep that read r has sent one more.
ToldOneMore(s, r) ==
    IF r.count >= MaxReminders
    THEN ~r.escalated /\ round[s].reminders = r.count /\ round[s].escalations = 1
    ELSE ~r.escalated /\ round[s].reminders = r.count + 1 /\ round[s].escalations = 0

SweepDue(r) == r.count < MaxReminders \/ ~r.escalated

RoundTold(s) ==
    round[s].clean =>
        /\ sweep.step \in {"send", "save"} /\ sweep.stage = s =>
              sweep.read = reminder[s] /\ SweepDue(sweep.read)
        /\ IF sweep.step = "save" /\ sweep.stage = s
           THEN ToldOneMore(s, reminder[s]) ELSE Told(s, reminder[s])

ReminderInv == ReminderTypes /\ \A s \in Stage : RoundTold(s)

LEMMA FreshType == Fresh \in ReminderCounts
BY ReminderConstants DEF Fresh, ReminderCounts, Never

LEMMA ReminderInvInit == ReminderInit => ReminderInv
<1> SUFFICES ASSUME ReminderInit PROVE ReminderInv
    OBVIOUS
<1>1. ReminderTypes
    BY FreshType DEF ReminderInit, ReminderTypes, NoSweep, FreshRound, Stage, Never
<1>2. ASSUME NEW s \in Stage PROVE RoundTold(s)
    BY <1>2 DEF ReminderInit, RoundTold, Told, NoSweep, FreshRound, Fresh
<1> QED BY <1>1, <1>2 DEF ReminderInv

LEMMA OnwardType ==
    ASSUME ReminderTypes
    PROVE  /\ Onward \in [step: {"none", "look", "send", "save"}, stage: Stage, now: Nat,
                          read: ReminderCounts]
           /\ Onward.step \in {"none", "look"}
BY FreshType DEF Onward, NoSweep, ReminderTypes, Stage

\* The workflow starts a round afresh.
LEMMA EnterKeeps ==
    ASSUME ReminderInv, NEW s \in Stage, NEW others, EnterStage(s, others)
    PROVE  ReminderInv'
<1> USE DEF ReminderInv
<1>1. /\ reminder' = [reminder EXCEPT ![s] = Fresh]
      /\ round' = [round EXCEPT ![s] = FreshRound(s)]
      /\ sweep' = sweep /\ hour' = hour
    BY DEF EnterStage, ResetCounts
<1>2. FreshRound(s) \in [reminders: Nat, escalations: Nat, last: Int, clean: BOOLEAN]
    BY DEF FreshRound, Never
<1>3. ReminderTypes'
    BY <1>1, <1>2, FreshType DEF ReminderTypes
<1>4. RoundTold(s)'
    BY <1>1 DEF RoundTold, Told, FreshRound, Fresh, ReminderTypes
<1>5. ASSUME NEW x \in Stage \ {s} PROVE RoundTold(x)'
    BY <1>1, <1>5 DEF RoundTold, Told, ToldOneMore, ReminderTypes
<1> QED BY <1>3, <1>4, <1>5

LEMMA ReminderNextKeeps ==
    ASSUME ReminderInv, [ReminderNext]_reminderVars
    PROVE  ReminderInv'
<1> USE DEF ReminderInv
<1>1. ASSUME UNCHANGED <<hour, reminder, sweep, round>> PROVE ReminderInv'
    BY <1>1 DEF ReminderTypes, RoundTold, Told, ToldOneMore
<1>2. CASE SubmitAgain \/ AdvanceToClient
    <2>1. PICK s \in Stage : \E others : EnterStage(s, others)
        BY <1>2 DEF SubmitAgain, AdvanceToClient, Stage
    <2> QED BY <2>1, EnterKeeps
<1>3. CASE SweepStart
    <2>1. sweep' = [NoSweep EXCEPT !.step = "look", !.now = hour]
        BY <1>3 DEF SweepStart
    <2>2. ReminderTypes' /\ sweep'.step = "look" /\ sweep.step = "none"
        BY <1>3, <2>1, FreshType DEF SweepStart, ReminderTypes, NoSweep, Stage
    <2>3. ASSUME NEW s \in Stage PROVE RoundTold(s)'
        BY <1>3, <2>2 DEF SweepStart, RoundTold, Told
    <2> QED BY <2>2, <2>3
<1>4. CASE SweepLook
    <2> DEFINE s == sweep.stage
               r == reminder[s]
    <2>2. s \in Stage /\ r \in ReminderCounts
        BY DEF ReminderTypes
    <2>0. MaxReached(r) \/ r.count < MaxReminders
        BY <2>2, ReminderConstants DEF ReminderCounts, MaxReached
    <2>1. /\ UNCHANGED <<hour, reminder, round>> /\ sweep.step = "look"
          /\ \/ sweep' = [sweep EXCEPT !.step = "send", !.read = r] /\ SweepDue(r)
             \/ sweep' = Onward
        BY <1>4, <2>0 DEF SweepLook, Escalates, SweepDue
    <2>3. CASE sweep' = Onward
        <3>1. ReminderTypes'
            BY <2>1, <2>3, OnwardType DEF ReminderTypes
        <3>2. ASSUME NEW x \in Stage PROVE RoundTold(x)'
            BY <2>1, <2>3, OnwardType DEF RoundTold, Told
        <3> QED BY <3>1, <3>2
    <2>4. CASE sweep' = [sweep EXCEPT !.step = "send", !.read = r] /\ SweepDue(r)
        <3>1. ReminderTypes' /\ sweep'.step = "send" /\ sweep'.stage = s /\ sweep'.read = r
            BY <2>1, <2>2, <2>4 DEF ReminderTypes
        <3>2. ASSUME NEW x \in Stage PROVE RoundTold(x)'
            BY <2>1, <2>4, <3>1 DEF RoundTold, Told, SweepDue
        <3> QED BY <3>1, <3>2
    <2> QED BY <2>1, <2>3, <2>4
<1>5. CASE SweepSend
    <2>0. PICK s \in Stage : s = sweep.stage
        BY DEF ReminderTypes
    <2> DEFINE sent == IF sweep.read.count >= MaxReminders
                       THEN [round[s] EXCEPT !.escalations = round[s].escalations + 1]
                       ELSE [round[s] EXCEPT !.reminders = round[s].reminders + 1,
                                             !.last = sweep.now]
    <2>1. /\ UNCHANGED <<hour, reminder>> /\ sweep.step = "send"
          /\ sweep' = [sweep EXCEPT !.step = "save"]
          /\ round' = [round EXCEPT ![s] = sent]
        BY <1>5, <2>0 DEF SweepSend, MaxReached
    <2>2. /\ s \in Stage /\ sweep.now \in Int
          /\ round[s] \in [reminders: Nat, escalations: Nat, last: Int, clean: BOOLEAN]
        BY DEF ReminderTypes
    <2>3. sweep'.step = "save" /\ sweep'.stage = s /\ sweep'.read = sweep.read
        BY <2>0, <2>1 DEF ReminderTypes
    <2>4. /\ sent \in [reminders: Nat, escalations: Nat, last: Int, clean: BOOLEAN]
          /\ sent.clean = round[s].clean
          /\ sweep.read.count >= MaxReminders =>
                /\ sent.escalations = round[s].escalations + 1
                /\ sent.reminders = round[s].reminders
          /\ ~(sweep.read.count >= MaxReminders) =>
                /\ sent.escalations = round[s].escalations
                /\ sent.reminders = round[s].reminders + 1
        <3>1. CASE sweep.read.count >= MaxReminders
            BY <2>2, <3>1
        <3>2. CASE ~(sweep.read.count >= MaxReminders)
            <4>1. sent = [round[s] EXCEPT !.reminders = round[s].reminders + 1,
                                          !.last = sweep.now]
                BY <3>2
            <4> HIDE DEF sent
            <4>2. /\ sent.escalations = round[s].escalations
                  /\ sent.reminders = round[s].reminders + 1
                  /\ sent.clean = round[s].clean
                BY <2>2, <4>1
            <4>3. sent = [reminders |-> round[s].reminders + 1, last |-> sweep.now,
                          escalations |-> round[s].escalations, clean |-> round[s].clean]
                BY <2>2, <4>1
            <4>4. sent \in [reminders: Nat, escalations: Nat, last: Int, clean: BOOLEAN]
                BY <2>2, <4>3
            <4> QED BY <3>2, <4>2, <4>4
        <3> QED BY <3>1, <3>2
    <2> HIDE DEF sent
    <2>5. /\ round'[s] = sent
          /\ \A x \in Stage \ {s} : round'[x] = round[x]
        BY <2>1, <2>2 DEF ReminderTypes
    <2>6. ReminderTypes'
        <3>1. round' \in [Stage -> [reminders: Nat, escalations: Nat, last: Int, clean: BOOLEAN]]
            BY <2>1, <2>4 DEF ReminderTypes
        <3>2. sweep' \in [step: {"none", "look", "send", "save"}, stage: Stage, now: Nat,
                          read: ReminderCounts]
            BY <2>1 DEF ReminderTypes
        <3> QED BY <2>1, <3>1, <3>2 DEF ReminderTypes
    <2>7. RoundTold(s)'
        <3>1. /\ sweep.read.count \in 0..MaxReminders /\ sweep.read.escalated \in BOOLEAN
              /\ MaxReminders \in Nat
            BY ReminderConstants DEF ReminderTypes, ReminderCounts
        <3>2. RoundTold(s)
            BY <2>2
        <3> QED BY <2>0, <2>1, <2>2, <2>3, <2>4, <2>5, <3>1, <3>2
                DEF RoundTold, Told, ToldOneMore, SweepDue
    <2>8. ASSUME NEW x \in Stage \ {s} PROVE RoundTold(x)'
        <3>1. RoundTold(x) /\ sweep.stage # x /\ sweep'.stage # x
            BY <2>0, <2>3
        <3>2. round'[x] = round[x] /\ reminder'[x] = reminder[x]
            BY <2>1, <2>5
        <3> QED BY <3>1, <3>2 DEF RoundTold, Told
    <2>9. \A x \in Stage : RoundTold(x)'
        BY <2>7, <2>8
    <2> QED BY <2>6, <2>9
<1>6. CASE SweepSave
    <2>0. PICK s \in Stage : s = sweep.stage
        BY DEF ReminderTypes
    <2> DEFINE kept == IF sweep.read.count >= MaxReminders
                       THEN [reminder[s] EXCEPT !.escalated = TRUE]
                       ELSE [reminder[s] EXCEPT !.count = sweep.read.count + 1,
                                                !.last = sweep.now]
    <2>1. /\ UNCHANGED <<hour, round>> /\ sweep.step = "save" /\ sweep' = Onward
          /\ reminder' = [reminder EXCEPT ![s] = kept]
        BY <1>6, <2>0 DEF SweepSave, MaxReached
    <2>2. s \in Stage /\ reminder[s] \in ReminderCounts /\ sweep.read \in ReminderCounts /\ sweep.now \in Int
        BY DEF ReminderTypes
    <2>3. /\ kept \in ReminderCounts
          /\ sweep.read.count >= MaxReminders =>
                kept.count = reminder[s].count /\ kept.escalated = TRUE
          /\ ~(sweep.read.count >= MaxReminders) =>
                /\ kept.count = sweep.read.count + 1
                /\ kept.escalated = reminder[s].escalated
        <3>1. CASE sweep.read.count >= MaxReminders
            BY <2>2, <3>1 DEF ReminderCounts
        <3>2. CASE ~(sweep.read.count >= MaxReminders)
            <4>1. sweep.read.count + 1 \in 0..MaxReminders
                BY <2>2, <3>2, ReminderConstants DEF ReminderCounts
            <4>2. kept = [reminder[s] EXCEPT !.count = sweep.read.count + 1,
                                             !.last = sweep.now]
                BY <3>2
            <4> HIDE DEF kept
            <4> QED BY <2>2, <3>2, <4>1, <4>2 DEF ReminderCounts
        <3> QED BY <3>1, <3>2
    <2> HIDE DEF kept
    <2>4. /\ reminder'[s] = kept
          /\ \A x \in Stage \ {s} : reminder'[x] = reminder[x]
        BY <2>1, <2>2 DEF ReminderTypes
    <2>5. ReminderTypes'
        <3>1. reminder' \in [Stage -> ReminderCounts]
            BY <2>1, <2>3 DEF ReminderTypes
        <3> QED BY <2>1, <3>1, OnwardType DEF ReminderTypes
    <2>6. RoundTold(s)'
        <3>1. RoundTold(s)
            BY <2>2
        <3>2. sweep'.step \notin {"send", "save"}
            BY <2>1, OnwardType
        <3>3. /\ sweep.read.count \in 0..MaxReminders /\ MaxReminders \in Nat
              /\ reminder[s].escalated \in BOOLEAN
            BY <2>2, ReminderConstants DEF ReminderCounts
        <3> QED BY <2>0, <2>1, <2>3, <2>4, <3>1, <3>2, <3>3
                DEF RoundTold, Told, ToldOneMore, SweepDue
    <2>7. ASSUME NEW x \in Stage \ {s} PROVE RoundTold(x)'
        <3>1. RoundTold(x) /\ sweep.stage # x /\ sweep'.step \notin {"send", "save"}
            BY <2>0, <2>1, OnwardType
        <3> QED BY <2>1, <2>4, <3>1 DEF RoundTold, Told
    <2>8. \A x \in Stage : RoundTold(x)'
        BY <2>6, <2>7
    <2> QED BY <2>5, <2>8
<1>7. CASE SweepDie
    <2>1. /\ UNCHANGED <<hour, reminder>> /\ sweep' = NoSweep
          /\ round' = IF sweep.step = "save"
                      THEN [round EXCEPT ![sweep.stage].clean = FALSE] ELSE round
        BY <1>7 DEF SweepDie
    <2>2. ReminderTypes'
        BY <2>1, FreshType DEF ReminderTypes, NoSweep, Stage
    <2>3. ASSUME NEW x \in Stage PROVE RoundTold(x)'
        BY <2>1, <2>3 DEF RoundTold, Told, NoSweep, ReminderTypes
    <2> QED BY <2>2, <2>3
<1>8. CASE HourTick
    <2>1. hour' \in Nat /\ UNCHANGED <<reminder, sweep, round>>
        BY <1>8 DEF HourTick, ReminderTypes
    <2> QED BY <2>1 DEF ReminderTypes, RoundTold, Told, ToldOneMore
<1>9. ASSUME \/ \E s \in Stage : LeaveStage(s)
             \/ \E reverts \in BOOLEAN : SavePost(reverts)
             \/ UNCHANGED reminderVars
      PROVE  UNCHANGED <<hour, reminder, sweep, round>>
    BY <1>9 DEF LeaveStage, SavePost, reminderVars
<1> QED BY <1>1, <1>2, <1>3, <1>4, <1>5, <1>6, <1>7, <1>8, <1>9 DEF ReminderNext

LEMMA ReminderInvBounds == ReminderInv => RemindersThenOneEscalation
<1> SUFFICES ASSUME ReminderInv, NEW s \in Stage, round[s].clean
             PROVE  /\ round[s].reminders <= MaxReminders
                    /\ round[s].escalations <= 1
                    /\ round[s].escalations = 1 => round[s].reminders = MaxReminders
    BY DEF RemindersThenOneEscalation
<1>1. /\ reminder[s].count \in 0..MaxReminders /\ reminder[s].escalated \in BOOLEAN
      /\ RoundTold(s) /\ MaxReminders \in Nat
    BY ReminderConstants DEF ReminderInv, ReminderTypes, ReminderCounts
<1> QED BY <1>1 DEF RoundTold, Told, ToldOneMore

\* Between two resets a stage's people get at most MAX_REMINDERS reminders and then
\* their managers one escalation, whatever the workflow does during a sweep; only a
\* reset inside a sweep and a death after sending are left out.
THEOREM RemindersAreBounded == ReminderSpec => []RemindersThenOneEscalation
BY ReminderInvInit, ReminderNextKeeps, ReminderInvBounds, PTL DEF ReminderSpec

-------------------------------------------------------------------------------
(* The inbox: which pull has which message, and who has told of it *)

Pulls == [step: {"idle", "pull", "sla"}, todo: SUBSET InboxMessages, first: BOOLEAN,
          inHand: SUBSET InboxMessages]

InboxTypes ==
    /\ sentAt \in [InboxMessages -> Int]
    /\ listing \in [opener: [InboxMessages -> InboxMessages], off: SUBSET InboxMessages]
    /\ message \in [InboxMessages -> [at: Int, status: InboxStatuses, marked: BOOLEAN]]
    /\ pull \in [Pullers -> Pulls]
    /\ hook \subseteq InboxMessages
    /\ poll \in Nat
    /\ alerts \in [InboxMessages -> Nat]
    /\ overdueNotices \in [InboxMessages -> Nat]
    /\ erased \in [InboxMessages -> Nat]
    /\ passed \subseteq InboxMessages

\* A message is sent before it is stored, and after the one it answers; nothing is dated
\* after now.
DatedRight(m) ==
    /\ sentAt[m] # NoInstant =>
          sentAt[m] \in 0..poll /\ sentAt[listing.opener[m]] \in 0..sentAt[m]
    /\ message[m] # Absent => message[m].at \in 0..poll /\ sentAt[m] # NoInstant

\* Only the cycle announces and looks for overdue messages; one message is in hand.
PullsMatch ==
    /\ \A w \in Pullers :
          /\ pull[w].step = "idle" => pull[w].todo = {} /\ pull[w].inHand = {}
          /\ pull[w].step = "pull" => pull[w].todo \subseteq Sent
          /\ \A m, n \in pull[w].inHand : m = n
    /\ \A m, n \in hook : m = n
    /\ pull["backfill"].step # "sla" /\ pull["backfill"].inHand = {}

OnAList(m) == \E w \in Pullers : pull[w].step = "pull" /\ m \in pull[w].todo

\* Sent, listed, not stored, on no list and not left behind, and no answer to another: the
\* next poll has to ask for it.
LeftToPoll(m) ==
    m \in Sent \ (Stored \cup passed \cup listing.off) /\ ~OnAList(m) /\ listing.opener[m] = m

\* The mark is not beyond it, nor will the lists of the pulls under way move it there.
WithinReach(m) ==
    LeftToPoll(m) =>
        /\ \A x \in Stored : message[x].at <= sentAt[m]
        /\ \A x \in InboxMessages : OnAList(x) => sentAt[x] <= sentAt[m]

ToAnnounce(m) == pull["cycle"].step = "pull" /\ m \in pull["cycle"].inHand
ToMark(m) == pull["cycle"].step = "sla" /\ m \in pull["cycle"].inHand
ToReport(m) == pull["cycle"].step = "sla" /\ m \in pull["cycle"].todo

\* Who stores a message announces it, is quiet about it, or has it in hand to announce.
Announced(m) ==
    /\ alerts[m] <= 1
    /\ m \in hook => alerts[m] = 0 /\ ~ToAnnounce(m)
    /\ ToAnnounce(m) => alerts[m] = 0
    /\ m \notin Stored => alerts[m] = 0 /\ m \notin hook /\ ~ToAnnounce(m)
    /\ m \in Stored /\ alerts[m] = 0 => m \in quiet \/ m \in hook \/ ToAnnounce(m)

\* Every report left a mark, which is there, was written over, or is about to be made.
Reported(m) ==
    /\ ToMark(m) \/ ToReport(m) => m \in Stored /\ ~message[m].marked
    /\ ~(ToMark(m) /\ ToReport(m))
    /\ overdueNotices[m] = IF message[m].marked \/ ToMark(m) THEN erased[m] + 1 ELSE erased[m]

InboxInv ==
    /\ InboxTypes /\ PullsMatch
    /\ \A m \in InboxMessages : DatedRight(m) /\ WithinReach(m) /\ Announced(m) /\ Reported(m)

LEMMA InboxInvInit == InboxInit => InboxInv
<1> SUFFICES ASSUME InboxInit PROVE InboxInv
    OBVIOUS
<1> USE InboxConstants DEF InboxInit, NoPull, Absent, NoInstant, Pullers
<1>1. InboxTypes
    BY DEF InboxTypes, Pulls, InboxStatuses
<1>2. PullsMatch
    BY DEF PullsMatch
<1>3. ASSUME NEW m \in InboxMessages
      PROVE  DatedRight(m) /\ WithinReach(m) /\ Announced(m) /\ Reported(m)
    BY DEF DatedRight, WithinReach, LeftToPoll, Sent, Stored, Announced, ToAnnounce, Reported,
           ToMark, ToReport
<1> QED BY <1>1, <1>2, <1>3 DEF InboxInv

LEMMA ArriveKeeps ==
    ASSUME InboxInv, NEW m \in InboxMessages, Arrive(m)
    PROVE  InboxInv'
<1>1. /\ InboxTypes /\ PullsMatch
      /\ \A x \in InboxMessages : DatedRight(x) /\ WithinReach(x) /\ Announced(x) /\ Reported(x)
    BY DEF InboxInv
<1>2. /\ m \notin Sent /\ sentAt' = [sentAt EXCEPT ![m] = poll]
      /\ UNCHANGED <<message, pull, hook, poll, alerts, overdueNotices, quiet, passed, erased>>
    BY DEF Arrive
<1>3. PICK opener \in Sent \cup {m}, out \in SUBSET (Sent \cup {m}) :
         listing' = [opener |-> [listing.opener EXCEPT ![m] = opener], off |-> listing.off \cup out]
    BY DEF Arrive
<1>4. /\ listing' \in [opener: [InboxMessages -> InboxMessages], off: SUBSET InboxMessages]
      /\ listing'.opener[m] = opener /\ listing.off \subseteq listing'.off
      /\ \A x \in InboxMessages \ {m} : listing'.opener[x] = listing.opener[x]
    BY <1>1, <1>3 DEF InboxTypes, Sent
<1>5. sentAt'[m] = poll /\ \A x \in InboxMessages \ {m} : sentAt'[x] = sentAt[x]
    BY <1>1, <1>2 DEF InboxTypes
<1>6. InboxTypes'
    BY <1>1, <1>2, <1>4 DEF InboxTypes
<1>7. Sent' = Sent \cup {m} /\ Stored' = Stored /\ m \notin Stored
    BY <1>1, <1>2, <1>5 DEF InboxTypes, DatedRight, Sent, Stored, NoInstant
<1>8. PullsMatch'
    BY <1>1, <1>2, <1>7 DEF PullsMatch
<1>9. ASSUME NEW x \in InboxMessages PROVE DatedRight(x)'
    <2>1. CASE x = m
        <3>1. sentAt'[opener] \in 0..poll
            BY <1>1, <1>3, <1>5 DEF InboxTypes, DatedRight, Sent
        <3> QED BY <1>1, <1>2, <1>4, <1>5, <1>7, <2>1, <3>1 DEF InboxTypes, DatedRight, Stored
    <2>2. CASE x # m
        <3>1. sentAt[x] # NoInstant => listing.opener[x] # m
            BY <1>1, <1>2 DEF InboxTypes, DatedRight, Sent, NoInstant
        <3>2. listing.opener[x] \in InboxMessages /\ listing'.opener[x] = listing.opener[x]
            BY <1>1, <1>4, <2>2 DEF InboxTypes
        <3> QED BY <1>1, <1>2, <1>5, <2>2, <3>1, <3>2 DEF DatedRight
    <2> QED BY <2>1, <2>2
<1>10. ASSUME NEW x \in InboxMessages PROVE WithinReach(x)'
    <2>1. \A y \in InboxMessages : OnAList(y)' <=> OnAList(y)
        BY <1>2 DEF OnAList
    <2>2. \A y \in InboxMessages : OnAList(y) => y # m /\ sentAt[y] \in 0..poll
        BY <1>1, <1>2 DEF PullsMatch, OnAList, Sent, DatedRight
    <2>3. \A y \in Stored : y # m /\ message[y].at \in 0..poll
        BY <1>1, <1>7 DEF Stored, DatedRight
    <2>4. CASE x = m
        BY <1>1, <1>2, <1>5, <1>7, <2>1, <2>2, <2>3, <2>4 DEF InboxTypes, WithinReach
    <2>5. CASE x # m
        BY <1>1, <1>2, <1>4, <1>5, <1>7, <2>1, <2>2, <2>5 DEF WithinReach, LeftToPoll
    <2> QED BY <2>4, <2>5
<1>11. ASSUME NEW x \in InboxMessages PROVE Announced(x)'
    BY <1>1, <1>2, <1>7 DEF Announced, ToAnnounce
<1>12. ASSUME NEW x \in InboxMessages PROVE Reported(x)'
    BY <1>1, <1>2, <1>7 DEF Reported, ToMark, ToReport
<1> QED BY <1>6, <1>8, <1>9, <1>10, <1>11, <1>12 DEF InboxInv

LEMMA PollTickKeeps ==
    ASSUME InboxInv, PollTick
    PROVE  InboxInv'
<1> USE DEF PollTick, Pullers
<1>1. /\ InboxTypes /\ PullsMatch
      /\ \A x \in InboxMessages : DatedRight(x) /\ WithinReach(x) /\ Announced(x) /\ Reported(x)
    BY DEF InboxInv
<1>2. InboxTypes'
    BY <1>1 DEF InboxTypes
<1>3. PullsMatch'
    BY <1>1 DEF PullsMatch, Sent
<1>4. ASSUME NEW x \in InboxMessages PROVE DatedRight(x)'
    BY <1>1 DEF InboxTypes, DatedRight, Sent, Stored
<1>5. ASSUME NEW x \in InboxMessages PROVE WithinReach(x)'
    BY <1>1 DEF WithinReach, LeftToPoll, OnAList, Stored, Sent
<1>6. ASSUME NEW x \in InboxMessages PROVE Announced(x)'
    BY <1>1 DEF Announced, ToAnnounce, Stored
<1>7. ASSUME NEW x \in InboxMessages PROVE Reported(x)'
    BY <1>1 DEF Reported, ToMark, ToReport, Stored
<1> QED BY <1>2, <1>3, <1>4, <1>5, <1>6, <1>7 DEF InboxInv

LEMMA FetchKeeps ==
    ASSUME InboxInv, NEW w \in Pullers, Fetch(w)
    PROVE  InboxInv'
<1> USE DEF Fetch, Pullers, NoPull
<1>1. /\ InboxTypes /\ PullsMatch
      /\ \A x \in InboxMessages : DatedRight(x) /\ WithinReach(x) /\ Announced(x) /\ Reported(x)
    BY DEF InboxInv
<1>2. PICK messages \in SUBSET (Sent \ listing.off) :
          /\ OnList(w) \subseteq messages \/ messages = {}
          /\ pull' = [pull EXCEPT ![w] = [step |-> "pull", todo |-> messages,
                                          first |-> Stored = {}, inHand |-> {}]]
    OBVIOUS
<1>3. [step |-> "pull", todo |-> messages, first |-> Stored = {}, inHand |-> {}] \in Pulls
    <2>1. messages \subseteq InboxMessages
        BY DEF Sent
    <2>2. (Stored = {}) \in BOOLEAN
        OBVIOUS
    <2> QED BY <2>1, <2>2 DEF Pulls
<1>4. InboxTypes'
    BY <1>1, <1>2, <1>3 DEF InboxTypes
<1>5. PullsMatch'
    BY <1>1, <1>2 DEF PullsMatch, Sent
<1>6. ASSUME NEW x \in InboxMessages PROVE DatedRight(x)'
    BY <1>1 DEF DatedRight
<1>7. ASSUME NEW x \in InboxMessages PROVE WithinReach(x)'
    <2>1. /\ pull'[w].step = "pull" /\ pull'[w].todo = messages /\ pull[w].step # "pull"
          /\ \A v \in Pullers \ {w} : pull'[v] = pull[v]
        BY <1>1, <1>2 DEF InboxTypes
    <2>2. \A y \in InboxMessages : OnAList(y)' <=> OnAList(y) \/ y \in messages
        BY <2>1 DEF OnAList
    <2>3. /\ UNCHANGED <<sentAt, listing, message, poll, passed>> /\ Sent' = Sent /\ Stored' = Stored
        BY DEF Sent, Stored
    <2>4. SUFFICES ASSUME LeftToPoll(x)'
                   PROVE  /\ \A y \in Stored : message[y].at <= sentAt[x]
                          /\ \A y \in InboxMessages : OnAList(y)' => sentAt[y] <= sentAt[x]
        BY <2>3 DEF WithinReach
    <2>5. LeftToPoll(x) /\ x \notin messages
        BY <2>2, <2>3, <2>4 DEF LeftToPoll
    <2>6. /\ \A y \in Stored : message[y].at <= sentAt[x]
          /\ \A y \in InboxMessages : OnAList(y) => sentAt[y] <= sentAt[x]
        BY <1>1, <2>5 DEF WithinReach
    <2>7. x \in OnList(w)
        BY <2>5, <2>6 DEF OnList, Overlooked, Since, LeftToPoll
    <2>8. messages = {}
        BY <1>2, <2>5, <2>7
    <2> QED BY <2>2, <2>6, <2>8
<1>8. ASSUME NEW x \in InboxMessages PROVE Announced(x)'
    BY <1>1, <1>2 DEF Announced, ToAnnounce, Stored
<1>9. ASSUME NEW x \in InboxMessages PROVE Reported(x)'
    BY <1>1, <1>2 DEF Reported, ToMark, ToReport, Stored
<1> QED BY <1>4, <1>5, <1>6, <1>7, <1>8, <1>9 DEF InboxInv

LEMMA UpsertKeeps ==
    ASSUME InboxInv, NEW w \in Pullers, NEW m \in InboxMessages, Upsert(w, m)
    PROVE  InboxInv'
<1>1. /\ InboxTypes /\ PullsMatch
      /\ \A x \in InboxMessages : DatedRight(x) /\ WithinReach(x) /\ Announced(x) /\ Reported(x)
    BY DEF InboxInv
<1>2. PICK hand \in {{m}, {}} :
          /\ pull' = [pull EXCEPT ![w].todo = pull[w].todo \ {m}, ![w].inHand = hand]
          /\ hand = {m} <=> m \notin Stored /\ NotifyNew(w, m)
    BY DEF Upsert
<1>3. /\ pull[w].step = "pull" /\ m \in pull[w].todo /\ pull[w].inHand = {}
      /\ message' = [message EXCEPT ![m] = [at |-> sentAt[m], status |-> message[m].status,
                                            marked |-> FALSE]]
      /\ erased' = IF message[m].marked THEN [erased EXCEPT ![m] = erased[m] + 1] ELSE erased
      /\ quiet \subseteq quiet'
      /\ m \notin Stored /\ hand # {m} => m \in quiet'
      /\ UNCHANGED <<sentAt, listing, hook, poll, alerts, overdueNotices, passed>>
    BY <1>2 DEF Upsert, NotifyNew, Pullers
<1>4. /\ \A x \in InboxMessages :
            message'[x] = IF x = m THEN [at |-> sentAt[m], status |-> message[m].status,
                                         marked |-> FALSE] ELSE message[x]
      /\ message' \in [InboxMessages -> [at: Int, status: InboxStatuses, marked: BOOLEAN]]
    BY <1>1, <1>3 DEF InboxTypes
<1>5. /\ pull' \in [Pullers -> Pulls]
      /\ \A v \in Pullers :
            /\ pull'[v].step = pull[v].step
            /\ pull'[v].todo = IF v = w THEN pull[v].todo \ {m} ELSE pull[v].todo
            /\ pull'[v].inHand = IF v = w THEN hand ELSE pull[v].inHand
    BY ZenonT(30), <1>1, <1>2 DEF InboxTypes, Pulls, Pullers
<1>6. /\ \A x \in InboxMessages :
            erased'[x] = IF x = m /\ message[m].marked THEN erased[x] + 1 ELSE erased[x]
      /\ erased' \in [InboxMessages -> Nat]
    <2>1. CASE message[m].marked
        BY <1>1, <1>3, <2>1 DEF InboxTypes
    <2>2. CASE ~message[m].marked
        BY <1>1, <1>3, <2>2 DEF InboxTypes
    <2> QED BY <2>1, <2>2
<1>7. sentAt[m] \in 0..poll /\ sentAt[m] # NoInstant /\ Sent' = Sent /\ Stored' = Stored \cup {m}
    BY <1>1, <1>3, <1>4 DEF InboxTypes, PullsMatch, DatedRight, Stored, Sent, Absent, NoInstant
<1>8. InboxTypes'
    BY <1>1, <1>3, <1>4, <1>5, <1>6 DEF InboxTypes
<1>9. PullsMatch'
    <2>1. \A y, z \in hand : y = z
        OBVIOUS
    <2>2. w = "backfill" => hand = {}
        BY <1>2 DEF NotifyNew
    <2>3. ASSUME NEW v \in Pullers
          PROVE  /\ pull'[v].step = "idle" => pull'[v].todo = {} /\ pull'[v].inHand = {}
                 /\ pull'[v].step = "pull" => pull'[v].todo \subseteq Sent'
                 /\ \A y, z \in pull'[v].inHand : y = z
        <3>1. CASE v = w
            BY <1>1, <1>3, <1>5, <1>7, <2>1, <3>1 DEF PullsMatch
        <3>2. CASE v # w
            <4>1. pull'[v].step = pull[v].step /\ pull'[v].todo = pull[v].todo
                  /\ pull'[v].inHand = pull[v].inHand
                BY <1>5, <3>2
            <4> QED BY <1>1, <1>7, <4>1 DEF PullsMatch
        <3> QED BY <3>1, <3>2
    <2> QED BY <1>1, <1>3, <1>5, <2>2, <2>3 DEF PullsMatch, Pullers
<1>10. ASSUME NEW x \in InboxMessages PROVE DatedRight(x)'
    BY <1>1, <1>3, <1>4, <1>7 DEF DatedRight
<1>11. ASSUME NEW x \in InboxMessages PROVE WithinReach(x)'
    <2>1. SUFFICES ASSUME LeftToPoll(x)'
                   PROVE  /\ \A y \in Stored' : message'[y].at <= sentAt[x]
                          /\ \A y \in InboxMessages : OnAList(y)' => sentAt[y] <= sentAt[x]
        BY <1>3 DEF WithinReach
    <2>2. /\ \A y \in InboxMessages : OnAList(y)' => OnAList(y)
          /\ OnAList(m) /\ x # m /\ (OnAList(x) => OnAList(x)')
        BY <1>3, <1>5, <1>7, <2>1 DEF OnAList, LeftToPoll
    <2>3. LeftToPoll(x)
        BY <1>3, <1>7, <2>1, <2>2 DEF LeftToPoll
    <2> QED BY <1>1, <1>3, <1>4, <1>7, <2>2, <2>3 DEF WithinReach, Stored
<1>12. ASSUME NEW x \in InboxMessages PROVE Announced(x)'
    BY <1>1, <1>2, <1>3, <1>5, <1>7 DEF InboxTypes, Announced, ToAnnounce, NotifyNew,
           Pullers
<1>13. ASSUME NEW x \in InboxMessages PROVE Reported(x)'
    BY <1>1, <1>3, <1>4, <1>5, <1>6, <1>7 DEF InboxTypes, Reported, ToMark, ToReport,
           Pullers
<1> QED BY <1>8, <1>9, <1>10, <1>11, <1>12, <1>13 DEF InboxInv

LEMMA AnnounceKeeps ==
    ASSUME InboxInv, NEW w \in Pullers, Announce(w)
    PROVE  InboxInv'
<1> USE DEF Announce, Pullers
<1>1. /\ InboxTypes /\ PullsMatch
      /\ \A x \in InboxMessages : DatedRight(x) /\ WithinReach(x) /\ Announced(x) /\ Reported(x)
    BY DEF InboxInv
<1>2. InboxTypes'
    <2>1. pull' \in [Pullers -> Pulls]
        <3>1. pull' = [pull EXCEPT ![w].inHand = {}]
            OBVIOUS
        <3> HIDE DEF Announce, Pullers
        <3>2. pull \in [Pullers -> Pulls] /\ pull[w] \in Pulls
            BY <1>1 DEF InboxTypes
        <3>3. [pull[w] EXCEPT !.inHand = {}] \in Pulls
            BY <3>2 DEF Pulls
        <3> QED BY <3>1, <3>2, <3>3
    <2>2. alerts' \in [InboxMessages -> Nat]
        <3>1. PICK m \in pull[w].inHand : alerts' = [alerts EXCEPT ![m] = @ + 1]
            OBVIOUS
        <3> QED BY <1>1, <3>1 DEF InboxTypes, Pulls
    <2> QED BY <1>1, <2>1, <2>2 DEF InboxTypes
<1>3. PullsMatch'
    BY <1>1 DEF PullsMatch, Sent
<1>4. ASSUME NEW x \in InboxMessages PROVE DatedRight(x)'
    BY <1>1 DEF DatedRight
<1>5. ASSUME NEW x \in InboxMessages PROVE WithinReach(x)'
    BY <1>1 DEF WithinReach, LeftToPoll, OnAList, Stored, Sent
<1>6. ASSUME NEW x \in InboxMessages PROVE Announced(x)'
    BY <1>1 DEF InboxTypes, Pulls, PullsMatch, Announced, ToAnnounce, Stored
<1>7. ASSUME NEW x \in InboxMessages PROVE Reported(x)'
    BY <1>1 DEF Reported, ToMark, ToReport, Stored
<1> QED BY <1>2, <1>3, <1>4, <1>5, <1>6, <1>7 DEF InboxInv

LEMMA PullDoneKeeps ==
    ASSUME InboxInv, NEW w \in Pullers, PullDone(w)
    PROVE  InboxInv'
<1> USE DEF PullDone, Pullers, NoPull, Overdue
<1>1. /\ InboxTypes /\ PullsMatch
      /\ \A x \in InboxMessages : DatedRight(x) /\ WithinReach(x) /\ Announced(x) /\ Reported(x)
    BY DEF InboxInv
<1>2. PICK messages \in SUBSET InboxMessages :
          /\ messages \in {Overdue, {}}
          /\ w # "cycle" => messages = {}
          /\ pull' = [pull EXCEPT ![w] = [step |-> IF messages = {} THEN "idle" ELSE "sla",
                                         todo |-> messages, first |-> FALSE, inHand |-> {}]]
    BY DEF Stored
<1>3. InboxTypes'
    BY <1>1, <1>2 DEF InboxTypes, Pulls
<1>4. PullsMatch'
    BY <1>1, <1>2 DEF PullsMatch, Sent
<1>5. ASSUME NEW x \in InboxMessages PROVE DatedRight(x)'
    BY <1>1 DEF DatedRight
<1>6. ASSUME NEW x \in InboxMessages PROVE WithinReach(x)'
    BY <1>1, <1>2 DEF WithinReach, LeftToPoll, OnAList, Stored, Sent
<1>7. ASSUME NEW x \in InboxMessages PROVE Announced(x)'
    BY <1>1, <1>2 DEF Announced, ToAnnounce, Stored
<1>8. ASSUME NEW x \in InboxMessages PROVE Reported(x)'
    BY <1>1, <1>2 DEF Reported, ToMark, ToReport, Stored
<1> QED BY <1>3, <1>4, <1>5, <1>6, <1>7, <1>8 DEF InboxInv

LEMMA NotifyOverdueKeeps ==
    ASSUME InboxInv, NEW m \in InboxMessages, NotifyOverdue(m)
    PROVE  InboxInv'
<1> USE DEF NotifyOverdue, Pullers
<1>1. /\ InboxTypes /\ PullsMatch
      /\ \A x \in InboxMessages : DatedRight(x) /\ WithinReach(x) /\ Announced(x) /\ Reported(x)
    BY DEF InboxInv
<1>2. pull' = [pull EXCEPT !["cycle"].todo = pull["cycle"].todo \ {m},
                            !["cycle"].inHand = {m}]
    OBVIOUS
<1>3. pull["cycle"] \in Pulls /\ pull \in [Pullers -> Pulls]
    BY <1>1 DEF InboxTypes
<1>4. pull' \in [Pullers -> Pulls]
    BY <1>2, <1>3 DEF Pulls
<1>5. InboxTypes'
    <2>1. overdueNotices' \in [InboxMessages -> Nat]
        BY <1>1 DEF InboxTypes
    <2> QED BY <1>1, <1>4, <2>1 DEF InboxTypes
<1>6. PullsMatch'
    <2>1. pull["cycle"].step = "sla"
        OBVIOUS
    <2>2. /\ pull'["cycle"].step = "sla" /\ pull'["cycle"].inHand = {m}
          /\ pull'["backfill"] = pull["backfill"]
        BY <1>2, <1>3, <2>1 DEF Pulls
    <2>3. hook' = hook /\ Sent' = Sent
        BY DEF Sent
    <2>4. ASSUME NEW w \in Pullers
          PROVE  /\ pull'[w].step = "idle" => pull'[w].todo = {} /\ pull'[w].inHand = {}
                 /\ pull'[w].step = "pull" => pull'[w].todo \subseteq Sent'
                 /\ \A x, y \in pull'[w].inHand : x = y
        <3>1. CASE w = "cycle"
            <4>1. \A x, y \in {m} : x = y
                OBVIOUS
            <4>2. "sla" # "idle" /\ "sla" # "pull"
                OBVIOUS
            <4> HIDE DEF NotifyOverdue, Pullers
            <4>3. pull'[w].step = "sla" /\ pull'[w].inHand = {m}
                BY <2>2, <3>1
            <4> QED BY <4>1, <4>2, <4>3
        <3>2. CASE w = "backfill" BY <1>1, <2>2, <2>3, <3>2 DEF PullsMatch
        <3> QED BY <3>1, <3>2
    <2>5. /\ \A x, y \in hook' : x = y
          /\ pull'["backfill"].step # "sla" /\ pull'["backfill"].inHand = {}
        BY <1>1, <2>2, <2>3 DEF PullsMatch
    <2> QED BY <2>4, <2>5 DEF PullsMatch
<1>7. ASSUME NEW x \in InboxMessages PROVE DatedRight(x)'
    BY <1>1 DEF DatedRight
<1>8. ASSUME NEW x \in InboxMessages PROVE WithinReach(x)'
    BY <1>1 DEF InboxTypes, Pulls, WithinReach, LeftToPoll, OnAList, Stored, Sent
<1>9. ASSUME NEW x \in InboxMessages PROVE Announced(x)'
    BY <1>1 DEF InboxTypes, Pulls, PullsMatch, Announced, ToAnnounce, Stored
<1>10. ASSUME NEW x \in InboxMessages PROVE Reported(x)'
    BY <1>1 DEF InboxTypes, Pulls, Reported, ToMark, ToReport, Stored
<1> QED BY <1>5, <1>6, <1>7, <1>8, <1>9, <1>10 DEF InboxInv

LEMMA MarkOverdueKeeps ==
    ASSUME InboxInv, MarkOverdue
    PROVE  InboxInv'
<1> USE DEF MarkOverdue, Pullers, NoPull
<1>1. /\ InboxTypes /\ PullsMatch
      /\ \A x \in InboxMessages : DatedRight(x) /\ WithinReach(x) /\ Announced(x) /\ Reported(x)
    BY DEF InboxInv
<1>2. PICK m \in pull["cycle"].inHand :
          /\ pull["cycle"].step = "sla"
          /\ message' = [message EXCEPT ![m].marked = TRUE]
          /\ pull' = [pull EXCEPT !["cycle"] = IF pull["cycle"].todo = {} THEN NoPull
                                              ELSE [pull["cycle"] EXCEPT !.inHand = {}]]
    OBVIOUS
<1>3. m \in InboxMessages /\ m \in Stored /\ ~message[m].marked
    BY <1>1, <1>2 DEF InboxTypes, Pulls, Reported, ToMark
<1>4. pull' \in [Pullers -> Pulls]
    <2>1. pull["cycle"] \in Pulls /\ pull \in [Pullers -> Pulls]
        BY <1>1 DEF InboxTypes
    <2>2. NoPull \in Pulls /\ [pull["cycle"] EXCEPT !.inHand = {}] \in Pulls
        BY <2>1 DEF Pulls
    <2>3. CASE pull["cycle"].todo = {}
        BY <1>2, <2>1, <2>2, <2>3
    <2>4. CASE pull["cycle"].todo # {}
        BY <1>2, <2>1, <2>2, <2>4
    <2> QED BY <2>3, <2>4
<1>5. message' \in [InboxMessages -> [at: Int, status: InboxStatuses, marked: BOOLEAN]]
    <2>1. message[m] \in [at: Int, status: InboxStatuses, marked: BOOLEAN]
        BY <1>1, <1>3 DEF InboxTypes
    <2>2. [message[m] EXCEPT !.marked = TRUE]
              \in [at: Int, status: InboxStatuses, marked: BOOLEAN]
        BY <2>1
    <2> QED BY <1>1, <1>2, <2>2 DEF InboxTypes
<1>6. \A x \in InboxMessages :
          /\ message'[x].at = message[x].at
          /\ message'[x].marked <=> message[x].marked \/ x = m
          /\ message'[x] # Absent <=> message[x] # Absent
    <2>1. ASSUME NEW x \in InboxMessages, x # m PROVE message'[x] = message[x]
        BY <1>1, <1>2, <2>1 DEF InboxTypes
    <2>2. /\ message'[m].at = message[m].at /\ message'[m].marked
          /\ message[m].at \in 0..poll /\ message[m] # Absent
        BY <1>1, <1>2, <1>3 DEF InboxTypes, DatedRight, Stored
    <2>3. message'[m] # Absent
        BY <2>2 DEF Absent, NoInstant
    <2> QED BY <2>1, <2>2, <2>3
<1>7. InboxTypes'
    BY <1>1, <1>4, <1>5 DEF InboxTypes
<1>8. PullsMatch'
    BY <1>1, <1>2, <1>3, <1>4, <1>6 DEF PullsMatch, Sent
<1>9. ASSUME NEW x \in InboxMessages PROVE DatedRight(x)'
    BY <1>1, <1>2, <1>3, <1>4, <1>6 DEF DatedRight
<1>10. ASSUME NEW x \in InboxMessages PROVE WithinReach(x)'
    BY <1>1, <1>2, <1>3, <1>4, <1>6 DEF WithinReach, LeftToPoll, OnAList, Stored, Sent
<1>11. ASSUME NEW x \in InboxMessages PROVE Announced(x)'
    BY <1>1, <1>2, <1>3, <1>4, <1>6 DEF Announced, ToAnnounce, Stored
<1>12. ASSUME NEW x \in InboxMessages PROVE Reported(x)'
    BY <1>1, <1>7, <1>12, <1>2, <1>3, <1>4, <1>6 DEF InboxTypes, Pulls, PullsMatch,
           Reported, ToMark, ToReport, Absent, NoInstant, Stored
<1> QED BY <1>7, <1>8, <1>9, <1>10, <1>11, <1>12 DEF InboxInv

LEMMA PullDiesKeeps ==
    ASSUME InboxInv, NEW w \in Pullers, PullDies(w)
    PROVE  InboxInv'
<1> USE DEF PullDies, Pullers, NoPull, Faulty
<1>1. /\ InboxTypes /\ PullsMatch
      /\ \A x \in InboxMessages : DatedRight(x) /\ WithinReach(x) /\ Announced(x) /\ Reported(x)
    BY DEF InboxInv
<1>2. InboxTypes'
    BY <1>1 DEF InboxTypes, Pulls
<1>3. PullsMatch'
    BY <1>1 DEF PullsMatch, Sent
<1>4. ASSUME NEW x \in InboxMessages PROVE DatedRight(x)'
    BY <1>1 DEF DatedRight
<1>5. ASSUME NEW x \in InboxMessages PROVE WithinReach(x)'
    BY <1>1 DEF WithinReach, LeftToPoll, OnAList, Stored, Sent
<1>6. ASSUME NEW x \in InboxMessages PROVE Announced(x)'
    BY <1>1 DEF Announced, ToAnnounce, Stored
<1>7. ASSUME NEW x \in InboxMessages PROVE Reported(x)'
    BY <1>1, <1>2, <1>7 DEF InboxTypes, Pulls, PullsMatch, Reported, ToMark, ToReport,
           Absent, NoInstant, Stored
<1> QED BY <1>2, <1>3, <1>4, <1>5, <1>6, <1>7 DEF InboxInv

LEMMA HookStoresKeeps ==
    ASSUME InboxInv, NEW m \in InboxMessages, HookStores(m)
    PROVE  InboxInv'
<1> USE DEF HookStores, Pullers
<1>1. /\ InboxTypes /\ PullsMatch
      /\ \A x \in InboxMessages : DatedRight(x) /\ WithinReach(x) /\ Announced(x) /\ Reported(x)
    BY DEF InboxInv
<1>2. \A x \in InboxMessages :
          message'[x] = IF x = m THEN [at |-> poll, status |-> "waiting", marked |-> FALSE]
                        ELSE message[x]
    BY <1>1 DEF InboxTypes
<1>3. Stored' = Stored \cup {m} /\ m \notin Stored /\ m \in Sent
    BY <1>1, <1>2 DEF InboxTypes, Stored, Absent, NoInstant
<1>4. InboxTypes'
    BY <1>1 DEF InboxTypes, Pulls, InboxStatuses, Absent, NoInstant, Stored, Sent
<1>5. PullsMatch'
    BY <1>1 DEF PullsMatch, Sent
<1>6. ASSUME NEW x \in InboxMessages PROVE DatedRight(x)'
    BY <1>1, <1>2, <1>3 DEF InboxTypes, DatedRight, Sent, Stored
<1>7. ASSUME NEW x \in InboxMessages PROVE WithinReach(x)'
    BY <1>1 DEF InboxTypes, Pulls, WithinReach, LeftToPoll, OnAList, Stored, Sent
<1>8. ASSUME NEW x \in InboxMessages PROVE Announced(x)'
    BY <1>1, <1>2, <1>3 DEF Announced, ToAnnounce, Stored
<1>9. ASSUME NEW x \in InboxMessages PROVE Reported(x)'
    BY <1>1, <1>4, <1>9 DEF InboxTypes, Pulls, PullsMatch, Reported, ToMark, ToReport,
           Absent, NoInstant, Stored
<1> QED BY <1>4, <1>5, <1>6, <1>7, <1>8, <1>9 DEF InboxInv

LEMMA HookAnnouncesKeeps ==
    ASSUME InboxInv, HookAnnounces
    PROVE  InboxInv'
<1> USE DEF HookAnnounces, Pullers
<1>1. /\ InboxTypes /\ PullsMatch
      /\ \A x \in InboxMessages : DatedRight(x) /\ WithinReach(x) /\ Announced(x) /\ Reported(x)
    BY DEF InboxInv
<1>2. InboxTypes'
    BY <1>1 DEF InboxTypes
<1>3. PullsMatch'
    BY <1>1 DEF PullsMatch, Sent
<1>4. ASSUME NEW x \in InboxMessages PROVE DatedRight(x)'
    BY <1>1 DEF DatedRight
<1>5. ASSUME NEW x \in InboxMessages PROVE WithinReach(x)'
    BY <1>1 DEF WithinReach, LeftToPoll, OnAList, Stored, Sent
<1>6. ASSUME NEW x \in InboxMessages PROVE Announced(x)'
    BY <1>1 DEF InboxTypes, Pulls, PullsMatch, Announced, ToAnnounce, Stored
<1>7. ASSUME NEW x \in InboxMessages PROVE Reported(x)'
    BY <1>1 DEF Reported, ToMark, ToReport, Stored
<1> QED BY <1>2, <1>3, <1>4, <1>5, <1>6, <1>7 DEF InboxInv

LEMMA HookDiesKeeps ==
    ASSUME InboxInv, HookDies
    PROVE  InboxInv'
<1> USE DEF HookDies, Pullers, Faulty
<1>1. /\ InboxTypes /\ PullsMatch
      /\ \A x \in InboxMessages : DatedRight(x) /\ WithinReach(x) /\ Announced(x) /\ Reported(x)
    BY DEF InboxInv
<1>2. InboxTypes'
    BY <1>1 DEF InboxTypes
<1>3. PullsMatch'
    BY <1>1 DEF PullsMatch, Sent
<1>4. ASSUME NEW x \in InboxMessages PROVE DatedRight(x)'
    BY <1>1 DEF DatedRight
<1>5. ASSUME NEW x \in InboxMessages PROVE WithinReach(x)'
    BY <1>1 DEF WithinReach, LeftToPoll, OnAList, Stored, Sent
<1>6. ASSUME NEW x \in InboxMessages PROVE Announced(x)'
    BY <1>1 DEF Announced, ToAnnounce, Stored
<1>7. ASSUME NEW x \in InboxMessages PROVE Reported(x)'
    BY <1>1 DEF Reported, ToMark, ToReport, Stored
<1> QED BY <1>2, <1>3, <1>4, <1>5, <1>6, <1>7 DEF InboxInv

LEMMA ChangeStatusKeeps ==
    ASSUME InboxInv, NEW m \in InboxMessages, NEW s \in InboxStatuses, ChangeStatus(m, s)
    PROVE  InboxInv'
<1> USE DEF ChangeStatus, Pullers
<1>1. /\ InboxTypes /\ PullsMatch
      /\ \A x \in InboxMessages : DatedRight(x) /\ WithinReach(x) /\ Announced(x) /\ Reported(x)
    BY DEF InboxInv
<1>2. \A x \in InboxMessages :
          /\ message'[x].at = message[x].at
          /\ message'[x].marked <=> message[x].marked
          /\ message'[x] # Absent <=> message[x] # Absent
    <2>1. ASSUME NEW x \in InboxMessages, x # m PROVE message'[x] = message[x]
        BY <1>1, <2>1 DEF InboxTypes
    <2>2. /\ message'[m].at = message[m].at
          /\ message'[m].marked <=> message[m].marked
          /\ message[m].at \in 0..poll /\ message[m] # Absent
        BY <1>1 DEF InboxTypes, DatedRight, Stored
    <2>3. message'[m] # Absent
        BY <2>2 DEF Absent, NoInstant
    <2> QED BY <2>1, <2>2, <2>3
<1>3. Stored' = Stored
    BY <1>2 DEF Stored
<1>4. InboxTypes'
    BY <1>1 DEF InboxTypes
<1>5. PullsMatch'
    BY <1>1 DEF PullsMatch, Sent
<1>6. ASSUME NEW x \in InboxMessages PROVE DatedRight(x)'
    BY <1>1 DEF InboxTypes, DatedRight, Sent, Stored
<1>7. ASSUME NEW x \in InboxMessages PROVE WithinReach(x)'
    BY <1>1, <1>4, <1>7 DEF InboxTypes, Pulls, DatedRight, WithinReach, LeftToPoll, OnAList,
           Absent, NoInstant, Stored, Sent
<1>8. ASSUME NEW x \in InboxMessages PROVE Announced(x)'
    BY <1>1, <1>2, <1>3 DEF Announced, ToAnnounce, Stored
<1>9. ASSUME NEW x \in InboxMessages PROVE Reported(x)'
    BY <1>1, <1>2, <1>3 DEF Reported, ToMark, ToReport, Stored
<1> QED BY <1>4, <1>5, <1>6, <1>7, <1>8, <1>9 DEF InboxInv

LEMMA InboxNextKeeps == InboxInv /\ [InboxNext]_inboxVars => InboxInv'
<1> SUFFICES ASSUME InboxInv, [InboxNext]_inboxVars PROVE InboxInv'
    OBVIOUS
<1>1. CASE UNCHANGED inboxVars
    BY <1>1 DEF inboxVars, InboxInv, InboxTypes, PullsMatch, DatedRight, WithinReach, LeftToPoll,
                OnAList, Announced, ToAnnounce, Reported, ToMark, ToReport, Sent, Stored
<1> QED BY <1>1, ArriveKeeps, PollTickKeeps, FetchKeeps, UpsertKeeps, AnnounceKeeps,
           PullDoneKeeps, NotifyOverdueKeeps, MarkOverdueKeeps, PullDiesKeeps,
           HookStoresKeeps, HookAnnouncesKeeps, HookDiesKeeps, ChangeStatusKeeps
        DEF InboxNext

LEMMA InboxInvHolds == InboxInv => InboxHolds
<1> SUFFICES ASSUME InboxInv PROVE InboxHolds
    OBVIOUS
<1>1. /\ InboxTypes /\ PullsMatch
      /\ \A m \in InboxMessages : DatedRight(m) /\ WithinReach(m) /\ Announced(m) /\ Reported(m)
    BY DEF InboxInv
<1>2. NothingMissed
    <2> DEFINE OnLists == UNION {pull[w].todo : w \in Pullers}
    <2> SUFFICES ASSUME NEW m \in Sent, m \notin passed, m \notin listing.off, m \notin Stored,
                        m \notin OnLists
                 PROVE  \/ m \in OnList("cycle")
                        \/ listing.opener[m] # m /\ Overlooked("cycle", m)
        BY DEF NothingMissed
    <2>1. ~OnAList(m) /\ m \in InboxMessages
        BY DEF OnAList, Sent
    <2> HIDE DEF OnLists
    <2>2. CASE listing.opener[m] = m
        <3>1. \A x \in Stored : message[x].at <= sentAt[m]
            BY <1>1, <2>1, <2>2 DEF WithinReach, LeftToPoll
        <3> QED BY <2>2, <3>1 DEF OnList, Overlooked, Since
    <2>3. CASE listing.opener[m] # m /\ ~Overlooked("cycle", m)
        <3>1. \A x \in Stored : message[x].at <= sentAt[listing.opener[m]] /\ message[x].at \in Int
            BY <1>1, <2>3 DEF Overlooked, Since, InboxTypes, Stored
        <3>2. sentAt[listing.opener[m]] <= sentAt[m] /\ sentAt[m] \in Int
              /\ sentAt[listing.opener[m]] \in Int
            BY <1>1, <2>1 DEF DatedRight, Sent, InboxTypes
        <3>3. Since("cycle", m)
            BY <3>1, <3>2 DEF Since
        <3> QED BY <2>3, <3>3 DEF OnList
    <2> QED BY <2>2, <2>3
<1>3. ASSUME NEW m \in InboxMessages
      PROVE  /\ alerts[m] <= 1
             /\ m \in Stored /\ alerts[m] = 0 =>
                   m \in quiet \cup hook \cup pull["cycle"].inHand
             /\ overdueNotices[m] <= 1 + erased[m]
    <2>1. erased[m] \in Nat /\ alerts[m] <= 1
          /\ (m \in Stored /\ alerts[m] = 0 => m \in quiet \/ m \in hook \/ ToAnnounce(m))
        BY <1>1 DEF InboxTypes, Announced
    <2>2. overdueNotices[m] = erased[m] + 1 \/ overdueNotices[m] = erased[m]
        BY <1>1 DEF Reported
    <2> QED BY <2>1, <2>2 DEF ToAnnounce
<1> QED BY <1>2, <1>3 DEF InboxHolds, NoticesSentOnce

\* The polls leave no hole in what the providers read of the platform's list, but for
\* answers in threads opened before the newest message stored, and where a webhook's date
\* or a broken batch moved the mark; each message is announced once and reported late once
\* per mark, whichever of the poll, the backfill and the webhooks stores it first.
THEOREM InboxComplete == InboxSpec => []InboxHolds
BY InboxInvInit, InboxNextKeeps, InboxInvHolds, PTL DEF InboxSpec

-------------------------------------------------------------------------------
(* Feeds: the rank of an entry *)

\* Ahead of each member of a finite set is what goes before it in a strict total order.
Orders(S, ahead) ==
    /\ \A i \in S : ahead[i] \subseteq S /\ i \notin ahead[i]
    /\ \A i, j \in S : i # j => i \in ahead[j] \/ j \in ahead[i]
    /\ \A i, j \in S : j \in ahead[i] => ahead[j] \subseteq ahead[i]

\* An entry ahead of another has a smaller rank.
LEMMA RankGrows ==
    ASSUME NEW S, IsFiniteSet(S), NEW ahead, Orders(S, ahead), NEW i \in S, NEW j \in ahead[i]
    PROVE  Cardinality(ahead[j]) < Cardinality(ahead[i])
<1>1. j \in S /\ ahead[i] \subseteq S /\ ahead[j] \subseteq ahead[i] /\ j \notin ahead[j]
  BY DEF Orders
<1>2. IsFiniteSet(ahead[i]) BY <1>1, FS_Subset
<1>3. ahead[j] # ahead[i] BY <1>1
<1>4. /\ Cardinality(ahead[j]) \in Nat /\ Cardinality(ahead[i]) \in Nat
      /\ Cardinality(ahead[j]) <= Cardinality(ahead[i])
  BY <1>1, <1>2, FS_Subset, FS_CardinalityType
<1>5. Cardinality(ahead[j]) # Cardinality(ahead[i]) BY <1>1, <1>2, <1>3, FS_Subset
<1> QED BY <1>4, <1>5

\* The ranks of a finite set are the numbers up to its size.
LEMMA RanksFill ==
    ASSUME NEW S, IsFiniteSet(S), NEW ahead, Orders(S, ahead)
    PROVE  /\ \A i \in S : Cardinality(ahead[i]) \in 0..(Cardinality(S) - 1)
           /\ \A k \in 1..Cardinality(S) : \E i \in S : Cardinality(ahead[i]) = k - 1
<1> DEFINE rank == [i \in S |-> Cardinality(ahead[i]) + 1]
<1>0. Cardinality(S) \in Nat BY FS_CardinalityType
<1>1. \A i \in S : Cardinality(ahead[i]) \in 0..(Cardinality(S) - 1)
  <2> TAKE i \in S
  <2>1. ahead[i] \subseteq S /\ ahead[i] # S BY DEF Orders
  <2>2. IsFiniteSet(ahead[i]) BY <2>1, FS_Subset
  <2>3. Cardinality(ahead[i]) \in Nat BY <2>2, FS_CardinalityType
  <2>4. Cardinality(ahead[i]) <= Cardinality(S) BY <2>1, FS_Subset
  <2>5. Cardinality(ahead[i]) # Cardinality(S) BY <2>1, FS_Subset
  <2> QED BY <1>0, <2>3, <2>4, <2>5
<1>2. rank \in [S -> 1..Cardinality(S)]
  <2>1. \A i \in S : Cardinality(ahead[i]) + 1 \in 1..Cardinality(S) BY <1>0, <1>1
  <2> QED BY <2>1
<1>3. \A i, j \in S : rank[i] = rank[j] => i = j
  <2> SUFFICES ASSUME NEW i \in S, NEW j \in S, i # j PROVE rank[i] # rank[j]
    OBVIOUS
  <2>1. i \in ahead[j] \/ j \in ahead[i] BY DEF Orders
  <2>2. Cardinality(ahead[i]) # Cardinality(ahead[j]) BY <1>1, <2>1, RankGrows
  <2> QED BY <1>1, <2>2
<1>4. rank \in Injection(S, 1..Cardinality(S)) BY <1>2, <1>3 DEF Injection, IsInjective
<1>5. IsFiniteSet(1..Cardinality(S)) /\ Cardinality(1..Cardinality(S)) = Cardinality(S)
  BY <1>0, FS_Interval
<1>6. rank \in Surjection(S, 1..Cardinality(S)) BY <1>4, <1>5, FS_Injection
<1>7. \A k \in 1..Cardinality(S) : \E i \in S : rank[i] = k BY <1>6 DEF Surjection
<1>8. ASSUME NEW k \in 1..Cardinality(S) PROVE \E i \in S : Cardinality(ahead[i]) = k - 1
  <2>1. PICK i \in S : rank[i] = k BY <1>7
  <2>2. Cardinality(ahead[i]) + 1 = k BY <2>1
  <2> QED BY <1>1, <2>2
<1> QED BY <1>1, <1>8

-------------------------------------------------------------------------------
(* Feeds: the list of a workspace *)

\* What a document's entries are called.
EventNames == UNION {{EventId(doc[i]) : i \in DOMAIN doc} : doc \in Documents}
Event == [feed : FeedIds, event : EventNames, date : Nat]

\* The first place of each event, and what is sorted before it.
Firsts(met) == {i \in DOMAIN met : \A j \in 1..(i - 1) : ~SameEvent(met, i, j)}
Newer(met, j, i) == met[j].date > met[i].date \/ (met[j].date = met[i].date /\ j < i)
Ahead(met) == [i \in Firsts(met) |-> {j \in Firsts(met) : Newer(met, j, i)}]

\* The place in the documents that the list's k-th event comes from.
Source(met, k) == CHOOSE i \in Firsts(met) : Cardinality(Ahead(met)[i]) = k - 1

LEMMA FirstsOrdered ==
    ASSUME NEW met \in Seq(Event)
    PROVE  IsFiniteSet(Firsts(met)) /\ Orders(Firsts(met), Ahead(met))
<1>1. Firsts(met) \subseteq 1..Len(met) /\ Len(met) \in Nat BY DEF Firsts
<1>2. IsFiniteSet(Firsts(met))
  <2>1. IsFiniteSet(1..Len(met)) BY <1>1, FS_Interval
  <2> QED BY <1>1, <2>1, FS_Subset
<1>3. \A i \in Firsts(met) : i \in Nat /\ met[i].date \in Nat
  <2> TAKE i \in Firsts(met)
  <2>1. i \in 1..Len(met) BY <1>1
  <2>2. met[i] \in Event BY <2>1
  <2> QED BY <2>1, <2>2 DEF Event
<1>4. \A i, j \in Firsts(met) : j \in Ahead(met)[i] <=> Newer(met, j, i) BY DEF Ahead
<1>5. \A i \in Firsts(met) : Ahead(met)[i] \subseteq Firsts(met) BY DEF Ahead
<1>6. \A i \in Firsts(met) : i \notin Ahead(met)[i]
  <2> TAKE i \in Firsts(met)
  <2>1. ~Newer(met, i, i) BY <1>3 DEF Newer
  <2> QED BY <1>4, <2>1
<1>7. \A i, j \in Firsts(met) : i # j => i \in Ahead(met)[j] \/ j \in Ahead(met)[i]
  <2> SUFFICES ASSUME NEW i \in Firsts(met), NEW j \in Firsts(met), i # j
               PROVE  i \in Ahead(met)[j] \/ j \in Ahead(met)[i]
    OBVIOUS
  <2>1. i \in Nat /\ j \in Nat /\ met[i].date \in Nat /\ met[j].date \in Nat BY <1>3
  <2>2. Newer(met, i, j) \/ Newer(met, j, i) BY <2>1 DEF Newer
  <2> QED BY <1>4, <2>2
<1>8. \A i, j \in Firsts(met) : j \in Ahead(met)[i] => Ahead(met)[j] \subseteq Ahead(met)[i]
  <2> SUFFICES ASSUME NEW i \in Firsts(met), NEW j \in Firsts(met), j \in Ahead(met)[i],
                      NEW k \in Ahead(met)[j]
               PROVE  k \in Ahead(met)[i]
    OBVIOUS
  <2>1. k \in Firsts(met) BY <1>5
  <2>2. Newer(met, k, j) /\ Newer(met, j, i) BY <1>4, <2>1
  <2>3. Newer(met, k, i) BY <1>3, <2>1, <2>2 DEF Newer
  <2> QED BY <1>4, <2>1, <2>3
<1> QED BY <1>2, <1>5, <1>6, <1>7, <1>8 DEF Orders

LEMMA FeedEventsShape ==
    ASSUME NEW met \in Seq(Event)
    PROVE  /\ FeedEvents(met) \in Seq(Event)
           /\ Len(FeedEvents(met)) = Cardinality(Firsts(met))
           /\ \A k \in 1..Cardinality(Firsts(met)) :
                 /\ Source(met, k) \in Firsts(met)
                 /\ Cardinality(Ahead(met)[Source(met, k)]) = k - 1
                 /\ FeedEvents(met)[k] = met[Source(met, k)]
<1> DEFINE n == Cardinality(Firsts(met))
<1>0. n \in Nat BY FirstsOrdered, FS_CardinalityType
<1>1. FeedEvents(met) = [k \in 1..n |-> met[Source(met, k)]]
  <2>1. \A i \in Firsts(met) : Ahead(met)[i] = {j \in Firsts(met) : Newer(met, j, i)} BY DEF Ahead
  <2> DEFINE plain(k) == CHOOSE i \in Firsts(met) :
                            Cardinality({j \in Firsts(met) : Newer(met, j, i)}) = k - 1
  <2>2. \A k \in 1..n : plain(k) = Source(met, k) BY <2>1 DEF Source
  <2>3. FeedEvents(met) = [k \in 1..n |-> met[plain(k)]] BY DEF FeedEvents, Firsts, Newer
  <2> QED BY <2>2, <2>3
<1>2. \A k \in 1..n : Source(met, k) \in Firsts(met) /\ Cardinality(Ahead(met)[Source(met, k)]) = k - 1
  <2> TAKE k \in 1..n
  <2>1. \E i \in Firsts(met) : Cardinality(Ahead(met)[i]) = k - 1 BY FirstsOrdered, RanksFill
  <2> QED BY <2>1 DEF Source
<1>3. \A k \in 1..n : met[Source(met, k)] \in Event
  <2> TAKE k \in 1..n
  <2>1. Source(met, k) \in 1..Len(met) BY <1>2 DEF Firsts
  <2> QED BY <2>1
<1>4. FeedEvents(met) \in [1..n -> Event] BY <1>1, <1>3
<1>5. FeedEvents(met) \in Seq(Event) BY <1>0, <1>4, SeqDef
<1>6. Len(FeedEvents(met)) = n BY <1>0, <1>1, <1>5, LenProperties
<1> HIDE DEF n
<1>7. \A k \in 1..n : FeedEvents(met)[k] = met[Source(met, k)] BY <1>1
<1> QED BY <1>2, <1>5, <1>6, <1>7 DEF n

\* Every event has a first place.
LEMMA FirstPlace ==
    ASSUME NEW met \in Seq(Event), NEW i \in DOMAIN met
    PROVE  \E j \in Firsts(met) : SameEvent(met, i, j)
<1> DEFINE same == {j \in 1..i : SameEvent(met, i, j)}
<1>0. i \in 1..Len(met) /\ Len(met) \in Nat OBVIOUS
<1>1. i \in same BY <1>0 DEF SameEvent
<1>2. \E j \in same : \A k \in 1..(j - 1) : k \notin same
  <2>1. same \subseteq Nat BY <1>0
  <2>2. PICK j \in same : \A k \in same : <<k, j>> \notin OpToRel(<, Nat)
    <3> HIDE DEF same
    <3> QED BY <1>1, <2>1, NatLessThanWellFounded, WFMin
  <2>3. \A k \in same : ~(k < j) BY <2>1, <2>2 DEF OpToRel
  <2> QED BY <2>1, <2>3
<1>3. PICK j \in same : \A k \in 1..(j - 1) : k \notin same BY <1>2
<1>4. j \in 1..i /\ SameEvent(met, i, j) OBVIOUS
<1>5. ASSUME NEW k \in 1..(j - 1) PROVE ~SameEvent(met, j, k)
  <2>1. k \in 1..i BY <1>0, <1>4
  <2>2. ~SameEvent(met, i, k) BY <1>3, <2>1
  <2> QED BY <1>4, <2>2 DEF SameEvent
<1>6. j \in Firsts(met) BY <1>0, <1>4, <1>5 DEF Firsts
<1> QED BY <1>4, <1>6

\* Each event once, the newest first (the body of EachEventOnce).
NamedOnce(met, events) ==
    /\ {<<e.feed, e.event>> : e \in Elements(events)} = {<<e.feed, e.event>> : e \in Elements(met)}
    /\ \A i, j \in DOMAIN events :
          i < j => /\ <<events[i].feed, events[i].event>> # <<events[j].feed, events[j].event>>
                   /\ events[i].date >= events[j].date

\* The list of a workspace has each event once.
LEMMA ListsEachOnce ==
    ASSUME NEW met \in Seq(Event)
    PROVE  NamedOnce(met, FeedEvents(met))
<1> DEFINE events == FeedEvents(met)
           n == Cardinality(Firsts(met))
<1>0. n \in Nat /\ events \in Seq(Event) /\ DOMAIN events = 1..n
  BY FirstsOrdered, FS_CardinalityType, FeedEventsShape
<1>1. \A k \in 1..n : /\ Source(met, k) \in Firsts(met)
                      /\ Cardinality(Ahead(met)[Source(met, k)]) = k - 1
                      /\ events[k] = met[Source(met, k)]
  BY FeedEventsShape
<1>2. \A i \in Firsts(met) : i \in 1..Len(met) /\ met[i] \in Event /\ met[i].date \in Nat
  <2> TAKE i \in Firsts(met)
  <2>1. i \in 1..Len(met) BY DEF Firsts
  <2>2. met[i] \in Event BY <2>1
  <2> QED BY <2>1, <2>2 DEF Event
<1> HIDE DEF events, n
<1>3. ASSUME NEW i \in Firsts(met) PROVE \E k \in 1..n : events[k] = met[i]
  <2> DEFINE k == Cardinality(Ahead(met)[i]) + 1
  <2>1. k \in 1..n BY <1>0, FirstsOrdered, RanksFill DEF n
  <2>2. Cardinality(Ahead(met)[i]) \in Nat BY FirstsOrdered, RanksFill
  <2>3. Source(met, k) \in Firsts(met) /\ Cardinality(Ahead(met)[Source(met, k)]) = k - 1
    BY <1>1, <2>1
  <2>4. Cardinality(Ahead(met)[Source(met, k)]) = Cardinality(Ahead(met)[i]) BY <2>2, <2>3
  <2>5. Source(met, k) = i
    <3> SUFFICES ASSUME Source(met, k) # i PROVE FALSE
      OBVIOUS
    <3>1. Source(met, k) \in Ahead(met)[i] \/ i \in Ahead(met)[Source(met, k)]
      BY <2>3, FirstsOrdered DEF Orders
    <3>2. CASE Source(met, k) \in Ahead(met)[i]
      <4>1. Cardinality(Ahead(met)[Source(met, k)]) < Cardinality(Ahead(met)[i])
        BY <3>2, FirstsOrdered, RankGrows
      <4> QED BY <2>2, <2>4, <4>1
    <3>3. CASE i \in Ahead(met)[Source(met, k)]
      <4>1. Cardinality(Ahead(met)[i]) < Cardinality(Ahead(met)[Source(met, k)])
        BY <2>3, <3>3, FirstsOrdered, RankGrows
      <4> QED BY <2>2, <2>4, <4>1
    <3> QED BY <3>1, <3>2, <3>3
  <2>6. events[k] = met[i] BY <1>1, <2>1, <2>5
  <2> QED BY <2>1, <2>6
<1>4. {<<e.feed, e.event>> : e \in Elements(events)} = {<<e.feed, e.event>> : e \in Elements(met)}
  <2>1. ASSUME NEW e \in Elements(events)
        PROVE  e \in Elements(met)
    <3>1. PICK k \in 1..n : e = events[k] BY <1>0 DEF Elements
    <3>2. Source(met, k) \in 1..Len(met) /\ e = met[Source(met, k)] BY <1>1, <1>2, <3>1
    <3> QED BY <3>2 DEF Elements
  <2>2. ASSUME NEW e \in Elements(met)
        PROVE  \E d \in Elements(events) : d.feed = e.feed /\ d.event = e.event
    <3>1. PICK i \in DOMAIN met : e = met[i] BY DEF Elements
    <3>2. PICK j \in Firsts(met) : SameEvent(met, i, j) BY FirstPlace
    <3>3. PICK k \in 1..n : events[k] = met[j] BY <1>3
    <3>4. events[k] \in Elements(events) BY <1>0 DEF Elements
    <3> QED BY <3>1, <3>2, <3>3, <3>4 DEF SameEvent
  <2>3. {<<e.feed, e.event>> : e \in Elements(events)} \subseteq {<<e.feed, e.event>> : e \in Elements(met)}
    BY <2>1
  <2>4. ASSUME NEW x \in {<<e.feed, e.event>> : e \in Elements(met)}
        PROVE  x \in {<<e.feed, e.event>> : e \in Elements(events)}
    <3>1. PICK e \in Elements(met) : x = <<e.feed, e.event>> OBVIOUS
    <3>2. PICK d \in Elements(events) : d.feed = e.feed /\ d.event = e.event BY <2>2
    <3>3. x = <<d.feed, d.event>> BY <3>1, <3>2
    <3> QED BY <3>3
  <2> QED BY <2>3, <2>4
<1>5. ASSUME NEW k \in 1..n, NEW l \in 1..n, k < l
      PROVE  /\ <<events[k].feed, events[k].event>> # <<events[l].feed, events[l].event>>
             /\ events[k].date >= events[l].date
  <2> DEFINE i == Source(met, k)
             j == Source(met, l)
  <2>1. /\ i \in Firsts(met) /\ Cardinality(Ahead(met)[i]) = k - 1 /\ events[k] = met[i]
        /\ j \in Firsts(met) /\ Cardinality(Ahead(met)[j]) = l - 1 /\ events[l] = met[j]
    BY <1>1
  <2> HIDE DEF i, j
  <2>0. k \in Nat /\ l \in Nat /\ k < l /\ k - 1 # l - 1
    <3>1. n \in Nat BY <1>0
    <3> QED BY <1>5, <3>1
  <2>2. i # j BY <2>0, <2>1
  <2>3. i \in Ahead(met)[j]
    <3>1. i \in Ahead(met)[j] \/ j \in Ahead(met)[i] BY <2>1, <2>2, FirstsOrdered DEF Orders
    <3>2. ASSUME j \in Ahead(met)[i] PROVE FALSE
      <4>1. Cardinality(Ahead(met)[j]) < Cardinality(Ahead(met)[i])
        BY <2>1, <3>2, FirstsOrdered, RankGrows
      <4>2. l - 1 < k - 1 BY <2>1, <4>1
      <4> QED BY <2>0, <4>2
    <3> QED BY <3>1, <3>2
  <2>4. Newer(met, i, j) BY <2>1, <2>3 DEF Ahead
  <2>5. i \in 1..Len(met) /\ j \in 1..Len(met) /\ met[i].date \in Nat /\ met[j].date \in Nat
    BY <1>2, <2>1
  <2>6. met[i].date >= met[j].date BY <2>4, <2>5 DEF Newer
  <2>7. ~SameEvent(met, i, j) /\ ~SameEvent(met, j, i)
    <3>1. Len(met) \in Nat OBVIOUS
    <3>2. i \in 1..(j - 1) \/ j \in 1..(i - 1) BY <2>2, <2>5, <3>1
    <3>3. ~SameEvent(met, i, j) \/ ~SameEvent(met, j, i) BY <2>1, <3>2 DEF Firsts
    <3> QED BY <3>3 DEF SameEvent
  <2>8. <<met[i].feed, met[i].event>> # <<met[j].feed, met[j].event>> BY <2>7 DEF SameEvent
  <2> QED BY <2>1, <2>6, <2>8
<1>6. NamedOnce(met, events) BY <1>0, <1>4, <1>5 DEF NamedOnce
<1> QED BY <1>6 DEF events

LEMMA NothingMet == FeedEvents(<<>>) = <<>>
<1>1. Firsts(<<>>) = {} BY DEF Firsts
<1>2. Cardinality(Firsts(<<>>)) = 0 BY <1>1, FS_EmptySet
<1>3. <<>> \in Seq(Event) OBVIOUS
<1>4. FeedEvents(<<>>) \in Seq(Event) /\ Len(FeedEvents(<<>>)) = 0 BY <1>2, <1>3, FeedEventsShape
<1> QED BY <1>4, EmptySeq

-------------------------------------------------------------------------------
(* Feeds: the pages of a list *)

LEMMA SelectedAreEvents ==
    ASSUME NEW events \in Seq(Event), NEW selected
    PROVE  OfFeed(events, selected) \in Seq(Event)
<1> DEFINE these == {i \in DOMAIN events : selected = EveryFeed \/ events[i].feed = selected}
           ahead == [i \in these |-> {j \in these : j < i}]
           n == Cardinality(these)
           place(k) == CHOOSE i \in these : Cardinality({j \in these : j < i}) = k - 1
<1>1. these \subseteq 1..Len(events) /\ Len(events) \in Nat OBVIOUS
<1>2. IsFiniteSet(these)
  <2>1. IsFiniteSet(1..Len(events)) BY <1>1, FS_Interval
  <2> QED BY <1>1, <2>1, FS_Subset
<1>3. these \subseteq Nat BY <1>1
<1>4. OfFeed(events, selected) = [k \in 1..n |-> events[place(k)]] BY DEF OfFeed
<1>5. \A i \in these : events[i] \in Event BY <1>1
<1> HIDE DEF these
<1>6. Orders(these, ahead)
  <2>1. \A i \in these : ahead[i] = {j \in these : j < i} OBVIOUS
  <2> HIDE DEF ahead
  <2>2. \A i \in these : ahead[i] \subseteq these /\ i \notin ahead[i] BY <1>3, <2>1
  <2>3. \A i, j \in these : i # j => i \in ahead[j] \/ j \in ahead[i] BY <1>3, <2>1
  <2>4. ASSUME NEW i \in these, NEW j \in these, j \in ahead[i]
        PROVE  ahead[j] \subseteq ahead[i]
    <3>1. j < i /\ \A k \in these : k \in Nat BY <1>3, <2>1, <2>4
    <3>2. ASSUME NEW k \in ahead[j] PROVE k \in ahead[i]
      <4>1. k \in these /\ k < j BY <2>1, <3>2
      <4>2. k < i BY <3>1, <4>1
      <4> QED BY <2>1, <4>1, <4>2
    <3> QED BY <3>2
  <2> QED BY <2>2, <2>3, <2>4 DEF Orders
<1>7. \A k \in 1..n : \E i \in these : Cardinality(ahead[i]) = k - 1
  <2> HIDE DEF ahead
  <2> QED BY <1>2, <1>6, RanksFill
<1>8. \A k \in 1..n : \E i \in these : Cardinality({j \in these : j < i}) = k - 1 BY <1>7
<1>9. \A k \in 1..n : place(k) \in these BY <1>8
<1>10. n \in Nat BY <1>2, FS_CardinalityType
<1> HIDE DEF place, n
<1>11. [k \in 1..n |-> events[place(k)]] \in [1..n -> Event] BY <1>5, <1>9
<1> QED BY <1>4, <1>10, <1>11, SeqDef

AtMost(n, s) == IF n < Len(s) THEN n ELSE Len(s)
PageOf(s, from) == SubSeq(s, from + 1, IF HasMore(s, from) THEN from + FeedPage ELSE Len(s))

\* The first page is the start of its list.
LEMMA FirstPage ==
    ASSUME NEW s \in Seq(Event)
    PROVE  PageOf(s, 0) = SubSeq(s, 1, AtMost(FeedPage, s))
<1>1. Len(s) \in Nat /\ FeedPage \in Nat \ {0} BY FeedAssumption
<1> QED BY <1>1 DEF PageOf, AtMost, HasMore

\* Another page goes on where the last one ended.
LEMMA NextPage ==
    ASSUME NEW s \in Seq(Event), NEW from \in Nat
    PROVE  SubSeq(s, 1, AtMost(from, s)) \o PageOf(s, from) = SubSeq(s, 1, AtMost(from + FeedPage, s))
<1>1. Len(s) \in Nat /\ FeedPage \in Nat \ {0} BY FeedAssumption
<1> DEFINE m == AtMost(from, s)
           n == AtMost(from + FeedPage, s)
<1>2. m \in 0..Len(s) /\ n \in 0..Len(s) /\ m <= n BY <1>1 DEF AtMost
<1>3. PageOf(s, from) = SubSeq(s, m + 1, n)
  <2>1. CASE from < Len(s) BY <1>1, <2>1 DEF PageOf, AtMost, HasMore
  <2>2. CASE ~(from < Len(s))
    <3>1. m = Len(s) /\ n = Len(s) /\ ~HasMore(s, from) BY <1>1, <2>2 DEF AtMost, HasMore
    <3>2. PageOf(s, from) = SubSeq(s, from + 1, Len(s)) BY <3>1 DEF PageOf
    <3>3. SubSeq(s, from + 1, Len(s)) = << >> /\ SubSeq(s, m + 1, n) = << >>
      <4>1. from + 1 > Len(s) /\ m + 1 > n /\ from + 1 \in Nat BY <1>1, <2>2, <3>1
      <4> HIDE DEF m, n
      <4> QED BY <1>1, <1>2, <4>1, SubSeqProperties
    <3> QED BY <3>2, <3>3
  <2> QED BY <2>1, <2>2
<1> HIDE DEF m, n
<1>4. SubSeq(s, 1, m) \o SubSeq(s, m + 1, n) = SubSeq(s, 1, n)
  BY <1>1, <1>2, SubSeqProperties, ConcatProperties
<1> QED BY <1>3, <1>4 DEF m, n

-------------------------------------------------------------------------------
(* Feeds: what the cache, the calls and the tabs hold *)

FeedRow == [id : FeedIds, url : FeedUrls]
EventList == [signature : SUBSET FeedIds, met : Seq(Event), events : Seq(Event)]
FeedCall == [step : {"idle", "list", "cache", "fetch", "validate", "exists", "create", "bust"},
             url : FeedUrls \cup {"none"}, explore : BOOLEAN,
             selected : {EveryFeed} \cup FeedIds, from : Nat,
             listed : SUBSET FeedRow, todo : SUBSET FeedRow, met : Seq(Event)]
TabView == [selected : {EveryFeed} \cup FeedIds, listed : SUBSET FeedRow, list : EventList,
            shown : Seq(Event), next : Nat, more : BOOLEAN, steady : BOOLEAN]

FeedTypes ==
    /\ feeds \in SUBSET FeedRow /\ listCache \in EventList
    /\ load \in [FeedTabs -> FeedCall] /\ view \in [FeedTabs -> TabView]
    /\ lastFeedId \in 0..MaxFeedIds /\ feedOps \in 0..MaxFeedOps

-------------------------------------------------------------------------------
(* Feeds: the invariant *)

\* A list is what was met, sorted, and it was met in the feeds of its signature.
ListTrue(list) ==
    /\ list.events = FeedEvents(list.met)
    /\ \A i \in DOMAIN list.met : list.met[i].feed \in list.signature

\* What a request has met is of the feeds it read; it goes on where its tab ends.
CallTrue(r, v) ==
    /\ r.todo \subseteq r.listed
    /\ r.step # "fetch" => r.met = <<>> /\ r.todo = {}
    /\ \A i \in DOMAIN r.met : r.met[i].feed \in IdsOf(r.listed)
    /\ r.from > 0 => r.from = v.next
    /\ r.step \in {"validate", "exists", "create"} => r.url \in FeedUrls

\* A tab that was always shown the same list shows its beginning.
ViewTrue(v) ==
    /\ ListTrue(v.list) /\ v.list.signature = IdsOf(v.listed)
    /\ v.steady =>
          LET events == OfFeed(v.list.events, v.selected)
          IN  v.shown = SubSeq(events, 1, AtMost(v.next, events)) /\ (v.more <=> v.next < Len(events))

FeedCalls == \A t \in FeedTabs : CallTrue(load[t], view[t])
TabViews == \A t \in FeedTabs : ViewTrue(view[t])

FeedInv == FeedTypes /\ FeedCalls /\ TabViews /\ ListTrue(listCache) /\ OneFeedPerUrl

LEMMA NoListTrue == NoList \in EventList /\ ListTrue(NoList)
<1>1. <<>> \in Seq(Event) OBVIOUS
<1>2. NoList \in EventList BY <1>1 DEF NoList, EventList
<1> QED BY <1>2, NothingMet DEF NoList, ListTrue

LEMMA NoRequestTrue ==
    /\ NoFeedRequest \in FeedCall
    /\ \A v : CallTrue(NoFeedRequest, v)
<1>1. <<>> \in Seq(Event) OBVIOUS
<1> QED BY <1>1 DEF NoFeedRequest, FeedCall, CallTrue

LEMMA FeedInvInit == FeedInit => FeedInv
<1> SUFFICES ASSUME FeedInit PROVE FeedInv
  OBVIOUS
<1>1. PICK urls \in FirstFeeds : /\ feeds = {[id |-> i, url |-> urls[i]] : i \in DOMAIN urls}
                                 /\ lastFeedId = Len(urls)
  BY DEF FeedInit
<1>2. /\ urls \in Seq(FeedUrls) /\ Len(urls) <= MaxFeedIds /\ MaxFeedIds \in Nat
      /\ \A i, j \in DOMAIN urls : urls[i] = urls[j] => i = j
  BY FeedAssumption
<1>3. Len(urls) \in Nat /\ DOMAIN urls = 1..Len(urls) BY <1>2
<1>4. \A i \in DOMAIN urls : i \in FeedIds /\ urls[i] \in FeedUrls BY <1>2, <1>3 DEF FeedIds
<1>5. feeds \in SUBSET FeedRow BY <1>1, <1>4 DEF FeedRow
<1>6. OneFeedPerUrl BY <1>1, <1>2 DEF OneFeedPerUrl
<1>7. EmptyView \in TabView /\ ViewTrue(EmptyView)
  <2>1. <<>> \in Seq(Event) OBVIOUS
  <2>2. EmptyView \in TabView BY <2>1, NoListTrue DEF EmptyView, TabView
  <2>3. OfFeed(<<>>, EveryFeed) = <<>>
    <3>1. {i \in DOMAIN <<>> : EveryFeed = EveryFeed \/ <<>>[i].feed = EveryFeed} = {} OBVIOUS
    <3>2. DOMAIN OfFeed(<<>>, EveryFeed) = 1..0 BY <3>1, FS_EmptySet DEF OfFeed
    <3>3. OfFeed(<<>>, EveryFeed) \in Seq(Event) BY <2>1, SelectedAreEvents
    <3>4. Len(OfFeed(<<>>, EveryFeed)) = 0
      <4>1. Len(OfFeed(<<>>, EveryFeed)) \in Nat /\ DOMAIN OfFeed(<<>>, EveryFeed) = 1..Len(OfFeed(<<>>, EveryFeed))
        BY <3>3
      <4> QED BY <3>2, <4>1
    <3> QED BY <3>3, <3>4, EmptySeq
  <2>4. SubSeq(<<>>, 1, 0) = <<>> OBVIOUS
  <2> QED BY <2>2, <2>3, <2>4, NoListTrue DEF EmptyView, ViewTrue, NoList, IdsOf, AtMost
<1>8. FeedTypes BY <1>1, <1>2, <1>3, <1>5, <1>7, NoListTrue, NoRequestTrue, FeedAssumption DEF FeedTypes, FeedInit
<1>9. FeedCalls /\ TabViews BY <1>7, NoRequestTrue DEF FeedInit, FeedCalls, TabViews
<1> QED BY <1>6, <1>8, <1>9, NoListTrue DEF FeedInv, FeedInit

-------------------------------------------------------------------------------
(* Feeds: what each step does *)

LEMMA CallKeeps ==
    ASSUME FeedInv, NEW t \in FeedTabs, NEW r \in FeedCall, CallTrue(r, view[t]),
           load' = [load EXCEPT ![t] = r], view' = view
    PROVE  load' \in [FeedTabs -> FeedCall] /\ FeedCalls' /\ TabViews'
<1>1. load \in [FeedTabs -> FeedCall] BY DEF FeedInv, FeedTypes
<1>2. load' \in [FeedTabs -> FeedCall] BY <1>1
<1>3. \A u \in FeedTabs : load'[u] = IF u = t THEN r ELSE load[u] BY <1>1
<1>4. FeedCalls' BY <1>3 DEF FeedInv, FeedCalls
<1>5. TabViews' BY DEF FeedInv, TabViews
<1> QED BY <1>2, <1>4, <1>5

\* What is left of FeedInv when the subscriptions or the cache do not change.
LEMMA FeedRest ==
    ASSUME FeedInv, load' \in [FeedTabs -> FeedCall], FeedCalls', TabViews', view' \in [FeedTabs -> TabView],
           feeds' = feeds, lastFeedId' = lastFeedId, feedOps' \in 0..MaxFeedOps,
           listCache' \in EventList, ListTrue(listCache')
    PROVE  FeedInv'
<1>1. FeedTypes' BY DEF FeedInv, FeedTypes
<1>2. OneFeedPerUrl' BY DEF FeedInv, OneFeedPerUrl
<1>3. ListTrue(listCache)' BY DEF ListTrue, IdsOf, FeedEvents, SameEvent
<1> QED BY <1>1, <1>2, <1>3 DEF FeedInv

LEMMA ShowKeeps ==
    ASSUME FeedInv, NEW t \in FeedTabs, NEW list \in EventList, ListTrue(list),
           list.signature = IdsOf(load[t].listed), Show(t, list)
    PROVE  /\ load' \in [FeedTabs -> FeedCall] /\ view' \in [FeedTabs -> TabView]
           /\ FeedCalls' /\ TabViews'
<1> DEFINE r == load[t]
           v == view[t]
           events == OfFeed(list.events, r.selected)
           w == [selected |-> r.selected, listed |-> r.listed, list |-> list,
                 shown |-> IF r.from > 0 THEN v.shown \o PageOf(events, r.from)
                           ELSE PageOf(events, r.from),
                 next |-> r.from + FeedPage, more |-> HasMore(events, r.from),
                 steady |-> r.from > 0 => v.steady /\ list = v.list /\ r.selected = v.selected]
<1>0. r \in FeedCall /\ v \in TabView /\ CallTrue(r, v) /\ ViewTrue(v)
  BY DEF FeedInv, FeedTypes, FeedCalls, TabViews
<1>1. load \in [FeedTabs -> FeedCall] /\ view \in [FeedTabs -> TabView] BY DEF FeedInv, FeedTypes
<1>2. view' = [view EXCEPT ![t] = w] /\ load' = [load EXCEPT ![t] = NoFeedRequest]
  BY <1>1 DEF Show, PageOf
<1>3. /\ r.selected \in {EveryFeed} \cup FeedIds /\ r.listed \in SUBSET FeedRow /\ r.from \in Nat
      /\ v.shown \in Seq(Event) /\ v.steady \in BOOLEAN /\ v.next \in Nat
  BY <1>0 DEF FeedCall, TabView
<1>4. list.events \in Seq(Event) BY DEF EventList
<1>5. events \in Seq(Event) BY <1>4, SelectedAreEvents
<1>6. Len(events) \in Nat /\ FeedPage \in Nat \ {0} BY <1>5, FeedAssumption
<1> HIDE DEF r, v
<1>7. PageOf(events, r.from) \in Seq(Event)
  <2> HIDE DEF events
  <2>1. \A n \in Int : SubSeq(events, r.from + 1, n) \in Seq(Event) \/ ~(n <= Len(events))
    BY <1>3, <1>5, <1>6, SubSeqProperties
  <2>2. HasMore(events, r.from) => r.from + FeedPage <= Len(events) /\ r.from + FeedPage \in Int
    BY <1>3, <1>6 DEF HasMore
  <2> QED BY <1>6, <2>1, <2>2 DEF PageOf
<1>8. HasMore(events, r.from) \in BOOLEAN BY DEF HasMore
<1>9. w \in TabView
  <2> HIDE DEF events
  <2>1. v.shown \o PageOf(events, r.from) \in Seq(Event) BY <1>3, <1>7
  <2> QED BY <1>3, <1>6, <1>7, <1>8, <2>1 DEF TabView
<1>10. ViewTrue(w)
  <2>1. ListTrue(w.list) /\ w.list.signature = IdsOf(w.listed) BY DEF r
  <2>2. OfFeed(w.list.events, w.selected) = events OBVIOUS
  <2>3. w.more <=> w.next < Len(events) BY DEF HasMore
  <2>4. ASSUME w.steady PROVE w.shown = SubSeq(events, 1, AtMost(w.next, events))
    <3>1. CASE r.from = 0
      <4>1. w.shown = PageOf(events, 0) /\ w.next = FeedPage BY <1>6, <3>1
      <4> QED BY <1>5, <4>1, FirstPage
    <3>2. CASE r.from > 0
      <4>1. v.steady /\ list = v.list /\ r.selected = v.selected BY <2>4, <3>2
      <4>2. v.next = r.from BY <1>0, <3>2 DEF CallTrue
      <4>3. v.shown = SubSeq(events, 1, AtMost(r.from, events)) BY <1>0, <4>1, <4>2 DEF ViewTrue
      <4>4. w.shown = v.shown \o PageOf(events, r.from) /\ w.next = r.from + FeedPage BY <3>2
      <4> QED BY <1>3, <1>5, <4>3, <4>4, NextPage
    <3>3. r.from = 0 \/ r.from > 0 BY <1>3
    <3> HIDE DEF w, events
    <3> QED BY <3>1, <3>2, <3>3
  <2> HIDE DEF w, events
  <2> QED BY <2>1, <2>2, <2>3, <2>4 DEF ViewTrue
<1> HIDE DEF w
<1>11. load' \in [FeedTabs -> FeedCall] /\ view' \in [FeedTabs -> TabView]
  BY <1>1, <1>2, <1>9, NoRequestTrue
<1>12. \A u \in FeedTabs : u # t => load'[u] = load[u] /\ view'[u] = view[u] BY <1>1, <1>2
<1>13. load'[t] = NoFeedRequest /\ view'[t] = w BY <1>1, <1>2
<1>14. FeedCalls' BY <1>12, <1>13, NoRequestTrue DEF FeedInv, FeedCalls
<1>15. TabViews' BY <1>10, <1>12, <1>13 DEF FeedInv, TabViews
<1> QED BY <1>11, <1>14, <1>15

\* Begins a request, or is one of the steps that only write the request down.
LEMMA ViewBeginKeeps ==
    ASSUME FeedInv, NEW t \in FeedTabs, NEW r \in FeedCall, CallTrue(r, view[t]),
           FeedRequest(t, r), view' = view, feeds' = feeds, listCache' = listCache,
           lastFeedId' = lastFeedId
    PROVE  FeedInv'
<1>1. load' = [load EXCEPT ![t] = r] BY DEF FeedRequest
<1>2. load' \in [FeedTabs -> FeedCall] /\ FeedCalls' /\ TabViews' BY <1>1, CallKeeps
<1>3. feedOps' \in 0..MaxFeedOps BY FeedAssumption DEF FeedRequest, FeedInv, FeedTypes
<1>4. view' \in [FeedTabs -> TabView] /\ listCache' \in EventList /\ ListTrue(listCache')
  BY DEF FeedInv, FeedTypes
<1> QED BY <1>2, <1>3, <1>4, FeedRest

LEMMA FeedStepKeeps ==
    ASSUME FeedInv, NEW t \in FeedTabs, NEW r \in FeedCall, CallTrue(r, view[t]),
           load' = [load EXCEPT ![t] = r], view' = view, feeds' = feeds,
           listCache' \in EventList, ListTrue(listCache'), lastFeedId' = lastFeedId, feedOps' = feedOps
    PROVE  FeedInv'
<1>2. load' \in [FeedTabs -> FeedCall] /\ FeedCalls' /\ TabViews' BY CallKeeps
<1>4. view' \in [FeedTabs -> TabView] /\ feedOps' \in 0..MaxFeedOps BY DEF FeedInv, FeedTypes
<1> QED BY <1>2, <1>4, FeedRest

LEMMA FeedsOf == ASSUME FeedInv, NEW t \in FeedTabs
                 PROVE  /\ load \in [FeedTabs -> FeedCall] /\ load[t] \in FeedCall
                        /\ view[t] \in TabView
                        /\ CallTrue(load[t], view[t]) /\ ViewTrue(view[t])
                        /\ listCache \in EventList /\ ListTrue(listCache)
                        /\ feeds \in SUBSET FeedRow
  BY DEF FeedInv, FeedTypes, FeedCalls, TabViews

LEMMA FeedListKeeps ==
    ASSUME FeedInv, NEW t \in FeedTabs, NEW selected \in {EveryFeed} \cup FeedIds, FeedList(t, selected)
    PROVE  FeedInv'
<1> DEFINE r == [NoFeedRequest EXCEPT !.step = "list", !.selected = selected]
<1>1. r \in FeedCall /\ CallTrue(r, view[t])
  BY NoRequestTrue DEF NoFeedRequest, FeedCall, CallTrue
<1>2. FeedRequest(t, r) BY DEF FeedList
<1> HIDE DEF r
<1> QED BY <1>1, <1>2, ViewBeginKeeps DEF FeedList

LEMMA FeedListAppendKeeps ==
    ASSUME FeedInv, NEW t \in FeedTabs, FeedListAppend(t)
    PROVE  FeedInv'
<1> DEFINE r == [NoFeedRequest EXCEPT !.step = "list",
                                      !.selected = view[t].selected, !.from = view[t].next]
<1>0. view[t].selected \in {EveryFeed} \cup FeedIds /\ view[t].next \in Nat BY FeedsOf DEF TabView
<1>1. r \in FeedCall /\ CallTrue(r, view[t])
  BY <1>0, NoRequestTrue DEF NoFeedRequest, FeedCall, CallTrue
<1>2. FeedRequest(t, r) BY DEF FeedListAppend
<1> HIDE DEF r
<1> QED BY <1>1, <1>2, ViewBeginKeeps DEF FeedListAppend

LEMMA ReadFeedsKeeps ==
    ASSUME FeedInv, NEW t \in FeedTabs, ReadFeeds(t)
    PROVE  FeedInv'
<1> DEFINE sel == NormalizeSelected(load[t].selected, feeds)
           r == [load[t] EXCEPT !.step = "cache", !.listed = feeds, !.selected = sel]
<1>0. load[t] \in FeedCall /\ CallTrue(load[t], view[t]) /\ feeds \in SUBSET FeedRow
      /\ load[t].step = "list"
  BY FeedsOf DEF ReadFeeds
<1>1. sel \in {EveryFeed} \cup FeedIds BY <1>0 DEF NormalizeSelected, FeedCall
<1> HIDE DEF sel
<1>2. load[t].met = <<>> /\ load[t].todo = {} BY <1>0 DEF CallTrue
<1>3. r \in FeedCall BY <1>0, <1>1 DEF FeedCall
<1>4. CallTrue(r, view[t])
  <2>1. r.met = <<>> /\ r.todo = {} /\ r.from = load[t].from /\ r.step = "cache"
    BY <1>0, <1>2 DEF FeedCall
  <2> HIDE DEF r
  <2> QED BY <1>0, <2>1 DEF CallTrue
<1>5. load' = [load EXCEPT ![t] = r] BY FeedsOf DEF ReadFeeds, sel
<1> HIDE DEF r
<1> QED BY <1>3, <1>4, <1>5, FeedsOf, FeedStepKeeps DEF ReadFeeds

LEMMA GetCachedEventsKeeps ==
    ASSUME FeedInv, NEW t \in FeedTabs, GetCachedEvents(t)
    PROVE  FeedInv'
<1>0. load[t] \in FeedCall /\ CallTrue(load[t], view[t]) /\ load[t].step = "cache"
      /\ listCache' = listCache /\ feeds' = feeds /\ lastFeedId' = lastFeedId /\ feedOps' = feedOps
      /\ listCache \in EventList /\ ListTrue(listCache) /\ feedOps \in 0..MaxFeedOps
  BY FeedsOf DEF GetCachedEvents, FeedInv, FeedTypes
<1>1. CASE CacheHit(t)
  <2>1. Show(t, listCache) /\ listCache.signature = IdsOf(load[t].listed)
    BY <1>1 DEF GetCachedEvents, CacheHit
  <2>2. /\ load' \in [FeedTabs -> FeedCall] /\ view' \in [FeedTabs -> TabView] /\ FeedCalls' /\ TabViews'
    BY <1>0, <2>1, ShowKeeps
  <2> QED BY <1>0, <2>2, FeedRest
<1>2. CASE ~CacheHit(t)
  <2> DEFINE r == [load[t] EXCEPT !.step = "fetch", !.todo = load[t].listed]
  <2>1. load' = [load EXCEPT ![t] = r] /\ view' = view BY <1>2, FeedsOf DEF GetCachedEvents
  <2>2. load[t].met = <<>> BY <1>0 DEF CallTrue
  <2>3. r \in FeedCall BY <1>0 DEF FeedCall
  <2>4. r.met = <<>> /\ r.todo = r.listed /\ r.from = load[t].from /\ r.step = "fetch"
    BY <1>0, <2>2 DEF FeedCall
  <2> HIDE DEF r
  <2>5. CallTrue(r, view[t]) BY <1>0, <2>4 DEF CallTrue
  <2> QED BY <1>0, <2>1, <2>3, <2>5, FeedStepKeeps
<1> QED BY <1>1, <1>2

LEMMA FetchFeedKeeps ==
    ASSUME FeedInv, NEW t \in FeedTabs, NEW f \in load[t].todo, NEW doc \in Documents, FetchFeed(t, f, doc)
    PROVE  FeedInv'
<1> DEFINE more == EventsOf(f, doc)
           r == [load[t] EXCEPT !.todo = load[t].todo \ {f}, !.met = load[t].met \o more]
<1>0. load[t] \in FeedCall /\ CallTrue(load[t], view[t]) /\ load[t].step = "fetch"
  BY FeedsOf DEF FetchFeed
<1>1. f \in load[t].listed /\ load[t].listed \in SUBSET FeedRow /\ load[t].met \in Seq(Event)
      /\ load[t].todo \in SUBSET FeedRow
  BY <1>0 DEF CallTrue, FeedCall
<1>2. f.id \in IdsOf(load[t].listed) /\ f.id \in FeedIds BY <1>1 DEF IdsOf, FeedRow
<1>3. more \in Seq(Event) /\ \A i \in DOMAIN more : more[i].feed = f.id
  <2> DEFINE n == IF Len(doc) < EntriesRead THEN Len(doc) ELSE EntriesRead
  <2>1. /\ Len(doc) \in Nat /\ DOMAIN doc = 1..Len(doc) /\ EntriesRead \in Nat
        /\ \A i \in DOMAIN doc : doc[i].date \in Nat
    BY FeedAssumption
  <2>2. n \in Nat /\ 1..n \subseteq DOMAIN doc BY <2>1
  <2>3. more = [i \in 1..n |-> [feed |-> f.id, event |-> EventId(doc[i]), date |-> doc[i].date]]
    BY DEF EventsOf
  <2> HIDE DEF n
  <2>4. \A i \in 1..n : [feed |-> f.id, event |-> EventId(doc[i]), date |-> doc[i].date] \in Event
    BY <1>2, <2>1, <2>2 DEF Event, EventNames
  <2>5. more \in [1..n -> Event] BY <2>3, <2>4
  <2>6. more \in Seq(Event) BY <2>2, <2>5, SeqDef
  <2> QED BY <2>3, <2>6
<1> HIDE DEF more
<1>4. r \in FeedCall
  <2>1. load[t].met \o more \in Seq(Event) BY <1>1, <1>3
  <2>2. load[t].todo \ {f} \in SUBSET FeedRow BY <1>1
  <2> QED BY <1>0, <2>1, <2>2 DEF FeedCall
<1>5. /\ r.todo = load[t].todo \ {f} /\ r.met = load[t].met \o more /\ r.step = "fetch"
      /\ r.listed = load[t].listed /\ r.from = load[t].from
  BY <1>0 DEF FeedCall
<1>6. load' = [load EXCEPT ![t] = r] BY FeedsOf DEF FetchFeed, more
<1> HIDE DEF r
<1>7. \A i \in DOMAIN r.met : r.met[i].feed \in IdsOf(r.listed)
  <2> TAKE i \in DOMAIN r.met
  <2> DEFINE old == load[t].met
  <2>1. Len(old) \in Nat /\ Len(more) \in Nat /\ DOMAIN old = 1..Len(old) /\ DOMAIN more = 1..Len(more)
    BY <1>1, <1>3
  <2>2. Len(r.met) = Len(old) + Len(more) /\ i \in 1..Len(r.met)
        /\ r.met[i] = IF i <= Len(old) THEN old[i] ELSE more[i - Len(old)]
    BY <1>1, <1>3, <1>5, ConcatProperties
  <2>3. CASE i <= Len(old)
    <3>1. i \in DOMAIN old /\ r.met[i] = old[i] BY <2>1, <2>2, <2>3
    <3> QED BY <1>0, <1>5, <3>1 DEF CallTrue
  <2>4. CASE ~(i <= Len(old))
    <3>1. i - Len(old) \in DOMAIN more /\ r.met[i] = more[i - Len(old)] BY <2>1, <2>2, <2>4
    <3>2. r.met[i].feed = f.id BY <1>3, <3>1
    <3> QED BY <1>2, <1>5, <3>2
  <2> QED BY <2>3, <2>4
<1>8. CallTrue(r, view[t]) BY <1>0, <1>5, <1>7 DEF CallTrue
<1> QED BY <1>4, <1>6, <1>8, FeedsOf, FeedStepKeeps DEF FetchFeed

LEMMA StoreEventsKeeps ==
    ASSUME FeedInv, NEW t \in FeedTabs, StoreEvents(t)
    PROVE  FeedInv'
<1> DEFINE list == [signature |-> IdsOf(load[t].listed), met |-> load[t].met,
                    events |-> FeedEvents(load[t].met)]
<1>0. load[t] \in FeedCall /\ CallTrue(load[t], view[t]) BY FeedsOf
<1>1. load[t].met \in Seq(Event) /\ IdsOf(load[t].listed) \in SUBSET FeedIds
  BY <1>0 DEF FeedCall, IdsOf, FeedRow
<1>2. list \in EventList BY <1>1, FeedEventsShape DEF EventList
<1>3. ListTrue(list) /\ list.signature = IdsOf(load[t].listed) BY <1>0 DEF ListTrue, CallTrue
<1>4. listCache' = list /\ Show(t, list) /\ feeds' = feeds /\ lastFeedId' = lastFeedId
      /\ feedOps' = feedOps
  BY DEF StoreEvents
<1> HIDE DEF list
<1>5. load' \in [FeedTabs -> FeedCall] /\ view' \in [FeedTabs -> TabView] /\ FeedCalls' /\ TabViews'
  BY <1>2, <1>3, <1>4, ShowKeeps
<1>6. feedOps' \in 0..MaxFeedOps BY <1>4 DEF FeedInv, FeedTypes
<1> QED BY <1>2, <1>3, <1>4, <1>5, <1>6, FeedRest

\* A request that is over, or whose step alone changes to one that has met nothing.
LEMMA PlainStepKeeps ==
    ASSUME FeedInv, NEW t \in FeedTabs, load[t].step # "fetch",
           NEW s \in {"list", "exists", "create", "bust"},
           s \in {"exists", "create"} => load[t].step \in {"validate", "exists"},
           load' = [load EXCEPT ![t].step = s] \/ load' = [load EXCEPT ![t] = NoFeedRequest],
           view' = view, feeds' = feeds, lastFeedId' = lastFeedId, feedOps' = feedOps,
           listCache' \in EventList, ListTrue(listCache')
    PROVE  FeedInv'
<1> DEFINE r == [load[t] EXCEPT !.step = s]
<1>0. load[t] \in FeedCall /\ CallTrue(load[t], view[t]) BY FeedsOf
<1>1. CASE load' = [load EXCEPT ![t].step = s]
  <2>1. load' = [load EXCEPT ![t] = r] BY <1>1, FeedsOf
  <2>2. r \in FeedCall BY <1>0 DEF FeedCall
  <2>3. r.met = load[t].met /\ r.todo = load[t].todo /\ r.listed = load[t].listed
        /\ r.from = load[t].from /\ r.url = load[t].url /\ r.step = s
    BY <1>0 DEF FeedCall
  <2> HIDE DEF r
  <2>4. CallTrue(r, view[t]) BY <1>0, <2>3 DEF CallTrue
  <2> QED BY <2>1, <2>2, <2>4, FeedStepKeeps
<1>2. CASE load' = [load EXCEPT ![t] = NoFeedRequest] BY <1>2, NoRequestTrue, FeedStepKeeps
<1> QED BY <1>1, <1>2

LEMMA FeedAddKeeps ==
    ASSUME FeedInv, NEW t \in FeedTabs, NEW url \in FeedUrls, NEW explore \in BOOLEAN,
           FeedAdd(t, url, explore)
    PROVE  FeedInv'
<1> DEFINE r == [NoFeedRequest EXCEPT !.step = IF explore THEN "exists" ELSE "validate",
                                      !.url = url, !.explore = explore]
<1>1. r \in FeedCall /\ CallTrue(r, view[t])
  BY NoRequestTrue DEF NoFeedRequest, FeedCall, CallTrue
<1>2. FeedRequest(t, r) BY DEF FeedAdd
<1> HIDE DEF r
<1> QED BY <1>1, <1>2, ViewBeginKeeps DEF FeedAdd

LEMMA SubscribingKeeps ==
    ASSUME FeedInv, NEW t \in FeedTabs,
           \/ \E valid \in BOOLEAN : ValidateRssUrl(t, valid)
           \/ CheckSubscribed(t) \/ BustCache(t) \/ FeedRequestDies(t)
    PROVE  FeedInv'
<1>0. listCache \in EventList /\ ListTrue(listCache) BY FeedsOf
<1>1. ASSUME NEW valid \in BOOLEAN, ValidateRssUrl(t, valid) PROVE FeedInv'
  <2>1. PICK s \in {"list", "exists"} : load' = [load EXCEPT ![t].step = s]
    BY <1>1 DEF ValidateRssUrl
  <2> QED BY <1>0, <1>1, <2>1, PlainStepKeeps DEF ValidateRssUrl
<1>2. ASSUME CheckSubscribed(t) PROVE FeedInv'
  <2>1. PICK s \in {"list", "create"} :
           load' = [load EXCEPT ![t].step = s] \/ load' = [load EXCEPT ![t] = NoFeedRequest]
    BY <1>2 DEF CheckSubscribed, FeedsRendered
  <2> QED BY <1>0, <1>2, <2>1, PlainStepKeeps DEF CheckSubscribed
<1>3. ASSUME BustCache(t) PROVE FeedInv'
  <2>1. load' = [load EXCEPT ![t].step = "list"] \/ load' = [load EXCEPT ![t] = NoFeedRequest]
    BY <1>3 DEF BustCache, FeedsRendered
  <2> QED BY <1>3, <2>1, NoListTrue, PlainStepKeeps DEF BustCache
<1>4. ASSUME FeedRequestDies(t) PROVE FeedInv'
  BY <1>0, <1>4, NoRequestTrue, FeedStepKeeps DEF FeedRequestDies
<1> QED BY <1>1, <1>2, <1>3, <1>4

\* CreateFeed and FeedDelete: the subscriptions change.
LEMMA SubscriptionsKeep ==
    ASSUME FeedInv, NEW t \in FeedTabs, NEW r \in FeedCall, CallTrue(r, view[t]),
           load' = [load EXCEPT ![t] = r], view' = view, listCache' = listCache,
           feeds' \in SUBSET FeedRow, lastFeedId' \in 0..MaxFeedIds, feedOps' \in 0..MaxFeedOps,
           OneFeedPerUrl'
    PROVE  FeedInv'
<1>1. load' \in [FeedTabs -> FeedCall] /\ FeedCalls' /\ TabViews' BY CallKeeps
<1>2. FeedTypes' BY <1>1 DEF FeedInv, FeedTypes
<1>3. ListTrue(listCache)' BY DEF FeedInv, ListTrue
<1> QED BY <1>1, <1>2, <1>3 DEF FeedInv

LEMMA CreateFeedKeeps ==
    ASSUME FeedInv, NEW t \in FeedTabs, CreateFeed(t)
    PROVE  FeedInv'
<1>0. load[t] \in FeedCall /\ CallTrue(load[t], view[t]) /\ load[t].step = "create"
      /\ feeds \in SUBSET FeedRow /\ lastFeedId \in 0..MaxFeedIds /\ feedOps \in 0..MaxFeedOps
      /\ lastFeedId < MaxFeedIds /\ view' = view /\ listCache' = listCache /\ feedOps' = feedOps
      /\ MaxFeedIds \in Nat
  BY FeedsOf, FeedAssumption DEF CreateFeed, FeedInv, FeedTypes
<1>1. CASE ~UniqueUrl(load[t].url)
  BY <1>0, <1>1, NoRequestTrue, FeedsOf, FeedStepKeeps DEF CreateFeed
<1>2. CASE UniqueUrl(load[t].url)
  <2> DEFINE f == [id |-> lastFeedId + 1, url |-> load[t].url]
             r == [load[t] EXCEPT !.step = "bust"]
  <2>1. feeds' = feeds \cup {f} /\ lastFeedId' = lastFeedId + 1 /\ load' = [load EXCEPT ![t] = r]
    BY <1>2, FeedsOf DEF CreateFeed
  <2>2. load[t].url \in FeedUrls BY <1>0 DEF CallTrue
  <2>3. FeedInv'
    <3>1. f \in FeedRow BY <1>0, <2>2 DEF FeedRow, FeedIds
    <3>2. OneFeedPerUrl'
      BY <1>2, <2>1 DEF OneFeedPerUrl, UniqueUrl, FeedInv
    <3>3. r \in FeedCall /\ r.met = load[t].met /\ r.todo = load[t].todo /\ r.listed = load[t].listed
          /\ r.from = load[t].from /\ r.step = "bust"
      BY <1>0 DEF FeedCall
    <3> HIDE DEF r, f
    <3>4. CallTrue(r, view[t]) BY <1>0, <3>3 DEF CallTrue
    <3>5. feeds' \in SUBSET FeedRow /\ lastFeedId' \in 0..MaxFeedIds BY <1>0, <2>1, <3>1
    <3> QED BY <1>0, <2>1, <3>2, <3>3, <3>4, <3>5, SubscriptionsKeep
  <2> QED BY <2>3
<1> QED BY <1>1, <1>2

LEMMA FeedDeleteKeeps ==
    ASSUME FeedInv, NEW t \in FeedTabs, NEW f \in feeds, FeedDelete(t, f)
    PROVE  FeedInv'
<1> DEFINE r == [NoFeedRequest EXCEPT !.step = "bust", !.selected = EveryFeed]
<1>0. f \in FeedRow /\ f.id \in FeedIds /\ feeds \in SUBSET FeedRow /\ lastFeedId \in 0..MaxFeedIds
      /\ feedOps \in 0..MaxFeedOps
  BY FeedsOf DEF FeedRow, FeedInv, FeedTypes
<1>1. r \in FeedCall /\ CallTrue(r, view[t])
  BY <1>0, NoRequestTrue DEF NoFeedRequest, FeedCall, CallTrue
<1>2. FeedRequest(t, r) /\ feeds' = feeds \ {f} /\ view' = view /\ listCache' = listCache
      /\ lastFeedId' = lastFeedId
  BY DEF FeedDelete
<1> HIDE DEF r
<1>3. load' = [load EXCEPT ![t] = r] /\ feedOps' \in 0..MaxFeedOps
  BY <1>0, <1>2, FeedAssumption DEF FeedRequest
<1>4. OneFeedPerUrl' BY <1>2 DEF FeedInv, OneFeedPerUrl
<1>5. feeds' \in SUBSET FeedRow /\ lastFeedId' \in 0..MaxFeedIds BY <1>0, <1>2
<1> QED BY <1>1, <1>2, <1>3, <1>4, <1>5, SubscriptionsKeep

LEMMA ListExpiresKeeps ==
    ASSUME FeedInv, ListExpires
    PROVE  FeedInv'
<1>1. /\ load' = load /\ view' = view /\ feeds' = feeds /\ lastFeedId' = lastFeedId
      /\ feedOps' = feedOps /\ listCache' = NoList
  BY DEF ListExpires
<1>2. FeedTypes' BY <1>1, NoListTrue DEF FeedInv, FeedTypes
<1>3. FeedCalls' /\ TabViews' /\ OneFeedPerUrl' BY <1>1 DEF FeedInv, FeedCalls, TabViews, OneFeedPerUrl
<1>4. ListTrue(listCache)' BY <1>1, NoListTrue DEF ListTrue
<1> QED BY <1>2, <1>3, <1>4 DEF FeedInv

LEMMA FeedNextKeeps == FeedInv /\ [FeedNext]_feedVars => FeedInv'
<1> SUFFICES ASSUME FeedInv, [FeedNext]_feedVars PROVE FeedInv'
  OBVIOUS
<1>1. CASE UNCHANGED feedVars
  <2>1. /\ load' = load /\ view' = view /\ feeds' = feeds /\ lastFeedId' = lastFeedId
        /\ feedOps' = feedOps /\ listCache' = listCache
    BY <1>1 DEF feedVars
  <2>2. FeedTypes' BY <2>1 DEF FeedInv, FeedTypes
  <2>3. FeedCalls' /\ TabViews' /\ OneFeedPerUrl' BY <2>1 DEF FeedInv, FeedCalls, TabViews, OneFeedPerUrl
  <2>4. ListTrue(listCache)' BY <2>1 DEF FeedInv, ListTrue
  <2> QED BY <2>2, <2>3, <2>4 DEF FeedInv
<1>2. CASE ListExpires BY <1>2, ListExpiresKeeps
<1>3. ASSUME NEW t \in FeedTabs,
             \/ \E selected \in {EveryFeed} \cup FeedIds : FeedList(t, selected)
             \/ FeedListAppend(t) \/ ReadFeeds(t) \/ GetCachedEvents(t)
             \/ \E f \in load[t].todo, doc \in Documents : FetchFeed(t, f, doc)
             \/ StoreEvents(t)
      PROVE  FeedInv'
  BY <1>3, FeedListKeeps, FeedListAppendKeeps, ReadFeedsKeeps, GetCachedEventsKeeps,
     FetchFeedKeeps, StoreEventsKeeps
<1>4. ASSUME NEW t \in FeedTabs,
             \/ \E url \in FeedUrls, explore \in BOOLEAN : FeedAdd(t, url, explore)
             \/ \E valid \in BOOLEAN : ValidateRssUrl(t, valid)
             \/ CheckSubscribed(t) \/ CreateFeed(t) \/ BustCache(t) \/ FeedRequestDies(t)
             \/ \E f \in feeds : FeedDelete(t, f)
      PROVE  FeedInv'
  BY <1>4, FeedAddKeeps, SubscribingKeeps, CreateFeedKeeps, FeedDeleteKeeps
<1> QED BY <1>1, <1>2, <1>3, <1>4 DEF FeedNext

LEMMA FeedInvHolds == FeedInv => FeedsAreSound /\ FeedTypeOK
<1> SUFFICES ASSUME FeedInv PROVE FeedsAreSound /\ FeedTypeOK
  OBVIOUS
<1>1. ASSUME NEW t \in FeedTabs
      PROVE  /\ ListTrue(view[t].list) /\ view[t].list.signature = IdsOf(view[t].listed)
             /\ view[t].list.met \in Seq(Event) /\ view[t].list.events \in Seq(Event)
             /\ view[t].list.events = FeedEvents(view[t].list.met)
  BY FeedsOf DEF ViewTrue, ListTrue, TabView, EventList
<1>2. ASSUME NEW t \in FeedTabs PROVE NamedOnce(view[t].list.met, view[t].list.events)
  BY <1>1, ListsEachOnce
<1>3. EachEventOnce BY <1>2 DEF EachEventOnce, NamedOnce
<1>4. ShownAreSubscribed
  <2> SUFFICES ASSUME NEW t \in FeedTabs, NEW e \in Elements(view[t].list.events)
               PROVE  e.feed \in IdsOf(view[t].listed)
    BY <1>1 DEF ShownAreSubscribed
  <2> DEFINE met == view[t].list.met
             events == view[t].list.events
  <2>1. <<e.feed, e.event>> \in {<<d.feed, d.event>> : d \in Elements(met)}
    BY <1>2 DEF NamedOnce
  <2>2. PICK d \in Elements(met) : d.feed = e.feed BY <2>1
  <2>3. PICK i \in DOMAIN met : d = met[i] BY DEF Elements
  <2>4. met[i].feed \in view[t].list.signature BY <1>1 DEF ListTrue
  <2> QED BY <1>1, <2>2, <2>3, <2>4
<1>5. PagesAddUp BY FeedsOf DEF PagesAddUp, ViewTrue, AtMost
<1>6. FeedTypeOK
  <2>1. listCache.signature \subseteq FeedIds BY DEF FeedInv, FeedTypes, EventList
  <2>2. ASSUME NEW t \in FeedTabs
        PROVE  /\ load[t].step \in {"idle", "list", "cache", "fetch", "validate", "exists",
                                    "create", "bust"}
               /\ load[t].selected \in {EveryFeed} \cup FeedIds
               /\ load[t].todo \subseteq load[t].listed
               /\ view[t].selected \in {EveryFeed} \cup FeedIds
    BY FeedsOf DEF FeedCall, TabView, CallTrue
  <2> QED BY <2>1, <2>2 DEF FeedTypeOK, FeedInv, FeedTypes, FeedRow
<1> QED BY <1>3, <1>4, <1>5, <1>6 DEF FeedsAreSound, FeedInv

\* A tab is shown the events of the feeds there were when it asked, each once and the
\* newest first, its pages add up to the list, and a URL is subscribed to once; for any
\* documents, tabs, requests and size of a page.
THEOREM FeedsStaySound == FeedInit /\ [][FeedNext]_feedVars => []FeedsAreSound
BY FeedInvInit, FeedNextKeeps, FeedInvHolds, PTL

-------------------------------------------------------------------------------
(* Analytics: the account, the tasks and what the history tells *)

LastSyncDay == DayOf(LastSyncHour)

SyncRow == [kind : {"cron", "backfill"}, at : {"account", "post"}, today : 0..LastSyncDay,
            back : 0..RecentDays, total : BOOLEAN, flag : BOOLEAN, followers : {0, 1},
            superseded : BOOLEAN]

AnalyticsTypes ==
    /\ metered \in [platform : MeteredPlatforms, flag : BOOLEAN, scope : BOOLEAN, followers : {0, 1}]
    /\ backfills \in Nat /\ sync \in SyncRow \cup {NoSync}
    /\ rows \in [Days -> SUBSET {"metrics", "followers"}]
    /\ video \in [data : Int, analytics : Int]
    /\ clock \in [hour : 0..LastSyncHour, ready : Int]
    /\ accountChanges \in 0..MaxAccountChanges /\ syncFaults \in 0..MaxSyncFaults
    /\ told \in [ran : BOOLEAN, passed : BOOLEAN, failed : BOOLEAN, began : SUBSET Days,
                 refused : BOOLEAN, filled : BOOLEAN, neglected : BOOLEAN]

\* A task is of a day on which one began; nothing is known of days to come.
DaysKnown ==
    /\ clock.ready <= Today
    /\ \A d \in Days : d > Today => rows[d] = {}
    /\ sync # NoSync => sync.today <= Today /\ sync.today \in told.began

\* A day has rows, or there is nothing to ask for.
Covered(d) ==
    \/ metered.platform = "youtube" /\ d > clock.ready
    \/ metered.platform = "x" /\ d < Today
    \/ metered.platform = "tiktok"
    \/ rows[d] # {}

WindowCovered == \A d \in (Today - RecentDays + 1)..Today : Covered(d)
AtWork == sync # NoSync /\ sync.at = "account" /\ sync.today = Today

\* Without a failure the days behind a task of today are covered, but for a total of today
\* that is written at its end, and rows of today stand only after all days were covered, or
\* while a task goes through them.
PassesCover ==
    ~told.failed =>
        /\ AtWork => \A d \in (Today - sync.back + 1)..Today :
                        Covered(d) \/ (d = Today /\ sync.total)
        /\ ~AtWork /\ rows[Today] # {} => WindowCovered
        /\ told.passed => WindowCovered

\* The backfill under way is in the queue, and so is that of a later grant.
BackfillsQueued ==
    /\ backfills <= accountChanges + 1
    /\ sync # NoSync /\ sync.kind = "backfill" =>
          backfills >= 1 /\ (sync.superseded => backfills >= 2)

AnalyticsInv ==
    /\ AnalyticsTypes /\ DaysKnown /\ PassesCover /\ BackfillsQueued
    /\ NoInventedHistory /\ GrantsGetAnalytics /\ PostStaysFresh

\* Days follow hours.
LEMMA DaysFollow ==
    ASSUME NEW h \in Int, NEW k \in Int, h <= k
    PROVE  DayOf(h) \in Int /\ DayOf(k) \in Int /\ DayOf(h) <= DayOf(k) /\ (0 <= h => 0 <= DayOf(h))
BY AnalyticsAssumption DEF DayOf

LEMMA TodayKnown ==
    ASSUME AnalyticsTypes
    PROVE  /\ Today \in 0..LastSyncDay /\ LastSyncDay \in Nat /\ clock.hour \in Nat
           /\ (Today - RecentDays + 1)..Today \subseteq Days /\ 0..LastSyncDay \subseteq Days
<1>1. clock.hour \in Int /\ 0 <= clock.hour /\ clock.hour <= LastSyncHour /\ LastSyncHour \in Int
    BY AnalyticsAssumption DEF AnalyticsTypes
<1>2. 0 <= Today /\ Today <= LastSyncDay /\ Today \in Int /\ LastSyncDay \in Int
    BY <1>1, DaysFollow DEF Today, LastSyncDay
<1> QED BY <1>1, <1>2, AnalyticsAssumption DEF Days, LastSyncDay

LEMMA SyncFields ==
    ASSUME AnalyticsTypes, sync # NoSync
    PROVE  sync \in SyncRow
BY DEF AnalyticsTypes

LEMMA RowIsNoNoSync == \A s \in SyncRow : s # NoSync
BY DEF SyncRow, NoSync

\* What has rows keeps them, so what was covered stays so.
LEMMA CoverGrows ==
    ASSUME Today' = Today, metered'.platform = metered.platform,
           clock'.ready = clock.ready, \A d \in Days : rows[d] \subseteq rows'[d]
    PROVE  \A d \in Days : Covered(d) => Covered(d)'
BY DEF Covered

\* A step that leaves the rows and the task's place in its days alone.
LEMMA PassesStand ==
    ASSUME AnalyticsTypes, PassesCover, rows' = rows, Today' = Today,
           metered'.platform = metered.platform, clock'.ready = clock.ready,
           told'.failed = FALSE => told.failed = FALSE,
           told'.passed = TRUE => told.passed = TRUE,
           AtWork' => AtWork /\ sync'.back = sync.back /\ sync'.total = sync.total,
           AtWork => AtWork' \/ told'.failed
    PROVE  PassesCover'
<1>1. \A d \in Days : Covered(d) => Covered(d)'
    BY CoverGrows
<1>2. (Today - RecentDays + 1)..Today \subseteq Days /\ Today \in Nat
    BY TodayKnown
<1> SUFFICES ASSUME ~told'.failed
            PROVE  /\ AtWork' => \A d \in (Today' - sync'.back + 1)..Today' :
                                    Covered(d)' \/ (d = Today' /\ sync'.total)
                   /\ ~AtWork' /\ rows'[Today'] # {} => WindowCovered'
                   /\ told'.passed => WindowCovered'
    BY DEF PassesCover
<1>3. ~told.failed BY DEF AnalyticsTypes
<1>4. WindowCovered => WindowCovered'
    BY <1>1, <1>2 DEF WindowCovered
<1>5. ~AtWork' /\ rows'[Today'] # {} => WindowCovered'
    BY <1>3, <1>4 DEF PassesCover
<1>6. told'.passed => WindowCovered'
    BY <1>3, <1>4 DEF PassesCover, AnalyticsTypes
<1>7. ASSUME AtWork', NEW d \in (Today' - sync'.back + 1)..Today'
      PROVE  Covered(d)' \/ (d = Today' /\ sync'.total)
    <2>1. /\ AtWork /\ sync'.back = sync.back /\ sync.back \in 0..RecentDays
          /\ sync'.total = sync.total
        BY <1>7 DEF AtWork, AnalyticsTypes, SyncRow
    <2>2. /\ d \in (Today - sync.back + 1)..Today
          /\ Covered(d) \/ (d = Today /\ sync.total)
        BY <1>3, <1>7, <2>1 DEF PassesCover
    <2>3. d \in Days
        BY <1>2, <2>1, <2>2, AnalyticsAssumption
    <2> QED BY <1>1, <2>1, <2>2, <2>3
<1> QED BY <1>5, <1>6, <1>7

-------------------------------------------------------------------------------
(* Analytics: what each step does *)

LEMMA ReconnectKeeps ==
    ASSUME AnalyticsInv, NEW followers \in {0, 1}, Reconnect(followers)
    PROVE  AnalyticsInv'
<1> USE DEF AnalyticsInv
<1>1. /\ accountChanges < MaxAccountChanges /\ accountChanges' = accountChanges + 1
      /\ metered' = [metered EXCEPT !.flag = FALSE, !.scope = TRUE, !.followers = followers]
      /\ backfills' = backfills + 1
      /\ sync' = IF sync = NoSync THEN NoSync ELSE [sync EXCEPT !.superseded = TRUE]
      /\ told' = [told EXCEPT !.refused = FALSE, !.filled = FALSE]
      /\ rows' = rows /\ video' = video /\ clock' = clock /\ syncFaults' = syncFaults
    BY DEF Reconnect, AccountChange
<1>2. sync # NoSync => sync' # NoSync /\ sync \in SyncRow /\ sync' \in SyncRow
    BY <1>1, RowIsNoNoSync, SyncFields DEF SyncRow
<1>3. AnalyticsTypes'
    <2>1. backfills' \in Nat /\ accountChanges' \in 0..MaxAccountChanges
        BY <1>1, AnalyticsAssumption DEF AnalyticsTypes
    <2>2. sync' \in SyncRow \cup {NoSync} BY <1>1, <1>2
    <2>3. metered' \in [platform : MeteredPlatforms, flag : BOOLEAN, scope : BOOLEAN, followers : {0, 1}]
        BY <1>1 DEF AnalyticsTypes
    <2>4. told' \in [ran : BOOLEAN, passed : BOOLEAN, failed : BOOLEAN, began : SUBSET Days,
                     refused : BOOLEAN, filled : BOOLEAN, neglected : BOOLEAN]
        BY <1>1 DEF AnalyticsTypes
    <2> QED BY <1>1, <2>1, <2>2, <2>3, <2>4 DEF AnalyticsTypes
<1>4. Today' = Today BY <1>1 DEF Today
<1>5. sync' # NoSync => /\ sync # NoSync /\ sync'.kind = sync.kind /\ sync'.at = sync.at
                        /\ sync'.today = sync.today /\ sync'.back = sync.back
                        /\ sync'.total = sync.total
    BY <1>1, <1>2 DEF SyncRow
<1>6. /\ told'.failed = told.failed /\ told'.passed = told.passed /\ told'.began = told.began
      /\ told'.filled = FALSE /\ told'.neglected = told.neglected /\ told'.refused = FALSE
      /\ metered'.platform = metered.platform /\ metered'.flag = FALSE
    BY <1>1 DEF AnalyticsTypes
<1>7. DaysKnown' BY <1>1, <1>4, <1>5, <1>6 DEF DaysKnown
<1>8. PassesCover'
    <2>1. AtWork' <=> AtWork BY <1>1, <1>2, <1>4, <1>5 DEF AtWork
    <2> QED BY <1>1, <1>4, <1>5, <1>6, <2>1, PassesStand DEF AtWork
<1>9. BackfillsQueued' BY <1>1, <1>5 DEF BackfillsQueued, AnalyticsTypes
<1>10. NoInventedHistory' BY <1>1, <1>6 DEF NoInventedHistory
<1>11. GrantsGetAnalytics' BY <1>1, <1>6 DEF GrantsGetAnalytics, AnalyticsTypes
<1>12. PostStaysFresh' BY <1>6 DEF PostStaysFresh
<1> QED BY <1>3, <1>7, <1>8, <1>9, <1>10, <1>11, <1>12

LEMMA RefreshKeeps ==
    ASSUME AnalyticsInv, RefreshToken
    PROVE  AnalyticsInv'
<1> USE DEF AnalyticsInv
<1>1. /\ accountChanges < MaxAccountChanges /\ accountChanges' = accountChanges + 1
      /\ backfills' = backfills + 1 /\ metered' = metered /\ sync' = sync /\ told' = told
      /\ rows' = rows /\ video' = video /\ clock' = clock /\ syncFaults' = syncFaults
    BY DEF RefreshToken, AccountChange
<1>2. AnalyticsTypes'
    <2>1. backfills' \in Nat /\ accountChanges' \in 0..MaxAccountChanges
        BY <1>1, AnalyticsAssumption DEF AnalyticsTypes
    <2> QED BY <1>1, <2>1 DEF AnalyticsTypes
<1>3. Today' = Today BY <1>1 DEF Today
<1>4. DaysKnown' BY <1>1, <1>3 DEF DaysKnown
<1>5. AtWork' <=> AtWork BY <1>1, <1>3 DEF AtWork
<1>6. PassesCover' BY <1>1, <1>3, <1>5, PassesStand
<1>7. BackfillsQueued' BY <1>1 DEF BackfillsQueued, AnalyticsTypes
<1>8. NoInventedHistory' BY <1>1 DEF NoInventedHistory
<1>9. GrantsGetAnalytics' BY <1>1 DEF GrantsGetAnalytics, AnalyticsTypes
<1>10. PostStaysFresh' BY <1>1 DEF PostStaysFresh
<1> QED BY <1>2, <1>4, <1>6, <1>7, <1>8, <1>9, <1>10

LEMMA LoseScopeKeeps ==
    ASSUME AnalyticsInv, LoseScope
    PROVE  AnalyticsInv'
<1> USE DEF AnalyticsInv
<1>1. /\ syncFaults < MaxSyncFaults /\ syncFaults' = syncFaults + 1
      /\ metered' = [metered EXCEPT !.scope = FALSE]
      /\ backfills' = backfills /\ sync' = sync /\ told' = told
      /\ rows' = rows /\ video' = video /\ clock' = clock /\ accountChanges' = accountChanges
    BY DEF LoseScope, SyncFault
<1>2. AnalyticsTypes'
    <2>1. syncFaults' \in 0..MaxSyncFaults
        BY <1>1, AnalyticsAssumption DEF AnalyticsTypes
    <2>2. metered' \in [platform : MeteredPlatforms, flag : BOOLEAN, scope : BOOLEAN, followers : {0, 1}]
        BY <1>1 DEF AnalyticsTypes
    <2> QED BY <1>1, <2>1, <2>2 DEF AnalyticsTypes
<1>3. Today' = Today BY <1>1 DEF Today
<1>4. metered'.platform = metered.platform /\ metered'.flag = metered.flag
    BY <1>1 DEF AnalyticsTypes
<1>5. DaysKnown' BY <1>1, <1>3 DEF DaysKnown
<1>6. AtWork' <=> AtWork BY <1>1, <1>3 DEF AtWork
<1>7. PassesCover' BY <1>1, <1>3, <1>4, <1>6, PassesStand
<1>8. BackfillsQueued' BY <1>1 DEF BackfillsQueued
<1>9. NoInventedHistory' BY <1>1, <1>4 DEF NoInventedHistory
<1>10. GrantsGetAnalytics' BY <1>1, <1>4 DEF GrantsGetAnalytics
<1>11. PostStaysFresh' BY <1>1 DEF PostStaysFresh
<1> QED BY <1>2, <1>5, <1>7, <1>8, <1>9, <1>10, <1>11

LEMMA HourKeeps ==
    ASSUME AnalyticsInv, Hour
    PROVE  AnalyticsInv'
<1> USE DEF AnalyticsInv
<1>1. PICK ready \in clock.ready..DayOf(clock.hour + 1) :
          /\ DayOf(clock.hour + 1) = Today \/ metered.platform # "youtube" => ready = clock.ready
          /\ clock' = [clock EXCEPT !.hour = @ + 1, !.ready = ready]
    BY DEF Hour
<1>2. /\ clock.hour < LastSyncHour
      /\ told' = [told EXCEPT !.ran = FALSE,
                              !.passed = @ /\ DayOf(clock.hour + 1) = Today,
                              !.failed = @ /\ DayOf(clock.hour + 1) = Today]
      /\ metered' = metered /\ backfills' = backfills /\ sync' = sync /\ rows' = rows
      /\ video' = video /\ accountChanges' = accountChanges /\ syncFaults' = syncFaults
    BY DEF Hour
<1>3. clock.hour \in Nat /\ Today \in Nat /\ LastSyncHour \in Nat /\ clock.ready \in Int
    BY TodayKnown, AnalyticsAssumption DEF AnalyticsTypes
<1>4. DayOf(clock.hour + 1) \in Int /\ Today <= DayOf(clock.hour + 1)
    BY <1>3, DaysFollow DEF Today
<1>5. clock'.hour = clock.hour + 1 /\ clock'.ready = ready /\ ready \in Int
      /\ clock' \in [hour : 0..LastSyncHour, ready : Int]
    <2>1. ready \in Int BY <1>1, <1>3, <1>4
    <2>2. clock.hour + 1 \in 0..LastSyncHour BY <1>2, <1>3
    <2>3. clock \in [hour : 0..LastSyncHour, ready : Int] BY DEF AnalyticsTypes
    <2> QED BY <1>1, <2>1, <2>2, <2>3
<1>6. Today' = DayOf(clock.hour + 1)
    BY <1>5 DEF Today
<1>7. /\ told' \in [ran : BOOLEAN, passed : BOOLEAN, failed : BOOLEAN, began : SUBSET Days,
                    refused : BOOLEAN, filled : BOOLEAN, neglected : BOOLEAN]
      /\ told'.passed = (told.passed /\ Today' = Today)
      /\ told'.failed = (told.failed /\ Today' = Today)
      /\ told'.began = told.began /\ told'.refused = told.refused
      /\ told'.filled = told.filled /\ told'.neglected = told.neglected
    BY <1>2, <1>6 DEF AnalyticsTypes
<1>8. AnalyticsTypes' BY <1>2, <1>5, <1>7 DEF AnalyticsTypes
<1>9. DaysKnown'
    <2>1. clock'.ready <= Today' BY <1>1, <1>3, <1>4, <1>5, <1>6
    <2>2. \A d \in Days : d > Today' => d > Today
        BY <1>3, <1>4, <1>6, AnalyticsAssumption, TodayKnown DEF Days, LastSyncDay
    <2>3. sync' # NoSync => sync'.today <= Today'
        BY <1>2, <1>3, <1>4, <1>6, SyncFields DEF DaysKnown, SyncRow
    <2> QED BY <1>2, <1>7, <2>1, <2>2, <2>3 DEF DaysKnown
<1>10. PassesCover'
    <2>1. CASE Today' = Today
        <3>1. clock'.ready = clock.ready BY <1>1, <1>5, <1>6, <2>1
        <3>2. AtWork' <=> AtWork BY <1>2, <2>1 DEF AtWork
        <3>3. /\ told'.failed = FALSE => told.failed = FALSE
              /\ told'.passed = TRUE => told.passed = TRUE
            BY <1>7, <2>1 DEF AnalyticsTypes
        <3> QED BY <1>2, <2>1, <3>1, <3>2, <3>3, PassesStand
    <2>2. CASE Today' # Today
        <3>1. Today' > Today /\ Today' \in Days
            <4>1. clock.hour + 1 <= LastSyncHour BY <1>2, <1>3
            <4>2. Today' <= LastSyncDay BY <1>3, <1>6, <4>1, DaysFollow DEF LastSyncDay
            <4>3. Today' > Today BY <1>3, <1>4, <1>6, <2>2
            <4> QED BY <1>3, <1>4, <1>6, <4>2, <4>3, TodayKnown
        <3>2. rows'[Today'] = {} BY <1>2, <3>1 DEF DaysKnown
        <3>3. ~AtWork' 
            BY <1>2, <1>3, <3>1, SyncFields DEF AtWork, DaysKnown, SyncRow
        <3>4. ~told'.passed BY <1>7, <2>2
        <3> QED BY <3>2, <3>3, <3>4 DEF PassesCover
    <2> QED BY <2>1, <2>2
<1>11. BackfillsQueued' BY <1>2 DEF BackfillsQueued
<1>12. NoInventedHistory' BY <1>2, <1>7 DEF NoInventedHistory
<1>13. GrantsGetAnalytics' BY <1>2, <1>7 DEF GrantsGetAnalytics
<1>14. PostStaysFresh' BY <1>7 DEF PostStaysFresh
<1> QED BY <1>8, <1>9, <1>10, <1>11, <1>12, <1>13, <1>14

\* What a task begins with.
LEMMA BegunRow ==
    ASSUME AnalyticsTypes, NEW kind \in {"cron", "backfill"}, NEW place \in {"account", "post"},
           Begin(kind, place)
    PROVE  /\ sync' \in SyncRow /\ sync' # NoSync /\ sync'.kind = kind /\ sync'.at = place
           /\ sync'.today = Today /\ sync'.back = 0 /\ sync'.superseded = FALSE
<1>1. /\ Today \in 0..LastSyncDay /\ 0 \in 0..RecentDays /\ metered.flag \in BOOLEAN
      /\ metered.followers \in {0, 1}
    BY TodayKnown, AnalyticsAssumption DEF AnalyticsTypes
<1> QED BY <1>1, RowIsNoNoSync DEF Begin, SyncRow

LEMMA StartCronKeeps ==
    ASSUME AnalyticsInv, StartCron
    PROVE  AnalyticsInv'
<1> USE DEF AnalyticsInv
<1> DEFINE asks == rows[Today] = {} \/ NeedsFollowers(metered)
           place == IF ~metered.flag /\ asks THEN "account" ELSE "post"
<1>1. /\ sync = NoSync /\ Begin("cron", place)
      /\ told' = [told EXCEPT !.ran = TRUE, !.began = @ \cup {Today},
                              !.passed = @ \/ (~metered.flag /\ ~asks)]
      /\ metered' = metered /\ backfills' = backfills /\ rows' = rows /\ video' = video
      /\ clock' = clock /\ accountChanges' = accountChanges /\ syncFaults' = syncFaults
    BY DEF StartCron
<1>2. Today \in Days /\ Today \in Nat /\ Today' = Today BY <1>1, TodayKnown DEF Today
<1>3. place \in {"account", "post"} OBVIOUS
<1>4. /\ sync' \in SyncRow /\ sync' # NoSync /\ sync'.kind = "cron" /\ sync'.today = Today
      /\ sync'.back = 0
    BY <1>1, <1>3, BegunRow
<1>5. /\ told' \in [ran : BOOLEAN, passed : BOOLEAN, failed : BOOLEAN, began : SUBSET Days,
                    refused : BOOLEAN, filled : BOOLEAN, neglected : BOOLEAN]
      /\ told'.passed = (told.passed \/ (~metered.flag /\ ~asks))
      /\ told'.failed = told.failed /\ told'.began = told.began \cup {Today}
      /\ told'.refused = told.refused /\ told'.filled = told.filled
      /\ told'.neglected = told.neglected
    <2>1. told.began \cup {Today} \in SUBSET Days BY <1>2 DEF AnalyticsTypes
    <2> QED BY <1>1, <2>1 DEF AnalyticsTypes
<1>6. AnalyticsTypes' BY <1>1, <1>4, <1>5 DEF AnalyticsTypes
<1>7. DaysKnown'
    <2>1. sync'.today <= Today' /\ sync'.today \in told'.began BY <1>2, <1>4, <1>5
    <2>2. /\ clock'.ready <= Today'
          /\ \A d \in Days : d > Today' => rows'[d] = {}
        BY <1>1, <1>2 DEF DaysKnown
    <2> QED BY <2>1, <2>2 DEF DaysKnown
<1>8. PassesCover'
    <2> SUFFICES ASSUME ~told'.failed
                 PROVE  /\ AtWork' => \A d \in (Today' - sync'.back + 1)..Today' :
                                         Covered(d)' \/ (d = Today' /\ sync'.total)
                        /\ ~AtWork' /\ rows'[Today'] # {} => WindowCovered'
                        /\ told'.passed => WindowCovered'
        BY DEF PassesCover
    <2>1. WindowCovered => WindowCovered'
        BY <1>1, <1>2 DEF WindowCovered, Covered
    <2>2. ~AtWork BY <1>1 DEF AtWork
    <2>3. rows[Today] # {} \/ told.passed => WindowCovered
        BY <1>5, <2>2 DEF PassesCover
    <2>4. (Today' - sync'.back + 1)..Today' = {} BY <1>2, <1>4
    <2>5. told'.passed => WindowCovered
        BY <1>5, <2>3
    <2> QED BY <1>1, <1>2, <2>1, <2>3, <2>4, <2>5
<1>9. BackfillsQueued' BY <1>1, <1>4 DEF BackfillsQueued
<1>10. NoInventedHistory' BY <1>1, <1>5 DEF NoInventedHistory
<1>11. GrantsGetAnalytics' BY <1>1, <1>5 DEF GrantsGetAnalytics
<1>12. PostStaysFresh' BY <1>5 DEF PostStaysFresh
<1> QED BY <1>6, <1>7, <1>8, <1>9, <1>10, <1>11, <1>12

LEMMA StartBackfillKeeps ==
    ASSUME AnalyticsInv, StartBackfill
    PROVE  AnalyticsInv'
<1> USE DEF AnalyticsInv
<1>1. /\ sync = NoSync /\ backfills > 0 /\ Begin("backfill", "account")
      /\ told' = [told EXCEPT !.began = @ \cup {Today}]
      /\ metered' = metered /\ backfills' = backfills /\ rows' = rows /\ video' = video
      /\ clock' = clock /\ accountChanges' = accountChanges /\ syncFaults' = syncFaults
    BY DEF StartBackfill
<1>2. Today \in Days /\ Today \in Nat /\ Today' = Today BY <1>1, TodayKnown DEF Today
<1>3. /\ sync' \in SyncRow /\ sync' # NoSync /\ sync'.kind = "backfill" /\ sync'.today = Today
      /\ sync'.back = 0 /\ sync'.superseded = FALSE /\ sync'.at = "account"
    BY <1>1, BegunRow
<1>4. /\ told' \in [ran : BOOLEAN, passed : BOOLEAN, failed : BOOLEAN, began : SUBSET Days,
                    refused : BOOLEAN, filled : BOOLEAN, neglected : BOOLEAN]
      /\ told'.passed = told.passed
      /\ told'.failed = told.failed /\ told'.began = told.began \cup {Today}
      /\ told'.refused = told.refused /\ told'.filled = told.filled
      /\ told'.neglected = told.neglected
    <2>1. told.began \cup {Today} \in SUBSET Days BY <1>2 DEF AnalyticsTypes
    <2> QED BY <1>1, <2>1 DEF AnalyticsTypes
<1>5. AnalyticsTypes' BY <1>1, <1>3, <1>4 DEF AnalyticsTypes
<1>6. DaysKnown' BY <1>1, <1>2, <1>3, <1>4 DEF DaysKnown
<1>7. PassesCover'
    <2>1. WindowCovered => WindowCovered'
        BY <1>1, <1>2 DEF WindowCovered, Covered
    <2>2. AtWork' BY <1>2, <1>3 DEF AtWork
    <2>3. (Today' - sync'.back + 1)..Today' = {} BY <1>2, <1>3
    <2> QED BY <1>4, <2>1, <2>2, <2>3 DEF PassesCover
<1>8. BackfillsQueued' BY <1>1, <1>3 DEF BackfillsQueued, AnalyticsTypes
<1>9. NoInventedHistory' BY <1>1, <1>4 DEF NoInventedHistory
<1>10. GrantsGetAnalytics' BY <1>1, <1>4 DEF GrantsGetAnalytics
<1>11. PostStaysFresh' BY <1>4 DEF PostStaysFresh
<1> QED BY <1>5, <1>6, <1>7, <1>8, <1>9, <1>10, <1>11

LEMMA TargetKnown ==
    ASSUME AnalyticsTypes, DaysKnown, DaysLeft
    PROVE  /\ sync \in SyncRow /\ sync # NoSync /\ sync.at = "account"
           /\ Target \in Days /\ Target <= sync.today /\ sync.today <= Today
           /\ sync.back < RecentDays /\ sync.back + 1 \in 0..RecentDays
           /\ Target = sync.today - sync.back
           /\ (metered.platform \in {"tiktok", "x"} => Target = sync.today)
<1>1. /\ sync \in SyncRow /\ sync # NoSync /\ sync.at = "account"
      /\ sync.back < DaysBack(metered.platform)
    BY SyncFields DEF DaysLeft, SyncAt
<1>2. sync.today \in 0..LastSyncDay /\ sync.back \in 0..RecentDays /\ LastSyncDay \in Nat
    BY <1>1, TodayKnown DEF SyncRow
<1>3. /\ sync.back < RecentDays /\ (metered.platform \in {"tiktok", "x"} => sync.back = 0)
    BY <1>1, <1>2, AnalyticsAssumption DEF DaysBack
<1>4. Target \in Int /\ 1 - RecentDays <= Target /\ Target <= LastSyncDay
    BY <1>2, <1>3, AnalyticsAssumption DEF Target
<1>5. Target \in Days BY <1>4, AnalyticsAssumption, <1>2 DEF Days, LastSyncDay
<1> QED BY <1>1, <1>2, <1>3, <1>5, AnalyticsAssumption DEF Target, DaysKnown

LEMMA SkipDayKeeps ==
    ASSUME AnalyticsInv, SkipDay
    PROVE  AnalyticsInv'
<1> USE DEF AnalyticsInv
<1>1. /\ DaysLeft /\ HasDay /\ sync' = [sync EXCEPT !.back = @ + 1]
      /\ metered' = metered /\ backfills' = backfills /\ rows' = rows /\ video' = video
      /\ clock' = clock /\ accountChanges' = accountChanges /\ syncFaults' = syncFaults
      /\ told' = told
    BY DEF SkipDay
<1>2. Today \in Nat /\ Today' = Today BY <1>1, TodayKnown DEF Today
<1>3. /\ sync \in SyncRow /\ sync # NoSync /\ sync.at = "account"
      /\ sync.back + 1 \in 0..RecentDays /\ Target = sync.today - sync.back
    BY <1>1, TargetKnown
<1>4. sync' \in SyncRow /\ sync' # NoSync
    BY <1>1, <1>3, RowIsNoNoSync DEF SyncRow
<1>5. /\ sync'.kind = sync.kind /\ sync'.at = sync.at /\ sync'.today = sync.today
      /\ sync'.back = sync.back + 1 /\ sync'.superseded = sync.superseded
      /\ sync'.total = sync.total
    BY <1>1, <1>3 DEF SyncRow
<1>6. AnalyticsTypes' BY <1>1, <1>4 DEF AnalyticsTypes
<1>7. DaysKnown' BY <1>1, <1>2, <1>3, <1>5 DEF DaysKnown
<1>8. PassesCover'
    <2> SUFFICES ASSUME ~told.failed
                 PROVE  /\ AtWork' => \A d \in (Today - (sync.back + 1) + 1)..Today :
                                         Covered(d)' \/ (d = Today /\ sync'.total)
                        /\ ~AtWork' /\ rows[Today] # {} => WindowCovered'
                        /\ told.passed => WindowCovered'
        BY <1>1, <1>2, <1>5 DEF PassesCover
    <2>1. AtWork' <=> AtWork BY <1>1, <1>2, <1>3, <1>4, <1>5 DEF AtWork
    <2>2. \A d : Covered(d) => Covered(d)' BY <1>1, <1>2 DEF Covered
    <2>3. WindowCovered => WindowCovered'
        BY <1>2, <2>2 DEF WindowCovered
    <2>4. ASSUME AtWork, NEW d \in (Today - (sync.back + 1) + 1)..Today
          PROVE  Covered(d)' \/ (d = Today /\ sync'.total)
        <3>1. d = Target \/ d \in (Today - sync.back + 1)..Today
            BY <1>2, <1>3, <2>4 DEF AtWork, SyncRow
        <3>2. Covered(Target) BY <1>1 DEF HasDay, Covered
        <3> QED BY <1>5, <2>2, <2>4, <3>1, <3>2 DEF PassesCover
    <2> QED BY <2>1, <2>3, <2>4 DEF PassesCover
<1>9. BackfillsQueued' BY <1>1, <1>3, <1>5 DEF BackfillsQueued
<1>10. NoInventedHistory' BY <1>1 DEF NoInventedHistory
<1>11. GrantsGetAnalytics' BY <1>1 DEF GrantsGetAnalytics
<1>12. PostStaysFresh' BY <1>1 DEF PostStaysFresh
<1> QED BY <1>6, <1>7, <1>8, <1>9, <1>10, <1>11, <1>12

LEMMA FetchDayKeeps ==
    ASSUME AnalyticsInv, NEW followers \in {NoTotal, 0, 1}, FetchDay(followers)
    PROVE  AnalyticsInv'
<1> USE DEF AnalyticsInv
<1> DEFINE new == followers > 0 /\ sync.followers # followers
           total == followers # NoTotal /\ HasFollowers(metered.platform)
<1>1. /\ DaysLeft /\ ~HasDay /\ followers \in Totals
      /\ rows' = IF AnswerHasMetrics THEN [rows EXCEPT ![Target] = @ \cup {"metrics"}] ELSE rows
      /\ sync' = [sync EXCEPT !.back = @ + 1, !.total = @ \/ total,
                              !.followers = IF new THEN followers ELSE @]
      /\ metered' = [metered EXCEPT !.followers = IF new THEN followers ELSE @]
      /\ backfills' = backfills /\ video' = video /\ clock' = clock
      /\ accountChanges' = accountChanges /\ syncFaults' = syncFaults /\ told' = told
    BY DEF FetchDay
<1>2. Today \in Nat /\ Today' = Today BY <1>1, TodayKnown DEF Today
<1>3. /\ sync \in SyncRow /\ sync # NoSync /\ sync.at = "account"
      /\ sync.back + 1 \in 0..RecentDays /\ Target = sync.today - sync.back
      /\ Target \in Days /\ Target <= sync.today /\ sync.today <= Today
      /\ (metered.platform \in {"tiktok", "x"} => Target = sync.today)
    BY <1>1, TargetKnown
<1>4. new => followers \in {0, 1}
    BY DEF NoTotal
<1>5. sync' \in SyncRow /\ sync' # NoSync
    <2>1. /\ (sync.total \/ total) \in BOOLEAN
          /\ (IF new THEN followers ELSE sync.followers) \in {0, 1}
        BY <1>3, <1>4 DEF SyncRow
    <2> HIDE DEF new, total
    <2>2. sync' \in SyncRow BY <1>1, <1>3, <2>1 DEF SyncRow
    <2> QED BY <2>2, RowIsNoNoSync
<1>6. /\ sync'.kind = sync.kind /\ sync'.at = sync.at /\ sync'.today = sync.today
      /\ sync'.back = sync.back + 1 /\ sync'.superseded = sync.superseded
      /\ (sync.total => sync'.total) /\ (total => sync'.total)
    <2> HIDE DEF new, total
    <2> QED BY <1>1, <1>3 DEF SyncRow
<1>7. /\ metered' \in [platform : MeteredPlatforms, flag : BOOLEAN, scope : BOOLEAN, followers : {0, 1}]
      /\ metered'.platform = metered.platform /\ metered'.flag = metered.flag
    <2>1. (IF new THEN followers ELSE metered.followers) \in {0, 1}
        BY <1>4 DEF AnalyticsTypes
    <2> HIDE DEF new
    <2> QED BY <1>1, <2>1 DEF AnalyticsTypes
<1>8. /\ rows' \in [Days -> SUBSET {"metrics", "followers"}]
      /\ \A d \in Days : rows[d] \subseteq rows'[d]
      /\ \A d \in Days : d # Target => rows'[d] = rows[d]
      /\ rows'[Target] \subseteq rows[Target] \cup {"metrics"}
    BY <1>1, <1>3 DEF AnalyticsTypes
<1>9. AnalyticsTypes' BY <1>1, <1>5, <1>7, <1>8 DEF AnalyticsTypes
<1>10. DaysKnown'
    <2>1. \A d \in Days : d > Today => d # Target
        BY <1>2, <1>3 DEF SyncRow
    <2>2. sync'.today <= Today' /\ sync'.today \in told'.began
        BY <1>1, <1>2, <1>3, <1>6 DEF DaysKnown
    <2> QED BY <1>1, <1>2, <1>8, <2>1, <2>2 DEF DaysKnown
<1>11. ASSUME NEW d \in Days, d = Target, AtWork
       PROVE  Covered(d)' \/ (d = Today /\ sync'.total)
    <2>1. CASE metered.platform = "youtube" /\ d > clock.ready
        BY <1>1, <1>7, <2>1 DEF Covered
    <2>2. CASE AnswerHasMetrics
        <3>1. "metrics" \in rows'[d] BY <1>1, <1>3, <1>11, <2>2 DEF AnalyticsTypes
        <3> QED BY <3>1 DEF Covered
    <2>3. CASE metered.platform = "x"
        <3>1. d = Today BY <1>3, <1>11, <2>3 DEF AtWork
        <3>2. total BY <1>1, <2>3 DEF Totals, HasFollowers, NoTotal
        <3> QED BY <1>6, <3>1, <3>2
    <2>4. CASE metered.platform = "tiktok"
        BY <1>7, <2>4 DEF Covered
    <2>5. clock.ready \in Int /\ Target \in Int /\ metered.platform \in MeteredPlatforms
        BY <1>3, TodayKnown, AnalyticsAssumption DEF AnalyticsTypes, Days, LastSyncDay
    <2> QED BY <1>11, <2>1, <2>2, <2>3, <2>4, <2>5 DEF AnswerHasMetrics, MeteredPlatforms
<1>12. PassesCover'
    <2> SUFFICES ASSUME ~told.failed
                 PROVE  /\ AtWork' => \A d \in (Today - (sync.back + 1) + 1)..Today :
                                         Covered(d)' \/ (d = Today /\ sync'.total)
                        /\ ~AtWork' /\ rows'[Today] # {} => WindowCovered'
                        /\ told.passed => WindowCovered'
        BY <1>1, <1>2, <1>6 DEF PassesCover
    <2>1. AtWork' <=> AtWork BY <1>1, <1>2, <1>3, <1>5, <1>6 DEF AtWork
    <2>2. \A d \in Days : Covered(d) => Covered(d)' BY <1>1, <1>2, <1>7, <1>8, CoverGrows
    <2>3. WindowCovered => WindowCovered'
        BY <1>2, <2>2, TodayKnown DEF WindowCovered
    <2>4. ASSUME AtWork, NEW d \in (Today - (sync.back + 1) + 1)..Today
          PROVE  Covered(d)' \/ (d = Today /\ sync'.total)
        <3>1. d = Target \/ d \in (Today - sync.back + 1)..Today
            BY <1>2, <1>3, <2>4 DEF AtWork, SyncRow
        <3>2. d \in Days
            BY <1>2, <1>3, <2>4, TodayKnown, AnalyticsAssumption DEF SyncRow
        <3> QED BY <1>6, <1>11, <2>2, <2>4, <3>1, <3>2 DEF PassesCover
    <2>5. ASSUME ~AtWork', rows'[Today] # {} PROVE WindowCovered'
        <3>1. Target # Today
            BY <1>2, <1>3, <2>1, <2>5 DEF AtWork, SyncRow
        <3>2. Today \in Days BY TodayKnown
        <3>3. rows[Today] # {} BY <1>8, <2>5, <3>1, <3>2
        <3> QED BY <2>1, <2>3, <2>5, <3>3 DEF PassesCover
    <2> QED BY <2>3, <2>4, <2>1, <2>5 DEF PassesCover
<1>13. BackfillsQueued' BY <1>1, <1>3, <1>6 DEF BackfillsQueued
<1>14. NoInventedHistory'
    <2>1. \A d \in Days : "followers" \in rows'[d] => "followers" \in rows[d] BY <1>8
    <2> QED BY <1>1, <2>1 DEF NoInventedHistory
<1>15. GrantsGetAnalytics' BY <1>1, <1>7 DEF GrantsGetAnalytics
<1>16. PostStaysFresh' BY <1>1 DEF PostStaysFresh
<1> QED BY <1>9, <1>10, <1>12, <1>13, <1>14, <1>15, <1>16

\* The task gives up the account, after trouble, or turns to the post.
LEMMA ToPostRow ==
    ASSUME AnalyticsTypes, sync # NoSync, NEW flag \in BOOLEAN, ToPost(flag)
    PROVE  /\ sync' \in SyncRow /\ sync' # NoSync /\ sync'.at = "post" /\ sync'.kind = sync.kind
           /\ sync'.today = sync.today /\ sync'.superseded = sync.superseded
<1>1. sync \in SyncRow /\ 0 \in 0..RecentDays BY SyncFields, AnalyticsAssumption
<1>2. sync' = [sync EXCEPT !.at = "post", !.back = 0, !.total = FALSE, !.flag = flag]
    BY DEF ToPost
<1>3. sync' \in SyncRow BY <1>1, <1>2 DEF SyncRow
<1> QED BY <1>1, <1>2, <1>3, RowIsNoNoSync DEF SyncRow

LEMMA AccountRefusedKeeps ==
    ASSUME AnalyticsInv, AccountRefused
    PROVE  AnalyticsInv'
<1> USE DEF AnalyticsInv
<1>1. /\ DaysLeft /\ ToPost(TRUE) /\ told' = [told EXCEPT !.failed = TRUE, !.refused = TRUE]
      /\ metered' = [metered EXCEPT !.flag = @ \/ ~sync.flag]
      /\ backfills' = backfills /\ rows' = rows /\ video' = video /\ clock' = clock
      /\ accountChanges' = accountChanges /\ syncFaults' = syncFaults
    BY DEF AccountRefused, Mark, Refusal
<1>2. sync # NoSync /\ sync \in SyncRow BY <1>1, TargetKnown
<1>3. /\ sync' \in SyncRow /\ sync' # NoSync /\ sync'.at = "post" /\ sync'.kind = sync.kind
      /\ sync'.today = sync.today /\ sync'.superseded = sync.superseded
    BY <1>1, <1>2, ToPostRow
<1>4. metered' \in [platform : MeteredPlatforms, flag : BOOLEAN, scope : BOOLEAN, followers : {0, 1}]
      /\ metered'.platform = metered.platform
    BY <1>1, <1>2 DEF AnalyticsTypes
<1>5. /\ told' \in [ran : BOOLEAN, passed : BOOLEAN, failed : BOOLEAN, began : SUBSET Days,
                    refused : BOOLEAN, filled : BOOLEAN, neglected : BOOLEAN]
      /\ told'.failed = TRUE /\ told'.refused = TRUE /\ told'.began = told.began
      /\ told'.filled = told.filled /\ told'.neglected = told.neglected
    BY <1>1 DEF AnalyticsTypes
<1>6. AnalyticsTypes' BY <1>1, <1>3, <1>4, <1>5 DEF AnalyticsTypes
<1>7. Today' = Today BY <1>1 DEF Today
<1>8. DaysKnown' BY <1>1, <1>2, <1>3, <1>5, <1>7 DEF DaysKnown
<1>9. PassesCover' BY <1>5 DEF PassesCover
<1>10. BackfillsQueued' BY <1>1, <1>2, <1>3 DEF BackfillsQueued
<1>11. NoInventedHistory' BY <1>1, <1>4, <1>5 DEF NoInventedHistory
<1>12. GrantsGetAnalytics' BY <1>1, <1>5 DEF GrantsGetAnalytics
<1>13. PostStaysFresh' BY <1>5 DEF PostStaysFresh
<1> QED BY <1>6, <1>8, <1>9, <1>10, <1>11, <1>12, <1>13

LEMMA AccountFailsKeeps ==
    ASSUME AnalyticsInv, AccountFails
    PROVE  AnalyticsInv'
<1> USE DEF AnalyticsInv
<1>1. /\ DaysLeft /\ ToPost(sync.flag) /\ told' = [told EXCEPT !.failed = TRUE]
      /\ syncFaults < MaxSyncFaults /\ syncFaults' = syncFaults + 1
      /\ metered' = metered /\ backfills' = backfills /\ rows' = rows /\ video' = video
      /\ clock' = clock /\ accountChanges' = accountChanges
    BY DEF AccountFails, SyncFault
<1>2. sync # NoSync /\ sync \in SyncRow /\ sync.flag \in BOOLEAN BY <1>1, TargetKnown DEF SyncRow
<1>3. /\ sync' \in SyncRow /\ sync' # NoSync /\ sync'.at = "post" /\ sync'.kind = sync.kind
      /\ sync'.today = sync.today /\ sync'.superseded = sync.superseded
    BY <1>1, <1>2, ToPostRow
<1>4. syncFaults' \in 0..MaxSyncFaults BY <1>1, AnalyticsAssumption DEF AnalyticsTypes
<1>5. /\ told' \in [ran : BOOLEAN, passed : BOOLEAN, failed : BOOLEAN, began : SUBSET Days,
                    refused : BOOLEAN, filled : BOOLEAN, neglected : BOOLEAN]
      /\ told'.failed = TRUE /\ told'.refused = told.refused /\ told'.began = told.began
      /\ told'.filled = told.filled /\ told'.neglected = told.neglected
    BY <1>1 DEF AnalyticsTypes
<1>6. AnalyticsTypes' BY <1>1, <1>3, <1>4, <1>5 DEF AnalyticsTypes
<1>7. Today' = Today BY <1>1 DEF Today
<1>8. DaysKnown' BY <1>1, <1>2, <1>3, <1>5, <1>7 DEF DaysKnown
<1>9. PassesCover' BY <1>5 DEF PassesCover
<1>10. BackfillsQueued' BY <1>1, <1>2, <1>3 DEF BackfillsQueued
<1>11. NoInventedHistory' BY <1>1, <1>5 DEF NoInventedHistory
<1>12. GrantsGetAnalytics' BY <1>1, <1>5 DEF GrantsGetAnalytics
<1>13. PostStaysFresh' BY <1>5 DEF PostStaysFresh
<1> QED BY <1>6, <1>8, <1>9, <1>10, <1>11, <1>12, <1>13

LEMMA FinishAccountKeeps ==
    ASSUME AnalyticsInv, NEW batch \in {"nothing", "rows", "refusal", "failure"},
           FinishAccount(batch)
    PROVE  AnalyticsInv'
<1> USE DEF AnalyticsInv
<1> DEFINE refused == batch = "refusal"
<1>1. video' = IF batch = "rows" THEN [video EXCEPT !.analytics = clock.hour] ELSE video
    BY DEF FinishAccount
<1>2. /\ SyncAt("account") /\ ~DaysLeft
      /\ rows' = IF sync.total THEN [rows EXCEPT ![sync.today] = @ \cup {"followers"}] ELSE rows
      /\ told' = [told EXCEPT !.passed = @ \/ (sync.kind = "cron" /\ sync.today = Today),
                              !.refused = @ \/ refused]
      /\ backfills' = backfills /\ clock' = clock /\ accountChanges' = accountChanges
    BY DEF FinishAccount
<1>3. /\ sync # NoSync /\ sync \in SyncRow /\ sync.flag \in BOOLEAN /\ sync.at = "account"
      /\ sync.today \in Days /\ sync.today \in Nat /\ sync.back \in 0..RecentDays
      /\ sync.back >= DaysBack(metered.platform)
    BY <1>2, SyncFields, TodayKnown, AnalyticsAssumption DEF SyncRow, SyncAt, DaysLeft, DaysBack
<1>a. PICK flag \in BOOLEAN : ToPost(flag)
    BY <1>3 DEF FinishAccount
<1>b. /\ metered' \in [platform : MeteredPlatforms, flag : BOOLEAN, scope : BOOLEAN, followers : {0, 1}]
      /\ metered'.platform = metered.platform
      /\ metered'.flag => metered.flag \/ refused
    BY <1>3 DEF FinishAccount, Mark, AnalyticsTypes
<1>c. syncFaults' \in 0..MaxSyncFaults
    BY AnalyticsAssumption DEF FinishAccount, SyncFault, AnalyticsTypes
<1>4. /\ sync' \in SyncRow /\ sync' # NoSync /\ sync'.at = "post" /\ sync'.kind = sync.kind
      /\ sync'.today = sync.today /\ sync'.superseded = sync.superseded
    BY <1>3, <1>a, ToPostRow
<1>5. /\ told' \in [ran : BOOLEAN, passed : BOOLEAN, failed : BOOLEAN, began : SUBSET Days,
                    refused : BOOLEAN, filled : BOOLEAN, neglected : BOOLEAN]
      /\ told'.passed => told.passed \/ sync.today = Today
      /\ told'.failed = told.failed /\ told'.refused = (told.refused \/ refused)
      /\ told'.began = told.began
      /\ told'.filled = told.filled /\ told'.neglected = told.neglected
    <2>1. /\ (told.passed \/ (sync.kind = "cron" /\ sync.today = Today)) \in BOOLEAN
          /\ (told.refused \/ refused) \in BOOLEAN
        BY DEF AnalyticsTypes
    <2> HIDE DEF refused
    <2> QED BY <1>2, <2>1 DEF AnalyticsTypes
<1>6. /\ rows' \in [Days -> SUBSET {"metrics", "followers"}]
      /\ \A d \in Days : rows[d] \subseteq rows'[d]
      /\ \A d \in Days : d # sync.today => rows'[d] = rows[d]
    BY <1>2, <1>3 DEF AnalyticsTypes
<1>7. video' \in [data : Int, analytics : Int]
    <2>1. clock.hour \in Int BY TodayKnown
    <2> QED BY <1>1, <2>1 DEF AnalyticsTypes
<1>8. AnalyticsTypes' BY <1>2, <1>4, <1>5, <1>6, <1>7, <1>b, <1>c DEF AnalyticsTypes
<1>9. Today' = Today /\ Today \in Nat BY <1>2, TodayKnown DEF Today
<1>10. sync.today <= Today /\ sync.today \in told.began BY <1>3 DEF DaysKnown
<1>11. DaysKnown'
    <2>1. \A d \in Days : d > Today => rows'[d] = {}
        BY <1>3, <1>6, <1>9, <1>10 DEF DaysKnown
    <2> QED BY <1>2, <1>4, <1>5, <1>9, <1>10, <2>1 DEF DaysKnown
<1>12. PassesCover'
    <2> SUFFICES ASSUME ~told.failed
                 PROVE  /\ ~AtWork'
                        /\ rows'[Today] # {} => WindowCovered'
                        /\ told'.passed => WindowCovered'
        BY <1>5, <1>9 DEF PassesCover
    <2>1. ~AtWork' BY <1>4 DEF AtWork
    <2>2. \A d \in Days : Covered(d) => Covered(d)' BY <1>2, <1>6, <1>9, <1>b, CoverGrows
    <2>3. WindowCovered => WindowCovered'
        BY <1>9, <2>2, TodayKnown DEF WindowCovered
    <2>4. CASE sync.today = Today
        <3>1. AtWork BY <1>3, <2>4 DEF AtWork
        <3>2. \A d \in (Today - sync.back + 1)..Today : Covered(d) \/ (d = Today /\ sync.total)
            BY <3>1 DEF PassesCover
        <3>3. ASSUME NEW d \in (Today - RecentDays + 1)..Today PROVE Covered(d)'
            <4>0. d \in Days BY TodayKnown
            <4>1. d \in (Today - sync.back + 1)..Today \/ (d < Today /\ metered.platform \in {"tiktok", "x"})
                BY <1>3, <1>9, AnalyticsAssumption DEF DaysBack
            <4>2. CASE d < Today /\ metered.platform \in {"tiktok", "x"}
                BY <1>9, <1>b, <4>2 DEF Covered
            <4>3. CASE Covered(d)
                BY <2>2, <4>0, <4>3
            <4>4. CASE d = Today /\ sync.total
                <5>1. "followers" \in rows'[d] BY <1>2, <1>3, <2>4, <4>4 DEF AnalyticsTypes
                <5> QED BY <5>1 DEF Covered
            <4> QED BY <3>2, <4>1, <4>2, <4>3, <4>4
        <3> QED BY <1>9, <2>1, <3>3 DEF WindowCovered
    <2>5. CASE sync.today # Today
        <3>1. ~AtWork BY <2>5 DEF AtWork
        <3>2. Today \in Days BY TodayKnown
        <3>3. rows'[Today] = rows[Today] BY <1>6, <2>5, <3>2
        <3>4. told'.passed => told.passed BY <1>5, <2>5
        <3> QED BY <2>1, <2>3, <3>1, <3>3, <3>4 DEF PassesCover
    <2> QED BY <2>4, <2>5
<1>13. BackfillsQueued' BY <1>2, <1>3, <1>4 DEF BackfillsQueued
<1>14. NoInventedHistory' BY <1>5, <1>6, <1>10 DEF NoInventedHistory
<1>15. GrantsGetAnalytics' BY <1>2, <1>5, <1>b DEF GrantsGetAnalytics
<1>16. PostStaysFresh' BY <1>5 DEF PostStaysFresh
<1> QED BY <1>8, <1>11, <1>12, <1>13, <1>14, <1>15, <1>16

-------------------------------------------------------------------------------
(* Analytics: the end of a task *)

ToldRow == [ran : BOOLEAN, passed : BOOLEAN, failed : BOOLEAN, began : SUBSET Days,
            refused : BOOLEAN, filled : BOOLEAN, neglected : BOOLEAN]

\* A task that is done, whatever it told and found: what the invariant asks of it.
LEMMA DoneKeeps ==
    ASSUME AnalyticsInv, SyncAt("post"), Done, rows' = rows, clock' = clock,
           accountChanges' = accountChanges, syncFaults' \in 0..MaxSyncFaults,
           video' \in [data : Int, analytics : Int],
           metered' \in [platform : MeteredPlatforms, flag : BOOLEAN, scope : BOOLEAN, followers : {0, 1}],
           metered'.platform = metered.platform, metered'.flag => told'.refused,
           told' \in ToldRow, told'.began = told.began, told'.passed = told.passed,
           told.failed => told'.failed, told'.neglected = FALSE,
           told'.filled = (told.filled \/ (sync.kind = "backfill" /\ ~sync.superseded))
    PROVE  AnalyticsInv'
<1> USE DEF AnalyticsInv
<1>1. sync' = NoSync /\ backfills' = backfills - (IF sync.kind = "backfill" THEN 1 ELSE 0)
    BY DEF Done
<1>2. sync # NoSync /\ sync \in SyncRow /\ sync.at = "post" /\ sync.superseded \in BOOLEAN
    BY SyncFields DEF SyncAt, SyncRow
<1>3. /\ backfills' \in Nat /\ backfills' <= accountChanges + 1
      /\ backfills' > 0 \/ told'.filled
    <2>1. accountChanges \in Nat /\ backfills \in Nat /\ backfills <= accountChanges + 1
        BY AnalyticsAssumption DEF AnalyticsTypes, BackfillsQueued
    <2>2. CASE sync.kind = "backfill"
        <3>1. backfills >= 1 /\ (sync.superseded => backfills >= 2) BY <1>2, <2>2 DEF BackfillsQueued
        <3>2. backfills' = backfills - 1 BY <1>1, <2>2
        <3>3. ~sync.superseded => told'.filled BY <2>2 DEF ToldRow
        <3>4. sync.superseded => backfills' > 0 BY <2>1, <3>1, <3>2
        <3> QED BY <2>1, <3>1, <3>2, <3>3, <3>4
    <2>3. CASE sync.kind # "backfill"
        <3>1. backfills' = backfills BY <1>1, <2>1, <2>3
        <3>2. told'.filled = told.filled BY <2>3 DEF AnalyticsTypes
        <3> QED BY <2>1, <3>1, <3>2 DEF GrantsGetAnalytics
    <2> QED BY <2>2, <2>3
<1>4. AnalyticsTypes' BY <1>1, <1>3 DEF AnalyticsTypes, ToldRow
<1>5. Today' = Today BY DEF Today
<1>6. DaysKnown' BY <1>1, <1>5 DEF DaysKnown
<1>7. PassesCover'
    <2>1. ~AtWork' /\ ~AtWork BY <1>1, <1>2 DEF AtWork
    <2>2. told'.failed = FALSE => told.failed = FALSE BY DEF AnalyticsTypes
    <2> QED BY <1>5, <2>1, <2>2, PassesStand
<1>8. BackfillsQueued' BY <1>1, <1>3 DEF BackfillsQueued
<1>9. NoInventedHistory' BY DEF NoInventedHistory
<1>10. GrantsGetAnalytics' BY <1>3 DEF GrantsGetAnalytics
<1>11. PostStaysFresh' BY DEF PostStaysFresh
<1> QED BY <1>4, <1>6, <1>7, <1>8, <1>9, <1>10, <1>11

LEMMA SyncPostKeeps ==
    ASSUME AnalyticsInv, SyncPost
    PROVE  AnalyticsInv'
<1> DEFINE served == told.filled \/ (sync.kind = "backfill" /\ ~sync.superseded)
<1>1. /\ SyncAt("post") /\ Done /\ video' = [video EXCEPT !.data = clock.hour]
      /\ told' = [told EXCEPT !.filled = served]
      /\ metered' = metered /\ rows' = rows /\ clock' = clock
      /\ accountChanges' = accountChanges /\ syncFaults' = syncFaults
    BY DEF SyncPost, Served
<1>2. AnalyticsTypes BY DEF AnalyticsInv
<1>3. video' \in [data : Int, analytics : Int]
    <2>1. clock.hour \in Int BY <1>2, TodayKnown
    <2> QED BY <1>1, <1>2, <2>1 DEF AnalyticsTypes
<1>4. /\ told' \in ToldRow /\ told'.began = told.began /\ told'.passed = told.passed
      /\ told'.failed = told.failed /\ told'.neglected = told.neglected
      /\ told'.filled = served /\ told'.refused = told.refused
    <2>1. served \in BOOLEAN BY <1>2 DEF AnalyticsTypes
    <2> HIDE DEF served
    <2> QED BY <1>1, <1>2, <2>1 DEF AnalyticsTypes, ToldRow
<1>5. syncFaults' \in 0..MaxSyncFaults /\ metered' \in [platform : MeteredPlatforms, flag : BOOLEAN,
          scope : BOOLEAN, followers : {0, 1}]
    BY <1>1, <1>2 DEF AnalyticsTypes
<1>6. metered'.flag => told'.refused BY <1>1, <1>4 DEF AnalyticsInv, GrantsGetAnalytics
<1>7. told'.neglected = FALSE BY <1>2, <1>4 DEF AnalyticsInv, PostStaysFresh, AnalyticsTypes
<1> QED BY <1>1, <1>3, <1>4, <1>5, <1>6, <1>7, DoneKeeps

LEMMA PostNotDueKeeps ==
    ASSUME AnalyticsInv, PostNotDue
    PROVE  AnalyticsInv'
<1> DEFINE served == told.filled \/ (sync.kind = "backfill" /\ ~sync.superseded)
           stale == told.neglected \/ (sync.kind = "cron" /\ ~UpToDate(clock.hour))
<1>1. /\ SyncAt("post") /\ Done /\ ~Wanted
      /\ told' = [told EXCEPT !.neglected = stale, !.filled = served]
      /\ metered' = metered /\ rows' = rows /\ clock' = clock /\ video' = video
      /\ accountChanges' = accountChanges /\ syncFaults' = syncFaults
    <2>1. PostNotDue BY DEF AnalyticsInv
    <2>2. /\ SyncAt("post") /\ Done /\ ~Wanted
          /\ told' = Served([told EXCEPT !.neglected = @ \/ (sync.kind = "cron" /\ ~UpToDate(clock.hour))])
          /\ metered' = metered /\ rows' = rows /\ clock' = clock /\ video' = video
          /\ accountChanges' = accountChanges /\ syncFaults' = syncFaults
        BY <2>1 DEF PostNotDue
    <2>3. told' = [told EXCEPT !.neglected = stale, !.filled = served]
        BY <2>2 DEF Served, AnalyticsInv, AnalyticsTypes
    <2> QED BY <2>2, <2>3
<1>2. AnalyticsTypes BY DEF AnalyticsInv
<1>3. told.neglected = FALSE BY <1>2 DEF AnalyticsInv, PostStaysFresh, AnalyticsTypes
<1>4. stale = FALSE
    <2>1. ASSUME sync.kind = "cron", clock.hour < SyncHorizon
          PROVE  video.data # NotYet /\ clock.hour - video.data < Interval(clock.hour)
        <3>1. ~DueAt(clock.hour) BY <1>1, <2>1 DEF Wanted
        <3>2. ~(video.data = NotYet \/ clock.hour - video.data >= Interval(clock.hour))
            BY <2>1, <3>1 DEF DueAt, CadenceRows
        <3>3. /\ clock.hour \in Int /\ video.data \in Int /\ Interval(clock.hour) \in Int
            BY <1>2, TodayKnown, AnalyticsAssumption DEF AnalyticsTypes, Interval
        <3> QED BY <3>2, <3>3
    <2>2. sync.kind = "cron" => UpToDate(clock.hour)
        BY <2>1 DEF UpToDate
    <2> QED BY <1>3, <2>2
<1>5. /\ told' \in ToldRow /\ told'.began = told.began /\ told'.passed = told.passed
      /\ told'.failed = told.failed /\ told'.neglected = FALSE
      /\ told'.filled = served /\ told'.refused = told.refused
    <2>1. served \in BOOLEAN BY <1>2 DEF AnalyticsTypes
    <2> HIDE DEF served, stale
    <2> QED BY <1>1, <1>2, <1>4, <2>1 DEF AnalyticsTypes, ToldRow
<1>6. syncFaults' \in 0..MaxSyncFaults /\ metered' \in [platform : MeteredPlatforms, flag : BOOLEAN,
          scope : BOOLEAN, followers : {0, 1}] /\ video' \in [data : Int, analytics : Int]
    BY <1>1, <1>2 DEF AnalyticsTypes
<1>7. metered'.flag => told'.refused BY <1>1, <1>5 DEF AnalyticsInv, GrantsGetAnalytics
<1> QED BY <1>1, <1>5, <1>6, <1>7, DoneKeeps

LEMMA PostRefusedKeeps ==
    ASSUME AnalyticsInv, PostRefused
    PROVE  AnalyticsInv'
<1> DEFINE served == told.filled \/ (sync.kind = "backfill" /\ ~sync.superseded)
<1>1. /\ SyncAt("post") /\ Done /\ metered' = [metered EXCEPT !.flag = @ \/ ~sync.flag]
      /\ told' = Served(Refusal(told))
      /\ rows' = rows /\ clock' = clock /\ video' = video
      /\ accountChanges' = accountChanges /\ syncFaults' = syncFaults
    BY DEF PostRefused, Mark
<1>2. AnalyticsTypes BY DEF AnalyticsInv
<1>3. told' = [told EXCEPT !.failed = TRUE, !.refused = TRUE, !.filled = served]
    BY <1>1, <1>2 DEF Served, Refusal, AnalyticsTypes
<1>4. /\ told' \in ToldRow /\ told'.began = told.began /\ told'.passed = told.passed
      /\ told'.failed = TRUE /\ told'.neglected = told.neglected
      /\ told'.filled = served /\ told'.refused = TRUE
    <2>1. served \in BOOLEAN BY <1>2 DEF AnalyticsTypes
    <2> HIDE DEF served
    <2> QED BY <1>3, <1>2, <2>1 DEF AnalyticsTypes, ToldRow
<1>5. /\ syncFaults' \in 0..MaxSyncFaults /\ video' \in [data : Int, analytics : Int]
      /\ metered' \in [platform : MeteredPlatforms, flag : BOOLEAN, scope : BOOLEAN, followers : {0, 1}]
      /\ metered'.platform = metered.platform
    <2>1. sync.flag \in BOOLEAN BY <1>1, <1>2, SyncFields DEF SyncAt, SyncRow
    <2> QED BY <1>1, <1>2, <2>1 DEF AnalyticsTypes
<1>6. told'.neglected = FALSE BY <1>2, <1>4 DEF AnalyticsInv, PostStaysFresh, AnalyticsTypes
<1> QED BY <1>1, <1>4, <1>5, <1>6, DoneKeeps

LEMMA PostFailsKeeps ==
    ASSUME AnalyticsInv, PostFails
    PROVE  AnalyticsInv'
<1> DEFINE served == told.filled \/ (sync.kind = "backfill" /\ ~sync.superseded)
<1>1. /\ SyncAt("post") /\ Done /\ syncFaults < MaxSyncFaults /\ syncFaults' = syncFaults + 1
      /\ told' = [told EXCEPT !.filled = served]
      /\ metered' = metered /\ rows' = rows /\ clock' = clock /\ video' = video
      /\ accountChanges' = accountChanges
    BY DEF PostFails, Served, SyncFault
<1>2. AnalyticsTypes BY DEF AnalyticsInv
<1>3. /\ told' \in ToldRow /\ told'.began = told.began /\ told'.passed = told.passed
      /\ told'.failed = told.failed /\ told'.neglected = told.neglected
      /\ told'.filled = served /\ told'.refused = told.refused
    <2>1. served \in BOOLEAN BY <1>2 DEF AnalyticsTypes
    <2> HIDE DEF served
    <2> QED BY <1>1, <1>2, <2>1 DEF AnalyticsTypes, ToldRow
<1>4. syncFaults' \in 0..MaxSyncFaults BY <1>1, <1>2, AnalyticsAssumption DEF AnalyticsTypes
<1>5. /\ video' \in [data : Int, analytics : Int]
      /\ metered' \in [platform : MeteredPlatforms, flag : BOOLEAN, scope : BOOLEAN, followers : {0, 1}]
    BY <1>1, <1>2 DEF AnalyticsTypes
<1>6. metered'.flag => told'.refused BY <1>1, <1>3 DEF AnalyticsInv, GrantsGetAnalytics
<1>7. told'.neglected = FALSE BY <1>2, <1>3 DEF AnalyticsInv, PostStaysFresh, AnalyticsTypes
<1> QED BY <1>1, <1>3, <1>4, <1>5, <1>6, <1>7, DoneKeeps

LEMMA SyncDiesKeeps ==
    ASSUME AnalyticsInv, SyncDies
    PROVE  AnalyticsInv'
<1> USE DEF AnalyticsInv
<1>1. /\ sync' = NoSync /\ syncFaults < MaxSyncFaults /\ syncFaults' = syncFaults + 1
      /\ told' = [told EXCEPT !.failed = TRUE]
      /\ metered' = metered /\ backfills' = backfills /\ rows' = rows /\ video' = video
      /\ clock' = clock /\ accountChanges' = accountChanges
    BY DEF SyncDies, SyncFault
<1>2. syncFaults' \in 0..MaxSyncFaults BY <1>1, AnalyticsAssumption DEF AnalyticsTypes
<1>3. /\ told' \in [ran : BOOLEAN, passed : BOOLEAN, failed : BOOLEAN, began : SUBSET Days,
                    refused : BOOLEAN, filled : BOOLEAN, neglected : BOOLEAN]
      /\ told'.failed = TRUE /\ told'.refused = told.refused /\ told'.began = told.began
      /\ told'.filled = told.filled /\ told'.neglected = told.neglected
    BY <1>1 DEF AnalyticsTypes
<1>4. AnalyticsTypes' BY <1>1, <1>2, <1>3 DEF AnalyticsTypes
<1>5. Today' = Today BY <1>1 DEF Today
<1>6. DaysKnown' BY <1>1, <1>3, <1>5 DEF DaysKnown
<1>7. PassesCover' BY <1>3 DEF PassesCover
<1>8. BackfillsQueued' BY <1>1 DEF BackfillsQueued
<1>9. NoInventedHistory' BY <1>1, <1>3 DEF NoInventedHistory
<1>10. GrantsGetAnalytics' BY <1>1, <1>3 DEF GrantsGetAnalytics
<1>11. PostStaysFresh' BY <1>3 DEF PostStaysFresh
<1> QED BY <1>4, <1>6, <1>7, <1>8, <1>9, <1>10, <1>11

LEMMA AnalyticsInvInit == AnalyticsInit => AnalyticsInv
<1> SUFFICES ASSUME AnalyticsInit PROVE AnalyticsInv
    OBVIOUS
<1>1. PICK platform \in MeteredPlatforms :
         metered = [platform |-> platform, flag |-> FALSE, scope |-> TRUE,
                    followers |-> IF platform \in {"facebook", "instagram"} THEN 0 ELSE 1]
    BY DEF AnalyticsInit
<1>2. /\ backfills = 1 /\ sync = NoSync /\ rows = [d \in Days |-> {}]
      /\ video = [data |-> NotYet, analytics |-> NotYet]
      /\ clock = [hour |-> 0, ready |-> -1] /\ accountChanges = 0 /\ syncFaults = 0
      /\ told = [ran |-> FALSE, passed |-> FALSE, failed |-> FALSE, began |-> {},
                 refused |-> FALSE, filled |-> FALSE, neglected |-> FALSE]
    BY DEF AnalyticsInit
<1>3. clock \in [hour : 0..LastSyncHour, ready : Int] BY <1>2, AnalyticsAssumption
<1>4. video \in [data : Int, analytics : Int] BY <1>2 DEF NotYet
<1>5. AnalyticsTypes BY <1>1, <1>2, <1>3, <1>4, AnalyticsAssumption DEF AnalyticsTypes
<1>6. Today \in Nat /\ Today \in Days BY <1>5, TodayKnown
<1>7. DaysKnown BY <1>2, <1>6 DEF DaysKnown
<1>8. PassesCover BY <1>2, <1>6 DEF PassesCover, AtWork
<1>9. BackfillsQueued BY <1>2 DEF BackfillsQueued
<1>10. NoInventedHistory BY <1>2 DEF NoInventedHistory
<1>11. GrantsGetAnalytics BY <1>1, <1>2 DEF GrantsGetAnalytics
<1>12. PostStaysFresh BY <1>2 DEF PostStaysFresh
<1> QED BY <1>5, <1>7, <1>8, <1>9, <1>10, <1>11, <1>12 DEF AnalyticsInv

LEMMA AnalyticsNextKeeps == AnalyticsInv /\ [AnalyticsNext]_analyticsVars => AnalyticsInv'
<1> SUFFICES ASSUME AnalyticsInv, [AnalyticsNext]_analyticsVars PROVE AnalyticsInv'
    OBVIOUS
<1>1. CASE UNCHANGED analyticsVars
    BY <1>1 DEF analyticsVars, AnalyticsInv, AnalyticsTypes, DaysKnown, PassesCover, BackfillsQueued,
       NoInventedHistory, GrantsGetAnalytics, PostStaysFresh, Covered, WindowCovered, AtWork, Today
<1>2. CASE AnalyticsNext
    BY <1>2, ReconnectKeeps, RefreshKeeps, LoseScopeKeeps, HourKeeps, StartCronKeeps,
       StartBackfillKeeps, SkipDayKeeps, FetchDayKeeps, AccountRefusedKeeps, AccountFailsKeeps,
       FinishAccountKeeps, SyncPostKeeps, PostNotDueKeeps, PostRefusedKeeps, PostFailsKeeps,
       SyncDiesKeeps DEF AnalyticsNext
<1> QED BY <1>1, <1>2

LEMMA AnalyticsInvHolds == AnalyticsInv => AnalyticsHold /\ AnalyticsTypeOK
<1> SUFFICES ASSUME AnalyticsInv PROVE AnalyticsHold /\ AnalyticsTypeOK
    OBVIOUS
<1>1. AnalyticsTypes BY DEF AnalyticsInv
<1>2. Today \in Days /\ Today \in Nat BY <1>1, TodayKnown
<1>3. RecentDaysCaughtUp
    BY DEF AnalyticsInv, PassesCover, WindowCovered, Covered, RecentDaysCaughtUp
<1>4. AnalyticsTypeOK
    <2>1. backfills \in 0..(MaxAccountChanges + 1)
        BY <1>1, AnalyticsAssumption DEF AnalyticsInv, BackfillsQueued, AnalyticsTypes
    <2>2. sync # NoSync => sync.kind \in {"cron", "backfill"} /\ sync.at \in {"account", "post"}
        BY <1>1, SyncFields DEF SyncRow
    <2>3. clock.ready < Today + 1
        BY <1>1, <1>2 DEF AnalyticsInv, DaysKnown, AnalyticsTypes
    <2> QED BY <1>1, <2>1, <2>2, <2>3 DEF AnalyticsTypes, AnalyticsTypeOK
<1> QED BY <1>3, <1>4 DEF AnalyticsInv, AnalyticsHold

\* An hourly task that went through the account without a failure leaves no day of its
\* window without what the platform has, history is never invented, a present grant gets its
\* backfill and posts stay as fresh as their schedule; for any days, hours and changes.
THEOREM AnalyticsStaySound == AnalyticsInit /\ [][AnalyticsNext]_analyticsVars => []AnalyticsHold
BY AnalyticsInvInit, AnalyticsNextKeeps, AnalyticsInvHolds, PTL

-------------------------------------------------------------------------------
(* The pages: sums over finite sets *)

\* A set of numbers that has the first of an interval, and the next of each it has there,
\* has the interval.
LEMMA UpTheInterval ==
    ASSUME NEW a \in Int, NEW b \in Int, NEW Good, a \in Good,
           \A k \in a..(b - 1) : k \in Good => k + 1 \in Good
    PROVE  a..b \subseteq Good
<1> DEFINE Bad == {n \in Nat : a + n <= b /\ a + n \notin Good}
<1>1. SUFFICES ASSUME Bad # {} PROVE FALSE
    <2>1. ASSUME NEW k \in a..b PROVE k \in Good
        <3>1. k - a \in Nat /\ a + (k - a) = k /\ a + (k - a) <= b
            OBVIOUS
        <3>2. k - a \notin Bad
            BY <1>1
        <3> QED BY <3>1, <3>2
    <2> QED BY <2>1
<1>2. PICK n \in Bad : \A m \in Bad : ~(<<m, n>> \in OpToRel(<, Nat))
    BY <1>1, NatLessThanWellFounded, WFMin
<1>3. \A m \in Bad : ~(m < n)
    BY <1>2 DEF OpToRel
<1>4. n # 0
    BY a + 0 = a
<1>5. n - 1 \in Nat /\ n - 1 < n
    BY <1>4
<1>6. n - 1 \notin Bad
    BY <1>3, <1>5
<1>7. a + (n - 1) \in a..(b - 1) /\ a + (n - 1) \in Good /\ (a + (n - 1)) + 1 = a + n
    BY <1>5, <1>6
<1> QED BY <1>7

\* A set of subsets of a finite set that has the empty one, and each one that it has
\* short of any element, has the whole.
LEMMA UpTheSubsets ==
    ASSUME NEW S, IsFiniteSet(S), NEW Good, {} \in Good,
           \A T \in SUBSET S : T # {} /\ (\A x \in T : T \ {x} \in Good) => T \in Good
    PROVE  \A T \in SUBSET S : T \in Good
<1> DEFINE Bad == {n \in Nat : \E T \in SUBSET S : Cardinality(T) = n /\ T \notin Good}
<1>1. \A T \in SUBSET S : IsFiniteSet(T) /\ Cardinality(T) \in Nat
    BY FS_Subset, FS_CardinalityType
<1>2. SUFFICES ASSUME Bad # {} PROVE FALSE
    BY <1>1
<1>3. PICK n \in Bad : \A m \in Bad : ~(m < n)
    <2>1. Bad \subseteq Nat
        OBVIOUS
    <2> HIDE DEF Bad
    <2>2. PICK n \in Bad : \A m \in Bad : ~(<<m, n>> \in OpToRel(<, Nat))
        BY <1>2, <2>1, NatLessThanWellFounded, WFMin
    <2> QED BY <2>1, <2>2 DEF OpToRel
<1>4. \A m \in Bad : ~(m < n)
    BY <1>3
<1>5. PICK T \in SUBSET S : Cardinality(T) = n /\ T \notin Good
    OBVIOUS
<1>6. T # {}
    BY <1>5
<1>7. PICK x \in T : T \ {x} \notin Good
    BY <1>5, <1>6
<1>8. Cardinality(T \ {x}) = n - 1 /\ n - 1 \in Nat
    BY <1>1, <1>5, FS_RemoveElement
<1>9. n - 1 \in Bad
    BY <1>7, <1>8
<1> QED BY <1>4, <1>8, <1>9

ChosenTerm(s) == CHOOSE d \in s : TRUE
Adds(g, f, S) ==
    g = [s \in SUBSET S |-> IF s = {} THEN 0 ELSE f[ChosenTerm(s)] + g[s \ {ChosenTerm(s)}]]

\* The recursion of a sum has a solution.
LEMMA SumsExist ==
    ASSUME NEW S, IsFiniteSet(S), NEW f
    PROVE  \E g : Adds(g, f, S)
<1> DEFINE Upto(n) == {s \in SUBSET S : Cardinality(s) < n}
           Part(g, s) == IF s = {} THEN 0 ELSE f[ChosenTerm(s)] + g[s \ {ChosenTerm(s)}]
           Solved(n) == \E g : g = [s \in Upto(n) |-> Part(g, s)]
           Good == {n \in Nat : Solved(n)}
           top == Cardinality(S) + 1
<1>1. \A s \in SUBSET S : IsFiniteSet(s) /\ Cardinality(s) \in Nat /\ Cardinality(s) < top
    BY FS_Subset, FS_CardinalityType
<1>2. top \in Nat
    BY FS_CardinalityType
<1>3. 0 \in Good
    <2> DEFINE g == [s \in {} |-> 0]
    <2>1. Upto(0) = {}
        BY <1>1
    <2>2. g = [s \in Upto(0) |-> Part(g, s)]
        BY <2>1
    <2> QED BY <2>2
<1>4. ASSUME NEW n \in Nat, n \in Good PROVE n + 1 \in Good
    <2>1. PICK g : g = [s \in Upto(n) |-> Part(g, s)]
        BY <1>4
    <2> DEFINE h == [s \in Upto(n + 1) |-> IF s \in Upto(n) THEN g[s] ELSE Part(g, s)]
    <2>2. ASSUME NEW s \in Upto(n + 1) PROVE h[s] = Part(h, s)
        <3>1. CASE s = {}
            <4>1. s \in Upto(n) => g[s] = Part(g, s)
                BY <2>1
            <4> QED BY <3>1, <4>1
        <3>2. CASE s # {}
            <4> DEFINE x == ChosenTerm(s)
            <4>1. x \in s
                BY <3>2 DEF ChosenTerm
            <4>2. Cardinality(s \ {x}) = Cardinality(s) - 1
                BY <1>1, <4>1, FS_RemoveElement
            <4>3. s \ {x} \in Upto(n) /\ s \ {x} \in Upto(n + 1)
                BY <1>1, <4>2
            <4> HIDE DEF x
            <4>4. h[s \ {x}] = g[s \ {x}]
                BY <4>3
            <4>5. s \in Upto(n) => g[s] = Part(g, s)
                BY <2>1
            <4>6. h[s] = Part(g, s)
                BY <4>5
            <4> QED BY <3>2, <4>4, <4>6 DEF x
        <3> QED BY <3>1, <3>2
    <2>3. h = [s \in Upto(n + 1) |-> h[s]]
        OBVIOUS
    <2> HIDE DEF h
    <2>4. h = [s \in Upto(n + 1) |-> Part(h, s)]
        BY <2>2, <2>3
    <2>5. Solved(n + 1)
        BY <2>4
    <2> HIDE DEF Solved
    <2> QED BY <2>5
<1>5. top \in Good
    <2> HIDE DEF Good, top
    <2>1. 0..top \subseteq Good
        BY <1>2, <1>3, <1>4, UpTheInterval
    <2> QED BY <1>2, <2>1
<1>6. Upto(top) = SUBSET S
    BY <1>1
<1> QED BY <1>5, <1>6 DEF Adds

\* Solutions agree where both are defined.
LEMMA SumsAgree ==
    ASSUME NEW S, IsFiniteSet(S), NEW f, NEW g, Adds(g, f, S),
           NEW T \in SUBSET S, NEW h, Adds(h, f, T)
    PROVE  g[T] = h[T]
<1> DEFINE Good == {s \in SUBSET T : g[s] = h[s]}
<1>1. IsFiniteSet(T)
    BY FS_Subset
<1>2. {} \in Good
    BY DEF Adds
<1>3. ASSUME NEW s \in SUBSET T, s # {}, \A x \in s : s \ {x} \in Good PROVE s \in Good
    <2> DEFINE x == ChosenTerm(s)
    <2>1. x \in s
        BY <1>3 DEF ChosenTerm
    <2>2. s \ {x} \in Good
        BY <1>3, <2>1
    <2>3. g[s] = f[x] + g[s \ {x}] /\ h[s] = f[x] + h[s \ {x}]
        BY <1>3 DEF Adds
    <2> QED BY <2>2, <2>3
<1>4. T \in Good
    <2> HIDE DEF Good
    <2>1. \A s \in SUBSET T : s # {} /\ (\A x \in s : s \ {x} \in Good) => s \in Good
        BY ONLY <1>3
    <2>2. \A s \in SUBSET T : s \in Good
        BY ONLY <1>1, <1>2, <2>1, UpTheSubsets
    <2> QED BY ONLY <2>2
<1> QED BY <1>4

\* A sum takes a chosen element first.
LEMMA SumStarts ==
    ASSUME NEW S, IsFiniteSet(S), NEW f
    PROVE  /\ SumOver(f, {}) = 0
           /\ S # {} => SumOver(f, S) = f[ChosenTerm(S)] + SumOver(f, S \ {ChosenTerm(S)})
<1> DEFINE It(T) == CHOOSE g : Adds(g, f, T)
<1>1. \A T : SumOver(f, T) = It(T)[T]
    BY Zenon DEF SumOver, MapThenFoldSet, Adds, ChosenTerm
<1>2. \A T : IsFiniteSet(T) => Adds(It(T), f, T)
    BY SumsExist
<1> HIDE DEF It
<1>3. SumOver(f, {}) = 0
    BY <1>1, <1>2, FS_EmptySet DEF Adds
<1>4. ASSUME S # {} PROVE SumOver(f, S) = f[ChosenTerm(S)] + SumOver(f, S \ {ChosenTerm(S)})
    <2> DEFINE R == S \ {ChosenTerm(S)}
    <2>1. IsFiniteSet(R) /\ R \in SUBSET S
        BY FS_RemoveElement
    <2>2. It(S)[S] = f[ChosenTerm(S)] + It(S)[R]
        BY <1>2, <1>4 DEF Adds
    <2>3. It(S)[R] = It(R)[R]
        BY <1>2, <2>1, SumsAgree
    <2> QED BY <1>1, <2>2, <2>3
<1> QED BY <1>3, <1>4

\* A sum of numbers is one.
LEMMA SumsAreNumbers ==
    ASSUME NEW S, IsFiniteSet(S), NEW f, \A x \in S : f[x] \in Int
    PROVE  \A T \in SUBSET S : SumOver(f, T) \in Int
<1> DEFINE Good == {T \in SUBSET S : SumOver(f, T) \in Int}
<1>1. {} \in Good
    <2>1. SumOver(f, {}) = 0
        BY SumStarts
    <2> QED BY <2>1
<1>2. ASSUME NEW T \in SUBSET S, T # {}, \A x \in T : T \ {x} \in Good PROVE T \in Good
    <2>1. ChosenTerm(T) \in T
        BY <1>2 DEF ChosenTerm
    <2>2. IsFiniteSet(T)
        BY FS_Subset
    <2>3. SumOver(f, T) = f[ChosenTerm(T)] + SumOver(f, T \ {ChosenTerm(T)})
        BY <1>2, <2>2, SumStarts
    <2>4. f[ChosenTerm(T)] \in Int /\ SumOver(f, T \ {ChosenTerm(T)}) \in Int
        BY <1>2, <2>1
    <2> QED BY <2>3, <2>4
<1>3. \A T \in SUBSET S : T \in Good
    <2> HIDE DEF Good
    <2>1. \A T \in SUBSET S : T # {} /\ (\A x \in T : T \ {x} \in Good) => T \in Good
        BY ONLY <1>2
    <2>2. \A T \in SUBSET S : T \in Good
        BY ONLY IsFiniteSet(S), <1>1, <2>1, UpTheSubsets
    <2> QED BY ONLY <2>2
<1> QED BY <1>3

\* The first element of a sum may be any.
LEMMA SumTakes ==
    ASSUME NEW S, IsFiniteSet(S), NEW f, \A x \in S : f[x] \in Int
    PROVE  \A x \in S : SumOver(f, S) = f[x] + SumOver(f, S \ {x})
<1> DEFINE Good == {T \in SUBSET S : \A x \in T : SumOver(f, T) = f[x] + SumOver(f, T \ {x})}
<1>1. {} \in Good
    OBVIOUS
<1>2. ASSUME NEW T \in SUBSET S, T # {}, \A x \in T : T \ {x} \in Good PROVE T \in Good
    <2> DEFINE c == ChosenTerm(T)
    <2>1. c \in T
        BY <1>2 DEF ChosenTerm
    <2>2. IsFiniteSet(T)
        BY FS_Subset
    <2>3. SumOver(f, T) = f[c] + SumOver(f, T \ {c})
        BY <1>2, <2>2, SumStarts
    <2> HIDE DEF c
    <2>4. ASSUME NEW x \in T, x # c PROVE SumOver(f, T) = f[x] + SumOver(f, T \ {x})
        <3> DEFINE R == (T \ {c}) \ {x}
        <3>1. x \in T \ {c} /\ c \in T \ {x} /\ R = (T \ {x}) \ {c} /\ R \in SUBSET S
            BY <2>1, <2>4
        <3>2. SumOver(f, T \ {c}) = f[x] + SumOver(f, R)
            BY <1>2, <2>1, <3>1
        <3>3. SumOver(f, T \ {x}) = f[c] + SumOver(f, R)
            BY <1>2, <3>1
        <3>4. SumOver(f, R) \in Int /\ f[c] \in Int /\ f[x] \in Int
            BY <2>1, <3>1, SumsAreNumbers
        <3> HIDE DEF R
        <3> QED BY <2>3, <3>2, <3>3, <3>4
    <2> QED BY <2>3, <2>4
<1>3. \A T \in SUBSET S : T \in Good
    <2> HIDE DEF Good
    <2>1. \A T \in SUBSET S : T # {} /\ (\A x \in T : T \ {x} \in Good) => T \in Good
        BY ONLY <1>2
    <2>2. \A T \in SUBSET S : T \in Good
        BY ONLY IsFiniteSet(S), <1>1, <2>1, UpTheSubsets
    <2> QED BY ONLY <2>2
<1> QED BY <1>3

\* A sum depends on its terms only.
LEMMA SumsOfSameTerms ==
    ASSUME NEW S, IsFiniteSet(S), NEW f, NEW g, \A x \in S : f[x] = g[x]
    PROVE  SumOver(f, S) = SumOver(g, S)
<1> DEFINE Good == {T \in SUBSET S : SumOver(f, T) = SumOver(g, T)}
<1>1. {} \in Good
    BY SumStarts
<1>2. ASSUME NEW T \in SUBSET S, T # {}, \A x \in T : T \ {x} \in Good PROVE T \in Good
    <2>1. ChosenTerm(T) \in T /\ IsFiniteSet(T)
        BY <1>2, FS_Subset DEF ChosenTerm
    <2>2. /\ SumOver(f, T) = f[ChosenTerm(T)] + SumOver(f, T \ {ChosenTerm(T)})
          /\ SumOver(g, T) = g[ChosenTerm(T)] + SumOver(g, T \ {ChosenTerm(T)})
        BY <1>2, <2>1, SumStarts
    <2>3. f[ChosenTerm(T)] = g[ChosenTerm(T)]
        BY <2>1
    <2>4. SumOver(f, T \ {ChosenTerm(T)}) = SumOver(g, T \ {ChosenTerm(T)})
        BY <1>2, <2>1
    <2> QED BY <2>2, <2>3, <2>4
<1>3. S \in Good
    <2> HIDE DEF Good
    <2>1. \A T \in SUBSET S : T # {} /\ (\A x \in T : T \ {x} \in Good) => T \in Good
        BY ONLY <1>2
    <2>2. \A T \in SUBSET S : T \in Good
        BY ONLY IsFiniteSet(S), <1>1, <2>1, UpTheSubsets
    <2> QED BY ONLY <2>2
<1> QED BY <1>3

\* Sums over sets that share nothing add up to the sum over both.
LEMMA SumsAddUp ==
    ASSUME NEW A, IsFiniteSet(A), NEW B, IsFiniteSet(B), A \cap B = {}, NEW f,
           \A x \in A \cup B : f[x] \in Int
    PROVE  SumOver(f, A \cup B) = SumOver(f, A) + SumOver(f, B)
<1> DEFINE Good == {T \in SUBSET A : SumOver(f, T \cup B) = SumOver(f, T) + SumOver(f, B)}
<1>1. SumOver(f, B) \in Int
    BY SumsAreNumbers
<1>2. {} \in Good
    <2>1. SumOver(f, {}) = 0 /\ {} \cup B = B
        BY SumStarts
    <2> QED BY <1>1, <2>1
<1>3. ASSUME NEW T \in SUBSET A, T # {}, \A x \in T : T \ {x} \in Good PROVE T \in Good
    <2>1. PICK x \in T : TRUE
        BY <1>3
    <2>2. IsFiniteSet(T) /\ IsFiniteSet(T \cup B) /\ (T \cup B) \ {x} = (T \ {x}) \cup B
        BY FS_Subset, FS_Union
    <2>3. SumOver(f, T) = f[x] + SumOver(f, T \ {x})
        BY <2>2, SumTakes
    <2>4. SumOver(f, T \cup B) = f[x] + SumOver(f, (T \ {x}) \cup B)
        BY <2>2, SumTakes
    <2>5. SumOver(f, (T \ {x}) \cup B) = SumOver(f, T \ {x}) + SumOver(f, B)
        BY <1>3
    <2>6. f[x] \in Int /\ SumOver(f, T \ {x}) \in Int
        <3>1. T \ {x} \in SUBSET A
            OBVIOUS
        <3> QED BY <3>1, SumsAreNumbers
    <2>7. SumOver(f, T \cup B) = SumOver(f, T) + SumOver(f, B)
        BY <1>1, <2>3, <2>4, <2>5, <2>6
    <2> QED BY <2>7
<1>4. A \in Good
    <2> HIDE DEF Good
    <2>1. \A T \in SUBSET A : T # {} /\ (\A x \in T : T \ {x} \in Good) => T \in Good
        BY ONLY <1>3
    <2>2. \A T \in SUBSET A : T \in Good
        BY ONLY IsFiniteSet(A), <1>2, <2>1, UpTheSubsets
    <2> QED BY ONLY <2>2
<1> QED BY <1>4

\* Terms of 0 sum up to 0.
LEMMA SumOfZeros ==
    ASSUME NEW S, IsFiniteSet(S), NEW f, \A x \in S : f[x] = 0
    PROVE  SumOver(f, S) = 0
<1> DEFINE Good == {T \in SUBSET S : SumOver(f, T) = 0}
<1>1. {} \in Good
    BY SumStarts
<1>2. ASSUME NEW T \in SUBSET S, T # {}, \A x \in T : T \ {x} \in Good PROVE T \in Good
    <2>1. ChosenTerm(T) \in T /\ IsFiniteSet(T)
        BY <1>2, FS_Subset DEF ChosenTerm
    <2>2. SumOver(f, T) = f[ChosenTerm(T)] + SumOver(f, T \ {ChosenTerm(T)})
        BY <1>2, <2>1, SumStarts
    <2>3. f[ChosenTerm(T)] = 0 /\ SumOver(f, T \ {ChosenTerm(T)}) = 0
        BY <1>2, <2>1
    <2> QED BY <2>2, <2>3
<1>3. S \in Good
    <2> HIDE DEF Good
    <2>1. \A T \in SUBSET S : T # {} /\ (\A x \in T : T \ {x} \in Good) => T \in Good
        BY ONLY <1>2
    <2>2. \A T \in SUBSET S : T \in Good
        BY ONLY IsFiniteSet(S), <1>1, <2>1, UpTheSubsets
    <2> QED BY ONLY <2>2
<1> QED BY <1>3

\* The sum over an interval starts with its first term.
LEMMA SumOfFirst ==
    ASSUME NEW a \in Int, NEW f, f[a] \in Int
    PROVE  SumOver(f, a..a) = f[a]
<1>1. a \in a..a /\ (a..a) \ {a} = {} /\ \A d \in a..a : f[d] \in Int
    OBVIOUS
<1>2. IsFiniteSet(a..a)
    BY FS_Interval
<1>3. SumOver(f, a..a) = f[a] + SumOver(f, {})
    BY <1>1, <1>2, SumTakes
<1>4. SumOver(f, {}) = 0
    BY <1>2, SumStarts
<1> QED BY <1>3, <1>4

\* It goes on day by day, from none.
LEMMA SumOfNext ==
    ASSUME NEW a \in Int, NEW k \in Int, a <= k + 1, NEW f, \A d \in a..(k + 1) : f[d] \in Int
    PROVE  /\ SumOver(f, a..(k + 1)) = SumOver(f, a..k) + f[k + 1]
           /\ SumOver(f, a..k) \in Int /\ f[k + 1] \in Int
<1>1. k + 1 \in a..(k + 1) /\ (a..(k + 1)) \ {k + 1} = a..k
    OBVIOUS
<1>2. IsFiniteSet(a..(k + 1)) /\ IsFiniteSet(a..k)
    BY FS_Interval
<1>3. SumOver(f, a..(k + 1)) = f[k + 1] + SumOver(f, a..k)
    BY <1>1, <1>2, SumTakes
<1>4. SumOver(f, a..k) \in Int /\ f[k + 1] \in Int
    BY <1>1, <1>2, SumsAreNumbers
<1> QED BY <1>3, <1>4

\* Terms that are sums of two are summed one after the other.
LEMMA SumOfBoth ==
    ASSUME NEW S, IsFiniteSet(S), NEW f, NEW g, NEW h,
           \A x \in S : g[x] \in Int /\ h[x] \in Int /\ f[x] = g[x] + h[x]
    PROVE  SumOver(f, S) = SumOver(g, S) + SumOver(h, S)
<1> DEFINE Good == {T \in SUBSET S : SumOver(f, T) = SumOver(g, T) + SumOver(h, T)}
<1>1. {} \in Good
    <2>1. SumOver(f, {}) = 0 /\ SumOver(g, {}) = 0 /\ SumOver(h, {}) = 0
        BY SumStarts
    <2> QED BY <2>1
<1>2. ASSUME NEW T \in SUBSET S, T # {}, \A x \in T : T \ {x} \in Good PROVE T \in Good
    <2> DEFINE x == ChosenTerm(T)
               R == T \ {x}
    <2>1. x \in T /\ IsFiniteSet(T) /\ R \in SUBSET S
        BY <1>2, FS_Subset DEF ChosenTerm
    <2>2. /\ SumOver(f, T) = f[x] + SumOver(f, R)
          /\ SumOver(g, T) = g[x] + SumOver(g, R)
          /\ SumOver(h, T) = h[x] + SumOver(h, R)
        BY <1>2, <2>1, SumStarts
    <2>3. SumOver(f, R) = SumOver(g, R) + SumOver(h, R)
        BY <1>2, <2>1
    <2>4. SumOver(g, R) \in Int /\ SumOver(h, R) \in Int
        BY <2>1, SumsAreNumbers
    <2>5. g[x] \in Int /\ h[x] \in Int /\ f[x] = g[x] + h[x]
        BY <2>1
    <2> HIDE DEF x, R
    <2>6. SumOver(f, T) = SumOver(g, T) + SumOver(h, T)
        BY <2>2, <2>3, <2>4, <2>5
    <2> QED BY <2>6
<1>3. \A T \in SUBSET S : T \in Good
    <2> HIDE DEF Good
    <2> QED BY ONLY IsFiniteSet(S), <1>1, <1>2, UpTheSubsets
<1> QED BY <1>3

\* Each day from i to j has c, and no other day has anything.
SharedOut(f, a, b, i, j, c) == \A d \in a..b : f[d] = IF d \in i..j THEN c ELSE 0

\* The shares of a stretch within an interval add up to a share for each of its days.
LEMMA SumOfShares ==
    ASSUME NEW a \in Int, NEW b \in Int, NEW i \in a..b, NEW j \in i..b, NEW c \in Int,
           NEW f, SharedOut(f, a, b, i, j, c)
    PROVE  SumOver(f, a..b) = (j - i + 1) * c
<1> USE DEF SharedOut
<1>0. i \in Int /\ j \in Int /\ i <= j
    OBVIOUS
<1> USE <1>0
<1>1. SumOver(f, i..j) = (j - i + 1) * c
    <2> DEFINE Good == {k \in i..j : SumOver(f, i..k) = (k - i + 1) * c}
    <2>1. \A d \in i..j : f[d] = c /\ f[d] \in Int
        OBVIOUS
    <2>2. i \in Good
        <3>1. SumOver(f, i..i) = f[i]
            BY <2>1, SumOfFirst
        <3>2. f[i] = c /\ (i - i + 1) * c = c
            BY <2>1
        <3> QED BY <3>1, <3>2
    <2>3. ASSUME NEW k \in i..(j - 1), k \in Good PROVE k + 1 \in Good
        <3>1. SumOver(f, i..(k + 1)) = SumOver(f, i..k) + f[k + 1]
            <4>1. k \in Int /\ i <= k /\ \A d \in i..(k + 1) : f[d] \in Int
                BY <2>1
            <4> QED BY <4>1, SumOfNext
        <3>2. SumOver(f, i..k) = (k - i + 1) * c /\ f[k + 1] = c
            BY <2>1, <2>3
        <3>3. (k - i + 1) * c + c = ((k + 1) - i + 1) * c
            OBVIOUS
        <3> QED BY <3>1, <3>2, <3>3
    <2>4. j \in Good
        <3> HIDE DEF Good
        <3>1. \A k \in i..(j - 1) : k \in Good => k + 1 \in Good
            BY <2>3
        <3>2. i..j \subseteq Good
            BY ONLY <2>2, <3>1, i \in Int, j \in Int, UpTheInterval
        <3> QED BY <3>2
    <2> QED BY <2>4
<1> DEFINE Rest == (a..b) \ (i..j)
<1>2. IsFiniteSet(i..j) /\ IsFiniteSet(Rest) /\ (i..j) \cap Rest = {} /\ (i..j) \cup Rest = a..b
    <2>1. IsFiniteSet(i..j) /\ IsFiniteSet(a..b)
        BY FS_Interval
    <2> QED BY <2>1, FS_Subset
<1>3. \A d \in a..b : f[d] \in Int
    OBVIOUS
<1>4. \A d \in Rest : f[d] = 0
    OBVIOUS
<1> HIDE DEF Rest
<1>5. SumOver(f, Rest) = 0
    BY <1>2, <1>4, SumOfZeros
<1>6. SumOver(f, a..b) = SumOver(f, i..j) + SumOver(f, Rest)
    BY <1>2, <1>3, SumsAddUp
<1> QED BY <1>1, <1>5, <1>6

\* A finite set of numbers has a greatest and a least one.
LEMMA FiniteHasGreatest ==
    ASSUME NEW S \in SUBSET Int, IsFiniteSet(S), S # {}
    PROVE  /\ Greatest(S) \in S /\ \A x \in S : x <= Greatest(S)
           /\ Least(S) \in S /\ \A x \in S : Least(S) <= x
<1> DEFINE Good == {T \in SUBSET S : T # {} =>
                       /\ \E m \in T : \A x \in T : x <= m
                       /\ \E m \in T : \A x \in T : m <= x}
<1>1. {} \in Good
    OBVIOUS
<1>2. ASSUME NEW T \in SUBSET S, T # {}, \A x \in T : T \ {x} \in Good PROVE T \in Good
    <2>1. PICK x \in T : TRUE
        BY <1>2
    <2>2. CASE T \ {x} = {}
        BY <2>1, <2>2
    <2>3. CASE T \ {x} # {}
        <3>1. PICK m \in T \ {x} : \A y \in T \ {x} : y <= m
            BY <1>2, <2>3
        <3>2. PICK l \in T \ {x} : \A y \in T \ {x} : l <= y
            BY <1>2, <2>3
        <3>3. \E n \in T : \A y \in T : y <= n
            <4>1. CASE x <= m
                BY <3>1, <4>1
            <4>2. CASE ~(x <= m)
                <5>1. \A y \in T : y <= x
                    BY <3>1, <4>2
                <5> QED BY <5>1
            <4> QED BY <4>1, <4>2
        <3>4. \E n \in T : \A y \in T : n <= y
            <4>1. CASE l <= x
                BY <3>2, <4>1
            <4>2. CASE ~(l <= x)
                <5>1. \A y \in T : x <= y
                    BY <3>2, <4>2
                <5> QED BY <5>1
            <4> QED BY <4>1, <4>2
        <3> QED BY <3>3, <3>4
    <2> QED BY <2>2, <2>3
<1>3. S \in Good
    <2> HIDE DEF Good
    <2>1. \A T \in SUBSET S : T # {} /\ (\A x \in T : T \ {x} \in Good) => T \in Good
        BY ONLY <1>2
    <2>2. \A T \in SUBSET S : T \in Good
        BY ONLY IsFiniteSet(S), <1>1, <2>1, UpTheSubsets
    <2> QED BY ONLY <2>2
<1>4. (\E m \in S : \A x \in S : x <= m) /\ (\E m \in S : \A x \in S : m <= x)
    BY <1>3
<1> QED BY <1>4 DEF Greatest, Least

\* The values on a finite set of days are finitely many.
LEMMA FiniteValues ==
    ASSUME NEW S, IsFiniteSet(S), NEW v
    PROVE  IsFiniteSet({v[d] : d \in S})
<1> DEFINE Good == {T \in SUBSET S : IsFiniteSet({v[d] : d \in T})}
<1>1. {} \in Good
    BY FS_EmptySet
<1>2. ASSUME NEW T \in SUBSET S, T # {}, \A x \in T : T \ {x} \in Good PROVE T \in Good
    <2>1. PICK x \in T : TRUE
        BY <1>2
    <2>2. IsFiniteSet({v[d] : d \in T \ {x}})
        BY <1>2
    <2> DEFINE Others == {v[d] : d \in T \ {x}}
    <2>3. {v[d] : d \in T} = Others \cup {v[x]}
        OBVIOUS
    <2> HIDE DEF Others
    <2>4. IsFiniteSet(Others \cup {v[x]})
        BY <2>2, FS_AddElement DEF Others
    <2>5. IsFiniteSet({v[d] : d \in T})
        BY <2>3, <2>4
    <2> QED BY <2>5
<1>3. S \in Good
    <2> HIDE DEF Good
    <2>1. \A T \in SUBSET S : T # {} /\ (\A x \in T : T \ {x} \in Good) => T \in Good
        BY ONLY <1>2
    <2>2. \A T \in SUBSET S : T \in Good
        BY ONLY IsFiniteSet(S), <1>1, <2>1, UpTheSubsets
    <2> QED BY ONLY <2>2
<1> QED BY <1>3

\* What is no smaller than any of them is the greatest.
LEMMA GreatestIs ==
    ASSUME NEW S \in SUBSET Int, NEW m \in S, \A x \in S : x <= m
    PROVE  Greatest(S) = m
<1>1. Greatest(S) \in S /\ \A x \in S : x <= Greatest(S)
    BY DEF Greatest
<1>2. Greatest(S) \in Int /\ m \in Int /\ m <= Greatest(S) /\ Greatest(S) <= m
    BY <1>1
<1> QED BY <1>2

\* What is no greater than any of them is the least.
LEMMA LeastIs ==
    ASSUME NEW S \in SUBSET Int, NEW m \in S, \A x \in S : m <= x
    PROVE  Least(S) = m
<1>1. Least(S) \in S /\ \A x \in S : Least(S) <= x
    BY DEF Least
<1>2. Least(S) \in Int /\ m \in Int /\ m <= Least(S) /\ Least(S) <= m
    BY <1>1
<1> QED BY <1>2

\* The most that was reached before day k.
Reached(M, v, k) == Greatest({v[e] : e \in {x \in M : x < k}})

\* It is a value of one of the days before, and no smaller than any.
LEMMA ReachedIs ==
    ASSUME NEW M \in SUBSET Int, IsFiniteSet(M), NEW v, \A d \in M : v[d] \in Int,
           NEW k \in Int, NEW l \in M, l < k
    PROVE  /\ Reached(M, v, k) \in Int
           /\ \A x \in M : x < k => v[x] <= Reached(M, v, k)
           /\ \E x \in M : x < k /\ v[x] = Reached(M, v, k)
<1> DEFINE S == {x \in M : x < k}
           V == {v[e] : e \in S}
<1>1. IsFiniteSet(S)
    BY FS_Subset
<1>2. IsFiniteSet(V)
    <2> HIDE DEF S
    <2> QED BY <1>1, FiniteValues
<1>3. V \in SUBSET Int /\ V # {}
    OBVIOUS
<1>4. Greatest(V) \in V /\ \A w \in V : w <= Greatest(V)
    <2> HIDE DEF V
    <2> QED BY <1>2, <1>3, FiniteHasGreatest
<1>5. Reached(M, v, k) = Greatest(V)
    BY DEF Reached
<1>6. \A x \in M : x < k => v[x] \in V
    OBVIOUS
<1> QED BY <1>3, <1>4, <1>5, <1>6

\* A day that was not measured changes nothing.
LEMMA ReachedStays ==
    ASSUME NEW M \in SUBSET Int, NEW v, NEW k \in Int, k \notin M
    PROVE  Reached(M, v, k + 1) = Reached(M, v, k)
<1>1. {x \in M : x < k + 1} = {x \in M : x < k}
    <2>1. \A x \in M : x \in Int /\ x # k
        OBVIOUS
    <2>2. \A x \in M : x < k + 1 <=> x < k
        BY <2>1
    <2> QED BY <2>2
<1> QED BY <1>1 DEF Reached

\* The first that was measured is what is reached on it.
LEMMA ReachedFirst ==
    ASSUME NEW M \in SUBSET Int, NEW v, NEW k \in M, \A x \in M : k <= x, v[k] \in Int
    PROVE  Reached(M, v, k + 1) = v[k]
<1>1. {x \in M : x < k + 1} = {k}
    <2>1. \A x \in M : x \in Int /\ k \in Int
        OBVIOUS
    <2>2. \A x \in M : x < k + 1 <=> x = k
        BY <2>1
    <2> QED BY <2>2
<1>2. {v[e] : e \in {k}} = {v[k]}
    OBVIOUS
<1>3. Greatest({v[k]}) = v[k]
    BY GreatestIs
<1> QED BY <1>1, <1>2, <1>3 DEF Reached

\* A later one is reached if it is more than what was before.
LEMMA ReachedNext ==
    ASSUME NEW M \in SUBSET Int, IsFiniteSet(M), NEW v, \A d \in M : v[d] \in Int,
           NEW k \in M, NEW l \in M, l < k
    PROVE  Reached(M, v, k + 1) = IF v[k] > Reached(M, v, k) THEN v[k] ELSE Reached(M, v, k)
<1> DEFINE V == {v[e] : e \in {x \in M : x < k + 1}}
           m == IF v[k] > Reached(M, v, k) THEN v[k] ELSE Reached(M, v, k)
<1>1. /\ Reached(M, v, k) \in Int
      /\ \A x \in M : x < k => v[x] <= Reached(M, v, k)
      /\ \E x \in M : x < k /\ v[x] = Reached(M, v, k)
    BY ReachedIs
<1>2. V \in SUBSET Int
    OBVIOUS
<1>3. m \in V
    <2>1. v[k] \in V
        <3>1. k \in Int
            OBVIOUS
        <3>2. k < k + 1
            BY <3>1
        <3>3. k \in {x \in M : x < k + 1}
            BY <3>2
        <3> QED BY <3>3
    <2>2. Reached(M, v, k) \in V
        <3>1. PICK x \in M : x < k /\ v[x] = Reached(M, v, k)
            BY <1>1
        <3>2. x < k + 1
            BY <3>1
        <3> QED BY <3>1, <3>2
    <2> QED BY <2>1, <2>2
<1>4. \A w \in V : w <= m
    <2>1. ASSUME NEW x \in M, x < k + 1 PROVE v[x] <= m
        <3>1. x = k \/ x < k
            BY <2>1
        <3>2. v[x] \in Int /\ v[k] \in Int
            OBVIOUS
        <3> QED BY <1>1, <3>1, <3>2
    <2> QED BY <2>1
<1>5. Greatest(V) = m
    <2> HIDE DEF V, m
    <2> QED BY <1>2, <1>3, <1>4, GreatestIs
<1> QED BY <1>5 DEF Reached

\* What each day rises above what was reached before adds up to what was reached in the
\* end, less the first measurement.
LEMMA RisesAddUp ==
    ASSUME NEW a \in Int, NEW b \in Int, NEW M \in SUBSET (a..b), M # {}, NEW v,
           \A d \in M : v[d] \in Int, NEW r,
           \A d \in a..b : r[d] = IF d \in M /\ d # Least(M) /\ v[d] > Reached(M, v, d)
                                  THEN v[d] - Reached(M, v, d) ELSE 0
    PROVE  SumOver(r, a..b) = Reached(M, v, b + 1) - v[Least(M)]
<1> DEFINE first == Least(M)
           Total(k) == IF first <= k THEN Reached(M, v, k + 1) - v[first] ELSE 0
           Good == {k \in a..b : SumOver(r, a..k) = Total(k)}
<1>1. M \in SUBSET Int /\ IsFiniteSet(M)
    <2>1. IsFiniteSet(a..b)
        BY FS_Interval
    <2>2. IsFiniteSet(M)
        BY <2>1, FS_Subset
    <2>3. \A x \in M : x \in Int
        OBVIOUS
    <2> QED BY <2>2, <2>3
<1>2. first \in M /\ (\A x \in M : first <= x) /\ first \in a..b /\ v[first] \in Int
    BY <1>1, FiniteHasGreatest
<1> HIDE DEF first
<1>3. \A k \in Int : first < k => Reached(M, v, k) \in Int
    BY <1>1, <1>2, ReachedIs
<1>4. \A d \in a..b : r[d] \in Int
    <2>1. ASSUME NEW d \in a..b, d \in M, d # first PROVE Reached(M, v, d) \in Int
        BY <1>2, <1>3, <2>1
    <2> QED BY <2>1 DEF first
<1>5. a \in Good
    <2>1. SumOver(r, a..a) = r[a]
        BY <1>2, <1>4, SumOfFirst
    <2>2. CASE a \in M
        <3>1. a = first /\ r[a] = 0
            BY <1>2, <2>2 DEF first
        <3>2. Reached(M, v, a + 1) = v[a]
            BY <1>1, <1>2, <3>1, ReachedFirst
        <3> QED BY <1>2, <2>1, <3>1, <3>2
    <2>3. CASE a \notin M
        <3>1. r[a] = 0 /\ ~(first <= a)
            BY <1>2, <2>3
        <3> QED BY <1>2, <2>1, <3>1
    <2> QED BY <2>2, <2>3
<1>6. ASSUME NEW k \in a..(b - 1), k \in Good PROVE k + 1 \in Good
    <2>1. k \in Int /\ a <= k /\ \A d \in a..(k + 1) : r[d] \in Int
        BY <1>4
    <2>2. SumOver(r, a..(k + 1)) = SumOver(r, a..k) + r[k + 1]
        BY <2>1, SumOfNext
    <2>3. SumOver(r, a..k) = Total(k)
        BY <1>6
    <2>4. (k + 1) + 1 = k + 2 /\ k + 1 \in a..b /\ k + 1 \in Int
        OBVIOUS
    <2>5. Total(k) + r[k + 1] = Total(k + 1)
        <3>1. CASE k + 1 \notin M
            <4>1. r[k + 1] = 0 /\ (first <= k + 1 <=> first <= k)
                BY <1>2, <2>4, <3>1
            <4>2. Reached(M, v, (k + 1) + 1) = Reached(M, v, k + 1)
                BY <1>1, <2>4, <3>1, ReachedStays
            <4>3. first <= k => Reached(M, v, k + 1) \in Int
                BY <1>2, <1>3, <2>4
            <4> QED BY <1>2, <4>1, <4>2, <4>3
        <3>2. CASE k + 1 = first
            <4>1. r[k + 1] = 0
                BY <2>4, <3>2 DEF first
            <4>2. Reached(M, v, (k + 1) + 1) = v[first]
                BY <1>1, <1>2, <3>2, ReachedFirst
            <4>3. ~(first <= k) /\ first <= k + 1
                BY <3>2
            <4> QED BY <1>2, <4>1, <4>2, <4>3
        <3>3. CASE k + 1 \in M /\ k + 1 # first
            <4>1. first <= k /\ first <= k + 1 /\ first < k + 1
                BY <1>2, <2>4, <3>3
            <4>2. Reached(M, v, k + 1) \in Int /\ v[k + 1] \in Int
                BY <1>3, <2>4, <3>3, <4>1
            <4>3. Reached(M, v, (k + 1) + 1) = IF v[k + 1] > Reached(M, v, k + 1) THEN v[k + 1]
                                               ELSE Reached(M, v, k + 1)
                BY <1>1, <1>2, <3>3, <4>1, ReachedNext
            <4>4. r[k + 1] = IF v[k + 1] > Reached(M, v, k + 1)
                             THEN v[k + 1] - Reached(M, v, k + 1) ELSE 0
                BY <2>4, <3>3 DEF first
            <4> QED BY <1>2, <4>1, <4>2, <4>3, <4>4
        <3> QED BY <1>2, <3>1, <3>2, <3>3
    <2>6. SumOver(r, a..(k + 1)) = Total(k + 1)
        BY <2>2, <2>3, <2>5
    <2> HIDE DEF Total
    <2> QED BY <2>4, <2>6
<1>7. b \in Good
    <2> HIDE DEF Good
    <2>1. \A k \in a..(b - 1) : k \in Good => k + 1 \in Good
        BY <1>6
    <2>2. a..b \subseteq Good
        BY <1>5, <2>1, UpTheInterval
    <2> QED BY <1>2, <2>2
<1> QED BY <1>2, <1>7 DEF first

\* The last day measured before day k.
LastBefore(M, k) == Greatest({x \in M : x < k})

\* Each day's bar, and values that only grow.
IsBar(g, v, M, d) ==
    g[d] = IF d \notin M \/ {x \in M : x < d} = {} THEN 0
           ELSE IF v[d] - v[LastBefore(M, d)] < 0 THEN 0
           ELSE v[d] - v[LastBefore(M, d)]
AreBars(g, v, M, a, b) ==
    /\ a \in Int /\ b \in Int /\ a <= b /\ M \in SUBSET Int /\ IsFiniteSet(M)
    /\ \A x \in M : x <= b
    /\ \A d \in M : v[d] \in Int
    /\ \A d \in a..b : IsBar(g, v, M, d)
Grows(v, M) == \A d, e \in M : d < e => v[d] <= v[e]
FromDay(M, a) == {x \in M : a <= x}
BeforeDay(M, a) == {x \in M : x < a}

\* Bars that say by how much each measurement is above the one before explain what lies
\* between the first and the last; and exactly, where measurements only grow.
LEMMA BarsAddUp ==
    ASSUME NEW a, NEW b, NEW M, NEW v, NEW g, AreBars(g, v, M, a, b),
           NEW C, C = FromDay(M, a), NEW P, P = BeforeDay(M, a)
    PROVE  /\ SumOver(g, a..b) \in Int /\ SumOver(g, a..b) >= 0
           /\ C # {} => SumOver(g, a..b) >= v[Greatest(C)] - v[Least(C)]
           /\ Grows(v, M) =>
                 SumOver(g, a..b) =
                    IF C = {} THEN 0
                    ELSE v[Greatest(C)] - v[IF P # {} THEN Greatest(P) ELSE Least(C)]
<1> USE DEF FromDay, BeforeDay, IsBar
<1>0. /\ a \in Int /\ b \in Int /\ a <= b /\ M \in SUBSET Int /\ IsFiniteSet(M)
      /\ (\A x \in M : x <= b) /\ (\A d \in M : v[d] \in Int)
      /\ (\A d \in a..b : IsBar(g, v, M, d))
    BY DEF AreBars
<1> USE <1>0
<1> DEFINE Growing == \A d, e \in M : d < e => v[d] <= v[e]
           Seen(k) == {x \in M : a <= x /\ x <= k}
           base == IF P # {} THEN Greatest(P) ELSE Least(C)
           Sum(k) == SumOver(g, a..k)
           Explains(k) == /\ Sum(k) \in Int /\ Sum(k) >= 0
                          /\ Seen(k) # {} => Sum(k) >= v[LastBefore(M, k + 1)] - v[Least(C)]
                          /\ Growing => Sum(k) = IF Seen(k) = {} THEN 0
                                                 ELSE v[LastBefore(M, k + 1)] - v[base]
           Good == {k \in (a - 1)..b : Explains(k)}
<1>1. IsFiniteSet(C) /\ IsFiniteSet(P) /\ C \in SUBSET Int /\ P \in SUBSET Int
    BY FS_Subset
<1>2. C # {} => Least(C) \in M /\ a <= Least(C) /\ \A x \in C : Least(C) <= x
    <2>1. C # {} => Least(C) \in C /\ \A x \in C : Least(C) <= x
        BY <1>1, FiniteHasGreatest
    <2> QED BY <2>1
<1>3. P # {} => Greatest(P) \in M /\ Greatest(P) < a
    <2>1. P # {} => Greatest(P) \in P
        BY <1>1, FiniteHasGreatest
    <2> QED BY <2>1
<1>4. ASSUME NEW k \in Int, {x \in M : x < k} # {}
      PROVE  /\ LastBefore(M, k) \in M /\ LastBefore(M, k) < k
             /\ \A x \in M : x < k => x <= LastBefore(M, k)
    <2> DEFINE S == {x \in M : x < k}
    <2>1. S \in SUBSET Int /\ IsFiniteSet(S) /\ S # {}
        BY <1>4, FS_Subset
    <2> HIDE DEF S
    <2>2. Greatest(S) \in S /\ \A x \in S : x <= Greatest(S)
        BY <2>1, FiniteHasGreatest
    <2> QED BY <2>2 DEF S, LastBefore
<1>5. ASSUME NEW d \in a..b PROVE g[d] \in Int /\ g[d] >= 0
    <2>1. CASE d \notin M \/ {x \in M : x < d} = {}
        <3>1. g[d] = 0
            BY <2>1
        <3> QED BY <3>1
    <2>2. CASE d \in M /\ {x \in M : x < d} # {}
        <3>1. LastBefore(M, d) \in M
            BY <1>4, <2>2
        <3>2. v[d] \in Int /\ v[LastBefore(M, d)] \in Int
            BY <2>2, <3>1
        <3>3. g[d] = IF v[d] - v[LastBefore(M, d)] < 0 THEN 0 ELSE v[d] - v[LastBefore(M, d)]
            BY <2>2
        <3> HIDE DEF LastBefore
        <3> QED BY <3>2, <3>3
    <2> QED BY <2>1, <2>2
<1>6. ASSUME NEW n \in M PROVE LastBefore(M, n + 1) = n
    <2>1. n \in Int /\ n < n + 1
        <3>1. n \in Int
            OBVIOUS
        <3> QED BY <3>1
    <2>2. {x \in M : x < n + 1} # {}
        BY <2>1
    <2>3. LastBefore(M, n + 1) \in M /\ LastBefore(M, n + 1) < n + 1 /\ n <= LastBefore(M, n + 1)
        BY <1>4, <2>1, <2>2
    <2>4. LastBefore(M, n + 1) \in Int
        BY <2>3
    <2> HIDE DEF LastBefore
    <2> QED BY <2>1, <2>3, <2>4
<1>7. a - 1 \in Good
    <2>1. SumOver(g, {}) = 0
        BY <1>1, SumStarts
    <2>2. a..(a - 1) = {} /\ Seen(a - 1) = {}
        <3>1. \A x \in Int : ~(a <= x /\ x <= a - 1)
            OBVIOUS
        <3>2. Seen(a - 1) = {}
            BY <3>1
        <3> QED BY <3>1, <3>2
    <2>3. Sum(a - 1) = 0
        BY <2>1, <2>2
    <2> HIDE DEF Sum, Seen
    <2> QED BY <2>2, <2>3
<1>8. ASSUME NEW k \in (a - 1)..(b - 1), k \in Good PROVE k + 1 \in Good
    <2> DEFINE n == k + 1
    <2>1. k \in Int /\ n \in a..b /\ n \in Int
        OBVIOUS
    <2>2. Sum(n) = Sum(k) + g[n] /\ g[n] \in Int /\ g[n] >= 0
        <3>1. a <= k + 1 /\ \A d \in a..(k + 1) : g[d] \in Int
            BY <1>5
        <3>2. Sum(n) = Sum(k) + g[n]
            BY <2>1, <3>1, SumOfNext
        <3> QED BY <1>5, <2>1, <3>2
    <2>3. Explains(k)
        BY <1>8
    <2> HIDE DEF Sum, base
    <2>4. CASE n \notin M
        <3>1. g[n] = 0
            BY <2>1, <2>4
        <3>2. \A x \in M : x \in Int /\ x # n
            BY <2>4
        <3>3. Seen(n) = Seen(k)
            <4>1. \A x \in M : x <= n <=> x <= k
                BY <2>1, <3>2
            <4> QED BY <4>1
        <3>4. {x \in M : x < n + 1} = {x \in M : x < n}
            <4>1. \A x \in M : x < n + 1 <=> x < n
                BY <2>1, <3>2
            <4> HIDE DEF n
            <4> QED BY <4>1
        <3>5. LastBefore(M, n + 1) = LastBefore(M, n)
            BY <3>4 DEF LastBefore
        <3>6. Sum(n) = Sum(k)
            BY <2>2, <2>3, <3>1
        <3> HIDE DEF Seen, LastBefore
        <3>7. Explains(n)
            BY <2>3, <3>3, <3>5, <3>6
        <3> QED BY <2>1, <3>7
    <2>5. CASE n \in M /\ Seen(k) = {}
        <3>1. LastBefore(M, n + 1) = n /\ n \in Seen(n) /\ n \in C
            BY <1>6, <2>1, <2>5
        <3>2. \A x \in C : n <= x
            <4>1. ASSUME NEW x \in C PROVE n <= x
                <5>1. x \in M /\ a <= x /\ x \notin Seen(k) /\ x \in Int
                    BY <2>5
                <5> QED BY <2>1, <5>1
            <4> QED BY <4>1
        <3>3. Least(C) = n
            BY <1>1, <3>1, <3>2, LeastIs
        <3>4. {x \in M : x < n} = P
            <4>1. ASSUME NEW x \in M PROVE x < n <=> x < a
                <5>1. x \in Int /\ x \notin Seen(k)
                    BY <2>5
                <5> QED BY <2>1, <5>1
            <4> QED BY <4>1
        <3>5. v[n] \in Int
            BY <2>5
        <3>6. Growing => g[n] = v[n] - v[base]
            <4>1. CASE P = {}
                <5>1. base = n /\ g[n] = 0
                    BY <2>1, <3>3, <3>4, <4>1 DEF base
                <5> QED BY <3>5, <5>1
            <4>2. CASE P # {}
                <5>1. base = Greatest(P) /\ LastBefore(M, n) = base
                    BY <3>4, <4>2 DEF base, LastBefore
                <5>2. base \in M /\ base < n /\ v[base] \in Int
                    <6>1. base \in M /\ base < a
                        BY <1>3, <4>2, <5>1
                    <6>2. base \in Int /\ v[base] \in Int
                        BY <6>1
                    <6> QED BY <2>1, <6>1, <6>2
                <5>3. g[n] = IF v[n] - v[base] < 0 THEN 0 ELSE v[n] - v[base]
                    <6>1. n \in M /\ {x \in M : x < n} # {}
                        BY <2>5, <3>4, <4>2
                    <6> QED BY <2>1, <5>1, <6>1
                <5>4. Growing => v[base] <= v[n]
                    BY <2>5, <5>2
                <5> QED BY <3>5, <5>2, <5>3, <5>4
            <4> QED BY <4>1, <4>2
        <3>7. Sum(k) \in Int /\ Sum(k) >= 0 /\ (Growing => Sum(k) = 0)
            BY <2>3, <2>5
        <3> HIDE DEF Seen, LastBefore, Growing
        <3>8. Sum(n) \in Int /\ Sum(n) >= 0
            BY <2>2, <3>7
        <3>9. Sum(n) >= v[LastBefore(M, n + 1)] - v[Least(C)]
            BY <3>1, <3>3, <3>5, <3>8
        <3>10. Growing => Sum(n) = v[LastBefore(M, n + 1)] - v[base]
            BY <2>2, <3>1, <3>6, <3>7
        <3>11. Explains(n)
            BY <3>1, <3>8, <3>9, <3>10
        <3> QED BY <2>1, <3>11
    <2>6. CASE n \in M /\ Seen(k) # {}
        <3> DEFINE e == LastBefore(M, n)
        <3>1. LastBefore(M, n + 1) = n /\ n \in Seen(n) /\ n \in C
            BY <1>6, <2>1, <2>6
        <3>2. {x \in M : x < n} # {}
            <4>1. PICK x \in M : a <= x /\ x <= k
                BY <2>6
            <4>2. x \in Int
                OBVIOUS
            <4>3. x < n
                BY <2>1, <4>1, <4>2
            <4> HIDE DEF n
            <4> QED BY <4>3
        <3>3. e \in M /\ e < n
            BY <1>4, <2>1, <3>2
        <3>4. g[n] = IF v[n] - v[e] < 0 THEN 0 ELSE v[n] - v[e]
            BY <2>1, <2>6, <3>2
        <3>5. v[n] \in Int /\ v[e] \in Int /\ v[Least(C)] \in Int
            BY <1>2, <2>6, <3>1, <3>3
        <3>6. Growing => v[e] <= v[n]
            BY <2>6, <3>3
        <3>7. /\ Sum(k) \in Int /\ Sum(k) >= 0 /\ Sum(k) >= v[e] - v[Least(C)]
              /\ Growing => Sum(k) = v[e] - v[base]
            BY <2>3, <2>6
        <3>8. v[base] \in Int
            BY <1>2, <1>3, <3>1 DEF base
        <3> HIDE DEF Seen, LastBefore, Growing, e
        <3>9. Sum(n) \in Int /\ Sum(n) >= 0
            BY <2>2, <3>7
        <3>10. Sum(n) >= v[n] - v[Least(C)]
            BY <2>2, <3>4, <3>5, <3>7
        <3>11. Growing => Sum(n) = v[n] - v[base]
            BY <2>2, <3>4, <3>5, <3>6, <3>7, <3>8
        <3>12. Explains(n)
            BY <3>1, <3>9, <3>10, <3>11
        <3> QED BY <2>1, <3>12
    <2> QED BY <2>4, <2>5, <2>6
<1>9. Explains(b)
    <2> HIDE DEF Explains
    <2>1. \A k \in (a - 1)..(b - 1) : k \in Good => k + 1 \in Good
        BY <1>8
    <2> HIDE DEF Good
    <2>2. (a - 1)..b \subseteq Good
        BY <1>7, <2>1, UpTheInterval
    <2>3. b \in Good
        BY <2>2
    <2> QED BY <2>3 DEF Good
<1>10. Seen(b) = C
    OBVIOUS
<1>11. C # {} => LastBefore(M, b + 1) = Greatest(C)
    <2> SUFFICES ASSUME C # {} PROVE LastBefore(M, b + 1) = Greatest(C)
        OBVIOUS
    <2> DEFINE l == LastBefore(M, b + 1)
    <2>1. \A x \in M : x < b + 1
        <3>1. \A x \in M : x \in Int /\ x <= b
            OBVIOUS
        <3> QED BY <3>1
    <2>2. {x \in M : x < b + 1} # {} /\ b + 1 \in Int
        <3>1. PICK y \in M : y < b + 1
            BY <2>1
        <3> QED BY <3>1
    <2>3. l \in M /\ \A x \in M : x <= l
        BY <1>4, <2>1, <2>2
    <2> HIDE DEF l
    <2>4. PICK y \in C : TRUE
        OBVIOUS
    <2>5. y \in M /\ a <= y /\ y <= l /\ y \in Int /\ l \in Int
        BY <2>3
    <2>6. l \in C /\ \A x \in C : x <= l
        BY <2>3, <2>5
    <2>7. Greatest(C) = l
        BY <1>1, <2>6, GreatestIs
    <2> QED BY <2>7 DEF l
<1> HIDE DEF Seen, LastBefore, Sum
<1>12. /\ Sum(b) \in Int /\ Sum(b) >= 0
       /\ C # {} => Sum(b) >= v[Greatest(C)] - v[Least(C)]
       /\ Growing => Sum(b) = IF C = {} THEN 0 ELSE v[Greatest(C)] - v[base]
    BY <1>9, <1>10, <1>11
<1> QED BY <1>12 DEF Sum, Grows


-------------------------------------------------------------------------------
(* The pages: the invariant *)

\* A row of a post is on a day that has come, no earlier than its publication.
RowsSincePublication ==
    \A p \in Measured, d \in InsightDays :
       postRows[p][d] # NotMeasured =>
          /\ postRows[p][d].value \in Counts
          /\ publishedOn[p] <= d /\ d <= today

\* What the syncs have used up.
SyncsFit ==
    /\ metric \in {"views", "followers"}
    /\ syncNo - accountSyncs \in 0..MaxPostSyncs
    /\ metric = "views" => accountSyncs <= MaxAccountSyncs
    /\ metric = "followers" => accountSyncs <= MaxFollowerSyncs

InsightInv == InsightTypeOK /\ RowsSincePublication /\ SyncsFit

\* The two periods as intervals of days.
LEMMA InsightFacts ==
    ASSUME InsightInv
    PROVE  /\ today \in Nat /\ today \in Int /\ FirstDay \in Int /\ FirstDay <= today
           /\ Window \subseteq Int /\ IsFiniteSet(Window)
           /\ CurrentDays = (today - Period + 1)..today
           /\ today - Period + 1 \in Int /\ today - Period + 1 <= today
           /\ FirstDay <= today - Period + 1
<1>1. today \in Nat /\ Period \in Nat /\ Period # 0
    BY PeriodAssumption DEF InsightInv, InsightTypeOK, InsightDays
<1>2. FirstDay \in Int
    BY <1>1 DEF FirstDay
<1>3. IsFiniteSet(FirstDay..today)
    BY <1>1, <1>2, FS_Interval
<1> QED BY <1>1, <1>2, <1>3 DEF FirstDay, Window, CurrentDays

\* Numbers of a post's rows.
Values(p) == [d \in InsightDays |-> postRows[p][d].value]

\* The days a post was measured on within the window, and what was measured.
LEMMA SnapshotFacts ==
    ASSUME InsightInv, NEW p \in Measured
    PROVE  /\ SnapshotDays(p) \in SUBSET Window /\ SnapshotDays(p) \in SUBSET InsightDays
           /\ IsFiniteSet(SnapshotDays(p))
           /\ \A d \in SnapshotDays(p) : /\ d \in Int /\ publishedOn[p] <= d /\ d <= today
                                         /\ Values(p)[d] = postRows[p][d].value
                                         /\ Values(p)[d] \in Counts /\ Values(p)[d] \in Nat
           /\ publishedOn[p] \in Int
<1>1. SnapshotDays(p) \in SUBSET Window /\ SnapshotDays(p) \in SUBSET InsightDays
    BY DEF SnapshotDays
<1>2. IsFiniteSet(SnapshotDays(p))
    BY <1>1, InsightFacts, FS_Subset
<1>3. ASSUME NEW c \in Counts PROVE c \in Nat
    <2>1. PICK n \in 0..MaxCount : c = CountStep * n
        BY DEF Counts
    <2>2. MaxCount \in Nat /\ CountStep \in Nat
        BY PeriodAssumption
    <2> QED BY <2>1, <2>2
<1>4. ASSUME NEW d \in SnapshotDays(p)
      PROVE  /\ d \in Int /\ publishedOn[p] <= d /\ d <= today
             /\ Values(p)[d] = postRows[p][d].value /\ Values(p)[d] \in Counts
    <2>1. d \in InsightDays /\ postRows[p][d] # NotMeasured
        BY DEF SnapshotDays
    <2>2. postRows[p][d].value \in Counts /\ publishedOn[p] <= d /\ d <= today
        BY <2>1 DEF InsightInv, RowsSincePublication
    <2>3. d \in Int
        BY <2>1, PeriodAssumption DEF InsightDays
    <2>4. Values(p)[d] = postRows[p][d].value
        BY <2>1 DEF Values
    <2> QED BY <2>2, <2>3, <2>4
<1>5. publishedOn[p] \in Int
    BY PeriodAssumption DEF InsightInv, InsightTypeOK
<1> QED BY <1>1, <1>2, <1>3, <1>4, <1>5

\* What the next value is compared with is what was reached before.
LEMMA HighWaterIsReached ==
    ASSUME InsightInv, NEW p \in Measured, NEW d
    PROVE  HighWater(p, d) = Reached(SnapshotDays(p), Values(p), d)
<1> DEFINE X == {x \in SnapshotDays(p) : x < d}
<1>1. \A e \in X : Values(p)[e] = postRows[p][e].value
    BY SnapshotFacts
<1> HIDE DEF X
<1>2. {Values(p)[e] : e \in X} = {postRows[p][e].value : e \in X}
    BY <1>1
<1> QED BY <1>2 DEF HighWater, Reached, X

\* A count that comes in equal parts for the days it is spread over.
LEMMA CountsDivide ==
    ASSUME NEW c \in Counts, NEW n \in 1..(2 * Period)
    PROVE  c \div n \in Nat /\ n * (c \div n) = c
<1>1. PICK m \in 0..MaxCount : c = CountStep * m
    BY DEF Counts
<1>2. PICK part \in 0..CountStep : CountStep = n * part
    BY PeriodAssumption
<1>3. m \in Nat /\ part \in Nat /\ n \in Nat /\ n > 0
    BY PeriodAssumption
<1>4. part * m \in Nat /\ c = n * (part * m)
    BY <1>1, <1>2, <1>3
<1>5. (n * (part * m)) \div n = part * m
    <2> DEFINE k == part * m
    <2>1. k \in Nat
        BY <1>4
    <2> HIDE DEF k
    <2> QED BY <1>3, <2>1 DEF k
<1> QED BY <1>4, <1>5

\* What a post's first value within the window is spread over adds up to it.
LEMMA SpreadAddsUp ==
    ASSUME InsightInv, NEW p \in Measured, SnapshotDays(p) # {}
    PROVE  LET first == Least(SnapshotDays(p))
           IN  /\ \A d \in Window : Spread(p, d) \in Int
               /\ SumOver([d \in Window |-> Spread(p, d)], Window) =
                     IF publishedOn[p] # Undated /\ publishedOn[p] < FirstDay THEN 0
                     ELSE postRows[p][first].value
<1> DEFINE M == SnapshotDays(p)
           first == Least(M)
           v == Values(p)[first]
           f == [d \in Window |-> Spread(p, d)]
<1>1. /\ today \in Int /\ FirstDay \in Int /\ FirstDay <= today /\ Window = FirstDay..today
      /\ IsFiniteSet(Window) /\ today - FirstDay + 1 = 2 * Period
    <2>1. Period \in Nat
        BY PeriodAssumption
    <2>2. today \in Int
        BY InsightFacts
    <2>3. today - FirstDay + 1 = 2 * Period
        BY <2>1, <2>2 DEF FirstDay
    <2> QED BY <2>3, InsightFacts DEF Window
<1>2. M \in SUBSET Int /\ IsFiniteSet(M) /\ M \in SUBSET Window
    BY SnapshotFacts
<1>3. first \in M
    BY <1>2, FiniteHasGreatest
<1>4. /\ first \in FirstDay..today /\ v = postRows[p][first].value /\ v \in Counts /\ v \in Nat
      /\ publishedOn[p] <= first /\ publishedOn[p] \in Int /\ first \in Int
    BY <1>1, <1>2, <1>3, SnapshotFacts
<1> HIDE DEF M, first, v
<1>5. \A d : Spread(p, d) = IF d \in SpreadDays(p) THEN v \div Cardinality(SpreadDays(p)) ELSE 0
    BY <1>4 DEF Spread, M, first
<1>6. CASE publishedOn[p] # Undated /\ publishedOn[p] < FirstDay
    <2>1. SpreadDays(p) = {}
        BY <1>4, <1>6 DEF SpreadDays, M, first
    <2>2. \A d : Spread(p, d) = 0
        BY <1>5, <2>1
    <2>3. \A d \in Window : f[d] = 0
        BY <2>2
    <2>4. SumOver(f, Window) = 0
        <3> HIDE DEF f
        <3> QED BY <1>1, <2>3, SumOfZeros
    <2> QED BY <1>6, <2>2, <2>4
<1>7. CASE ~(publishedOn[p] # Undated /\ publishedOn[p] < FirstDay)
    <2> DEFINE begin == IF publishedOn[p] = Undated THEN first ELSE publishedOn[p]
               n == first - begin + 1
    <2>1. begin \in FirstDay..today /\ begin <= first /\ first \in begin..today /\ begin \in Int
        BY <1>1, <1>4, <1>7
    <2>2. SpreadDays(p) = begin..first
        <3>1. CASE publishedOn[p] = Undated
            <4>1. first..first = {first}
                BY <1>4
            <4> QED BY <3>1, <4>1 DEF SpreadDays, M, first
        <3>2. CASE publishedOn[p] # Undated
            BY <1>4, <1>7, <3>2 DEF SpreadDays, M, first
        <3> QED BY <3>1, <3>2
    <2> HIDE DEF begin
    <2>3. Cardinality(begin..first) = n /\ n \in 1..(2 * Period)
        <3>1. Cardinality(begin..first) = n
            BY <1>4, <2>1, FS_Interval
        <3>2. n \in Int /\ n >= 1 /\ n <= today - FirstDay + 1
            BY <1>1, <1>4, <2>1
        <3> QED BY <1>1, <3>1, <3>2, PeriodAssumption
    <2> DEFINE c == v \div n
    <2>4. c \in Int /\ n * c = v
        <3> HIDE DEF n
        <3>1. v \in Counts /\ n \in 1..(2 * Period)
            BY <1>4, <2>3
        <3>2. v \div n \in Nat /\ n * (v \div n) = v
            BY ONLY <3>1, CountsDivide, Zenon
        <3> QED BY <3>2
    <2>5. \A d : Spread(p, d) = IF d \in begin..first THEN c ELSE 0
        BY <1>5, <2>2, <2>3
    <2>6. SharedOut(f, FirstDay, today, begin, first, c)
        BY <1>1, <2>5 DEF SharedOut
    <2> HIDE DEF c, f
    <2>7. SumOver(f, FirstDay..today) = (first - begin + 1) * c
        <3>1. today \in Int /\ FirstDay \in Int /\ c \in Int
            BY <1>1, <2>4
        <3>2. begin \in FirstDay..today /\ first \in begin..today
            BY <2>1
        <3> HIDE DEF n
        <3> QED BY ONLY <2>6, <3>1, <3>2, SumOfShares
    <2>8. SumOver(f, Window) = v
        BY <1>1, <2>4, <2>7
    <2> QED BY <1>4, <1>7, <2>4, <2>5, <2>8 DEF f, first, M
<1> QED BY <1>6, <1>7

\* The first value and what each later one rises by are all that is credited.
LEMMA EachCountIsCreditedOnce ==
    ASSUME InsightInv, NEW p \in Measured
    PROVE  SumOver([d \in Window |-> Gain(p, d)], Window) = HadInWindow(p)
<1> DEFINE M == SnapshotDays(p)
           first == Least(M)
           f == [d \in Window |-> Gain(p, d)]
           g == [d \in Window |-> Spread(p, d)]
           h == [d \in Window |-> Rise(p, d)]
           V == {Values(p)[d] : d \in M}
           W == {postRows[p][d].value : d \in M}
<1>1. today \in Int /\ FirstDay \in Int /\ Window = FirstDay..today /\ IsFiniteSet(Window)
    BY InsightFacts DEF Window
<1>2. CASE M = {}
    <2>1. \A d \in Window : f[d] = 0
        BY <1>2 DEF Gain, Spread, Rise
    <2>2. SumOver(f, Window) = 0
        <3> HIDE DEF f
        <3> QED BY <1>1, <2>1, SumOfZeros
    <2>3. HadInWindow(p) = 0
        BY <1>2 DEF HadInWindow
    <2> QED BY <2>2, <2>3
<1>3. CASE M # {}
    <2>1. M \in SUBSET (FirstDay..today) /\ IsFiniteSet(M) /\ M \in SUBSET Int
        BY <1>1, SnapshotFacts
    <2>2. \A d \in M : Values(p)[d] = postRows[p][d].value /\ Values(p)[d] \in Int
        BY SnapshotFacts
    <2>3. first \in M /\ \A x \in M : first <= x
        BY <1>3, <2>1, FiniteHasGreatest
    <2>4. \A d \in FirstDay..today :
             h[d] = IF d \in M /\ d # Least(M) /\ Values(p)[d] > Reached(M, Values(p), d)
                    THEN Values(p)[d] - Reached(M, Values(p), d) ELSE 0
        <3> SUFFICES ASSUME NEW d \in FirstDay..today
                     PROVE  h[d] = IF d \in M /\ d # Least(M) /\ Values(p)[d] > Reached(M, Values(p), d)
                                   THEN Values(p)[d] - Reached(M, Values(p), d) ELSE 0
            OBVIOUS
        <3>1. HighWater(p, d) = Reached(M, Values(p), d)
            BY HighWaterIsReached
        <3>2. h[d] = Rise(p, d)
            BY <1>1
        <3> QED BY <2>2, <3>1, <3>2 DEF Rise
    <2>5. SumOver(h, FirstDay..today) = Reached(M, Values(p), today + 1) - Values(p)[first]
        <3>1. today \in Int /\ FirstDay \in Int /\ \A d \in M : Values(p)[d] \in Int
            BY <1>1, <2>2
        <3> HIDE DEF M, h
        <3> QED BY ONLY <3>1, <1>3, <2>1, <2>4, RisesAddUp
    <2>6. /\ \A d \in Window : Spread(p, d) \in Int
          /\ SumOver(g, Window) = IF publishedOn[p] # Undated /\ publishedOn[p] < FirstDay THEN 0
                                  ELSE postRows[p][first].value
        BY <1>3, SpreadAddsUp
    <2>7. \A d \in Window : Rise(p, d) \in Int
        <3>1. ASSUME NEW d \in Window, d \in M, d # first PROVE Reached(M, Values(p), d) \in Int
            <4>1. first < d /\ d \in Int
                BY <2>1, <2>3, <3>1
            <4> HIDE DEF M
            <4> QED BY <2>1, <2>2, <2>3, <4>1, ReachedIs
        <3>2. ASSUME NEW d \in Window PROVE Rise(p, d) \in Int
            <4>1. h[d] = Rise(p, d)
                OBVIOUS
            <4> HIDE DEF M, h, first
            <4>2. h[d] \in Int
                BY <1>1, <2>2, <2>4, <3>1 DEF first
            <4> QED BY <4>1, <4>2
        <3> QED BY <3>2
    <2>8. \A d \in Window : g[d] \in Int /\ h[d] \in Int /\ f[d] = g[d] + h[d]
        BY <2>6, <2>7 DEF Gain
    <2>9. SumOver(f, Window) = SumOver(g, Window) + SumOver(h, Window)
        <3> HIDE DEF f, g, h
        <3>1. IsFiniteSet(Window)
            BY <1>1
        <3> QED BY ONLY <3>1, <2>8, SumOfBoth
    <2>10. V = W
        BY <2>2
    <2>11. Greatest(V) \in Int /\ Values(p)[first] \in Int
        <3>1. V \in SUBSET Int /\ V # {}
            BY <1>3, <2>2
        <3>2. IsFiniteSet(V)
            <4> HIDE DEF M
            <4> QED BY <2>1, FiniteValues
        <3>3. Greatest(V) \in V
            <4> HIDE DEF V
            <4> QED BY <3>1, <3>2, FiniteHasGreatest
        <3> QED BY <2>2, <2>3, <3>1, <3>3
    <2>12. HadInWindow(p) = IF publishedOn[p] # Undated /\ publishedOn[p] < FirstDay
                            THEN Greatest(W) - postRows[p][first].value ELSE Greatest(W)
        BY <1>3 DEF HadInWindow
    <2>13. postRows[p][first].value = Values(p)[first]
        BY <2>2, <2>3
    <2>14. SumOver(h, Window) = Greatest(V) - Values(p)[first]
        <3>1. \A x \in M : x < today + 1
            BY <1>1, <2>1
        <3>2. {x \in M : x < today + 1} = M
            BY <3>1
        <3>3. Reached(M, Values(p), today + 1) = Greatest(V)
            BY <3>2 DEF Reached
        <3> QED BY <1>1, <2>5, <3>3
    <2> HIDE DEF f, g, h, V, W, first
    <2> QED BY <2>6, <2>9, <2>10, <2>11, <2>12, <2>13, <2>14 DEF f
<1> QED BY <1>2, <1>3

\* Neither the first value nor a rise is before the publication.
LEMMA NothingIsBeforePublication ==
    ASSUME InsightInv, NEW p \in Measured, NEW d \in Window, d < publishedOn[p]
    PROVE  Gain(p, d) = 0
<1> DEFINE M == SnapshotDays(p)
           first == Least(M)
<1>1. M \in SUBSET Int /\ IsFiniteSet(M) /\ publishedOn[p] \in Int /\ d \in Int
    BY SnapshotFacts, InsightFacts
<1>2. \A x \in M : publishedOn[p] <= x
    BY SnapshotFacts
<1>3. d \notin M
    BY <1>1, <1>2
<1>4. Rise(p, d) = 0
    BY <1>3 DEF Rise
<1>5. M # {} => first \in M
    BY <1>1, FiniteHasGreatest
<1>6. ASSUME M # {} PROVE d \notin SpreadDays(p)
    <2>1. publishedOn[p] <= first /\ first \in Int
        BY <1>1, <1>2, <1>5, <1>6
    <2>2. d # first
        BY <1>1, <2>1
    <2>3. SpreadDays(p) \in {{first}, {}, publishedOn[p]..first}
        BY DEF SpreadDays
    <2>4. d \notin publishedOn[p]..first
        BY <1>1
    <2> HIDE DEF first
    <2> QED BY <2>2, <2>3, <2>4
<1>7. Spread(p, d) = 0
    BY <1>6 DEF Spread
<1> QED BY <1>4, <1>7 DEF Gain

\* A day that the posts gained on gets their sum.
LEMMA PageKeepsUp ==
    ASSUME InsightInv
    PROVE  PageKeepsUpWithPosts
<1> SUFFICES ASSUME PostsCaptured > AccountCaptured, NEW d \in Window, PostSummed(d) > 0
             PROVE  Series[d] = PostSummed(d)
    BY DEF PageKeepsUpWithPosts
<1>1. UseFallback
    BY DEF UseFallback
<1>2. ASSUME NEW p \in Measured, ~Credits(p, d) PROVE Gain(p, d) = 0
    BY <1>2 DEF Credits, Gain, Spread, Rise
<1>3. d \in CreditedDays
    <2> SUFFICES ASSUME \A p \in Measured : ~Credits(p, d) PROVE FALSE
        BY DEF CreditedDays
    <2> DEFINE f == [p \in Measured |-> Gain(p, d)]
    <2>1. \A p \in Measured : f[p] = 0
        BY <1>2
    <2>2. SumOver(f, Measured) = 0
        <3> HIDE DEF f
        <3> QED BY <2>1, SumOfZeros, PeriodAssumption
    <2>3. PostSummed(d) = 0
        BY <2>2 DEF PostSummed
    <2> QED BY <2>3
<1> QED BY <1>1, <1>3 DEF Series

\* The sum of the gains of a day is a number.
LEMMA GainsAreNumbers ==
    ASSUME InsightInv, NEW d \in Window
    PROVE  PostSummed(d) \in Int
<1>1. ASSUME NEW p \in Measured PROVE Gain(p, d) \in Int
    <2> DEFINE M == SnapshotDays(p)
    <2>1. M \in SUBSET Int /\ IsFiniteSet(M) /\ d \in Int
        BY SnapshotFacts, InsightFacts
    <2>2. Spread(p, d) \in Int
        <3>1. CASE M = {}
            BY <3>1 DEF Spread
        <3>2. CASE M # {}
            BY <3>2, SpreadAddsUp
        <3> QED BY <3>1, <3>2
    <2>3. Rise(p, d) \in Int
        <3>1. CASE d \in M /\ d # Least(M)
            <4>1. Least(M) \in M /\ Least(M) <= d /\ Least(M) \in Int
                BY <2>1, <3>1, FiniteHasGreatest
            <4>2. Least(M) < d
                BY <2>1, <3>1, <4>1
            <4>3. \A x \in M : Values(p)[x] \in Int /\ Values(p)[x] = postRows[p][x].value
                BY SnapshotFacts
            <4>4. Reached(M, Values(p), d) \in Int
                <5> HIDE DEF M
                <5> QED BY <2>1, <4>1, <4>2, <4>3, ReachedIs
            <4>5. HighWater(p, d) \in Int /\ postRows[p][d].value \in Int
                BY <3>1, <4>3, <4>4, HighWaterIsReached
            <4> QED BY <4>5 DEF Rise
        <3>2. CASE ~(d \in M /\ d # Least(M))
            BY <3>2 DEF Rise
        <3> QED BY <3>1, <3>2
    <2> QED BY <2>2, <2>3 DEF Gain
<1> DEFINE f == [p \in Measured |-> Gain(p, d)]
<1>2. \A p \in Measured : f[p] \in Int
    BY <1>1
<1>3. SumOver(f, Measured) \in Int
    <2> HIDE DEF f
    <2> QED BY <1>2, SumsAreNumbers, PeriodAssumption
<1> QED BY <1>3 DEF PostSummed

\* The two periods share out the window.
LEMMA PeriodsDoAddUp ==
    ASSUME InsightInv
    PROVE  PeriodsAddUp
<1> DEFINE f == Series
<1>1. /\ today \in Int /\ FirstDay \in Int /\ Window = FirstDay..today /\ Period \in Nat
      /\ FirstDay = today - 2 * Period + 1
    BY InsightFacts, PeriodAssumption DEF Window, FirstDay
<1>2. /\ CurrentDays = (today - Period + 1)..today /\ PreviousDays = FirstDay..(today - Period)
      /\ today - Period + 1 \in Int /\ today - Period \in Int
    BY <1>1 DEF CurrentDays, PreviousDays
<1>3. /\ IsFiniteSet(CurrentDays) /\ IsFiniteSet(PreviousDays)
      /\ Cardinality(CurrentDays) = Cardinality(PreviousDays)
    <2>1. /\ IsFiniteSet(CurrentDays)
          /\ Cardinality(CurrentDays) = IF today - Period + 1 > today THEN 0
                                        ELSE today - (today - Period + 1) + 1
        BY <1>1, <1>2, FS_Interval
    <2>2. /\ IsFiniteSet(PreviousDays)
          /\ Cardinality(PreviousDays) = IF FirstDay > today - Period THEN 0
                                         ELSE (today - Period) - FirstDay + 1
        BY <1>1, <1>2, FS_Interval
    <2> QED BY <1>1, <2>1, <2>2
<1>4. CurrentDays \cap PreviousDays = {} /\ CurrentDays \cup PreviousDays = Window
    BY <1>1, <1>2
<1>5. ASSUME NEW d \in Window PROVE f[d] \in Int
    <2>1. PostSummed(d) \in Int
        BY GainsAreNumbers
    <2>2. d \in AccountDays => accountRows[d].value \in Int
        <3> SUFFICES ASSUME d \in AccountDays PROVE accountRows[d].value \in Int
            OBVIOUS
        <3>1. accountRows[d] \in Measurement
            BY DEF AccountDays, InsightInv, InsightTypeOK
        <3>2. accountRows[d].value \in Counts \cup {-1}
            BY <3>1 DEF Measurement
        <3>3. ASSUME NEW c \in Counts PROVE c \in Int
            BY PeriodAssumption DEF Counts
        <3> QED BY <3>2, <3>3
    <2> QED BY <2>1, <2>2 DEF Series
<1> HIDE DEF f
<1>6. SumOver(f, CurrentDays \cup PreviousDays) = SumOver(f, CurrentDays) + SumOver(f, PreviousDays)
    <2>1. \A d \in CurrentDays \cup PreviousDays : f[d] \in Int
        BY <1>4, <1>5
    <2> QED BY ONLY <1>3, <1>4, <2>1, SumsAddUp
<1> QED BY <1>3, <1>4, <1>6 DEF PeriodsAddUp, Split, f

\* Where measurements only grow, the change over some days is from the first to the last.
LEMMA DeltaOf ==
    ASSUME NEW days, NEW X, X = TotalDays(days), X \in SUBSET Int, IsFiniteSet(X),
           \A x \in X : followerRows[x] \in Int,
           \A d, e \in X : d < e => followerRows[d] <= followerRows[e]
    PROVE  WindowDelta(days) = IF X = {} THEN 0
                               ELSE followerRows[Greatest(X)] - followerRows[Least(X)]
<1>1. Cardinality(X) \in Nat /\ (Cardinality(X) = 0 <=> X = {})
    BY FS_CardinalityType, FS_EmptySet
<1>2. CASE X = {}
    BY <1>1, <1>2 DEF WindowDelta
<1>3. CASE X # {}
    <2>1. /\ Greatest(X) \in X /\ Least(X) \in X /\ Least(X) <= Greatest(X)
          /\ Greatest(X) \in Int /\ Least(X) \in Int
        BY <1>3, FiniteHasGreatest
    <2>2. /\ followerRows[Least(X)] <= followerRows[Greatest(X)]
          /\ followerRows[Least(X)] \in Int /\ followerRows[Greatest(X)] \in Int
        <3>1. Least(X) = Greatest(X) \/ Least(X) < Greatest(X)
            BY <2>1
        <3> QED BY <2>1, <3>1
    <2>3. Cardinality(X) < 2 => Least(X) = Greatest(X)
        <3> SUFFICES ASSUME Cardinality(X) < 2 PROVE Least(X) = Greatest(X)
            OBVIOUS
        <3>1. Cardinality(X) = 1
            BY <1>1, <1>3
        <3>2. PICK x : X = {x}
            BY <3>1, FS_Singleton
        <3> QED BY <2>1, <3>2
    <2> HIDE DEF Greatest, Least
    <2> QED BY <1>1, <1>3, <2>2, <2>3 DEF WindowDelta
<1> QED BY <1>2, <1>3

\* The bars of the current period, and the change over the one before it.
LEMMA ChartDoesExplain ==
    ASSUME InsightInv
    PROVE  ChartExplainsGrowth
<1> DEFINE a == today - Period + 1
           M == TotalDays(Window)
           C == TotalDays(CurrentDays)
           P == TotalDays(PreviousDays)
           v == followerRows
           g == [d \in CurrentDays |-> DailyGrowth(d)]
           Growing == \A d, e \in M : d < e => v[d] <= v[e]
           bars == SumOver(g, CurrentDays)
<1>1. /\ today \in Int /\ FirstDay \in Int /\ Window = FirstDay..today /\ Period \in Nat
      /\ Period # 0 /\ FirstDay = today - 2 * Period + 1 /\ a \in Int /\ a <= today
      /\ CurrentDays = a..today /\ PreviousDays = FirstDay..(a - 1) /\ IsFiniteSet(Window)
    <2>1. today \in Int /\ Period \in Nat /\ Period # 0 /\ IsFiniteSet(Window)
        BY InsightFacts, PeriodAssumption
    <2> QED BY <2>1 DEF Window, FirstDay, CurrentDays, PreviousDays
<1>2. M \in SUBSET Int /\ IsFiniteSet(M) /\ \A x \in M : x <= today /\ FirstDay <= x
    <2>1. M \subseteq Window
        BY DEF TotalDays
    <2>2. IsFiniteSet(M)
        BY <1>1, <2>1, FS_Subset
    <2> QED BY <1>1, <2>1, <2>2
<1>3. \A d \in M : v[d] \in Int
    BY PeriodAssumption DEF TotalDays, InsightInv, InsightTypeOK
<1>4. C = {x \in M : a <= x} /\ P = {x \in M : x < a}
    BY <1>1 DEF TotalDays
<1>5. ASSUME NEW d \in a..today PROVE MeasuredBefore(d) = {x \in M : x < d}
    BY <1>1 DEF TotalDays, MeasuredBefore
<1>6. \A d \in a..today : g[d] = IF d \notin M \/ {x \in M : x < d} = {} THEN 0
                                  ELSE IF v[d] - v[LastBefore(M, d)] < 0 THEN 0
                                  ELSE v[d] - v[LastBefore(M, d)]
    <2> SUFFICES ASSUME NEW d \in a..today
                 PROVE  g[d] = IF d \notin M \/ {x \in M : x < d} = {} THEN 0
                               ELSE IF v[d] - v[LastBefore(M, d)] < 0 THEN 0
                               ELSE v[d] - v[LastBefore(M, d)]
        OBVIOUS
    <2>1. d \in C <=> d \in M
        BY <1>4
    <2>2. g[d] = DailyGrowth(d)
        BY <1>1
    <2> QED BY <1>5, <2>1, <2>2 DEF DailyGrowth, LastBefore
<1>7. AreBars(g, v, M, a, today)
    BY <1>1, <1>2, <1>3, <1>6 DEF AreBars, IsBar
<1> HIDE DEF a, M, C, P, v, g
<1>8. /\ bars \in Int /\ bars >= 0
      /\ C # {} => bars >= v[Greatest(C)] - v[Least(C)]
      /\ Grows(v, M) =>
            bars = IF C = {} THEN 0
                   ELSE v[Greatest(C)] - v[IF P # {} THEN Greatest(P) ELSE Least(C)]
    <2>1. C = FromDay(M, a) /\ P = BeforeDay(M, a)
        BY <1>4 DEF FromDay, BeforeDay
    <2>2. CurrentDays = a..today
        BY <1>1
    <2> QED BY ONLY <2>1, <2>2, <1>7, BarsAddUp
<1>9. C \in SUBSET M /\ P \in SUBSET M /\ M = C \cup P
    <2>1. \A x \in M : x < a \/ a <= x
        BY <1>1, <1>2
    <2> QED BY <1>4, <2>1
<1>10. /\ IsFiniteSet(C) /\ IsFiniteSet(P) /\ C \in SUBSET Int /\ P \in SUBSET Int
       /\ \A x \in C : v[x] \in Int /\ a <= x
       /\ \A x \in P : v[x] \in Int /\ x < a
    BY <1>2, <1>3, <1>4, <1>9, FS_Subset
<1>11. C # {} => Greatest(C) \in C /\ Least(C) \in C
    BY <1>10, FiniteHasGreatest
<1>12. bars >= WindowDelta(CurrentDays)
    <2>1. CASE Cardinality(C) < 2
        BY <1>8, <2>1 DEF WindowDelta, C
    <2>2. CASE ~(Cardinality(C) < 2)
        <3>1. C # {}
            BY <2>2, FS_EmptySet
        <3>2. v[Greatest(C)] \in Int /\ v[Least(C)] \in Int
            BY <1>10, <1>11, <3>1
        <3>3. WindowDelta(CurrentDays) = IF v[Greatest(C)] - v[Least(C)] < 0 THEN 0
                                         ELSE v[Greatest(C)] - v[Least(C)]
            BY <2>2 DEF WindowDelta, C, v
        <3> QED BY <1>8, <3>1, <3>2, <3>3
    <2> QED BY <2>1, <2>2
<1>13. ASSUME Grows(v, M) PROVE bars + WindowDelta(PreviousDays) = WindowDelta(Window)
    <2> DEFINE Delta(X) == IF X = {} THEN 0 ELSE v[Greatest(X)] - v[Least(X)]
    <2>1. /\ \A d, e \in M : d < e => followerRows[d] <= followerRows[e]
          /\ \A d, e \in P : d < e => followerRows[d] <= followerRows[e]
        BY <1>9, <1>13 DEF Grows, v
    <2>2. WindowDelta(Window) = Delta(M)
        BY <1>2, <1>3, <2>1, DeltaOf DEF M, v
    <2>3. WindowDelta(PreviousDays) = Delta(P)
        BY <1>10, <2>1, DeltaOf DEF P, v
    <2>4. CASE C = {}
        <3>1. M = P /\ bars = 0
            BY <1>8, <1>9, <1>13, <2>4
        <3>2. Delta(P) \in Int
            <4>1. P # {} => Greatest(P) \in P /\ Least(P) \in P
                BY <1>10, FiniteHasGreatest
            <4>2. P # {} => v[Greatest(P)] \in Int /\ v[Least(P)] \in Int
                BY <1>10, <4>1
            <4> QED BY <4>2
        <3> HIDE DEF Delta, bars
        <3> QED BY <2>2, <2>3, <3>1, <3>2
    <2>5. CASE C # {} /\ P = {}
        BY <1>9, <1>8, <1>10, <1>11, <1>13, <2>2, <2>3, <2>5
    <2>6. CASE C # {} /\ P # {}
        <3>1. /\ Greatest(C) \in C /\ \A x \in C : x <= Greatest(C)
              /\ Greatest(P) \in P /\ Least(P) \in P /\ \A x \in P : Least(P) <= x
            BY <1>10, <2>6, FiniteHasGreatest
        <3>2. Greatest(M) = Greatest(C)
            <4>1. \A x \in P : x <= Greatest(C)
                <5>1. a <= Greatest(C) /\ Greatest(C) \in Int /\ a \in Int
                    BY <1>1, <1>10, <3>1
                <5>2. \A x \in P : x < a /\ x \in Int
                    BY <1>10
                <5> QED BY <5>1, <5>2
            <4> QED BY <1>2, <1>9, <3>1, <4>1, GreatestIs
        <3>3. Least(M) = Least(P)
            <4>1. \A x \in C : Least(P) <= x
                <5>1. Least(P) < a /\ Least(P) \in Int /\ a \in Int
                    BY <1>1, <1>10, <3>1
                <5>2. \A x \in C : a <= x /\ x \in Int
                    BY <1>10
                <5> QED BY <5>1, <5>2
            <4> QED BY <1>2, <1>9, <3>1, <4>1, LeastIs
        <3>4. bars = v[Greatest(C)] - v[Greatest(P)]
            BY <1>8, <1>13, <2>6
        <3>5. Delta(P) = v[Greatest(P)] - v[Least(P)] /\ Delta(M) = v[Greatest(C)] - v[Least(P)]
            BY <1>9, <2>6, <3>2, <3>3
        <3>6. v[Greatest(C)] \in Int /\ v[Greatest(P)] \in Int /\ v[Least(P)] \in Int
            BY <1>10, <3>1
        <3> HIDE DEF Delta, bars
        <3> QED BY <2>2, <2>3, <3>4, <3>5, <3>6
    <2> QED BY <2>4, <2>5, <2>6
<1> QED BY <1>12, <1>13 DEF ChartExplainsGrowth, Grows, M, v, g

LEMMA InsightInvHolds == InsightInv => InsightTypeOK /\ InsightsHold
BY EachCountIsCreditedOnce, NothingIsBeforePublication, PageKeepsUp, PeriodsDoAddUp, ChartDoesExplain
   DEF InsightInv, InsightsHold, EachCountCreditedOnce, NothingBeforePublication

-------------------------------------------------------------------------------
(* The pages: what each sync does *)

LEMMA InsightInvInit == InsightInit => InsightInv
<1> SUFFICES ASSUME InsightInit PROVE InsightInv
    OBVIOUS
<1>1. InsightTypeOK
    <2>1. NotMeasured \in Measurement
        BY PeriodAssumption DEF NotMeasured, Measurement
    <2> QED BY <2>1, PeriodAssumption DEF InsightInit, InsightTypeOK, InsightDays
<1>2. RowsSincePublication
    BY DEF InsightInit, RowsSincePublication
<1>3. SyncsFit
    BY PeriodAssumption DEF InsightInit, SyncsFit
<1> QED BY <1>1, <1>2, <1>3 DEF InsightInv

\* What a sync stores is a measurement.
LEMMA SomeMeasurement ==
    ASSUME InsightInv, NEW count \in Counts, metric = "views",
           syncNo < MaxPostSyncs + MaxAccountSyncs
    PROVE  [value |-> count, captured |-> syncNo + 1] \in Measurement
<1>1. syncNo + 1 \in 0..(MaxPostSyncs + MaxAccountSyncs)
    BY PeriodAssumption DEF InsightInv, InsightTypeOK
<1> QED BY <1>1 DEF Measurement

LEMMA StorePostRowKeeps ==
    ASSUME InsightInv, NEW p \in Measured, NEW count \in Counts, StorePostRow(p, count)
    PROVE  InsightInv'
<1> DEFINE m == [value |-> count, captured |-> syncNo + 1]
<1> USE DEF StorePostRow
<1>1. /\ syncNo \in Nat /\ accountSyncs \in Nat /\ accountSyncs <= MaxAccountSyncs
      /\ MaxPostSyncs \in Nat /\ MaxAccountSyncs \in Nat /\ syncNo - accountSyncs < MaxPostSyncs
      /\ syncNo - accountSyncs >= 0
    BY PeriodAssumption DEF InsightInv, InsightTypeOK, SyncsFit
<1>2. m \in Measurement
    BY <1>1, SomeMeasurement
<1>3. m.value = count /\ today \in InsightDays /\ publishedOn[p] <= today /\ today \in Int
    <2>1. publishedOn[p] \in Int /\ today \in Int
        BY InsightFacts, SnapshotFacts
    <2> QED BY <2>1 DEF InsightInv, InsightTypeOK
<1> HIDE DEF m
<1>4. postRows' = [postRows EXCEPT ![p][today] = m]
    BY DEF m
<1>5. postRows' \in [Measured -> [InsightDays -> Measurement]]
    BY <1>2, <1>3, <1>4 DEF InsightInv, InsightTypeOK
<1>6. InsightTypeOK'
    BY <1>1, <1>5 DEF InsightInv, InsightTypeOK
<1>7. RowsSincePublication'
    <2> SUFFICES ASSUME NEW q \in Measured, NEW d \in InsightDays, postRows'[q][d] # NotMeasured
                 PROVE  /\ postRows'[q][d].value \in Counts
                        /\ publishedOn[q] <= d /\ d <= today
        BY DEF RowsSincePublication
    <2>1. CASE q = p /\ d = today
        <3>1. postRows'[q][d] = m
            BY <1>3, <1>4, <2>1 DEF InsightInv, InsightTypeOK
        <3> QED BY <1>3, <2>1, <3>1
    <2>2. CASE ~(q = p /\ d = today)
        <3>1. postRows'[q][d] = postRows[q][d]
            BY <1>3, <1>4, <2>2 DEF InsightInv, InsightTypeOK
        <3> QED BY <3>1 DEF InsightInv, RowsSincePublication
    <2> QED BY <2>1, <2>2
<1>8. SyncsFit'
    BY <1>1 DEF InsightInv, SyncsFit
<1> QED BY <1>6, <1>7, <1>8 DEF InsightInv

LEMMA StoreAccountRowKeeps ==
    ASSUME InsightInv, NEW count \in Counts, StoreAccountRow(count)
    PROVE  InsightInv'
<1> DEFINE m == [value |-> count, captured |-> syncNo + 1]
<1> USE DEF StoreAccountRow
<1>1. /\ syncNo \in Nat /\ accountSyncs \in Nat /\ accountSyncs < MaxAccountSyncs
      /\ MaxPostSyncs \in Nat /\ MaxAccountSyncs \in Nat /\ syncNo - accountSyncs <= MaxPostSyncs
      /\ syncNo - accountSyncs >= 0 /\ MaxFollowerSyncs \in Nat
    BY PeriodAssumption DEF InsightInv, InsightTypeOK, SyncsFit
<1>2. m \in Measurement
    BY <1>1, SomeMeasurement
<1> HIDE DEF m
<1>3. accountRows' = [accountRows EXCEPT ![today] = m]
    BY DEF m
<1>4. accountRows' \in [InsightDays -> Measurement]
    BY <1>2, <1>3 DEF InsightInv, InsightTypeOK
<1>5. InsightTypeOK'
    BY <1>1, <1>4 DEF InsightInv, InsightTypeOK
<1>6. RowsSincePublication'
    BY DEF InsightInv, RowsSincePublication
<1>7. SyncsFit'
    BY <1>1 DEF InsightInv, SyncsFit
<1> QED BY <1>5, <1>6, <1>7 DEF InsightInv

LEMMA StoreFollowersKeeps ==
    ASSUME InsightInv, NEW total \in 0..MaxFollowers, StoreFollowers(total)
    PROVE  InsightInv'
<1> USE DEF StoreFollowers
<1>1. /\ syncNo \in Nat /\ accountSyncs \in Nat /\ accountSyncs < MaxFollowerSyncs
      /\ MaxAccountSyncs \in Nat /\ MaxFollowerSyncs \in Nat
      /\ syncNo - accountSyncs \in 0..MaxPostSyncs /\ MaxPostSyncs \in Nat
    BY PeriodAssumption DEF InsightInv, InsightTypeOK, SyncsFit
<1>2. followerRows' \in [InsightDays -> (0..MaxFollowers) \cup {-1}]
    BY DEF InsightInv, InsightTypeOK
<1>3. InsightTypeOK'
    BY <1>1, <1>2 DEF InsightInv, InsightTypeOK
<1>4. RowsSincePublication'
    BY DEF InsightInv, RowsSincePublication
<1>5. SyncsFit'
    BY <1>1 DEF InsightInv, SyncsFit
<1> QED BY <1>3, <1>4, <1>5 DEF InsightInv

LEMMA InsightDayPassesKeeps ==
    ASSUME InsightInv, InsightDayPasses
    PROVE  InsightInv'
<1> USE DEF InsightDayPasses
<1>1. today \in Nat /\ today' = today + 1 /\ today' \in InsightDays
    BY PeriodAssumption DEF InsightInv, InsightTypeOK, InsightDays
<1>2. InsightTypeOK'
    BY <1>1 DEF InsightInv, InsightTypeOK
<1>3. RowsSincePublication'
    <2> SUFFICES ASSUME NEW p \in Measured, NEW d \in InsightDays, postRows[p][d] # NotMeasured
                 PROVE  /\ postRows[p][d].value \in Counts
                        /\ publishedOn[p] <= d /\ d <= today + 1
        BY <1>1 DEF RowsSincePublication
    <2>1. postRows[p][d].value \in Counts /\ publishedOn[p] <= d /\ d <= today
        BY DEF InsightInv, RowsSincePublication
    <2>2. d \in Int
        BY DEF InsightDays
    <2> QED BY <1>1, <2>1, <2>2
<1>4. SyncsFit'
    BY DEF InsightInv, SyncsFit
<1> QED BY <1>2, <1>3, <1>4 DEF InsightInv

LEMMA InsightNextKeeps == InsightInv /\ [InsightNext]_insightVars => InsightInv'
<1> SUFFICES ASSUME InsightInv, [InsightNext]_insightVars PROVE InsightInv'
    OBVIOUS
<1>1. CASE UNCHANGED insightVars
    BY <1>1 DEF insightVars, InsightInv, InsightTypeOK, RowsSincePublication, SyncsFit
<1>2. CASE InsightNext
    BY <1>2, StorePostRowKeeps, StoreAccountRowKeeps, StoreFollowersKeeps, InsightDayPassesKeeps
       DEF InsightNext
<1> QED BY <1>1, <1>2

\* Whatever was synced when, a post's count is shown once and on no day before it was
\* published, fresher posts show on the page, periods share out the window and the bars
\* explain the header; for any posts, days, length of a period and counts.
THEOREM InsightsStaySound == InsightInit /\ [][InsightNext]_insightVars => []InsightsHold
BY InsightInvInit, InsightNextKeeps, InsightInvHolds, PTL

-------------------------------------------------------------------------------
(* Deliveries and reminders: hands, times and counts have their types *)

\* The clock, the deaths and the retries stay within their bounds.
DeliveryBounds ==
    /\ minute <= LastMinute /\ deliveryDeaths <= MaxDeliveryDeaths
    /\ \A c \in Channels : delivery[c].retryAt \in -1..(LastMinute + 2)

DeliveryShapes == DeliveryInv /\ DeliveryBounds

LEMMA DeliveryShapesInit == DeliveryInit => DeliveryShapes
<1> SUFFICES ASSUME DeliveryInit PROVE DeliveryShapes
    OBVIOUS
<1>1. DeliveryInv BY DeliveryInvInit
<1>2. LastMinute \in Nat /\ MaxDeliveryDeaths \in Nat BY DeliveryConstants
<1>3. DeliveryBounds BY <1>2 DEF DeliveryInit, DeliveryBounds, NoDelivery, Unset
<1> QED BY <1>1, <1>3 DEF DeliveryShapes

LEMMA DeliveryShapesKept == DeliveryShapes /\ [DeliveryNext]_deliveryVars => DeliveryShapes'
<1> SUFFICES ASSUME DeliveryShapes, [DeliveryNext]_deliveryVars PROVE DeliveryShapes'
    OBVIOUS
<1>1. DeliveryInv /\ DeliveryInv' BY DeliveryNextKeeps DEF DeliveryShapes
<1>2. /\ LastMinute \in Nat /\ MaxDeliveryDeaths \in Nat
      /\ minute \in Nat /\ minute <= LastMinute /\ deliveryDeaths \in Nat /\ deliveryDeaths <= MaxDeliveryDeaths
      /\ \A c \in Channels : delivery[c].retryAt \in -1..(LastMinute + 2)
    BY <1>1, DeliveryConstants DEF DeliveryShapes, DeliveryBounds, DeliveryInv, DeliveryTypes
<1>3. minute' <= LastMinute
    <2>1. minute' = minute \/ (minute < LastMinute /\ minute' = minute + 1)
        BY DEF DeliveryNext, Notify, Sweep, BeginDispatch, Send, RecordDelivered, RecordFailed,
               DieDelivering, MinuteTick, deliveryVars
    <2> QED BY <1>2, <2>1
<1>4. deliveryDeaths' <= MaxDeliveryDeaths
    <2>1. \/ deliveryDeaths' = deliveryDeaths
          \/ deliveryDeaths < MaxDeliveryDeaths /\ deliveryDeaths' = deliveryDeaths + 1
        BY DEF DeliveryNext, Notify, Sweep, BeginDispatch, Send, RecordDelivered, RecordFailed,
               DieDelivering, MinuteTick, deliveryVars
    <2> QED BY <1>2, <2>1
<1>5. ASSUME NEW c \in Channels PROVE delivery'[c].retryAt \in -1..(LastMinute + 2)
    <2>1. delivery \in [Channels -> [status: {"none", "pending", "delivered", "failed"}, attempts: Nat, retryAt: Int]]
          /\ inHand \in [Actors -> Hand]
        BY <1>1 DEF DeliveryInv, DeliveryTypes
    <2>2. CASE UNCHANGED delivery BY <2>2, <1>2
    <2>3. CASE \E w \in Actors, d \in Channels : BeginDispatch(w, d)
        BY <2>1, <2>3, <1>2 DEF BeginDispatch
    <2>4. CASE \E w \in Actors : RecordDelivered(w)
        BY <2>1, <2>4, <1>2 DEF RecordDelivered
    <2>5. ASSUME NEW w \in Actors, RecordFailed(w) PROVE delivery'[c].retryAt \in -1..(LastMinute + 2)
        <3>1. \A n : minute + Backoff(n) \in -1..(LastMinute + 2)
            BY <1>2 DEF Backoff
        <3>2. \/ delivery'[c].retryAt = delivery[c].retryAt
              \/ \E n : delivery'[c].retryAt = minute + Backoff(n)
            BY <2>1, <2>5 DEF RecordFailed
        <3> QED BY <3>1, <3>2, <1>2
    <2> QED BY <2>2, <2>3, <2>4, <2>5
        DEF DeliveryNext, Notify, Sweep, Send, DieDelivering, MinuteTick, deliveryVars
<1>6. DeliveryBounds' BY <1>3, <1>4, <1>5 DEF DeliveryBounds
<1> QED BY <1>1, <1>6 DEF DeliveryShapes

LEMMA DeliveryShapesHold == DeliveryShapes => DeliveryTypeOK
<1> SUFFICES ASSUME DeliveryShapes PROVE DeliveryTypeOK
    OBVIOUS
<1>1. DeliveryTypes /\ (\A c \in Channels : MessagesCounted(c)) BY DEF DeliveryShapes, DeliveryInv
<1>2. MaxAttempts \in Nat /\ LastMinute \in Nat /\ MaxDeliveryDeaths \in Nat BY DeliveryConstants
<1>3. ASSUME NEW c \in Channels
      PROVE  /\ delivery[c].status \in {"none", "pending", "delivered", "failed"}
             /\ delivery[c].attempts \in 0..MaxAttempts
             /\ delivery[c].retryAt \in -1..(LastMinute + 2)
    BY <1>1, <1>2 DEF DeliveryTypes, MessagesCounted, DeliveryShapes, DeliveryBounds
<1>4. minute \in 0..LastMinute /\ deliveryDeaths \in 0..MaxDeliveryDeaths
    BY <1>1, <1>2 DEF DeliveryTypes, DeliveryShapes, DeliveryBounds
<1>5. todo \in [Actors -> SUBSET Channels] BY <1>1 DEF DeliveryTypes
<1> QED BY <1>3, <1>4, <1>5 DEF DeliveryTypeOK


\* What the sweep has in hand has times of the clock.
CountRow == [count: 0..MaxReminders, last: -1..LastHour, escalated: BOOLEAN]
ReminderShapes ==
    /\ ReminderTypeOK
    /\ sweep \in [step: {"none", "look", "send", "save"}, stage: Stage, now: 0..LastHour, read: CountRow]

LEMMA FreshCounts == Fresh \in CountRow
BY ReminderConstants DEF Fresh, CountRow, Never

LEMMA NoSweepTyped ==
    NoSweep \in [step: {"none", "look", "send", "save"}, stage: Stage, now: 0..LastHour, read: CountRow]
BY FreshCounts, ReminderConstants DEF NoSweep, Stage

LEMMA ReminderShapesInit == ReminderInit => ReminderShapes
<1> SUFFICES ASSUME ReminderInit PROVE ReminderShapes
    OBVIOUS
<1>1. LastHour \in Nat /\ MaxMoves \in Nat /\ MaxSweepDeaths \in Nat BY ReminderConstants
<1>2. reminder \in [Stage -> CountRow] BY FreshCounts DEF ReminderInit
<1>3. sweep.step = "none" /\ sweep.stage \in Stage BY DEF ReminderInit, NoSweep, Stage
<1> QED BY <1>1, <1>2, <1>3, NoSweepTyped DEF ReminderInit, ReminderShapes, ReminderTypeOK, Stage, CountRow

LEMMA ReminderShapesKept == ReminderShapes /\ [ReminderNext]_reminderVars => ReminderShapes'
<1> SUFFICES ASSUME ReminderShapes, [ReminderNext]_reminderVars PROVE ReminderShapes'
    OBVIOUS
<1> DEFINE Row == [step: {"none", "look", "send", "save"}, stage: Stage, now: 0..LastHour, read: CountRow]
<1>1. /\ waiting \subseteq Stage /\ updated \in 0..LastHour /\ hour \in 0..LastHour
      /\ reminder \in [Stage -> CountRow] /\ sweep \in Row
      /\ moves \in 0..MaxMoves /\ sweepDeaths \in 0..MaxSweepDeaths
      /\ LastHour \in Nat /\ MaxMoves \in Nat /\ MaxSweepDeaths \in Nat /\ MaxReminders \in Nat
    BY ReminderConstants DEF ReminderShapes, ReminderTypeOK, CountRow
<1>2. moves' \in 0..MaxMoves
    <2>1. moves' = moves \/ (moves < MaxMoves /\ moves' = moves + 1)
        BY DEF ReminderNext, SubmitAgain, AdvanceToClient, LeaveStage, SavePost, SweepStart, SweepLook,
               SweepSend, SweepSave, SweepDie, HourTick, Moved, reminderVars
    <2> QED BY <1>1, <2>1
<1>3. sweepDeaths' \in 0..MaxSweepDeaths
    <2>1. \/ sweepDeaths' = sweepDeaths
          \/ sweepDeaths < MaxSweepDeaths /\ sweepDeaths' = sweepDeaths + 1
        BY DEF ReminderNext, SubmitAgain, AdvanceToClient, LeaveStage, SavePost, SweepStart, SweepLook,
               SweepSend, SweepSave, SweepDie, HourTick, EnterStage, reminderVars
    <2> QED BY <1>1, <2>1
<1>4. hour' \in 0..LastHour /\ updated' \in 0..LastHour
    <2>1. /\ hour' = hour \/ (hour < LastHour /\ hour' = hour + 1)
          /\ updated' = updated \/ updated' = hour
        BY DEF ReminderNext, SubmitAgain, AdvanceToClient, LeaveStage, SavePost, SweepStart, SweepLook,
               SweepSend, SweepSave, SweepDie, HourTick, EnterStage, reminderVars
    <2> QED BY <1>1, <2>1
<1>5. waiting' \subseteq Stage
    BY <1>1 DEF ReminderNext, SubmitAgain, AdvanceToClient, LeaveStage, SavePost, SweepStart, SweepLook,
           SweepSend, SweepSave, SweepDie, HourTick, EnterStage, reminderVars, Stage
<1>6. Onward \in Row
    <2>1. [sweep EXCEPT !.step = "look", !.stage = "pending_client", !.read = Fresh] \in Row
        BY <1>1, FreshCounts DEF Stage
    <2> QED BY <2>1, NoSweepTyped DEF Onward
<1> HIDE DEF Row
<1>7. reminder' \in [Stage -> CountRow] /\ sweep' \in Row
    <2>1. CASE UNCHANGED <<reminder, sweep>> BY <2>1, <1>1
    <2>2. CASE SubmitAgain \/ AdvanceToClient
        BY <2>2, <1>1, FreshCounts DEF SubmitAgain, AdvanceToClient, EnterStage, ResetCounts, Stage
    <2>3. CASE SweepStart
        <3>1. [NoSweep EXCEPT !.step = "look", !.now = hour] \in Row
            BY <1>1, FreshCounts DEF NoSweep, Row, Stage
        <3> QED BY <2>3, <3>1, <1>1 DEF SweepStart
    <2>4. CASE SweepLook
        <3>1. sweep.stage \in Stage BY <1>1 DEF Row
        <3>2. [sweep EXCEPT !.step = "send", !.read = reminder[sweep.stage]] \in Row
            BY <3>1, <1>1 DEF Row
        <3> QED BY <2>4, <3>2, <1>1, <1>6 DEF SweepLook
    <2>5. CASE SweepSend
        <3>1. [sweep EXCEPT !.step = "save"] \in Row BY <1>1 DEF Row
        <3> QED BY <2>5, <3>1, <1>1 DEF SweepSend
    <2>6. CASE SweepSave
        <3>1. /\ sweep.stage \in Stage /\ sweep.read \in CountRow /\ sweep.now \in 0..LastHour
            BY <1>1 DEF Row
        <3>2. reminder[sweep.stage] \in CountRow BY <3>1, <1>1
        <3>3. [reminder[sweep.stage] EXCEPT !.escalated = TRUE] \in CountRow BY <3>2 DEF CountRow
        <3>4. ~MaxReached(sweep.read) =>
                 [reminder[sweep.stage] EXCEPT !.count = sweep.read.count + 1, !.last = sweep.now] \in CountRow
            <4>1. ~MaxReached(sweep.read) => sweep.read.count + 1 \in 0..MaxReminders
                BY <3>1, <1>1 DEF MaxReached, CountRow
            <4>2. sweep.now \in -1..LastHour BY <3>1, <1>1
            <4> QED BY <4>1, <4>2, <3>2 DEF CountRow
        <3> QED BY <2>6, <3>3, <3>4, <1>1, <1>6 DEF SweepSave
    <2>7. CASE SweepDie
        BY <2>7, <1>1, NoSweepTyped DEF SweepDie, Row
    <2> QED BY <2>1, <2>2, <2>3, <2>4, <2>5, <2>6, <2>7
        DEF ReminderNext, LeaveStage, SavePost, HourTick, reminderVars
<1>8. sweep'.step \in {"none", "look", "send", "save"} /\ sweep'.stage \in Stage
    BY <1>7 DEF Row
<1> QED BY <1>2, <1>3, <1>4, <1>5, <1>7, <1>8 DEF ReminderShapes, ReminderTypeOK, CountRow, Row

-------------------------------------------------------------------------------
(* The inbox: lists and hands are of messages there are *)

\* Lists and hands are of messages that are there, and what was quiet was stored.
InboxLists ==
    /\ poll <= LastPoll
    /\ \A w \in Pullers : pull[w].todo \subseteq Sent /\ pull[w].inHand \subseteq Stored
    /\ hook \subseteq Stored /\ quiet \subseteq Stored
    /\ pulls \in 0..MaxPulls /\ inboxFaults \in 0..MaxInboxFaults

InboxShapes == InboxInv /\ InboxLists

LEMMA InboxShapesInit == InboxInit => InboxShapes
<1> SUFFICES ASSUME InboxInit PROVE InboxShapes
    OBVIOUS
<1>1. InboxInv BY InboxInvInit
<1>2. LastPoll \in Nat /\ MaxPulls \in Nat /\ MaxInboxFaults \in Nat BY InboxConstants
<1>3. InboxLists BY <1>2 DEF InboxInit, InboxLists, NoPull
<1> QED BY <1>1, <1>3 DEF InboxShapes

\* A message that was sent, or stored, stays so.
LEMMA MessagesStay ==
    ASSUME InboxInv, [InboxNext]_inboxVars
    PROVE  Sent \subseteq Sent' /\ Stored \subseteq Stored'
<1>1. /\ sentAt \in [InboxMessages -> Int] /\ poll \in Nat
      /\ message \in [InboxMessages -> [at: Int, status: InboxStatuses, marked: BOOLEAN]]
      /\ pull \in [Pullers -> Pulls]
    BY DEF InboxInv, InboxTypes
<1>2. \A m \in InboxMessages : DatedRight(m) BY DEF InboxInv
<1>3. ASSUME NEW m \in InboxMessages, sentAt[m] # NoInstant PROVE sentAt'[m] # NoInstant
    <2>1. CASE UNCHANGED sentAt BY <2>1, <1>3
    <2>2. CASE \E x \in InboxMessages : Arrive(x)
        BY <2>2, <1>1, <1>3 DEF Arrive, Sent
    <2> QED BY <2>1, <2>2 DEF InboxNext, HookStores, NotifyOverdue, ChangeStatus, Upsert, Fetch,
                 Announce, PullDone, PullDies, MarkOverdue, HookAnnounces, HookDies, PollTick, inboxVars
<1>4. ASSUME NEW m \in InboxMessages, message[m] # Absent PROVE message'[m] # Absent
    <2>0. message[m].at \in 0..poll BY <1>2, <1>4 DEF DatedRight
    <2>1. message[m].at # NoInstant BY <2>0, <1>1 DEF NoInstant
    <2>2. \A r : r.at # NoInstant => r # Absent BY DEF Absent
    <2>3. message'[m].at # NoInstant
        <3>1. CASE UNCHANGED message BY <3>1, <2>1
        <3>2. CASE \E x \in InboxMessages, s \in InboxStatuses : ChangeStatus(x, s)
            BY <3>2, <1>1, <2>1 DEF ChangeStatus
        <3>3. CASE MarkOverdue
            BY <3>3, <1>1, <2>1 DEF MarkOverdue
        <3>4. CASE \E x \in InboxMessages : HookStores(x)
            <4>1. poll # NoInstant BY <1>1 DEF NoInstant
            <4> QED BY <3>4, <4>1, <1>1, <2>1 DEF HookStores
        <3>5. ASSUME NEW w \in Pullers, NEW x \in InboxMessages, Upsert(w, x)
              PROVE  message'[m].at # NoInstant
            <4>1. sentAt[m] # NoInstant BY <1>2, <1>4 DEF DatedRight
            <4> QED BY <3>5, <4>1, <1>1, <2>1 DEF Upsert
        <3> QED BY <3>1, <3>2, <3>3, <3>4, <3>5
               DEF InboxNext, Arrive, NotifyOverdue, Fetch, Announce, PullDone, PullDies,
                   HookAnnounces, HookDies, PollTick, inboxVars
    <2> QED BY <2>2, <2>3
<1> QED BY <1>3, <1>4 DEF Sent, Stored

LEMMA InboxShapesKept == InboxShapes /\ [InboxNext]_inboxVars => InboxShapes'
<1> SUFFICES ASSUME InboxShapes, [InboxNext]_inboxVars PROVE InboxShapes'
    OBVIOUS
<1>1. InboxInv /\ InboxInv' BY InboxNextKeeps DEF InboxShapes
<1>2. Sent \subseteq Sent' /\ Stored \subseteq Stored' BY <1>1, MessagesStay
<1>3. /\ LastPoll \in Nat /\ MaxPulls \in Nat /\ MaxInboxFaults \in Nat
      /\ poll \in Nat /\ poll <= LastPoll /\ pulls \in 0..MaxPulls /\ inboxFaults \in 0..MaxInboxFaults
      /\ \A w \in Pullers : pull[w].todo \subseteq Sent /\ pull[w].inHand \subseteq Stored
      /\ hook \subseteq Stored /\ quiet \subseteq Stored
      /\ sentAt \in [InboxMessages -> Int]
      /\ message \in [InboxMessages -> [at: Int, status: InboxStatuses, marked: BOOLEAN]]
      /\ pull \in [Pullers -> Pulls]
    BY <1>1, InboxConstants DEF InboxShapes, InboxLists, InboxInv, InboxTypes
<1>4. poll' <= LastPoll
    <2>1. poll' = poll \/ (poll < LastPoll /\ poll' = poll + 1)
        BY DEF InboxNext, Arrive, HookStores, NotifyOverdue, ChangeStatus, Upsert, Fetch,
               Announce, PullDone, PullDies, MarkOverdue, HookAnnounces, HookDies, PollTick, inboxVars
    <2> QED BY <1>3, <2>1
<1>5. pulls' \in 0..MaxPulls
    <2>1. pulls' = pulls \/ (pulls < MaxPulls /\ pulls' = pulls + 1)
        BY DEF InboxNext, Arrive, HookStores, NotifyOverdue, ChangeStatus, Upsert, Fetch,
               Announce, PullDone, PullDies, MarkOverdue, HookAnnounces, HookDies, PollTick, inboxVars
    <2> QED BY <1>3, <2>1
<1>6. inboxFaults' \in 0..MaxInboxFaults
    <2>1. inboxFaults' = inboxFaults \/ (inboxFaults < MaxInboxFaults /\ inboxFaults' = inboxFaults + 1)
        BY DEF InboxNext, Arrive, HookStores, NotifyOverdue, ChangeStatus, Upsert, Fetch, Faulty,
               Announce, PullDone, PullDies, MarkOverdue, HookAnnounces, HookDies, PollTick, inboxVars
    <2> QED BY <1>3, <2>1
<1>7. ASSUME NEW m \in InboxMessages, message'[m].at \in Int, message'[m].at # NoInstant PROVE m \in Stored'
    <2>1. message'[m] # Absent BY <1>7 DEF Absent
    <2> QED BY <2>1 DEF Stored
<1>8. hook' \subseteq Stored'
    <2>1. CASE UNCHANGED hook BY <2>1, <1>2, <1>3
    <2>2. ASSUME NEW m \in InboxMessages, HookStores(m) PROVE hook' \subseteq Stored'
        <3>1. message'[m].at = poll /\ hook' = {m} BY <2>2, <1>3 DEF HookStores
        <3>2. poll \in Int /\ poll # NoInstant BY <1>3 DEF NoInstant
        <3> QED BY <3>1, <3>2, <1>7
    <2>3. CASE HookAnnounces \/ HookDies BY <2>3 DEF HookAnnounces, HookDies
    <2> QED BY <2>1, <2>2, <2>3 DEF InboxNext, Arrive, NotifyOverdue, ChangeStatus, Upsert, Fetch,
                 Announce, PullDone, PullDies, MarkOverdue, PollTick, inboxVars
<1>9. ASSUME NEW w \in Pullers, NEW m \in InboxMessages, Upsert(w, m) PROVE m \in Stored'
    <2>1. m \in Sent BY <1>3, <1>9 DEF Upsert
    <2>2. message'[m].at = sentAt[m] BY <1>3, <1>9 DEF Upsert
    <2> QED BY <2>1, <2>2, <1>3, <1>7 DEF Sent
<1>10. quiet' \subseteq Stored'
    <2>1. CASE UNCHANGED quiet BY <2>1, <1>2, <1>3
    <2>2. ASSUME NEW w \in Pullers, NEW m \in InboxMessages, Upsert(w, m) PROVE quiet' \subseteq Stored'
        <3>1. quiet' \subseteq quiet \cup {m} BY <2>2 DEF Upsert
        <3> QED BY <3>1, <2>2, <1>2, <1>3, <1>9
    <2>3. ASSUME NEW w \in Pullers, PullDies(w) PROVE quiet' \subseteq Stored'
        BY <2>3, <1>2, <1>3 DEF PullDies
    <2>4. CASE HookDies BY <2>4, <1>2, <1>3 DEF HookDies
    <2> QED BY <2>1, <2>2, <2>3, <2>4 DEF InboxNext, Arrive, HookStores, NotifyOverdue, ChangeStatus, Fetch,
                 Announce, PullDone, MarkOverdue, HookAnnounces, PollTick, inboxVars
<1>11. ASSUME NEW w \in Pullers PROVE pull'[w].todo \subseteq Sent' /\ pull'[w].inHand \subseteq Stored'
    <2>1. CASE UNCHANGED pull BY <2>1, <1>2, <1>3
    <2>2. ASSUME NEW v \in Pullers, NEW m \in InboxMessages, Upsert(v, m)
          PROVE  pull'[w].todo \subseteq Sent' /\ pull'[w].inHand \subseteq Stored'
        <3>1. pull'[w].todo \subseteq pull[w].todo
            BY <2>2, <1>3 DEF Upsert, Pulls
        <3>2. pull'[w].inHand \subseteq pull[w].inHand \cup {m}
            BY <2>2, <1>3 DEF Upsert, Pulls
        <3> QED BY <3>1, <3>2, <2>2, <1>2, <1>3, <1>9
    <2>3. ASSUME NEW v \in Pullers, Fetch(v)
          PROVE  pull'[w].todo \subseteq Sent' /\ pull'[w].inHand \subseteq Stored'
        <3>1. PICK M \in SUBSET Sent :
                 pull' = [pull EXCEPT ![v] = [step |-> "pull", todo |-> M, first |-> Stored = {}, inHand |-> {}]]
            BY <2>3 DEF Fetch
        <3> QED BY <3>1, <1>2, <1>3
    <2>4. ASSUME NEW v \in Pullers, PullDone(v)
          PROVE  pull'[w].todo \subseteq Sent' /\ pull'[w].inHand \subseteq Stored'
        <3>1. Overdue \subseteq Sent
            BY <1>1 DEF Overdue, Stored, Sent, InboxInv, DatedRight
        <3>2. PICK M \in {Overdue, {}} :
                 pull' = [pull EXCEPT ![v] = [step |-> IF M = {} THEN "idle" ELSE "sla",
                                              todo |-> M, first |-> FALSE, inHand |-> {}]]
            BY <2>4 DEF PullDone
        <3> QED BY <3>1, <3>2, <1>2, <1>3
    <2>5. ASSUME NEW v \in Pullers, Announce(v) \/ PullDies(v)
          PROVE  pull'[w].todo \subseteq Sent' /\ pull'[w].inHand \subseteq Stored'
        <3>1. pull'[w].todo \subseteq pull[w].todo /\ pull'[w].inHand \subseteq pull[w].inHand
            BY <2>5, <1>3 DEF Announce, PullDies, NoPull, Pulls
        <3> QED BY <3>1, <1>2, <1>3
    <2>6. CASE MarkOverdue
        <3>1. pull'[w].todo \subseteq pull[w].todo /\ pull'[w].inHand \subseteq pull[w].inHand
            BY <2>6, <1>3 DEF MarkOverdue, NoPull, Pulls
        <3> QED BY <3>1, <1>2, <1>3
    <2>7. ASSUME NEW m \in InboxMessages, NotifyOverdue(m)
          PROVE  pull'[w].todo \subseteq Sent' /\ pull'[w].inHand \subseteq Stored'
        <3>1. m \in Stored
            BY <1>1, <2>7 DEF NotifyOverdue, InboxInv, Reported, ToReport
        <3>2. pull'[w].todo \subseteq pull[w].todo /\ pull'[w].inHand \subseteq pull[w].inHand \cup {m}
            BY <2>7, <1>3 DEF NotifyOverdue, Pulls
        <3> QED BY <3>1, <3>2, <1>2, <1>3
    <2> QED BY <2>1, <2>2, <2>3, <2>4, <2>5, <2>6, <2>7
            DEF InboxNext, Arrive, HookStores, ChangeStatus, HookAnnounces, HookDies, PollTick, inboxVars
<1>12. InboxLists' BY <1>4, <1>5, <1>6, <1>8, <1>10, <1>11 DEF InboxLists
<1> QED BY <1>1, <1>12 DEF InboxShapes

LEMMA InboxShapesHold == InboxShapes => InboxTypeOK
<1> SUFFICES ASSUME InboxShapes PROVE InboxTypeOK
    OBVIOUS
<1>1. InboxInv /\ InboxLists BY DEF InboxShapes
<1>2. InboxTypes /\ (\A m \in InboxMessages : DatedRight(m)) BY <1>1 DEF InboxInv
<1>3. LastPoll \in Nat /\ poll \in 0..LastPoll BY <1>1, <1>2, InboxConstants DEF InboxTypes, InboxLists
<1>4. \A m \in InboxMessages : sentAt[m] \in -1..LastPoll
    BY <1>2, <1>3 DEF DatedRight, NoInstant
<1>5. \A m \in InboxMessages : message[m].at \in -1..LastPoll
    BY <1>2, <1>3 DEF DatedRight, NoInstant, Absent
<1>6. sentAt \in [InboxMessages -> -1..LastPoll] BY <1>2, <1>4 DEF InboxTypes
<1>7. message \in [InboxMessages -> [at: -1..LastPoll, status: InboxStatuses, marked: BOOLEAN]]
    BY <1>2, <1>5 DEF InboxTypes
<1>8. \A w \in Pullers : pull[w].step \in {"idle", "pull", "sla"} BY <1>2 DEF InboxTypes, Pulls
<1> QED BY <1>1, <1>2, <1>6, <1>7, <1>8 DEF InboxTypeOK, InboxLists, InboxTypes
===============================================================================
