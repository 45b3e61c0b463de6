--------------------------- MODULE IntelligenceProofs ---------------------------
(***************************************************************************)
(* What the workspace's automation keeps, for any number of administrators, *)
(* threads, checkouts, tasks, posts and connections: the Intelligence       *)
(* subscription is what its rows say, media jobs call the webhook as often  *)
(* as their retries allow, a campaign's approvals stand on what was shown,  *)
(* and a generation asks each provider once and drafts what fits.           *)
(***************************************************************************)
EXTENDS Subscriptions, MediaJobs, Campaigns, Generations, WellFoundedInduction, FiniteSetTheorems,
        TLAPS

-------------------------------------------------------------------------------
(* The subscription: what each variable holds *)

BillingSteps == {"rest", "reserved", "opened", "conflict", "unreachable", "discarding",
                 "discarded", "recovering", "activating", "preflighted", "allowed", "committed",
                 "deferring", "queueing", "rejected", "unauthorized", "activated", "done",
                 "canceled"}
BillingHand == [step: BillingSteps, row: Sessions \cup {0}, session: Sessions \cup {0},
                user: Admins \cup {"nobody"}, key: Nat, tries: Nat, entitled: BOOLEAN]
AttemptRow == [status: {"none", "creating", "open", "activated", "expired", "canceled"},
               session: Sessions \cup {0}]
PendingRow == [status: {"none", "pending", "in_progress", "unauthorized", "failed", "completed"},
               attempts: Nat, user: Admins \cup {"nobody"}]

BillingTypes ==
    /\ attempt \in [Sessions -> AttemptRow]
    /\ sub \in [status: {"none", "active", "canceled"}, key: Nat]
    /\ pend \in [Sessions -> PendingRow]
    /\ activations \in [Sessions -> Int]
    /\ billing \in [BillingActors -> BillingHand]
    /\ session \in [Sessions -> {"none", "open", "canceled", "paid", "committed"}]
    /\ keys \in [given: Nat, accepted: SUBSET Nat]
    /\ admins \subseteq Admins

\* Keys that work, or whose rotation is on record.
GoodKeys == {0} \cup keys.accepted \cup overtakenKeys

KeysHeld ==
    /\ sub.key \in GoodKeys
    /\ sub.status = "active" => sub.key # 0
    /\ \A t \in BillingActors : billing[t].key \in GoodKeys

\* A user who may still have it was entitled when the run began.
Entitled ==
    \A t \in BillingActors :
        /\ billing[t].user \in admins => billing[t].entitled
        /\ billing[t].step \in {"allowed", "committed", "activated"} => billing[t].entitled

LEMMA BillingActorsFacts ==
    /\ Worker \in BillingActors /\ Worker \notin BillingThreads
    /\ \A t \in BillingThreads : t \in BillingActors /\ t # Worker
    /\ AtRest \in BillingHand /\ 0 \notin Sessions /\ Sessions \subseteq Nat
BY BillingConstants DEF BillingActors, Worker, AtRest, BillingHand, BillingSteps, Sessions

\* A step of one actor leaves the others' hands alone.
BillingStep(t) ==
    \A x \in BillingActors : x # t => billing'[x] = billing[x]

-------------------------------------------------------------------------------
(* Helpers *)

\* A non-empty set of naturals has a least element.
LEMMA LeastNatural ==
    ASSUME NEW S \in SUBSET Nat, S # {}
    PROVE  \E i \in S : \A j \in S : i <= j
<1>1. PICK i \in S : \A j \in S : ~(<<j, i>> \in OpToRel(<, Nat))
    BY NatLessThanWellFounded, WFMin
<1>2. \A j \in S : ~(j < i)
    BY <1>1 DEF OpToRel
<1> QED BY <1>2

LEMMA EarliestIsMember ==
    ASSUME NEW S \in SUBSET Sessions, S # {}
    PROVE  Earliest(S) \in S
<1>1. S \in SUBSET Nat
    BY DEF Sessions
<1> QED BY <1>1, LeastNatural DEF Earliest

LEMMA AttemptOfIsRow ==
    ASSUME BillingTypes, NEW s \in Sessions, AttemptOf(s) # 0
    PROVE  /\ AttemptOf(s) \in Sessions
           /\ attempt[AttemptOf(s)].status # "none" /\ attempt[AttemptOf(s)].session = s
<1> DEFINE rows == {i \in Sessions : attempt[i].status # "none" /\ attempt[i].session = s}
           below == {MaxCheckouts - i : i \in rows}
<1>1. rows # {} /\ MaxCheckouts \in Nat
    BY BillingConstants DEF AttemptOf
<1>2. below \in SUBSET Nat /\ below # {}
    BY <1>1 DEF Sessions
<1>3. PICK m \in below : \A n \in below : m <= n
    BY <1>2, LeastNatural
<1>4. PICK i \in rows : m = MaxCheckouts - i
    BY <1>3
<1>5. \A j \in rows : j \in Nat /\ i \in Nat /\ MaxCheckouts - i <= MaxCheckouts - j
    BY <1>3, <1>4 DEF Sessions
<1>6. \A j \in rows : i >= j
    BY <1>1, <1>5
<1>7. AttemptOf(s) = CHOOSE k \in rows : \A j \in rows : k >= j
    BY <1>1 DEF AttemptOf
<1>8. AttemptOf(s) \in rows
    BY <1>6, <1>7
<1> QED BY <1>8

LEMMA AttemptOfType ==
    ASSUME BillingTypes, NEW s \in Sessions
    PROVE  AttemptOf(s) \in Sessions \cup {0}
BY AttemptOfIsRow

\* What a hand keeps when its step goes on.
HandKept(t) ==
    /\ billing'[t].row = billing[t].row /\ billing'[t].session = billing[t].session
    /\ billing'[t].user = billing[t].user /\ billing'[t].key = billing[t].key
    /\ billing'[t].tries = billing[t].tries /\ billing'[t].entitled = billing[t].entitled

LEMMA GoesEffect ==
    ASSUME BillingTypes, NEW t \in BillingActors, NEW s \in BillingSteps, Goes(t, s)
    PROVE  /\ billing' \in [BillingActors -> BillingHand]
           /\ BillingStep(t) /\ billing'[t].step = s /\ HandKept(t)
<1>1. billing[t] \in BillingHand /\ billing' = [billing EXCEPT ![t].step = s]
    BY DEF BillingTypes, Goes
<1>2. [billing[t] EXCEPT !.step = s] \in BillingHand
    BY <1>1 DEF BillingHand
<1>3. billing'[t] = [billing[t] EXCEPT !.step = s] /\ BillingStep(t)
    BY <1>1 DEF BillingTypes, BillingStep
<1>4. billing' \in [BillingActors -> BillingHand]
    BY <1>1, <1>2 DEF BillingTypes
<1>5. billing'[t].step = s /\ HandKept(t)
    BY <1>1, <1>3 DEF BillingHand, HandKept
<1> QED BY <1>3, <1>4, <1>5

LEMMA RestsEffect ==
    ASSUME BillingTypes, NEW t \in BillingActors, Rests(t)
    PROVE  /\ billing' \in [BillingActors -> BillingHand]
           /\ BillingStep(t) /\ billing'[t] = AtRest
BY BillingActorsFacts DEF BillingTypes, Rests, BillingStep

LEMMA BillingInitTypes == BillingInit => BillingTypes
<1> SUFFICES ASSUME BillingInit PROVE BillingTypes
    OBVIOUS
<1> USE BillingConstants, BillingActorsFacts
<1>0. 1 \in Sessions
    BY DEF Sessions
<1>1. attempt \in [Sessions -> AttemptRow]
    BY <1>0 DEF BillingInit, AttemptRow
<1>2. sub \in [status: {"none", "active", "canceled"}, key: Nat]
    BY DEF BillingInit
<1>3. pend \in [Sessions -> PendingRow]
    <2>1. \A n \in 0..(WorkerMaxAttempts - 1) : n \in Nat
        OBVIOUS
    <2> QED BY <2>1 DEF BillingInit, PendingRow
<1>4. activations \in [Sessions -> Int] /\ admins \subseteq Admins
    BY DEF BillingInit
<1>5. billing \in [BillingActors -> BillingHand]
    BY DEF BillingInit
<1>6. session \in [Sessions -> {"none", "open", "canceled", "paid", "committed"}]
    BY DEF BillingInit
<1>7. keys \in [given: Nat, accepted: SUBSET Nat]
    BY DEF BillingInit
<1> QED BY <1>1, <1>2, <1>3, <1>4, <1>5, <1>6, <1>7 DEF BillingTypes

LEMMA HandsTyped ==
    ASSUME BillingTypes, BillingNext
    PROVE  billing' \in [BillingActors -> BillingHand]
<1> USE BillingActorsFacts
<1> DEFINE Goal == billing' \in [BillingActors -> BillingHand]
<1>0. \A t \in BillingActors : billing[t] \in BillingHand
    BY DEF BillingTypes
<1>1. ASSUME NEW t \in BillingActors, \/ Rests(t)
                                      \/ \E s \in BillingSteps : Goes(t, s)
                                      \/ UNCHANGED billing
      PROVE  Goal
    BY <1>1, RestsEffect, GoesEffect DEF BillingTypes
<1>2. ASSUME NEW t \in BillingActors, NEW hand \in BillingHand,
             billing' = [billing EXCEPT ![t] = hand]
      PROVE  Goal
    BY <1>2 DEF BillingTypes
<1>3. ASSUME NEW s \in Sessions, Pay(s) \/ WorkerClaims(s) PROVE Goal
    <2>1. CASE UNCHANGED billing
        BY <1>1, <2>1
    <2>2. CASE ~UNCHANGED billing
        <3> DEFINE new == [step |-> IF AttemptOf(s) = 0 THEN "rejected" ELSE "activating",
                           row |-> AttemptOf(s), session |-> s, user |-> pend[s].user, key |-> 0,
                           tries |-> pend[s].attempts + 1, entitled |-> pend[s].user \in admins]
        <3>1. billing' = [billing EXCEPT ![Worker] = new]
            BY <1>3, <2>2 DEF Pay, WorkerClaims
        <3>2. new \in BillingHand
            BY AttemptOfType DEF BillingTypes, PendingRow, BillingHand, BillingSteps
        <3> QED BY <1>2, <3>1, <3>2
    <2> QED BY <2>1, <2>2
<1>4. ASSUME NEW t \in BillingThreads, Reserve(t) PROVE Goal
    <2>1. PICK i \in Sessions : billing' = [billing EXCEPT ![t].step = "reserved", ![t].row = i]
        BY <1>4, EarliestIsMember DEF Reserve, Unused
    <2>2. [billing[t] EXCEPT !.step = "reserved", !.row = i] \in BillingHand
        BY <1>0 DEF BillingHand, BillingSteps
    <2>3. billing' = [billing EXCEPT ![t] = [billing[t] EXCEPT !.step = "reserved", !.row = i]]
        BY <2>1 DEF BillingTypes
    <2> QED BY <1>2, <2>2, <2>3
<1>5. ASSUME NEW t \in BillingThreads, CreateSession(t) PROVE Goal
    <2>1. CASE \E s \in {"unreachable", "conflict"} : Goes(t, s)
        BY <1>1, <2>1 DEF BillingSteps
    <2>2. ASSUME NEW s \in Sessions \cup {0},
                 billing' = [billing EXCEPT ![t].step = "opened", ![t].session = s]
          PROVE Goal
        <3>1. [billing[t] EXCEPT !.step = "opened", !.session = s] \in BillingHand
            BY <1>0 DEF BillingHand, BillingSteps
        <3>2. billing' = [billing EXCEPT ![t] =
                            [billing[t] EXCEPT !.step = "opened", !.session = s]]
            BY <2>2 DEF BillingTypes
        <3> QED BY <1>2, <3>1, <3>2
    <2>3. billing[t].row \in Sessions \cup {0}
        BY <1>0 DEF BillingHand
    <2> QED BY <1>5, <2>1, <2>2, <2>3 DEF CreateSession
<1>6. ASSUME NEW t \in BillingThreads, SettleCheckout(t) \/ SaveDiscard(t) PROVE Goal
    BY <1>1, <1>6 DEF SettleCheckout, SaveDiscard
<1>7. ASSUME NEW t \in BillingThreads, FindCheckout(t) PROVE Goal
    <2>1. ASSUME NEW i \in Sessions \cup {0}, NEW s \in Sessions \cup {0},
                 \/ billing' = [billing EXCEPT ![t].step = "discarding", ![t].row = i,
                                               ![t].session = s]
                 \/ billing' = [billing EXCEPT ![t].step = "discarding", ![t].session = s]
          PROVE  Goal
        <3>1. [billing[t] EXCEPT !.step = "discarding", !.row = i, !.session = s] \in BillingHand
            BY <1>0 DEF BillingHand, BillingSteps
        <3>2. [billing[t] EXCEPT !.step = "discarding", !.session = s] \in BillingHand
            BY <1>0 DEF BillingHand, BillingSteps
        <3>3. \/ billing' = [billing EXCEPT ![t] =
                               [billing[t] EXCEPT !.step = "discarding", !.row = i, !.session = s]]
              \/ billing' = [billing EXCEPT ![t] =
                               [billing[t] EXCEPT !.step = "discarding", !.session = s]]
            BY <2>1 DEF BillingTypes
        <3> QED BY <1>2, <3>1, <3>2, <3>3
    <2>2. \A i \in InProgress : i \in Sessions /\ attempt[i].session \in Sessions \cup {0}
        BY DEF InProgress, BillingTypes, AttemptRow
    <2> QED BY <1>7, <2>1, <2>2 DEF FindCheckout
<1>8. ASSUME NEW t \in BillingThreads, CancelSession(t) \/ DeferRequest(t) PROVE Goal
    BY <1>1, <1>8 DEF CancelSession, DeferRequest, BillingSteps
<1>9. ASSUME NEW t \in BillingThreads, ReopenAttempt(t) PROVE Goal
    <2>1. CASE Rests(t) \/ Goes(t, "activating")
        BY <1>1, <2>1 DEF BillingSteps
    <2>2. ASSUME NEW n \in Sessions,
                 billing' = [billing EXCEPT ![t].step = "activating", ![t].row = n]
          PROVE  Goal
        <3>1. [billing[t] EXCEPT !.step = "activating", !.row = n] \in BillingHand
            BY <1>0 DEF BillingHand, BillingSteps
        <3>2. billing' = [billing EXCEPT ![t] =
                            [billing[t] EXCEPT !.step = "activating", !.row = n]]
            BY <2>2 DEF BillingTypes
        <3> QED BY <1>2, <3>1, <3>2
    <2> QED BY <1>9, <2>1, <2>2 DEF ReopenAttempt
<1>10. ASSUME NEW t \in BillingThreads, NEW u \in Admins, NEW s \in Sessions,
              OpenSuccessUrl(t, u, s) \/ AskPendingActivation(t, u, s)
       PROVE  Goal
    <2>1. \A phase \in BillingSteps :
             [AtRest EXCEPT !.step = phase, !.session = s, !.user = u, !.row = AttemptOf(s)]
                \in BillingHand
        BY AttemptOfType DEF BillingHand, AtRest
    <2> QED BY <1>2, <1>10, <2>1 DEF OpenSuccessUrl, AskPendingActivation, BillingSteps
<1>11. ASSUME NEW t \in BillingActors, Preflight(t) \/ Recheck(t) PROVE Goal
    BY <1>1, <1>11 DEF Preflight, Recheck, Declined, BillingSteps
<1>12. ASSUME NEW t \in BillingActors, CommitActivation(t) PROVE Goal
    <2>1. keys.given + 1 \in Nat
        BY DEF BillingTypes
    <2>2. ASSUME billing' = [billing EXCEPT ![t].step = "committed", ![t].key = keys.given + 1]
          PROVE  Goal
        <3>1. [billing[t] EXCEPT !.step = "committed", !.key = keys.given + 1] \in BillingHand
            BY <1>0, <2>1 DEF BillingHand, BillingSteps
        <3>2. billing' = [billing EXCEPT ![t] =
                            [billing[t] EXCEPT !.step = "committed", !.key = keys.given + 1]]
            BY <2>2 DEF BillingTypes
        <3> QED BY <1>2, <3>1, <3>2
    <2>3. CASE Rests(t) \/ \E s \in BillingSteps : Goes(t, s)
        BY <1>1, <2>3
    <2> QED BY <1>12, <2>2, <2>3 DEF CommitActivation, Declined, BillingSteps
<1>13. ASSUME NEW t \in BillingActors, Finalize(t) PROVE Goal
    BY <1>1, <1>13 DEF Finalize, BillingSteps
<1>14. ASSUME NEW t \in BillingActors, QueueActivation(t) \/ BillingDies(t) PROVE Goal
    BY <1>1, <1>14 DEF QueueActivation, BillingDies, BillingSteps
<1>15. ASSUME CancelAtStripe \/ WorkerSaves \/ ActivationDone \/ AskAccount \/ CopyCancellation
       PROVE  Goal
    BY <1>1, <1>15 DEF CancelAtStripe, WorkerSaves, ActivationDone, AskAccount, CopyCancellation,
       BillingSteps
<1>16. ASSUME NEW u \in Admins, Demote(u) PROVE Goal
    BY <1>1, <1>16 DEF Demote
<1> QED BY <1>3, <1>4, <1>5, <1>6, <1>7, <1>8, <1>9, <1>10, <1>11, <1>12, <1>13, <1>14, <1>15,
           <1>16 DEF BillingNext

LEMMA AttemptsTyped ==
    ASSUME BillingTypes, BillingNext
    PROVE  attempt' \in [Sessions -> AttemptRow]
<1> USE BillingActorsFacts
<1> DEFINE Goal == attempt' \in [Sessions -> AttemptRow]
<1>0. /\ \A i \in Sessions : attempt[i] \in AttemptRow
      /\ \A t \in BillingActors : billing[t].session \in Sessions \cup {0}
      /\ attempt \in [Sessions -> AttemptRow]
    BY DEF BillingTypes, BillingHand
<1>1. CASE UNCHANGED attempt
    BY <1>0, <1>1
<1>2. ASSUME NEW i, NEW row \in AttemptRow, attempt' = [attempt EXCEPT ![i] = row]
      PROVE  Goal
    BY <1>0, <1>2
<1>3. ASSUME NEW i, NEW s \in {"expired", "canceled", "activated"},
             attempt' = [attempt EXCEPT ![i].status = s]
      PROVE  Goal
    <2>1. \A j \in Sessions : [attempt[j] EXCEPT !.status = s] \in AttemptRow
        BY <1>0 DEF AttemptRow
    <2> QED BY <1>0, <1>3, <2>1
<1>4. ASSUME NEW t \in BillingThreads, Reserve(t) PROVE Goal
    BY <1>2, <1>4 DEF Reserve, AttemptRow
<1>5. ASSUME NEW t \in BillingThreads, SettleCheckout(t) PROVE Goal
    <2>1. [status |-> "open", session |-> billing[t].session] \in AttemptRow
        BY <1>0 DEF AttemptRow
    <2>2. [status |-> "none", session |-> 0] \in AttemptRow
        BY DEF AttemptRow
    <2> QED BY <1>1, <1>2, <1>3, <1>5, <2>1, <2>2 DEF SettleCheckout
<1>6. ASSUME NEW t \in BillingThreads, SaveDiscard(t) PROVE Goal
    BY <1>1, <1>3, <1>6 DEF SaveDiscard
<1>7. ASSUME NEW t \in BillingThreads, ReopenAttempt(t) PROVE Goal
    <2> DEFINE open == [status |-> "open", session |-> billing[t].session]
    <2>1. open \in AttemptRow
        BY <1>0 DEF AttemptRow
    <2>2. \A j \in Sessions : [attempt[j] EXCEPT !.status = "expired"] \in AttemptRow
        BY <1>0 DEF AttemptRow
    <2>3. ASSUME NEW n \in Sessions,
                 attempt' = [j \in Sessions |->
                               IF j = n THEN open
                               ELSE IF j \in InProgress
                               THEN [attempt[j] EXCEPT !.status = "expired"] ELSE attempt[j]]
          PROVE  Goal
        <3> HIDE DEF open
        <3> QED BY <1>0, <2>1, <2>2, <2>3
    <2> QED BY <1>1, <1>2, <1>7, <2>1, <2>3 DEF ReopenAttempt
<1>8. ASSUME NEW t \in BillingActors, Finalize(t) PROVE Goal
    BY <1>1, <1>3, <1>8 DEF Finalize
<1> QED BY <1>1, <1>4, <1>5, <1>6, <1>7, <1>8 DEF BillingNext, Pay, WorkerClaims, Demote,
           CreateSession, FindCheckout, CancelSession, DeferRequest, OpenSuccessUrl,
           AskPendingActivation, Preflight, Recheck, CommitActivation, QueueActivation,
           BillingDies, CancelAtStripe, WorkerSaves, ActivationDone, AskAccount, CopyCancellation

LEMMA SubscriptionTyped ==
    ASSUME BillingTypes, BillingNext
    PROVE  /\ sub' \in [status: {"none", "active", "canceled"}, key: Nat]
           /\ keys' \in [given: Nat, accepted: SUBSET Nat]
           /\ session' \in [Sessions -> {"none", "open", "canceled", "paid", "committed"}]
           /\ admins' \subseteq Admins
<1> USE BillingActorsFacts
<1> DEFINE Sub(s) == s \in [status: {"none", "active", "canceled"}, key: Nat]
           Keys(k) == k \in [given: Nat, accepted: SUBSET Nat]
           Open(s) == s \in [Sessions -> {"none", "open", "canceled", "paid", "committed"}]
<1>0. /\ Sub(sub) /\ Keys(keys) /\ Open(session) /\ admins \subseteq Admins
      /\ keys.given + 1 \in Nat /\ keys.accepted \subseteq Nat
      /\ \A t \in BillingActors : billing[t].key \in Nat /\ sub.key \in Nat
    BY DEF BillingTypes, BillingHand
<1>1. ASSUME NEW t \in BillingActors, Finalize(t) PROVE Sub(sub') /\ Keys(keys')
    <2>1. ASSUME NEW k \in Nat PROVE Sub([status |-> "active", key |-> k])
        OBVIOUS
    <2>2. Keys([given |-> keys.given + 1, accepted |-> {keys.given + 1}])
        BY <1>0
    <2> QED BY <1>0, <1>1, <2>1, <2>2 DEF Finalize
<1>2. ASSUME CopyCancellation PROVE Sub(sub')
    BY <1>0, <1>2 DEF CopyCancellation
<1>3. ASSUME NEW t \in BillingActors, CommitActivation(t) PROVE Keys(keys') /\ Open(session')
    <2>1. Keys([given |-> keys.given + 1, accepted |-> keys.accepted \cup {keys.given + 1}])
        BY <1>0
    <2>2. Open([session EXCEPT ![billing[t].session] = "committed"])
        BY <1>0
    <2> QED BY <1>0, <1>3, <2>1, <2>2 DEF CommitActivation
<1>4. ASSUME NEW t \in BillingThreads, CreateSession(t) \/ CancelSession(t) PROVE Open(session')
    BY <1>0, <1>4 DEF CreateSession, CancelSession
<1>5. ASSUME NEW s \in Sessions, Pay(s) PROVE Open(session')
    BY <1>0, <1>5 DEF Pay
<1>6. ASSUME NEW u \in Admins, Demote(u) PROVE admins' \subseteq Admins
    BY <1>0, <1>6 DEF Demote
<1> HIDE DEF Sub, Keys, Open
<1>7. Sub(sub')
    BY <1>0, <1>1, <1>2 DEF BillingNext, Pay, WorkerClaims, Demote, Reserve, CreateSession,
       SettleCheckout, FindCheckout, CancelSession, SaveDiscard, ReopenAttempt, DeferRequest,
       OpenSuccessUrl, AskPendingActivation, Preflight, Recheck, CommitActivation, QueueActivation,
       BillingDies, CancelAtStripe, WorkerSaves, ActivationDone, AskAccount
<1>8. Keys(keys')
    BY <1>0, <1>1, <1>3 DEF BillingNext, Pay, WorkerClaims, Demote, Reserve, CreateSession,
       SettleCheckout, FindCheckout, CancelSession, SaveDiscard, ReopenAttempt, DeferRequest,
       OpenSuccessUrl, AskPendingActivation, Preflight, Recheck, QueueActivation,
       BillingDies, CancelAtStripe, WorkerSaves, ActivationDone, AskAccount, CopyCancellation
<1>9. Open(session')
    BY <1>0, <1>3, <1>4, <1>5 DEF BillingNext, WorkerClaims, Demote, Reserve,
       SettleCheckout, FindCheckout, SaveDiscard, ReopenAttempt, DeferRequest,
       OpenSuccessUrl, AskPendingActivation, Preflight, Recheck, Finalize, QueueActivation,
       BillingDies, CancelAtStripe, WorkerSaves, ActivationDone, AskAccount, CopyCancellation
<1>10. admins' \subseteq Admins
    BY <1>0, <1>6 DEF BillingNext, Pay, WorkerClaims, Reserve, CreateSession,
       SettleCheckout, FindCheckout, CancelSession, SaveDiscard, ReopenAttempt, DeferRequest,
       OpenSuccessUrl, AskPendingActivation, Preflight, Recheck, CommitActivation, Finalize,
       QueueActivation, BillingDies, CancelAtStripe, WorkerSaves, ActivationDone, AskAccount,
       CopyCancellation
<1> QED BY <1>7, <1>8, <1>9, <1>10 DEF Sub, Keys, Open

LEMMA PendingTyped ==
    ASSUME BillingTypes, BillingNext
    PROVE  pend' \in [Sessions -> PendingRow] /\ activations' \in [Sessions -> Int]
<1> USE BillingActorsFacts
<1> DEFINE Goal == pend' \in [Sessions -> PendingRow]
           Tasks == activations' \in [Sessions -> Int]
<1>0. /\ pend \in [Sessions -> PendingRow] /\ activations \in [Sessions -> Int]
      /\ \A s \in Sessions : pend[s] \in PendingRow
      /\ \A t \in BillingActors : billing[t].user \in Admins \cup {"nobody"}
    BY DEF BillingTypes, BillingHand
<1>a. ASSUME NEW s, \/ activations' = [activations EXCEPT ![s] = @ + 1]
                    \/ activations' = [activations EXCEPT ![s] = @ - 1]
      PROVE  Tasks
    <2>1. \A x \in Sessions : activations[x] + 1 \in Int /\ activations[x] - 1 \in Int
        BY <1>0
    <2>2. \A x \in Sessions : activations'[x] \in {activations[x], activations[x] + 1,
                                                   activations[x] - 1}
        BY <1>0, <1>a
    <2>3. \A x \in Sessions : activations'[x] \in Int
        BY <1>0, <2>1, <2>2
    <2>4. activations' = [x \in Sessions |-> activations'[x]]
        BY <1>0, <1>a
    <2> QED BY <2>3, <2>4
<1>1. ASSUME NEW s, NEW status \in {"pending", "unauthorized", "failed", "completed"},
             pend' = [pend EXCEPT ![s].status = status]
      PROVE  Goal
    <2>1. \A x \in Sessions : [pend[x] EXCEPT !.status = status] \in PendingRow
        BY <1>0 DEF PendingRow
    <2> QED BY <1>0, <1>1, <2>1
<1>2. ASSUME NEW s \in Sessions, WorkerClaims(s) PROVE Goal /\ Tasks
    <2>0. pend[s].attempts + 1 \in Nat
        BY <1>0 DEF PendingRow
    <2>1. [pend[s] EXCEPT !.status = "in_progress", !.attempts = @ + 1] \in PendingRow
        BY <1>0, <2>0 DEF PendingRow
    <2>2. CASE Claimable(s) /\ UNCHANGED activations
              /\ pend' = [pend EXCEPT ![s].status = "in_progress", ![s].attempts = @ + 1]
        BY <1>0, <2>1, <2>2
    <2>3. CASE activations' = [activations EXCEPT ![s] = @ - 1] /\ UNCHANGED pend
        BY <1>0, <1>a, <2>3
    <2> QED BY <1>2, <2>2, <2>3 DEF WorkerClaims
<1>3. ASSUME NEW t \in BillingThreads, DeferRequest(t) PROVE Goal
    <2>1. [status |-> "pending", attempts |-> 0, user |-> billing[t].user] \in PendingRow
        BY <1>0 DEF PendingRow
    <2> QED BY <1>0, <1>1, <1>3, <2>1 DEF DeferRequest
<1>4. ASSUME WorkerSaves PROVE Goal
    BY <1>1, <1>4 DEF WorkerSaves, Outcome
<1>5. ASSUME NEW t \in BillingActors, QueueActivation(t) PROVE Tasks
    BY <1>a, <1>5 DEF QueueActivation
<1>6. ASSUME ActivationDone PROVE Tasks
    BY <1>a, <1>6 DEF ActivationDone
<1> HIDE DEF Goal, Tasks
<1>7. Goal
    <2>1. UNCHANGED pend => Goal
        BY <1>0 DEF Goal
    <2> QED BY <2>1, <1>2, <1>3, <1>4 DEF BillingNext, Pay, Demote, Reserve, CreateSession,
       SettleCheckout, FindCheckout, CancelSession, SaveDiscard, ReopenAttempt,
       OpenSuccessUrl, AskPendingActivation, Preflight, Recheck, CommitActivation, Finalize,
       QueueActivation, BillingDies, CancelAtStripe, ActivationDone, AskAccount, CopyCancellation
<1>8. Tasks
    <2>1. UNCHANGED activations => Tasks
        BY <1>0 DEF Tasks
    <2> QED BY <2>1, <1>2, <1>5, <1>6 DEF BillingNext, Pay, Demote, Reserve, CreateSession,
       SettleCheckout, FindCheckout, CancelSession, SaveDiscard, ReopenAttempt, DeferRequest,
       OpenSuccessUrl, AskPendingActivation, Preflight, Recheck, CommitActivation, Finalize,
       BillingDies, CancelAtStripe, WorkerSaves, AskAccount, CopyCancellation
<1> QED BY <1>7, <1>8 DEF Goal, Tasks

LEMMA BillingKeepsTypes ==
    ASSUME BillingTypes, BillingNext
    PROVE  BillingTypes'
BY HandsTyped, AttemptsTyped, SubscriptionTyped, PendingTyped DEF BillingTypes

-------------------------------------------------------------------------------
(* Keys and entitlement *)

TrustedSteps == {"allowed", "committed", "activated"}

\* A step that keeps whose run it is and its key, and trusts it no more than it did.
HandGoesOn(x) ==
    /\ billing'[x].key = billing[x].key /\ billing'[x].user = billing[x].user
    /\ billing'[x].entitled = billing[x].entitled
    /\ billing'[x].step \in TrustedSteps =>
          billing[x].step \in TrustedSteps \/ billing[x].user \in admins

\* A hand that starts over.
HandStartsOver(x) ==
    /\ billing'[x].key = 0
    /\ billing'[x].user \in admins => billing'[x].entitled
    /\ billing'[x].step \notin TrustedSteps

\* A hand that was given a key.
HandGivenKey(x) ==
    /\ billing'[x].key \in keys'.accepted /\ billing'[x].user = billing[x].user
    /\ billing'[x].entitled = billing[x].entitled /\ billing[x].step \in TrustedSteps
    /\ keys.accepted \subseteq keys'.accepted

LEMMA HandsGoOn ==
    ASSUME BillingTypes, BillingNext
    PROVE  \A x \in BillingActors : HandGoesOn(x) \/ HandStartsOver(x) \/ HandGivenKey(x)
<1> USE BillingActorsFacts
<1> DEFINE Goal(x) == HandGoesOn(x) \/ HandStartsOver(x) \/ HandGivenKey(x)
<1>0. \A t \in BillingActors : billing[t] \in BillingHand
    BY DEF BillingTypes
<1>a. ASSUME NEW x \in BillingActors, billing'[x] = billing[x] PROVE Goal(x)
    BY <1>a DEF HandGoesOn
<1>b. ASSUME NEW t \in BillingActors, NEW s \in BillingSteps, Goes(t, s),
             s \in TrustedSteps => billing[t].step \in TrustedSteps \/ billing[t].user \in admins
      PROVE  \A x \in BillingActors : Goal(x)
    BY <1>a, <1>b, GoesEffect DEF BillingStep, HandKept, HandGoesOn
<1>c. ASSUME NEW t \in BillingActors, Rests(t) PROVE \A x \in BillingActors : Goal(x)
    BY <1>a, <1>c, RestsEffect DEF BillingStep, HandStartsOver, AtRest, TrustedSteps
<1>d. CASE UNCHANGED billing
    BY <1>a, <1>d
<1>e. ASSUME NEW t \in BillingActors, Declined(t) PROVE \A x \in BillingActors : Goal(x)
    BY <1>b, <1>c, <1>e DEF Declined, BillingSteps, TrustedSteps
<1>1. ASSUME NEW s \in Sessions, WorkerClaims(s) PROVE \A x \in BillingActors : Goal(x)
    <2> DEFINE new == [step |-> IF AttemptOf(s) = 0 THEN "rejected" ELSE "activating",
                       row |-> AttemptOf(s), session |-> s, user |-> pend[s].user, key |-> 0,
                       tries |-> pend[s].attempts + 1, entitled |-> pend[s].user \in admins]
    <2>1. CASE billing' = [billing EXCEPT ![Worker] = new]
        <3>1. billing'[Worker] = new /\ BillingStep(Worker)
            BY <2>1 DEF BillingTypes, BillingStep
        <3>2. /\ new.key = 0 /\ new.step \notin TrustedSteps
              /\ new.user \in admins => new.entitled
            BY DEF TrustedSteps
        <3>3. HandStartsOver(Worker)
            BY <3>1, <3>2 DEF HandStartsOver
        <3> QED BY <1>a, <3>1, <3>3 DEF BillingStep
    <2> QED BY <1>d, <1>1, <2>1 DEF WorkerClaims
<1>2. ASSUME NEW t \in BillingThreads, Reserve(t) \/ FindCheckout(t) \/ CreateSession(t)
                                       \/ ReopenAttempt(t)
      PROVE  \A x \in BillingActors : Goal(x)
    <2>1. ASSUME NEW i, NEW s, NEW phase \in BillingSteps \ TrustedSteps,
                 \/ billing' = [billing EXCEPT ![t].step = phase, ![t].row = i]
                 \/ billing' = [billing EXCEPT ![t].step = phase, ![t].session = s]
                 \/ billing' = [billing EXCEPT ![t].step = phase, ![t].row = i, ![t].session = s]
          PROVE  \A x \in BillingActors : Goal(x)
        <3>1. /\ billing'[t].step = phase /\ billing'[t].key = billing[t].key
              /\ billing'[t].user = billing[t].user /\ billing'[t].entitled = billing[t].entitled
            BY <1>0, <2>1 DEF BillingTypes, BillingHand
        <3>2. \A x \in BillingActors : x # t => billing'[x] = billing[x]
            BY <2>1 DEF BillingTypes
        <3> QED BY <1>a, <3>1, <3>2 DEF HandGoesOn
    <2>2. CASE Reserve(t)
        BY <2>1, <2>2 DEF Reserve, BillingSteps, TrustedSteps
    <2>3. CASE FindCheckout(t)
        <3>1. "discarding" \in BillingSteps \ TrustedSteps
            BY DEF BillingSteps, TrustedSteps
        <3>2. \E i, s : \/ billing' = [billing EXCEPT ![t].step = "discarding", ![t].row = i,
                                                     ![t].session = s]
                        \/ billing' = [billing EXCEPT ![t].step = "discarding", ![t].session = s]
            BY <2>3 DEF FindCheckout
        <3> QED BY <2>1, <3>1, <3>2
    <2>4. CASE CreateSession(t)
        BY <1>b, <2>1, <2>4 DEF CreateSession, BillingSteps, TrustedSteps
    <2>5. CASE ReopenAttempt(t)
        BY <1>b, <1>c, <2>1, <2>5 DEF ReopenAttempt, BillingSteps, TrustedSteps
    <2> QED BY <1>2, <2>2, <2>3, <2>4, <2>5
<1>3. ASSUME NEW t \in BillingThreads, NEW u \in Admins, NEW s \in Sessions,
             OpenSuccessUrl(t, u, s) \/ AskPendingActivation(t, u, s)
      PROVE  \A x \in BillingActors : Goal(x)
    <2>1. PICK phase \in BillingSteps \ TrustedSteps :
             billing' = [billing EXCEPT ![t] = [AtRest EXCEPT !.step = phase, !.session = s,
                                                              !.user = u, !.row = AttemptOf(s)]]
        BY <1>3 DEF OpenSuccessUrl, AskPendingActivation, BillingSteps, TrustedSteps
    <2>2. /\ billing'[t].step = phase /\ billing'[t].key = 0 /\ billing'[t].entitled
          /\ \A x \in BillingActors : x # t => billing'[x] = billing[x]
        BY <2>1 DEF BillingTypes, AtRest
    <2> QED BY <1>a, <2>2 DEF HandStartsOver
<1>4. ASSUME NEW t \in BillingActors, CommitActivation(t)
      PROVE  \A x \in BillingActors : Goal(x)
    <2>1. ASSUME billing' = [billing EXCEPT ![t].step = "committed", ![t].key = keys.given + 1],
                 keys' = [given |-> keys.given + 1,
                          accepted |-> keys.accepted \cup {keys.given + 1}]
          PROVE  \A x \in BillingActors : Goal(x)
        <3>1. /\ billing'[t].key = keys.given + 1 /\ billing'[t].user = billing[t].user
              /\ billing'[t].entitled = billing[t].entitled
            BY <1>0, <2>1 DEF BillingTypes, BillingHand
        <3>2. \A x \in BillingActors : x # t => billing'[x] = billing[x]
            BY <2>1 DEF BillingTypes
        <3>3. HandGivenKey(t)
            BY <1>4, <2>1, <3>1 DEF HandGivenKey, CommitActivation, TrustedSteps
        <3> QED BY <1>a, <3>2, <3>3
    <2> QED BY <1>b, <1>e, <1>4, <2>1 DEF CommitActivation, BillingSteps, TrustedSteps
<1>5. ASSUME NEW t \in BillingActors, Finalize(t) PROVE \A x \in BillingActors : Goal(x)
    BY <1>b, <1>c, <1>5 DEF Finalize, BillingSteps, TrustedSteps
<1>6. ASSUME NEW t \in BillingActors, Preflight(t) \/ Recheck(t)
      PROVE  \A x \in BillingActors : Goal(x)
    BY <1>b, <1>c, <1>e, <1>6 DEF Preflight, Recheck, MayActivate, BillingSteps, TrustedSteps
<1>7. ASSUME WorkerSaves PROVE \A x \in BillingActors : Goal(x)
    BY <1>b, <1>7 DEF WorkerSaves, BillingSteps, TrustedSteps
<1>8. ASSUME NEW t \in BillingActors, QueueActivation(t) \/ BillingDies(t)
      PROVE  \A x \in BillingActors : Goal(x)
    BY <1>b, <1>c, <1>8 DEF QueueActivation, BillingDies, BillingSteps, TrustedSteps
<1>9. ASSUME NEW t \in BillingThreads, \/ SettleCheckout(t) \/ CancelSession(t) \/ SaveDiscard(t)
                                       \/ DeferRequest(t)
      PROVE  \A x \in BillingActors : Goal(x)
    BY <1>b, <1>c, <1>9 DEF SettleCheckout, CancelSession, SaveDiscard, DeferRequest,
       BillingSteps, TrustedSteps
<1>10. ASSUME ActivationDone \/ AskAccount \/ CopyCancellation
       PROVE  \A x \in BillingActors : Goal(x)
    BY <1>b, <1>c, <1>10
       DEF ActivationDone, AskAccount, CopyCancellation, BillingSteps, TrustedSteps
<1>11. /\ \A s \in Sessions : Pay(s) => UNCHANGED billing
       /\ \A u \in Admins : Demote(u) => UNCHANGED billing
       /\ CancelAtStripe => UNCHANGED billing
    BY DEF Pay, Demote, CancelAtStripe
<1> DEFINE All == \A x \in BillingActors : Goal(x)
<1> HIDE DEF All
<1>12. All
    BY <1>d, <1>1, <1>2, <1>3, <1>4, <1>5, <1>6, <1>7, <1>8, <1>9, <1>10, <1>11 DEF BillingNext, All
<1> QED BY <1>12 DEF All

LEMMA AdminsOnlyLeave ==
    ASSUME BillingNext
    PROVE  admins' \subseteq admins
BY DEF BillingNext, Pay, WorkerClaims, Reserve, CreateSession, SettleCheckout, FindCheckout,
   CancelSession, SaveDiscard, ReopenAttempt, DeferRequest, OpenSuccessUrl, AskPendingActivation,
   Preflight, Recheck, CommitActivation, Finalize, QueueActivation, BillingDies, CancelAtStripe,
   WorkerSaves, ActivationDone, AskAccount, CopyCancellation, Demote

LEMMA EntitledStep ==
    ASSUME BillingTypes, Entitled, BillingNext
    PROVE  Entitled'
BY HandsGoOn, AdminsOnlyLeave DEF Entitled, HandGoesOn, HandStartsOver, HandGivenKey, TrustedSteps

\* Only an activation takes keys away, and the keys it takes from others are on record.
LEMMA GoodKeysStay ==
    ASSUME BillingTypes, BillingNext, \A t \in BillingActors : ~Finalize(t)
    PROVE  GoodKeys \subseteq GoodKeys'
<1> DEFINE Goal == keys.accepted \subseteq keys'.accepted /\ overtakenKeys' = overtakenKeys
<1>1. ASSUME NEW t \in BillingActors, CommitActivation(t) PROVE Goal
    BY <1>1 DEF CommitActivation
<1>2. UNCHANGED <<keys, overtakenKeys>> => Goal
    OBVIOUS
<1> HIDE DEF Goal
<1>3. Goal
    BY <1>1, <1>2 DEF BillingNext, Pay, WorkerClaims, Reserve, CreateSession, SettleCheckout,
       FindCheckout, CancelSession, SaveDiscard, ReopenAttempt, DeferRequest, OpenSuccessUrl,
       AskPendingActivation, Preflight, Recheck, QueueActivation, BillingDies, CancelAtStripe,
       WorkerSaves, ActivationDone, AskAccount, CopyCancellation, Demote
<1> QED BY <1>3 DEF Goal, GoodKeys

\* The subscription's row changes when an activation ends and when a cancellation is copied.
LEMMA SubscriptionRowChanges ==
    ASSUME BillingTypes, BillingNext, \A t \in BillingActors : ~Finalize(t)
    PROVE  \/ sub' = sub
           \/ /\ CopyCancellation
              /\ sub'.status = "canceled" /\ sub'.key = sub.key
<1> DEFINE Goal == \/ sub' = sub
                   \/ /\ CopyCancellation
                      /\ sub'.status = "canceled" /\ sub'.key = sub.key
<1>1. CopyCancellation => Goal
    BY DEF CopyCancellation, BillingTypes
<1>2. UNCHANGED sub => Goal
    OBVIOUS
<1> HIDE DEF Goal
<1>3. Goal
    BY <1>1, <1>2 DEF BillingNext, Pay, WorkerClaims, Reserve, CreateSession, SettleCheckout,
       FindCheckout, CancelSession, SaveDiscard, ReopenAttempt, DeferRequest, OpenSuccessUrl,
       AskPendingActivation, Preflight, Recheck, CommitActivation, QueueActivation, BillingDies,
       CancelAtStripe, WorkerSaves, ActivationDone, AskAccount, Demote
<1> QED BY <1>3 DEF Goal

LEMMA FinalizeKeepsKeys ==
    ASSUME BillingTypes, KeysHeld, NEW t \in BillingActors, Finalize(t)
    PROVE  KeysHeld'
<1> USE BillingActorsFacts
<1> DEFINE new == keys.given + 1
<1>0. new \in Nat /\ new # 0 /\ sub.key \in Nat /\ \A x \in BillingActors : billing[x].key \in Nat
    BY DEF BillingTypes, BillingHand
<1>1. \A x \in BillingActors : /\ billing'[x].key \in {0, billing[x].key}
                               /\ x # t => billing'[x] = billing[x]
    <2>1. CASE Rests(t)
        BY <2>1, RestsEffect DEF BillingStep, AtRest
    <2>2. ASSUME NEW s \in BillingSteps, Goes(t, s)
          PROVE  \A x \in BillingActors : /\ billing'[x].key \in {0, billing[x].key}
                                          /\ x # t => billing'[x] = billing[x]
        BY <2>2, GoesEffect DEF BillingStep, HandKept
    <2> QED BY <2>1, <2>2 DEF Finalize, BillingSteps
<1> HIDE DEF new
<1>2. CASE ~NeedsRotation(t)
    <2>1. /\ UNCHANGED <<keys, overtakenKeys>>
          /\ sub'.key = IF billing[t].key # 0 THEN billing[t].key ELSE sub.key
        BY <1>2 DEF Finalize
    <2>2. GoodKeys' = GoodKeys
        BY <2>1 DEF GoodKeys
    <2>3. sub'.key # 0 /\ sub'.key \in GoodKeys
        BY <1>2, <2>1 DEF NeedsRotation, KeysHeld
    <2> QED BY <1>1, <2>2, <2>3 DEF KeysHeld, GoodKeys
<1>3. CASE NeedsRotation(t)
    <2>1. CASE UNCHANGED <<keys, overtakenKeys>>
        <3>1. sub' = sub
            BY <1>0, <1>3, <2>1 DEF Finalize, new, BillingTypes
        <3> QED BY <1>1, <2>1, <3>1 DEF KeysHeld, GoodKeys
    <2>2. CASE /\ keys' = [given |-> new, accepted |-> {new}]
               /\ overtakenKeys' = overtakenKeys \cup Held(t)
        <3>1. sub' = sub \/ sub' = [status |-> "active", key |-> new]
            BY <1>3 DEF Finalize, new
        <3>2. billing[t].key = 0 /\ sub.key = 0
            BY <1>3 DEF NeedsRotation
        <3>3. \A x \in BillingActors : billing[x].key \in {0} \cup overtakenKeys'
            BY <2>2, <3>2 DEF Held
        <3>4. \A x \in BillingActors : billing'[x].key \in GoodKeys'
            BY <1>1, <3>3 DEF GoodKeys
        <3>5. new \in GoodKeys' /\ 0 \in GoodKeys'
            BY <2>2 DEF GoodKeys
        <3>6. sub'.key \in GoodKeys' /\ (sub'.status = "active" => sub'.key # 0)
            BY <1>0, <3>1, <3>2, <3>5 DEF KeysHeld
        <3> QED BY <3>4, <3>6 DEF KeysHeld
    <2> QED BY <1>3, <2>1, <2>2 DEF Finalize, new
<1> QED BY <1>2, <1>3

LEMMA KeysHeldStep ==
    ASSUME BillingTypes, KeysHeld, BillingNext
    PROVE  KeysHeld'
<1>1. CASE \E t \in BillingActors : Finalize(t)
    BY <1>1, FinalizeKeepsKeys
<1>2. CASE \A t \in BillingActors : ~Finalize(t)
    <2>1. GoodKeys \subseteq GoodKeys' /\ 0 \in GoodKeys' /\ keys'.accepted \subseteq GoodKeys'
        BY <1>2, GoodKeysStay DEF GoodKeys
    <2>2. \A x \in BillingActors : billing'[x].key \in GoodKeys'
        BY <2>1, HandsGoOn DEF KeysHeld, HandGoesOn, HandStartsOver, HandGivenKey
    <2>3. sub'.key = sub.key /\ sub'.status \in {sub.status, "canceled"}
        BY <1>2, SubscriptionRowChanges
    <2> QED BY <2>1, <2>2, <2>3 DEF KeysHeld
<1> QED BY <1>1, <1>2

-------------------------------------------------------------------------------
(* Checkout rows and sessions *)

OnCheckout(t) == billing[t].step \in {"reserved", "opened", "conflict", "unreachable"}
OnActivation(t) == billing[t].step \in {"activating", "preflighted", "allowed", "committed"}
OfSession(t) ==
    \/ OnActivation(t)
    \/ billing[t].step \in {"opened", "recovering", "deferring", "queueing", "rejected",
                           "unauthorized", "activated", "done"}

\* A hand agrees with the row and the session it works on.
HandFits(t) ==
    /\ billing[t].step = "rest" => billing[t] = AtRest
    /\ OfSession(t) => billing[t].session \in Sessions
    /\ OnActivation(t) => billing[t].row # 0
    /\ OnActivation(t) \/ (billing[t].step = "recovering" /\ billing[t].row # 0)
          => attempt[billing[t].row].session = billing[t].session
    /\ OnCheckout(t) =>
          /\ t # Worker /\ billing[t].row # 0
          /\ attempt[billing[t].row].status # "none" /\ attempt[billing[t].row].session = 0
    /\ billing[t].step = "reserved" => session[billing[t].row] = "none"
    /\ billing[t].step = "committed" => session[billing[t].session] = "committed"

\* No two requests fill the same row.
RowsApart ==
    \A t, x \in BillingActors :
        t # x /\ OnCheckout(t) /\ OnCheckout(x) => billing[t].row # billing[x].row

\* A free row has no session, an activated one a committed session.
AttemptSettled(i) ==
    /\ attempt[i].status = "none" => attempt[i].session = 0
    /\ attempt[i].status = "activated" =>
          attempt[i].session # 0 /\ session[attempt[i].session] = "committed"

RowsHeld ==
    /\ \A t \in BillingActors : HandFits(t)
    /\ RowsApart
    /\ \A i \in Sessions : AttemptSettled(i)

\* A row keeps its session; one that somebody else than t fills stays empty and taken.
AttemptRowsStay(t) ==
    \A i \in Sessions :
        /\ attempt[i].session # 0 => attempt'[i].session = attempt[i].session
        /\ \A x \in BillingActors \ {t} :
              OnCheckout(x) /\ billing[x].row = i =>
                  attempt'[i].status # "none" /\ attempt'[i].session = 0

\* A committed session stays so; one that somebody else than t will open stays unopened.
SessionsKept(t) ==
    \A s \in Sessions :
        /\ session[s] = "committed" => session'[s] = "committed"
        /\ \A x \in BillingActors \ {t} :
              billing[x].step = "reserved" /\ billing[x].row = s => session'[s] = "none"

\* The row t fills, if any, is the one it filled or was free.
FillsApart(t) ==
    OnCheckout(t)' =>
        \/ OnCheckout(t) /\ billing'[t].row = billing[t].row
        \/ attempt[billing'[t].row].status = "none"

LEMMA OtherHandsFit ==
    ASSUME BillingTypes, RowsHeld, NEW t \in BillingActors, BillingStep(t), AttemptRowsStay(t),
           SessionsKept(t), NEW x \in BillingActors, x # t
    PROVE  HandFits(x)'
<1> USE BillingActorsFacts
<1>1. billing'[x] = billing[x] /\ billing[x] \in BillingHand
    BY DEF BillingStep, BillingTypes
<1>2. billing[x].row \in Sessions \cup {0} /\ billing[x].session \in Sessions \cup {0}
    BY <1>1 DEF BillingHand
<1>3. HandFits(x)
    BY DEF RowsHeld
<1>4. OnActivation(x) \/ (billing[x].step = "recovering" /\ billing[x].row # 0)
         => attempt'[billing[x].row].session = billing[x].session
    BY <1>2, <1>3 DEF HandFits, AttemptRowsStay, OfSession, OnActivation
<1>5. OnCheckout(x) => /\ attempt'[billing[x].row].status # "none"
                       /\ attempt'[billing[x].row].session = 0
    BY <1>2, <1>3 DEF HandFits, AttemptRowsStay
<1>6. billing[x].step = "reserved" => session'[billing[x].row] = "none"
    <2>1. OnCheckout(x) => billing[x].row \in Sessions
        BY <1>2, <1>3 DEF HandFits
    <2>2. billing[x].step = "reserved" => billing[x].row \in Sessions
        BY <2>1 DEF OnCheckout
    <2>3. x \in BillingActors \ {t}
        OBVIOUS
    <2>4. \A s \in Sessions :
             billing[x].step = "reserved" /\ billing[x].row = s => session'[s] = "none"
        BY <2>3 DEF SessionsKept
    <2> QED BY <2>2, <2>4
<1>7. billing[x].step = "committed" => session'[billing[x].session] = "committed"
    BY <1>2, <1>3 DEF HandFits, SessionsKept, OfSession, OnActivation
<1> QED BY <1>1, <1>3, <1>4, <1>5, <1>6, <1>7 DEF HandFits, OnCheckout, OnActivation, OfSession

LEMMA RowsHeldBy ==
    ASSUME BillingTypes, RowsHeld, NEW t \in BillingActors, BillingStep(t), AttemptRowsStay(t),
           SessionsKept(t), FillsApart(t), HandFits(t)', \A i \in Sessions : AttemptSettled(i)'
    PROVE  RowsHeld'
<1>1. \A x \in BillingActors : HandFits(x)'
    BY OtherHandsFit
<1>2. \A x \in BillingActors : x # t /\ OnCheckout(x)' =>
          /\ OnCheckout(x) /\ billing'[x].row = billing[x].row
          /\ attempt[billing[x].row].status # "none"
    BY DEF BillingStep, OnCheckout, RowsHeld, HandFits
<1>3. \A x \in BillingActors : x # t /\ OnCheckout(x)' /\ OnCheckout(t)' =>
          billing'[x].row # billing'[t].row
    BY <1>2 DEF FillsApart, RowsHeld, RowsApart
<1>4. RowsApart'
    BY <1>2, <1>3 DEF RowsHeld, RowsApart
<1> QED BY <1>1, <1>4 DEF RowsHeld

LEMMA RestingHandFits ==
    ASSUME BillingTypes, NEW t \in BillingActors, Rests(t)
    PROVE  HandFits(t)' /\ FillsApart(t) /\ BillingStep(t)
BY RestsEffect DEF HandFits, FillsApart, OfSession, OnActivation, OnCheckout, AtRest

\* Steps that change no row, or only how a row is described.
LEMMA SameRowsStay ==
    ASSUME BillingTypes, RowsHeld, NEW t \in BillingActors, UNCHANGED attempt
    PROVE  AttemptRowsStay(t)
BY DEF AttemptRowsStay, RowsHeld, HandFits, BillingTypes

LEMMA SameSessionsStay ==
    ASSUME BillingTypes, RowsHeld, NEW t \in BillingActors, UNCHANGED session
    PROVE  SessionsKept(t)
BY DEF SessionsKept, RowsHeld, HandFits, BillingTypes

LEMMA SameRowsSettled ==
    ASSUME RowsHeld, NEW t, SessionsKept(t), BillingTypes, UNCHANGED attempt
    PROVE  \A i \in Sessions : AttemptSettled(i)'
BY DEF AttemptSettled, SessionsKept, RowsHeld, BillingTypes, AttemptRow

\* A refusal, a fault or an end of an activation leaves nothing to hold.
LEMMA EndingHandFits ==
    ASSUME BillingTypes, RowsHeld, NEW t \in BillingActors, HandFits(t),
           UNCHANGED <<attempt, session>>,
           NEW s \in BillingSteps, Goes(t, s), OfSession(t),
           s \in {"deferring", "queueing", "rejected", "unauthorized", "activated", "done",
                 "discarding", "discarded"}
    PROVE  HandFits(t)' /\ FillsApart(t) /\ BillingStep(t)
BY GoesEffect DEF HandFits, FillsApart, OfSession, OnActivation, OnCheckout, HandKept

LEMMA CheckoutKeepsRows ==
    ASSUME BillingTypes, RowsHeld, NEW t \in BillingThreads,
           Reserve(t) \/ CreateSession(t) \/ SettleCheckout(t)
    PROVE  RowsHeld'
<1> USE BillingActorsFacts
<1>0. /\ t \in BillingActors /\ t # Worker /\ billing[t] \in BillingHand /\ HandFits(t)
      /\ attempt \in [Sessions -> AttemptRow]
      /\ session \in [Sessions -> {"none", "open", "canceled", "paid", "committed"}]
      /\ \A i \in Sessions : attempt[i] \in AttemptRow /\ AttemptSettled(i)
    BY DEF BillingTypes, RowsHeld
<1>1. CASE Reserve(t)
    <2>1. PICK i \in Unused :
             /\ attempt' = [attempt EXCEPT ![i] = [status |-> "creating", session |-> 0]]
             /\ billing' = [billing EXCEPT ![t].step = "reserved", ![t].row = i]
        BY <1>1, EarliestIsMember DEF Reserve, Unused
    <2>2. /\ i \in Sessions /\ attempt[i].status = "none" /\ session[i] = "none"
          /\ session' = session
        BY <1>1 DEF Unused, Reserve
    <2>3. BillingStep(t) /\ billing'[t].step = "reserved" /\ billing'[t].row = i
        BY <1>0, <2>1 DEF BillingTypes, BillingHand, BillingStep
    <2>4. attempt'[i].status = "creating" /\ attempt'[i].session = 0
        BY <1>0, <2>1, <2>2
    <2>5. \A j \in Sessions : j # i => attempt'[j] = attempt[j]
        BY <1>0, <2>1
    <2>6. AttemptRowsStay(t)
        <3>1. \A x \in BillingActors : OnCheckout(x) => billing[x].row # i
            BY <2>2 DEF RowsHeld, HandFits
        <3>2. attempt[i].session = 0
            BY <1>0, <2>2 DEF AttemptSettled
        <3>3. \A x \in BillingActors, j \in Sessions : OnCheckout(x) /\ billing[x].row = j =>
                 attempt[j].status # "none" /\ attempt[j].session = 0
            BY DEF RowsHeld, HandFits
        <3> QED BY <2>5, <3>1, <3>2, <3>3 DEF AttemptRowsStay
    <2>7. SessionsKept(t)
        BY <1>0, <2>2, SameSessionsStay
    <2>8. HandFits(t)' /\ FillsApart(t)
        BY <1>0, <2>2, <2>3, <2>4 DEF HandFits, FillsApart, OnCheckout, OnActivation, OfSession
    <2>9. \A j \in Sessions : AttemptSettled(j)'
        BY <1>0, <2>2, <2>4, <2>5 DEF AttemptSettled
    <2> QED BY <1>0, <2>3, <2>6, <2>7, <2>8, <2>9, RowsHeldBy
<1>2. CASE CreateSession(t)
    <2>1. attempt' = attempt /\ billing[t].step = "reserved" /\ OnCheckout(t)
        BY <1>2 DEF CreateSession, OnCheckout
    <2>2. /\ billing[t].row \in Sessions /\ session[billing[t].row] = "none"
          /\ attempt[billing[t].row].status # "none" /\ attempt[billing[t].row].session = 0
        BY <1>0, <2>1 DEF HandFits, BillingHand
    <2>3. session' = session \/ session' = [session EXCEPT ![billing[t].row] = "open"]
        BY <1>2 DEF CreateSession
    <2>4. \A x \in BillingActors \ {t} : billing[x].step = "reserved" =>
             billing[x].row # billing[t].row /\ session[billing[x].row] = "none"
        BY <1>0, <2>1 DEF RowsHeld, RowsApart, OnCheckout, HandFits
    <2>5. SessionsKept(t)
        BY <1>0, <2>2, <2>3, <2>4 DEF SessionsKept
    <2>6. AttemptRowsStay(t)
        BY <1>0, <2>1, SameRowsStay
    <2>7. /\ BillingStep(t) /\ billing'[t].step \in {"opened", "conflict", "unreachable"}
          /\ billing'[t].row = billing[t].row
          /\ billing'[t].step = "opened" => billing'[t].session \in Sessions
        <3>1. ASSUME NEW phase \in {"conflict", "unreachable"}, Goes(t, phase)
              PROVE  /\ BillingStep(t) /\ billing'[t].step = phase
                     /\ billing'[t].row = billing[t].row
            BY <1>0, <3>1, GoesEffect DEF BillingSteps, HandKept
        <3>2. ASSUME NEW s \in Sessions,
                     billing' = [billing EXCEPT ![t].step = "opened", ![t].session = s]
              PROVE  /\ BillingStep(t) /\ billing'[t].step = "opened"
                     /\ billing'[t].row = billing[t].row /\ billing'[t].session = s
            BY <1>0, <3>2 DEF BillingTypes, BillingHand, BillingStep
        <3>3. \/ \E phase \in {"conflict", "unreachable"} : Goes(t, phase)
              \/ \E s \in Sessions :
                    billing' = [billing EXCEPT ![t].step = "opened", ![t].session = s]
            BY <1>2, <2>2 DEF CreateSession
        <3> QED BY <3>1, <3>2, <3>3
    <2>8. HandFits(t)' /\ FillsApart(t)
        BY <1>0, <2>1, <2>2, <2>7 DEF HandFits, FillsApart, OnCheckout, OnActivation, OfSession
    <2>9. \A j \in Sessions : AttemptSettled(j)'
        BY <2>1, <2>5, SameRowsSettled
    <2> QED BY <1>0, <2>5, <2>6, <2>7, <2>8, <2>9, RowsHeldBy
<1>3. CASE SettleCheckout(t)
    <2> DEFINE i == billing[t].row
    <2>1. OnCheckout(t) /\ Rests(t) /\ session' = session
        BY <1>3 DEF SettleCheckout, OnCheckout
    <2>2. i \in Sessions /\ attempt[i].status # "none" /\ attempt[i].session = 0
        BY <1>0, <2>1 DEF HandFits, BillingHand
    <2>3. \A x \in BillingActors \ {t} : OnCheckout(x) =>
             billing[x].row # i /\ attempt[billing[x].row].status # "none"
             /\ attempt[billing[x].row].session = 0
        BY <1>0, <2>1 DEF RowsHeld, RowsApart, HandFits
    <2>4. /\ \A j \in Sessions : j # i => attempt'[j] = attempt[j]
          /\ attempt'[i].status = "none" => attempt'[i].session = 0
          /\ attempt'[i].status # "activated"
        <3>0. attempt[i].status # "activated"
            BY <1>0, <2>2 DEF AttemptSettled
        <3>1. CASE attempt' = attempt
            BY <2>2, <3>0, <3>1
        <3>2. CASE attempt' = [attempt EXCEPT ![i] =
                                 [status |-> "open", session |-> billing[t].session]]
            BY <1>0, <2>2, <3>2
        <3>3. CASE attempt' = [attempt EXCEPT ![i].status = "expired"]
            BY <1>0, <2>2, <3>3 DEF AttemptRow
        <3>4. CASE attempt' = [attempt EXCEPT ![i] = [status |-> "none", session |-> 0]]
            BY <1>0, <2>2, <3>4
        <3> QED BY <1>3, <3>1, <3>2, <3>3, <3>4 DEF SettleCheckout
    <2> HIDE DEF i
    <2>5. AttemptRowsStay(t)
        BY <2>2, <2>3, <2>4 DEF AttemptRowsStay
    <2>6. SessionsKept(t)
        BY <1>0, <2>1, SameSessionsStay
    <2>7. \A j \in Sessions : AttemptSettled(j)'
        BY <1>0, <2>1, <2>4 DEF AttemptSettled
    <2> QED BY <1>0, <2>1, <2>5, <2>6, <2>7, RestingHandFits, RowsHeldBy
<1> QED BY <1>1, <1>2, <1>3

LEMMA SameRowsHeld ==
    ASSUME BillingTypes, RowsHeld, NEW t \in BillingActors, UNCHANGED <<attempt, session>>,
           BillingStep(t), FillsApart(t), HandFits(t)'
    PROVE  RowsHeld'
BY SameRowsStay, SameSessionsStay, SameRowsSettled, RowsHeldBy

LEMMA DiscardKeepsRows ==
    ASSUME BillingTypes, RowsHeld, NEW t \in BillingThreads,
           FindCheckout(t) \/ CancelSession(t) \/ SaveDiscard(t) \/ DeferRequest(t)
    PROVE  RowsHeld'
<1> USE BillingActorsFacts
<1>0. /\ t \in BillingActors /\ t # Worker /\ billing[t] \in BillingHand /\ HandFits(t)
      /\ attempt \in [Sessions -> AttemptRow]
      /\ session \in [Sessions -> {"none", "open", "canceled", "paid", "committed"}]
      /\ \A i \in Sessions : attempt[i] \in AttemptRow /\ AttemptSettled(i)
    BY DEF BillingTypes, RowsHeld
<1>1. CASE FindCheckout(t)
    <2>1. UNCHANGED <<attempt, session>>
        BY <1>1 DEF FindCheckout
    <2>2. BillingStep(t) /\ billing'[t].step = "discarding"
        <3>1. ASSUME NEW i, NEW s,
                     \/ billing' = [billing EXCEPT ![t].step = "discarding", ![t].row = i,
                                                   ![t].session = s]
                     \/ billing' = [billing EXCEPT ![t].step = "discarding", ![t].session = s]
              PROVE  BillingStep(t) /\ billing'[t].step = "discarding"
            BY <1>0, <3>1 DEF BillingTypes, BillingHand, BillingStep
        <3> QED BY <1>1, <3>1 DEF FindCheckout
    <2>3. HandFits(t)' /\ FillsApart(t)
        BY <2>2 DEF HandFits, FillsApart, OnCheckout, OnActivation, OfSession
    <2> QED BY <1>0, <2>1, <2>2, <2>3, SameRowsHeld
<1>2. CASE CancelSession(t)
    <2>1. attempt' = attempt /\ (Rests(t) \/ Goes(t, "discarded"))
        BY <1>2 DEF CancelSession
    <2>2. \A s \in Sessions : session[s] # "open" => session'[s] = session[s]
        BY <1>0, <1>2 DEF CancelSession
    <2>3. SessionsKept(t)
        BY <1>0, <2>2 DEF SessionsKept, RowsHeld, HandFits
    <2>4. BillingStep(t) /\ FillsApart(t) /\ HandFits(t)'
        BY <1>0, <2>1, RestingHandFits, GoesEffect
           DEF HandFits, FillsApart, OfSession, OnActivation, OnCheckout, BillingSteps
    <2> QED BY <1>0, <2>1, <2>3, <2>4, SameRowsStay, SameRowsSettled, RowsHeldBy
<1>3. CASE SaveDiscard(t)
    <2> DEFINE i == billing[t].row
    <2>1. Rests(t) /\ session' = session
        BY <1>3 DEF SaveDiscard
    <2>2. \A j \in Sessions :
             \/ attempt'[j] = attempt[j]
             \/ /\ attempt'[j].status = "canceled" /\ attempt'[j].session = attempt[j].session
                /\ attempt[j].status # "none"
        <3>1. CASE /\ attempt' = [attempt EXCEPT ![i].status = "canceled"]
                   /\ attempt[i].status # "none"
            BY <1>0, <3>1 DEF AttemptRow
        <3> QED BY <1>3, <3>1 DEF SaveDiscard
    <2>3. AttemptRowsStay(t)
        <3>1. \A x \in BillingActors, j \in Sessions : OnCheckout(x) /\ billing[x].row = j =>
                 attempt[j].status # "none" /\ attempt[j].session = 0
            BY DEF RowsHeld, HandFits
        <3> QED BY <2>2, <3>1 DEF AttemptRowsStay
    <2>4. \A j \in Sessions : AttemptSettled(j)'
        BY <1>0, <2>1, <2>2 DEF AttemptSettled
    <2> QED BY <1>0, <2>1, <2>3, <2>4, SameSessionsStay, RestingHandFits, RowsHeldBy
<1>4. CASE DeferRequest(t)
    <2>1. UNCHANGED <<attempt, session>> /\ OfSession(t) /\ (Rests(t) \/ Goes(t, "queueing"))
        BY <1>4 DEF DeferRequest, OfSession
    <2>2. BillingStep(t) /\ FillsApart(t) /\ HandFits(t)'
        BY <1>0, <2>1, RestingHandFits, EndingHandFits DEF BillingSteps
    <2> QED BY <1>0, <2>1, <2>2, SameRowsHeld
<1> QED BY <1>1, <1>2, <1>3, <1>4

LEMMA ReturnsKeepRows ==
    ASSUME BillingTypes, RowsHeld, NEW s \in Sessions,
           \/ WorkerClaims(s)
           \/ \E t \in BillingThreads, u \in Admins :
                 OpenSuccessUrl(t, u, s) \/ AskPendingActivation(t, u, s)
    PROVE  RowsHeld'
<1> USE BillingActorsFacts
<1> DEFINE row == AttemptOf(s)
<1>0. \A t \in BillingActors : billing[t] \in BillingHand /\ HandFits(t)
    BY DEF BillingTypes, RowsHeld
<1>1. row # 0 => row \in Sessions /\ attempt[row].session = s
    BY AttemptOfIsRow
<1>2. UNCHANGED <<attempt, session>>
    BY DEF WorkerClaims, OpenSuccessUrl, AskPendingActivation
<1> HIDE DEF row
<1>3. ASSUME NEW t \in BillingActors, BillingStep(t),
             billing'[t].session = s, billing'[t].row = row,
             \/ billing'[t].step = "activating" /\ row # 0
             \/ billing'[t].step \in {"recovering", "rejected"}
      PROVE  RowsHeld'
    <2>1. HandFits(t)' /\ FillsApart(t)
        BY <1>1, <1>2, <1>3 DEF HandFits, FillsApart, OnCheckout, OnActivation, OfSession
    <2> QED BY <1>2, <1>3, <2>1, SameRowsHeld
<1>4. CASE WorkerClaims(s)
    <2> DEFINE new == [step |-> IF row = 0 THEN "rejected" ELSE "activating", row |-> row,
                       session |-> s, user |-> pend[s].user, key |-> 0,
                       tries |-> pend[s].attempts + 1, entitled |-> pend[s].user \in admins]
    <2>1. CASE billing' = [billing EXCEPT ![Worker] = new]
        <3>1. BillingStep(Worker) /\ billing'[Worker] = new
            BY <2>1 DEF BillingTypes, BillingStep
        <3>2. /\ new.session = s /\ new.row = row
              /\ IF row = 0 THEN new.step = "rejected" ELSE new.step = "activating"
            OBVIOUS
        <3> QED BY <1>3, <3>1, <3>2
    <2>2. CASE UNCHANGED billing
        <3>1. BillingStep(Worker) /\ HandFits(Worker)' /\ FillsApart(Worker)
            BY <1>0, <1>2, <2>2
               DEF BillingStep, HandFits, FillsApart, OnCheckout, OnActivation, OfSession
        <3> QED BY <1>2, <3>1, SameRowsHeld
    <2> QED BY <1>4, <2>1, <2>2 DEF WorkerClaims, row
<1>5. ASSUME NEW t \in BillingThreads, NEW u \in Admins,
             OpenSuccessUrl(t, u, s) \/ AskPendingActivation(t, u, s)
      PROVE  RowsHeld'
    <2>1. PICK phase \in {"activating", "recovering"} :
             /\ phase = "activating" => row # 0
             /\ billing' = [billing EXCEPT ![t] = [AtRest EXCEPT !.step = phase, !.session = s,
                                                                 !.user = u, !.row = row]]
        BY <1>5 DEF OpenSuccessUrl, AskPendingActivation, row
    <2>2. /\ BillingStep(t) /\ billing'[t].step = phase /\ billing'[t].session = s
          /\ billing'[t].row = row
        BY <2>1 DEF BillingTypes, AtRest, BillingStep
    <2> QED BY <1>3, <2>1, <2>2
<1> QED BY <1>4, <1>5

LEMMA ReopenKeepsRows ==
    ASSUME BillingTypes, RowsHeld, NEW t \in BillingThreads, ReopenAttempt(t)
    PROVE  RowsHeld'
<1> USE BillingActorsFacts
<1> DEFINE i == billing[t].row
           open == [status |-> "open", session |-> billing[t].session]
<1>0. /\ t \in BillingActors /\ t # Worker /\ billing[t] \in BillingHand /\ HandFits(t)
      /\ attempt \in [Sessions -> AttemptRow] /\ session' = session
      /\ \A j \in Sessions : attempt[j] \in AttemptRow /\ AttemptSettled(j)
      /\ billing[t].step = "recovering"
    BY DEF BillingTypes, RowsHeld, ReopenAttempt
<1>1. billing[t].session \in Sessions /\ i \in Sessions \cup {0}
    BY <1>0 DEF HandFits, OfSession, BillingHand
<1>2. open.status = "open" /\ open.session = billing[t].session
    OBVIOUS
<1> HIDE DEF open
<1>3. CASE i # 0 /\ attempt' = [attempt EXCEPT ![i] = open] /\ InProgress \subseteq {i}
            /\ Goes(t, "activating")
    <2>1. i \in Sessions /\ attempt[i].session = billing[t].session
        BY <1>0, <1>1, <1>3 DEF HandFits
    <2>2. /\ attempt'[i] = open /\ \A j \in Sessions : j # i => attempt'[j] = attempt[j]
        BY <1>0, <1>3, <2>1
    <2>3. \A x \in BillingActors : OnCheckout(x) =>
             /\ billing[x].row # i
             /\ attempt[billing[x].row].status # "none" /\ attempt[billing[x].row].session = 0
        BY <1>1, <2>1 DEF RowsHeld, HandFits
    <2> HIDE DEF i
    <2>4. AttemptRowsStay(t)
        BY <1>2, <2>1, <2>2, <2>3 DEF AttemptRowsStay
    <2>5. \A j \in Sessions : AttemptSettled(j)'
        BY <1>0, <1>2, <2>2 DEF AttemptSettled
    <2>6. /\ BillingStep(t) /\ billing'[t].step = "activating" /\ billing'[t].row = i
          /\ billing'[t].session = billing[t].session
        BY <1>0, <1>3, GoesEffect DEF BillingSteps, HandKept, i
    <2>7. HandFits(t)' /\ FillsApart(t)
        BY <1>1, <1>2, <2>1, <2>2, <2>6
           DEF HandFits, FillsApart, OnCheckout, OnActivation, OfSession
    <2> QED BY <1>0, <2>4, <2>5, <2>6, <2>7, SameSessionsStay, RowsHeldBy
<1>4. CASE attempt' = attempt /\ Rests(t)
    BY <1>0, <1>4, RestingHandFits, SameRowsHeld
<1>5. ASSUME NEW n \in Sessions, attempt[n].status = "none",
             attempt' = [j \in Sessions |->
                           IF j = n THEN open
                           ELSE IF j \in InProgress
                           THEN [attempt[j] EXCEPT !.status = "expired"] ELSE attempt[j]],
             billing' = [billing EXCEPT ![t].step = "activating", ![t].row = n]
      PROVE  RowsHeld'
    <2>1. /\ attempt'[n] = open /\ attempt[n].session = 0
          /\ \A j \in Sessions : j # n =>
                \/ attempt'[j] = attempt[j]
                \/ attempt'[j].status = "expired" /\ attempt'[j].session = attempt[j].session
        BY <1>0, <1>5 DEF AttemptRow, AttemptSettled
    <2>2. \A x \in BillingActors : OnCheckout(x) =>
             /\ billing[x].row # n
             /\ attempt[billing[x].row].status # "none" /\ attempt[billing[x].row].session = 0
        BY <1>5 DEF RowsHeld, HandFits
    <2>3. AttemptRowsStay(t)
        <3>1. ASSUME NEW j \in Sessions, NEW x \in BillingActors, OnCheckout(x), billing[x].row = j
              PROVE  attempt'[j].status # "none" /\ attempt'[j].session = 0
            BY <2>1, <2>2, <3>1
        <3> QED BY <2>1, <3>1 DEF AttemptRowsStay
    <2>4. \A j \in Sessions : AttemptSettled(j)'
        BY <1>0, <1>2, <2>1 DEF AttemptSettled
    <2>5. /\ BillingStep(t) /\ billing'[t].step = "activating" /\ billing'[t].row = n
          /\ billing'[t].session = billing[t].session
        BY <1>0, <1>5 DEF BillingTypes, BillingHand, BillingStep
    <2>6. HandFits(t)' /\ FillsApart(t)
        BY <1>1, <1>2, <1>5, <2>1, <2>5
           DEF HandFits, FillsApart, OnCheckout, OnActivation, OfSession
    <2> QED BY <1>0, <2>3, <2>4, <2>5, <2>6, SameSessionsStay, RowsHeldBy
<1> QED BY <1>3, <1>4, <1>5 DEF ReopenAttempt, open

LEMMA PhasesKeepRows ==
    ASSUME BillingTypes, RowsHeld, NEW t \in BillingActors,
           Preflight(t) \/ Recheck(t) \/ CommitActivation(t) \/ Finalize(t)
    PROVE  RowsHeld'
<1> USE BillingActorsFacts
<1>0. /\ billing[t] \in BillingHand /\ HandFits(t)
      /\ attempt \in [Sessions -> AttemptRow]
      /\ session \in [Sessions -> {"none", "open", "canceled", "paid", "committed"}]
      /\ \A i \in Sessions : attempt[i] \in AttemptRow /\ AttemptSettled(i)
    BY DEF BillingTypes, RowsHeld
<1>1. OnActivation(t) /\ OfSession(t) /\ ~OnCheckout(t) /\ billing[t].step # "rest"
    BY DEF Preflight, Recheck, CommitActivation, Finalize, OnActivation, OfSession, OnCheckout
<1>2. /\ billing[t].session \in Sessions /\ billing[t].row \in Sessions
      /\ attempt[billing[t].row].session = billing[t].session
    BY <1>0, <1>1 DEF HandFits, BillingHand
\* An end or an interruption of the activation.
<1>3. ASSUME UNCHANGED <<attempt, session>>,
             \/ Rests(t) \/ Declined(t) \/ Goes(t, "deferring") \/ Goes(t, "unauthorized")
      PROVE  RowsHeld'
    <2>1. \/ Rests(t)
          \/ \E s \in {"deferring", "unauthorized", "rejected"} : Goes(t, s)
        BY <1>3 DEF Declined
    <2>2. BillingStep(t) /\ FillsApart(t) /\ HandFits(t)'
        BY <1>0, <1>1, <1>3, <2>1, RestingHandFits, EndingHandFits DEF BillingSteps
    <2> QED BY <1>3, <2>2, SameRowsHeld
\* The activation goes on.
<1>4. ASSUME NEW s \in {"preflighted", "allowed", "committed"}, UNCHANGED <<attempt, session>>,
             Goes(t, s), s = "committed" => session[billing[t].session] = "committed"
      PROVE  RowsHeld'
    <2>1. BillingStep(t) /\ billing'[t].step = s /\ HandKept(t)
        BY <1>4, GoesEffect DEF BillingSteps
    <2>2. FillsApart(t) /\ HandFits(t)'
        BY <1>0, <1>1, <1>2, <1>4, <2>1
           DEF HandFits, FillsApart, OnCheckout, OnActivation, OfSession, HandKept
    <2> QED BY <1>4, <2>1, <2>2, SameRowsHeld
<1>5. CASE Preflight(t)
    BY <1>3, <1>4, <1>5 DEF Preflight
<1>6. CASE Recheck(t)
    BY <1>3, <1>4, <1>6 DEF Recheck
<1>7. CASE CommitActivation(t)
    <2>1. ASSUME session[billing[t].session] = "paid", attempt' = attempt,
                 session' = [session EXCEPT ![billing[t].session] = "committed"],
                 \/ billing' = [billing EXCEPT ![t].step = "committed", ![t].key = keys.given + 1]
                 \/ Goes(t, "deferring")
          PROVE  RowsHeld'
        <3>1. /\ session'[billing[t].session] = "committed"
              /\ \A s \in Sessions : session[s] # "paid" => session'[s] = session[s]
            BY <1>0, <1>2, <2>1
        <3>2. SessionsKept(t)
            BY <3>1 DEF SessionsKept, RowsHeld, HandFits
        <3>3. /\ BillingStep(t) /\ billing'[t].step \in {"committed", "deferring"}
              /\ billing'[t].row = billing[t].row /\ billing'[t].session = billing[t].session
            <4>1. CASE Goes(t, "deferring")
                BY <4>1, GoesEffect DEF BillingSteps, HandKept
            <4>2. CASE billing' = [billing EXCEPT ![t].step = "committed", ![t].key = keys.given + 1]
                BY <1>0, <4>2 DEF BillingTypes, BillingHand, BillingStep
            <4> QED BY <2>1, <4>1, <4>2
        <3>4. FillsApart(t) /\ HandFits(t)'
            BY <1>0, <1>1, <1>2, <2>1, <3>1, <3>3
               DEF HandFits, FillsApart, OnCheckout, OnActivation, OfSession
        <3> QED BY <2>1, <3>2, <3>3, <3>4, SameRowsStay, SameRowsSettled, RowsHeldBy
    <2>2. attempt' = attempt
        BY <1>7 DEF CommitActivation
    <2> QED BY <1>3, <1>4, <1>7, <2>1, <2>2 DEF CommitActivation
<1>8. CASE Finalize(t)
    <2> DEFINE i == billing[t].row
    <2>0. session' = session /\ session[billing[t].session] = "committed"
        BY <1>0, <1>8 DEF Finalize, HandFits
    <2>1. CASE attempt' = attempt /\ Goes(t, "deferring")
        BY <1>3, <2>0, <2>1
    <2>2. ASSUME attempt' = [attempt EXCEPT ![i].status = "activated"],
                 Rests(t) \/ Goes(t, "activated")
          PROVE  RowsHeld'
        <3>1. /\ attempt'[i].status = "activated" /\ attempt'[i].session = billing[t].session
              /\ \A j \in Sessions : j # i => attempt'[j] = attempt[j]
            BY <1>0, <1>2, <2>2 DEF AttemptRow
        <3>2. \A x \in BillingActors : OnCheckout(x) =>
                 /\ billing[x].row # i
                 /\ attempt[billing[x].row].status # "none" /\ attempt[billing[x].row].session = 0
            BY <1>2 DEF RowsHeld, HandFits
        <3>3. i \in Sessions /\ attempt[i].session = billing[t].session
            BY <1>2
        <3> HIDE DEF i
        <3>4. AttemptRowsStay(t)
            BY <3>1, <3>2, <3>3 DEF AttemptRowsStay
        <3>5. \A j \in Sessions : AttemptSettled(j)'
            BY <1>0, <1>2, <2>0, <3>1 DEF AttemptSettled
        <3>6. /\ BillingStep(t) /\ billing'[t].step \in {"rest", "activated"}
              /\ billing'[t].step = "rest" => billing'[t] = AtRest
              /\ billing'[t].step = "activated" => billing'[t].session \in Sessions
            <4>1. CASE Rests(t)
                BY <4>1, RestsEffect DEF AtRest
            <4>2. CASE Goes(t, "activated")
                BY <1>2, <4>2, GoesEffect DEF BillingSteps, HandKept
            <4> QED BY <2>2, <4>1, <4>2
        <3>7. FillsApart(t) /\ HandFits(t)'
            BY <3>6 DEF HandFits, FillsApart, OnCheckout, OnActivation, OfSession
        <3> QED BY <2>0, <3>4, <3>5, <3>6, <3>7, SameSessionsStay, RowsHeldBy
    <2> QED BY <1>8, <2>1, <2>2 DEF Finalize
<1> QED BY <1>5, <1>6, <1>7, <1>8

LEMMA RestKeepsRows ==
    ASSUME BillingTypes, RowsHeld,
           \/ \E s \in Sessions : Pay(s)
           \/ \E u \in Admins : Demote(u)
           \/ \E t \in BillingActors : QueueActivation(t) \/ BillingDies(t)
           \/ CancelAtStripe \/ WorkerSaves \/ ActivationDone \/ AskAccount \/ CopyCancellation
    PROVE  RowsHeld'
<1> USE BillingActorsFacts
<1>0. \A t \in BillingActors : billing[t] \in BillingHand /\ HandFits(t)
    BY DEF BillingTypes, RowsHeld
<1>1. ASSUME NEW t \in BillingActors, UNCHANGED <<attempt, session>>, Rests(t) PROVE RowsHeld'
    BY <1>1, RestingHandFits, SameRowsHeld
<1>2. ASSUME NEW t \in BillingActors, UNCHANGED <<attempt, session>>, OfSession(t),
             NEW s \in {"queueing", "done"}, Goes(t, s)
      PROVE  RowsHeld'
    BY <1>0, <1>2, EndingHandFits, SameRowsHeld DEF BillingSteps
<1>3. ASSUME UNCHANGED <<attempt, billing>>, SessionsKept(Worker) PROVE RowsHeld'
    <2>1. HandFits(Worker)' /\ FillsApart(Worker) /\ BillingStep(Worker)
        <3>1. HandFits(Worker)'
            BY <1>0, <1>3 DEF HandFits, SessionsKept, OnCheckout, OnActivation, OfSession
        <3> QED BY <1>3, <3>1 DEF FillsApart, BillingStep, OnCheckout
    <2> QED BY <1>3, <2>1, SameRowsStay, SameRowsSettled, RowsHeldBy
<1>4. ASSUME NEW s \in Sessions, Pay(s) PROVE RowsHeld'
    <2>1. \A x \in Sessions : x # s => session'[x] = session[x]
        BY <1>4 DEF Pay, BillingTypes
    <2>2. session[s] = "open" /\ UNCHANGED <<attempt, billing>>
        BY <1>4 DEF Pay
    <2>3. SessionsKept(Worker)
        <3>1. \A x \in BillingActors, j \in Sessions :
                 billing[x].step = "reserved" /\ billing[x].row = j => session[j] = "none"
            BY <1>0 DEF HandFits
        <3> QED BY <2>1, <2>2, <3>1 DEF SessionsKept
    <2> QED BY <1>3, <2>2, <2>3
<1>5. UNCHANGED <<attempt, session, billing>> => RowsHeld'
    BY <1>3, SameSessionsStay
<1>6. ASSUME AskAccount PROVE RowsHeld'
    <2>1. /\ UNCHANGED <<attempt, session>> /\ Goes(Worker, "canceled")
          /\ billing[Worker].step = "rest"
        BY <1>6 DEF AskAccount
    <2>2. BillingStep(Worker) /\ billing'[Worker].step = "canceled"
        BY <2>1, GoesEffect DEF BillingSteps
    <2>3. HandFits(Worker)' /\ FillsApart(Worker)
        BY <2>2 DEF HandFits, FillsApart, OnCheckout, OnActivation, OfSession
    <2> QED BY <2>1, <2>2, <2>3, SameRowsHeld
<1>7. ASSUME WorkerSaves PROVE RowsHeld'
    <2>1. OfSession(Worker)
        BY <1>7 DEF WorkerSaves, Outcome, OfSession
    <2> QED BY <1>2, <1>7, <2>1 DEF WorkerSaves
<1>8. ASSUME NEW t \in BillingActors, QueueActivation(t) PROVE RowsHeld'
    BY <1>1, <1>2, <1>8 DEF QueueActivation, OfSession
<1>9. ASSUME \/ \E t \in BillingActors : BillingDies(t)
             \/ ActivationDone \/ CopyCancellation
      PROVE  RowsHeld'
    BY <1>1, <1>9 DEF BillingDies, ActivationDone, CopyCancellation
<1>10. ASSUME \/ \E u \in Admins : Demote(u)
              \/ CancelAtStripe
       PROVE  RowsHeld'
    BY <1>5, <1>10 DEF Demote, CancelAtStripe
<1> QED BY <1>4, <1>6, <1>7, <1>8, <1>9, <1>10

LEMMA RowsHeldStep ==
    ASSUME BillingTypes, RowsHeld, BillingNext
    PROVE  RowsHeld'
BY CheckoutKeepsRows, DiscardKeepsRows, ReturnsKeepRows, ReopenKeepsRows, PhasesKeepRows,
   RestKeepsRows DEF BillingNext

-------------------------------------------------------------------------------
(* Whose hand moves *)

RequestMoves(t) ==
    \/ Reserve(t) \/ CreateSession(t) \/ SettleCheckout(t)
    \/ FindCheckout(t) \/ CancelSession(t) \/ SaveDiscard(t)
    \/ ReopenAttempt(t) \/ DeferRequest(t)
    \/ \E u \in Admins, s \in Sessions : OpenSuccessUrl(t, u, s) \/ AskPendingActivation(t, u, s)

PhaseMoves(t) ==
    Preflight(t) \/ Recheck(t) \/ CommitActivation(t) \/ Finalize(t)

LEMMA RequestMovesOne ==
    ASSUME BillingTypes, NEW t \in BillingThreads, RequestMoves(t)
    PROVE  BillingStep(t) /\ billing[t].step # "queueing"
<1> USE BillingActorsFacts
<1> DEFINE Goal == BillingStep(t)
<1>1. ASSUME Rests(t) \/ \E s \in BillingSteps : Goes(t, s) PROVE Goal
    BY <1>1, RestsEffect, GoesEffect
<1>2. (\/ \E i, phase : billing' = [billing EXCEPT ![t].step = phase, ![t].row = i]
       \/ \E s, phase : billing' = [billing EXCEPT ![t].step = phase, ![t].session = s]
       \/ \E i, s, phase : billing' = [billing EXCEPT ![t].step = phase, ![t].row = i, ![t].session = s]
       \/ \E hand : billing' = [billing EXCEPT ![t] = hand])
      => Goal
    BY DEF BillingTypes, BillingStep
<1> HIDE DEF Goal
<1>3. ASSUME Reserve(t) PROVE Goal
    BY <1>2, <1>3 DEF Reserve, BillingRequest
<1>4. ASSUME CreateSession(t) PROVE Goal
    BY <1>1, <1>2, <1>4 DEF CreateSession, BillingSteps
<1>5. ASSUME FindCheckout(t) PROVE Goal
    BY <1>2, <1>5 DEF FindCheckout, BillingRequest
<1>6. ASSUME ReopenAttempt(t) PROVE Goal
    BY <1>1, <1>2, <1>6 DEF ReopenAttempt, BillingSteps
<1>7. ASSUME NEW u \in Admins, NEW s \in Sessions,
             OpenSuccessUrl(t, u, s) \/ AskPendingActivation(t, u, s)
      PROVE  Goal
    BY <1>2, <1>7 DEF OpenSuccessUrl, AskPendingActivation
<1>8. ASSUME SettleCheckout(t) \/ CancelSession(t) \/ SaveDiscard(t) \/ DeferRequest(t) PROVE Goal
    BY <1>1, <1>8 DEF SettleCheckout, CancelSession, SaveDiscard, DeferRequest, BillingSteps
<1>9. Goal
    BY <1>3, <1>4, <1>5, <1>6, <1>7, <1>8 DEF RequestMoves
<1>10. billing[t].step # "queueing"
    BY DEF RequestMoves, Reserve, CreateSession, SettleCheckout, FindCheckout, CancelSession,
       SaveDiscard, ReopenAttempt, DeferRequest, OpenSuccessUrl, AskPendingActivation, BillingRequest
<1> QED BY <1>9, <1>10 DEF Goal

LEMMA PhaseMovesOne ==
    ASSUME BillingTypes, NEW t \in BillingActors, PhaseMoves(t)
    PROVE  /\ BillingStep(t) /\ OnActivation(t)
           /\ \/ billing'[t] = AtRest
              \/ /\ billing'[t].session = billing[t].session
                 /\ billing'[t].step \in {"preflighted", "allowed", "committed", "deferring",
                                          "rejected", "unauthorized", "activated"}
<1> USE BillingActorsFacts
<1> DEFINE After == {"preflighted", "allowed", "committed", "deferring", "rejected",
                     "unauthorized", "activated"}
           Goal == /\ BillingStep(t)
                   /\ \/ billing'[t] = AtRest
                      \/ billing'[t].session = billing[t].session /\ billing'[t].step \in After
<1>1. ASSUME Rests(t) PROVE Goal
    BY <1>1, RestsEffect
<1>2. ASSUME NEW s \in After, Goes(t, s) PROVE Goal
    BY <1>2, GoesEffect DEF BillingSteps, HandKept
<1>3. ASSUME billing' = [billing EXCEPT ![t].step = "committed", ![t].key = keys.given + 1]
      PROVE  Goal
    BY <1>3 DEF BillingTypes, BillingHand, BillingStep
<1> HIDE DEF Goal
<1>4. Goal
    BY <1>1, <1>2, <1>3 DEF PhaseMoves, Preflight, Recheck, CommitActivation, Finalize, Declined
<1>5. OnActivation(t)
    BY DEF PhaseMoves, Preflight, Recheck, CommitActivation, Finalize, OnActivation
<1> QED BY <1>4, <1>5 DEF Goal

LEMMA BillingMoves ==
    ASSUME BillingNext
    PROVE  \/ \E t \in BillingThreads : RequestMoves(t)
           \/ \E t \in BillingActors : PhaseMoves(t) \/ QueueActivation(t) \/ BillingDies(t)
           \/ \E s \in Sessions : WorkerClaims(s) \/ Pay(s)
           \/ \E u \in Admins : Demote(u)
           \/ CancelAtStripe \/ WorkerSaves \/ ActivationDone \/ AskAccount \/ CopyCancellation
BY DEF BillingNext, RequestMoves, PhaseMoves

\* The worker's hand, step by step.
LEMMA WorkerHand ==
    ASSUME BillingTypes, RowsHeld, BillingNext
    PROVE  \/ billing'[Worker] = billing[Worker]
           \/ billing'[Worker] = AtRest
           \/ AskAccount /\ billing'[Worker].step = "canceled"
           \/ /\ \/ OnActivation(Worker) /\ billing'[Worker].step # "done"
                 \/ WorkerSaves
                 \/ QueueActivation(Worker)
              /\ billing'[Worker].session = billing[Worker].session
              /\ billing'[Worker].step \notin {"rest", "canceled"}
           \/ \E s \in Sessions :
                 /\ WorkerClaims(s) /\ Claimable(s) /\ billing'[Worker].session = s
                 /\ billing'[Worker].step \in {"rejected", "activating"}
<1> USE BillingActorsFacts
<1> DEFINE Goal == \/ billing'[Worker] = billing[Worker]
                   \/ billing'[Worker] = AtRest
                   \/ AskAccount /\ billing'[Worker].step = "canceled"
                   \/ /\ \/ OnActivation(Worker) /\ billing'[Worker].step # "done"
                         \/ WorkerSaves
                         \/ QueueActivation(Worker)
                      /\ billing'[Worker].session = billing[Worker].session
                      /\ billing'[Worker].step \notin {"rest", "canceled"}
                   \/ \E s \in Sessions :
                         /\ WorkerClaims(s) /\ Claimable(s) /\ billing'[Worker].session = s
                         /\ billing'[Worker].step \in {"rejected", "activating"}
<1>1. ASSUME NEW t \in BillingThreads, RequestMoves(t) PROVE Goal
    BY <1>1, RequestMovesOne DEF BillingStep
<1>2. ASSUME NEW t \in BillingActors, PhaseMoves(t) PROVE Goal
    BY <1>2, PhaseMovesOne DEF BillingStep
<1>3. ASSUME NEW t \in BillingActors, QueueActivation(t) PROVE Goal
    <2>1. CASE Rests(t)
        BY <2>1, RestsEffect DEF BillingStep
    <2>2. CASE t = Worker /\ Goes(t, "done")
        BY <1>3, <2>2, GoesEffect DEF BillingSteps, HandKept
    <2> QED BY <1>3, <2>1, <2>2 DEF QueueActivation
<1>4. ASSUME NEW t \in BillingActors, BillingDies(t) PROVE Goal
    BY <1>4, RestsEffect DEF BillingStep, BillingDies
<1>5. ASSUME NEW s \in Sessions, WorkerClaims(s) PROVE Goal
    <2> DEFINE new == [step |-> IF AttemptOf(s) = 0 THEN "rejected" ELSE "activating",
                       row |-> AttemptOf(s), session |-> s, user |-> pend[s].user, key |-> 0,
                       tries |-> pend[s].attempts + 1, entitled |-> pend[s].user \in admins]
    <2>1. CASE billing' = [billing EXCEPT ![Worker] = new] /\ Claimable(s)
        <3>1. billing'[Worker] = new
            BY <2>1 DEF BillingTypes
        <3>2. new.session = s /\ new.step \in {"rejected", "activating"}
            OBVIOUS
        <3> QED BY <1>5, <2>1, <3>1, <3>2
    <2> QED BY <1>5, <2>1 DEF WorkerClaims
<1>6. ASSUME WorkerSaves PROVE Goal
    BY <1>6, GoesEffect DEF WorkerSaves, BillingSteps, HandKept
<1>7. ASSUME ActivationDone \/ CopyCancellation PROVE Goal
    BY <1>7, RestsEffect DEF ActivationDone, CopyCancellation
<1>8. ASSUME AskAccount PROVE Goal
    BY <1>8, GoesEffect DEF AskAccount, BillingSteps
<1>9. ASSUME \/ \E s \in Sessions : Pay(s)
             \/ \E u \in Admins : Demote(u)
             \/ CancelAtStripe
      PROVE  Goal
    BY <1>9 DEF Pay, Demote, CancelAtStripe
<1> HIDE DEF Goal
<1>10. Goal
    BY <1>1, <1>2, <1>3, <1>4, <1>5, <1>6, <1>7, <1>8, <1>9, BillingMoves
<1> QED BY <1>10 DEF Goal

\* A request that is about to queue a task queues it or dies.
LEMMA QueueingHand ==
    ASSUME BillingTypes, RowsHeld, BillingNext,
           NEW x \in BillingThreads, billing[x].step = "queueing"
    PROVE  billing'[x] = billing[x] \/ QueueActivation(x) \/ BillingDies(x)
<1> USE BillingActorsFacts
<1> DEFINE Goal == billing'[x] = billing[x] \/ QueueActivation(x) \/ BillingDies(x)
<1>1. ASSUME NEW t \in BillingThreads, RequestMoves(t) PROVE Goal
    BY <1>1, RequestMovesOne DEF BillingStep
<1>2. ASSUME NEW t \in BillingActors, PhaseMoves(t) PROVE Goal
    BY <1>2, PhaseMovesOne DEF BillingStep, OnActivation
<1>3. ASSUME NEW t \in BillingActors, QueueActivation(t) \/ BillingDies(t) PROVE Goal
    <2>1. Rests(t) \/ Goes(t, "done")
        BY <1>3 DEF QueueActivation, BillingDies
    <2>2. BillingStep(t)
        BY <2>1, RestsEffect, GoesEffect DEF BillingSteps
    <2> QED BY <1>3, <2>2 DEF BillingStep
<1>4. ASSUME NEW s \in Sessions, WorkerClaims(s) PROVE Goal
    BY <1>4 DEF WorkerClaims, BillingTypes
<1>5. ASSUME WorkerSaves \/ ActivationDone \/ CopyCancellation \/ AskAccount PROVE Goal
    <2>1. Rests(Worker) \/ \E s \in BillingSteps : Goes(Worker, s)
        BY <1>5 DEF WorkerSaves, ActivationDone, CopyCancellation, AskAccount, BillingSteps
    <2> QED BY <2>1, RestsEffect, GoesEffect DEF BillingStep
<1>6. ASSUME \/ \E s \in Sessions : Pay(s)
             \/ \E u \in Admins : Demote(u)
             \/ CancelAtStripe
      PROVE  Goal
    BY <1>6 DEF Pay, Demote, CancelAtStripe
<1> HIDE DEF Goal
<1>7. Goal
    BY <1>1, <1>2, <1>3, <1>4, <1>5, <1>6, BillingMoves
<1> QED BY <1>7 DEF Goal

-------------------------------------------------------------------------------
(* Cancellations *)

\* Paid and committed at Intelligence, not yet activated here.
Bought ==
    \E i \in Sessions :
        /\ attempt[i].session # 0 /\ session[attempt[i].session] = "committed"
        /\ attempt[i].status # "activated"

CancellationHeld ==
    sub.status = "canceled" \/ billing[Worker].step = "canceled" =>
        contract = "canceled" \/ crossed \/ Bought

LEMMA CommittedStays ==
    ASSUME BillingTypes, RowsHeld, BillingNext,
           NEW s \in Sessions, session[s] = "committed"
    PROVE  session'[s] = "committed"
<1> USE BillingActorsFacts
<1> DEFINE Goal == session'[s] = "committed"
<1>0. session \in [Sessions -> {"none", "open", "canceled", "paid", "committed"}]
    BY DEF BillingTypes
<1>1. ASSUME NEW t \in BillingThreads, CreateSession(t) PROVE Goal
    <2>1. session[billing[t].row] = "none"
        BY <1>1 DEF CreateSession, RowsHeld, HandFits
    <2> QED BY <1>0, <1>1, <2>1 DEF CreateSession
<1>2. ASSUME NEW t \in BillingThreads, CancelSession(t) PROVE Goal
    BY <1>0, <1>2 DEF CancelSession
<1>3. ASSUME NEW t \in BillingActors, CommitActivation(t) PROVE Goal
    BY <1>0, <1>3 DEF CommitActivation
<1>4. ASSUME NEW x \in Sessions, Pay(x) PROVE Goal
    BY <1>0, <1>4 DEF Pay
<1>5. UNCHANGED session => Goal
    OBVIOUS
<1> HIDE DEF Goal
<1>6. Goal
    BY <1>1, <1>2, <1>3, <1>4, <1>5 DEF BillingNext, WorkerClaims, Reserve, SettleCheckout,
       FindCheckout, SaveDiscard, ReopenAttempt, DeferRequest, OpenSuccessUrl,
       AskPendingActivation, Preflight, Recheck, Finalize, QueueActivation, BillingDies,
       CancelAtStripe, WorkerSaves, ActivationDone, AskAccount, CopyCancellation, Demote
<1> QED BY <1>6 DEF Goal

\* A row keeps its session, and only the end of an activation activates it.
LEMMA AttemptsStay ==
    ASSUME BillingTypes, RowsHeld, BillingNext, \A t \in BillingActors : ~Finalize(t),
           NEW i \in Sessions, attempt[i].session # 0
    PROVE  /\ attempt'[i].session = attempt[i].session
           /\ attempt'[i].status = "activated" => attempt[i].status = "activated"
<1> USE BillingActorsFacts
<1> DEFINE Goal == /\ attempt'[i].session = attempt[i].session
                   /\ attempt'[i].status = "activated" => attempt[i].status = "activated"
<1>0. /\ attempt \in [Sessions -> AttemptRow] /\ attempt[i] \in AttemptRow /\ AttemptSettled(i)
      /\ attempt[i].status # "none"
    BY DEF BillingTypes, RowsHeld, AttemptSettled
<1>1. ASSUME NEW t \in BillingThreads, Reserve(t) PROVE Goal
    <2>1. PICK j \in Unused : attempt' = [attempt EXCEPT ![j] = [status |-> "creating", session |-> 0]]
        BY <1>1, EarliestIsMember DEF Reserve, Unused
    <2>2. i # j
        BY <1>0 DEF Unused
    <2> QED BY <1>0, <2>1, <2>2
<1>2. ASSUME NEW t \in BillingThreads, SettleCheckout(t) PROVE Goal
    <2>1. i # billing[t].row
        BY <1>2 DEF SettleCheckout, RowsHeld, HandFits, OnCheckout
    <2> QED BY <1>0, <1>2, <2>1 DEF SettleCheckout
<1>3. ASSUME NEW t \in BillingThreads, SaveDiscard(t) PROVE Goal
    BY <1>0, <1>3 DEF SaveDiscard, AttemptRow
<1>4. ASSUME NEW t \in BillingThreads, ReopenAttempt(t) PROVE Goal
    <2> DEFINE open == [status |-> "open", session |-> billing[t].session]
    <2>0. open.status = "open" /\ open.session = billing[t].session
        OBVIOUS
    <2> HIDE DEF open
    <2>1. CASE billing[t].row # 0 /\ attempt' = [attempt EXCEPT ![billing[t].row] = open]
        <3>1. attempt[billing[t].row].session = billing[t].session
            BY <1>4, <2>1 DEF ReopenAttempt, RowsHeld, HandFits
        <3> QED BY <1>0, <2>0, <2>1, <3>1
    <2>2. ASSUME NEW n \in Sessions, attempt[n].status = "none",
                 attempt' = [j \in Sessions |->
                               IF j = n THEN open
                               ELSE IF j \in InProgress
                               THEN [attempt[j] EXCEPT !.status = "expired"] ELSE attempt[j]]
          PROVE  Goal
        BY <1>0, <2>2 DEF AttemptRow
    <2> QED BY <1>4, <2>1, <2>2 DEF ReopenAttempt, open
<1>5. UNCHANGED attempt => Goal
    OBVIOUS
<1> HIDE DEF Goal
<1>6. Goal
    BY <1>1, <1>2, <1>3, <1>4, <1>5 DEF BillingNext, Pay, WorkerClaims, CreateSession, FindCheckout,
       CancelSession, DeferRequest, OpenSuccessUrl, AskPendingActivation, Preflight, Recheck,
       CommitActivation, QueueActivation, BillingDies, CancelAtStripe, WorkerSaves, ActivationDone,
       AskAccount, CopyCancellation, Demote
<1> QED BY <1>6 DEF Goal

LEMMA BoughtStays ==
    ASSUME BillingTypes, RowsHeld, BillingNext, \A t \in BillingActors : ~Finalize(t), Bought
    PROVE  Bought'
<1>1. PICK i \in Sessions : /\ attempt[i].session # 0
                            /\ session[attempt[i].session] = "committed"
                            /\ attempt[i].status # "activated"
    BY DEF Bought
<1>2. attempt[i].session \in Sessions
    BY <1>1 DEF BillingTypes, AttemptRow
<1>3. session'[attempt[i].session] = "committed"
    BY <1>1, <1>2, CommittedStays
<1>4. attempt'[i].session = attempt[i].session /\ attempt'[i].status # "activated"
    BY <1>1, AttemptsStay
<1> QED BY <1>1, <1>3, <1>4 DEF Bought

\* What a step that ends no activation does to the contract.
LEMMA ContractChanges ==
    ASSUME BillingNext, \A t \in BillingActors : ~Finalize(t)
    PROVE  /\ crossed' = crossed
           /\ \/ contract = "canceled" => contract' = "canceled"
              \/ \E t \in BillingActors :
                    /\ CommitActivation(t) /\ session[billing[t].session] = "paid"
                    /\ session' = [session EXCEPT ![billing[t].session] = "committed"]
<1> DEFINE Goal == /\ crossed' = crossed
                   /\ \/ contract = "canceled" => contract' = "canceled"
                      \/ \E t \in BillingActors :
                            /\ CommitActivation(t) /\ session[billing[t].session] = "paid"
                            /\ session' = [session EXCEPT ![billing[t].session] = "committed"]
<1>1. ASSUME NEW t \in BillingActors, CommitActivation(t) PROVE Goal
    BY <1>1 DEF CommitActivation
<1>2. UNCHANGED <<contract, crossed>> => Goal
    OBVIOUS
<1>3. CancelAtStripe => Goal
    BY DEF CancelAtStripe
<1> HIDE DEF Goal
<1>4. Goal
    BY ZenonT(30), <1>1, <1>2, <1>3 DEF BillingNext, Pay, WorkerClaims, Reserve, CreateSession, SettleCheckout,
       FindCheckout, CancelSession, SaveDiscard, ReopenAttempt, DeferRequest, OpenSuccessUrl,
       AskPendingActivation, Preflight, Recheck, QueueActivation, BillingDies, WorkerSaves,
       ActivationDone, AskAccount, CopyCancellation, Demote
<1> QED BY <1>4 DEF Goal

LEMMA CancellationHeldStep ==
    ASSUME BillingTypes, RowsHeld, CancellationHeld, BillingNext
    PROVE  CancellationHeld'
<1> USE BillingActorsFacts
<1>1. ASSUME NEW t \in BillingActors, Finalize(t) PROVE CancellationHeld'
    <2>1. /\ BillingStep(t) /\ billing'[t].step # "canceled"
        BY <1>1, PhaseMovesOne DEF PhaseMoves, AtRest
    <2>2. billing'[Worker].step = "canceled" => billing[Worker].step = "canceled"
        BY <2>1 DEF BillingStep
    <2>3. UNCHANGED <<session, contract>>
        BY <1>1 DEF Finalize
    <2>4. CASE UNCHANGED <<sub, attempt, crossed>>
        BY <2>2, <2>3, <2>4 DEF CancellationHeld, Bought
    <2>5. CASE sub'.status = "active" /\ crossed' = (crossed \/ billing[Worker].step = "canceled")
        BY <2>2, <2>5 DEF CancellationHeld
    <2> QED BY <1>1, <2>4, <2>5 DEF Finalize
<1>2. CASE \A t \in BillingActors : ~Finalize(t)
    <2>1. ASSUME sub'.status = "canceled" \/ billing'[Worker].step = "canceled"
          PROVE  contract = "canceled" \/ crossed \/ Bought
        <3>1. CASE AskAccount
            BY <3>1 DEF AskAccount
        <3>2. CASE ~AskAccount
            <4>1. billing'[Worker].step = "canceled" => billing[Worker].step = "canceled"
                <5>1. \A s \in Sessions : billing'[Worker].step \in {"rejected", "activating"} =>
                         billing'[Worker].step # "canceled"
                    OBVIOUS
                <5> QED BY <3>2, <5>1, WorkerHand DEF AtRest
            <4>2. sub'.status = "canceled" =>
                     sub.status = "canceled" \/ billing[Worker].step = "canceled"
                BY <1>2, SubscriptionRowChanges DEF CopyCancellation
            <4> QED BY <2>1, <4>1, <4>2 DEF CancellationHeld
        <3> QED BY <3>1, <3>2
    <2>2. ASSUME NEW t \in BillingActors, CommitActivation(t), session[billing[t].session] = "paid",
                 session' = [session EXCEPT ![billing[t].session] = "committed"]
          PROVE  Bought'
        <3> DEFINE s == billing[t].session
                   i == billing[t].row
        <3>1. /\ i \in Sessions /\ s \in Sessions /\ attempt[i].session = s
            <4>1. OnActivation(t) /\ HandFits(t) /\ billing[t].row \in Sessions \cup {0}
                BY <2>2 DEF CommitActivation, RowsHeld, OnActivation, BillingTypes, BillingHand
            <4> QED BY <4>1 DEF HandFits, OfSession
        <3>2. attempt' = attempt /\ session' = [session EXCEPT ![s] = "committed"]
            BY <2>2 DEF CommitActivation
        <3>3. attempt[i].status # "activated"
            BY <2>2, <3>1 DEF RowsHeld, AttemptSettled
        <3>4. session'[s] = "committed"
            BY <3>1, <3>2 DEF BillingTypes
        <3> HIDE DEF s, i
        <3> QED BY <3>1, <3>2, <3>3, <3>4 DEF Bought
    <2> QED BY <1>2, <2>1, <2>2, BoughtStays, ContractChanges DEF CancellationHeld
<1> QED BY <1>1, <1>2

-------------------------------------------------------------------------------
(* Tasks *)

WorkerRunning == billing[Worker].step \notin {"rest", "canceled"}
WorkerFinishing(s) == billing[Worker].step = "done" /\ billing[Worker].session = s
ActivationUnderWay(s) == pend[s].status \in {"pending", "in_progress"}
RequestQueueing(s) == \E t \in BillingThreads : billing[t].step = "queueing" /\ billing[t].session = s

\* What the worker runs it runs from a task, and an activation under way has another
\* task than the one that is about to end.
ActivationHasTask(s) ==
    \/ activations[s] > 0 /\ (WorkerFinishing(s) => activations[s] > 1)
    \/ s \in stranded
    \/ RequestQueueing(s)

TasksHeld ==
    /\ WorkerRunning => /\ billing[Worker].session \in Sessions
                  /\ activations[billing[Worker].session] > 0
    /\ \A s \in Sessions : activations[s] >= 0 /\ (ActivationUnderWay(s) => ActivationHasTask(s))

\* Steps that leave the tasks and the pending rows alone.
LEMMA QuietKeepsTasks ==
    ASSUME BillingTypes, RowsHeld, TasksHeld, BillingNext,
           UNCHANGED <<pend, activations, stranded>>,
           \A t \in BillingActors : ~QueueActivation(t), ~WorkerSaves,
           \A s \in Sessions : ~WorkerClaims(s),
           \A t \in BillingThreads : ~(BillingDies(t) /\ billing[t].step = "queueing")
    PROVE  TasksHeld'
<1> USE BillingActorsFacts
<1>1. \/ ~WorkerRunning'
      \/ WorkerRunning /\ billing'[Worker].session = billing[Worker].session
            /\ (billing'[Worker].step = "done" => billing[Worker].step = "done")
    BY WorkerHand DEF WorkerRunning, AtRest, OnActivation
<1>2. WorkerRunning' => /\ billing'[Worker].session \in Sessions
                  /\ activations[billing'[Worker].session] > 0
    BY <1>1 DEF TasksHeld
<1>3. \A s \in Sessions : WorkerFinishing(s)' => WorkerFinishing(s)
    BY <1>1 DEF WorkerFinishing, WorkerRunning
<1>4. \A s \in Sessions : RequestQueueing(s) => RequestQueueing(s)'
    BY QueueingHand DEF RequestQueueing
<1>5. \A s \in Sessions : ActivationUnderWay(s)' => ActivationHasTask(s)'
    BY <1>3, <1>4 DEF TasksHeld, ActivationUnderWay, ActivationHasTask
<1> QED BY <1>2, <1>5 DEF TasksHeld

LEMMA ClaimKeepsTasks ==
    ASSUME BillingTypes, TasksHeld, NEW s \in Sessions, WorkerClaims(s)
    PROVE  TasksHeld'
<1> USE BillingActorsFacts
<1>0. /\ activations \in [Sessions -> Int] /\ billing[Worker].step = "rest" /\ activations[s] > 0
      /\ pend \in [Sessions -> PendingRow] /\ stranded' = stranded
    BY DEF BillingTypes, WorkerClaims
<1>1. CASE Claimable(s) /\ activations' = activations
    <2> DEFINE new == [step |-> IF AttemptOf(s) = 0 THEN "rejected" ELSE "activating",
                       row |-> AttemptOf(s), session |-> s, user |-> pend[s].user, key |-> 0,
                       tries |-> pend[s].attempts + 1, entitled |-> pend[s].user \in admins]
    <2>1. /\ billing' = [billing EXCEPT ![Worker] = new]
          /\ pend' = [pend EXCEPT ![s].status = "in_progress", ![s].attempts = @ + 1]
        BY <1>0, <1>1 DEF WorkerClaims
    <2>2. /\ billing'[Worker].session = s /\ billing'[Worker].step # "done"
          /\ \A t \in BillingThreads : billing'[t] = billing[t]
        BY <2>1 DEF BillingTypes
    <2>3. \A x \in Sessions : ActivationUnderWay(x)' => ActivationUnderWay(x)
        <3>1. ActivationUnderWay(s)
            BY <1>1 DEF Claimable, ActivationUnderWay
        <3>2. \A x \in Sessions : x # s => pend'[x] = pend[x]
            BY <1>0, <2>1
        <3> QED BY <3>1, <3>2 DEF ActivationUnderWay
    <2> HIDE DEF new
    <2>4. \A x \in Sessions : ~WorkerFinishing(x)' /\ (RequestQueueing(x) => RequestQueueing(x)')
        BY <2>2 DEF WorkerFinishing, RequestQueueing
    <2>5. \A x \in Sessions : ActivationHasTask(x) => ActivationHasTask(x)'
        BY <1>0, <1>1, <2>4 DEF ActivationHasTask
    <2>6. \A x \in Sessions : ActivationUnderWay(x)' => ActivationHasTask(x)'
        BY <2>3, <2>5 DEF TasksHeld
    <2> QED BY <1>0, <1>1, <2>2, <2>6 DEF TasksHeld
<1>2. CASE ~Claimable(s) /\ activations' = [activations EXCEPT ![s] = @ - 1] /\ UNCHANGED <<pend, billing>>
    <2>1. \A x \in Sessions : ActivationUnderWay(x) => x # s /\ activations'[x] = activations[x]
        BY <1>0, <1>2 DEF ActivationUnderWay, Claimable
    <2>2. \A x \in Sessions : ActivationUnderWay(x)' => ActivationHasTask(x)'
        BY <1>0, <1>2, <2>1
           DEF TasksHeld, ActivationUnderWay, ActivationHasTask, WorkerFinishing, RequestQueueing
    <2>3. \A x \in Sessions : activations'[x] >= 0
        BY <1>0, <1>2 DEF TasksHeld
    <2> QED BY <1>0, <1>2, <2>2, <2>3 DEF TasksHeld, WorkerRunning
<1> QED BY <1>0, <1>1, <1>2 DEF WorkerClaims

LEMMA DeferKeepsTasks ==
    ASSUME BillingTypes, RowsHeld, TasksHeld, NEW t \in BillingThreads, DeferRequest(t)
    PROVE  TasksHeld'
<1> USE BillingActorsFacts
<1> PICK s \in Sessions : s = billing[t].session
    BY DEF DeferRequest, RowsHeld, HandFits, OfSession
<1>0. /\ UNCHANGED <<activations, stranded>> /\ t # Worker
      /\ pend \in [Sessions -> PendingRow] /\ billing[t].step = "deferring"
    BY DEF DeferRequest, BillingTypes
<1>1. /\ BillingStep(t)
      /\ \/ pend' = pend
         \/ billing'[t].step = "queueing" /\ billing'[t].session = s
    BY RestsEffect, GoesEffect DEF DeferRequest, BillingSteps, HandKept
<1>2. \A x \in Sessions : x # s => pend'[x] = pend[x]
    BY <1>0 DEF DeferRequest
<1>3. billing'[Worker] = billing[Worker]
    BY <1>0, <1>1 DEF BillingStep
<1>4. \A x \in Sessions : RequestQueueing(x) => RequestQueueing(x)'
    BY <1>0, <1>1 DEF RequestQueueing, BillingStep
<1>5. \A x \in Sessions : ActivationUnderWay(x)' => ActivationHasTask(x)'
    <2>1. \A x \in Sessions : ActivationUnderWay(x)' => ActivationUnderWay(x) \/ RequestQueueing(x)'
        BY <1>0, <1>1, <1>2 DEF ActivationUnderWay, RequestQueueing
    <2> QED BY <1>0, <1>3, <1>4, <2>1 DEF TasksHeld, ActivationHasTask, WorkerFinishing
<1> QED BY <1>0, <1>3, <1>5 DEF TasksHeld, WorkerRunning

LEMMA SaveKeepsTasks ==
    ASSUME BillingTypes, RowsHeld, TasksHeld, WorkerSaves
    PROVE  TasksHeld'
<1> USE BillingActorsFacts
<1>a. WorkerRunning
    BY DEF WorkerSaves, Outcome, WorkerRunning
<1> PICK s \in Sessions : s = billing[Worker].session /\ activations[s] > 0
    BY <1>a DEF TasksHeld
<1>0. /\ UNCHANGED <<activations, stranded>> /\ pend \in [Sessions -> PendingRow]
      /\ pend' = [pend EXCEPT ![s].status = Outcome]
      /\ Outcome \in {"failed", "unauthorized", "completed", "pending"}
      /\ billing[Worker].step \in {"rejected", "unauthorized", "activated", "deferring"}
      /\ Goes(Worker, IF Outcome = "pending" THEN "queueing" ELSE "done")
    BY DEF WorkerSaves, Outcome, BillingTypes
<1>2. /\ billing'[Worker].session = s /\ BillingStep(Worker)
      /\ billing'[Worker].step = IF Outcome = "pending" THEN "queueing" ELSE "done"
    BY <1>0, GoesEffect DEF BillingSteps, HandKept
<1>3. /\ \A x \in Sessions : x # s => pend'[x] = pend[x]
      /\ pend'[s].status = Outcome
    BY <1>0 DEF PendingRow
<1>4. ActivationUnderWay(s)' => ~WorkerFinishing(s)'
    BY <1>0, <1>2, <1>3 DEF ActivationUnderWay, WorkerFinishing
<1>5. \A x \in Sessions : RequestQueueing(x) => RequestQueueing(x)'
    BY <1>2 DEF RequestQueueing, BillingStep
<1>6. ActivationUnderWay(s)' => ActivationHasTask(s)'
    BY <1>0, <1>4 DEF ActivationHasTask
<1>7. \A x \in Sessions : x # s /\ ActivationUnderWay(x)' => ActivationHasTask(x)'
    BY <1>0, <1>2, <1>3, <1>5 DEF TasksHeld, ActivationUnderWay, ActivationHasTask, WorkerFinishing
<1> QED BY <1>0, <1>2, <1>6, <1>7 DEF TasksHeld

LEMMA QueueKeepsTasks ==
    ASSUME BillingTypes, RowsHeld, TasksHeld, NEW t \in BillingActors, QueueActivation(t)
    PROVE  TasksHeld'
<1> USE BillingActorsFacts
<1> PICK s \in Sessions : s = billing[t].session
    BY DEF QueueActivation, RowsHeld, HandFits, OfSession
<1>0. /\ UNCHANGED <<pend, stranded>> /\ activations \in [Sessions -> Int]
      /\ activations' = [activations EXCEPT ![s] = @ + 1] /\ billing[t].step = "queueing"
      /\ IF t = Worker THEN Goes(t, "done") ELSE Rests(t)
    BY DEF QueueActivation, BillingTypes
<1>1. /\ BillingStep(t) /\ (t # Worker => billing'[t] = AtRest)
      /\ t = Worker => billing'[t].step = "done" /\ billing'[t].session = s
    BY <1>0, RestsEffect, GoesEffect DEF BillingSteps, HandKept
<1>2. /\ activations'[s] = activations[s] + 1 /\ activations[s] \in Int
      /\ \A x \in Sessions : x # s => activations'[x] = activations[x]
      /\ \A x \in Sessions : activations[x] \in Int
    BY <1>0
<1>b. \A x \in Sessions : activations'[x] >= 0
    <2>1. \A x \in Sessions : activations[x] >= 0
        BY DEF TasksHeld
    <2>2. activations'[s] >= 0
        <3>1. activations[s] \in Int /\ activations[s] >= 0
            BY <1>2, <2>1
        <3> QED BY <1>2, <3>1
    <2> QED BY <1>2, <2>1, <2>2
<1>3. CASE t = Worker
    <2>1. WorkerRunning /\ activations[s] > 0
        BY <1>0, <1>3 DEF WorkerRunning, TasksHeld
    <2>2. activations'[s] > 1 /\ activations'[s] > 0
        BY <1>2, <2>1
    <2>3. \A x \in Sessions : RequestQueueing(x) => RequestQueueing(x)'
        BY <1>1, <1>3 DEF RequestQueueing, BillingStep
    <2>4. \A x \in Sessions : ActivationUnderWay(x)' => ActivationHasTask(x)'
        <3>1. ActivationHasTask(s)'
            BY <2>2 DEF ActivationHasTask
        <3>2. \A x \in Sessions : x # s /\ ActivationUnderWay(x)' => ActivationHasTask(x)'
            <4>1. \A x \in Sessions : x # s => ~WorkerFinishing(x)'
                BY <1>1, <1>3 DEF WorkerFinishing
            <4>2. \A x \in Sessions : x # s /\ activations[x] > 0 => activations'[x] > 0
                BY <1>2
            <4>3. \A x \in Sessions : ActivationUnderWay(x)' => ActivationHasTask(x)
                BY <1>0 DEF TasksHeld, ActivationUnderWay
            <4>4. ASSUME NEW x \in Sessions, x # s, ActivationHasTask(x) PROVE ActivationHasTask(x)'
                <5>1. stranded' = stranded /\ ~WorkerFinishing(x)'
                    BY <1>0, <4>1, <4>4
                <5>2. CASE activations[x] > 0
                    BY <4>2, <4>4, <5>1, <5>2 DEF ActivationHasTask
                <5>3. CASE x \in stranded \/ RequestQueueing(x)
                    BY <2>3, <5>1, <5>3 DEF ActivationHasTask
                <5> QED BY <4>4, <5>2, <5>3 DEF ActivationHasTask
            <4> QED BY <4>3, <4>4
        <3> QED BY <3>1, <3>2
    <2> QED BY <1>b, <1>1, <1>3, <2>2, <2>4 DEF TasksHeld
<1>4. CASE t # Worker
    <2>1. billing'[Worker] = billing[Worker]
        BY <1>1, <1>4 DEF BillingStep
    <2>2. WorkerRunning => billing[Worker].session \in Sessions /\ activations[billing[Worker].session] > 0
        BY DEF TasksHeld
    <2>3. WorkerRunning' => /\ billing'[Worker].session \in Sessions
                      /\ activations'[billing'[Worker].session] > 0
        <3>1. \A x \in Sessions : activations[x] > 0 => activations'[x] > 0
            BY <1>2
        <3> QED BY <2>1, <2>2, <3>1 DEF WorkerRunning
    <2>4. \A x \in Sessions : x # s /\ RequestQueueing(x) => RequestQueueing(x)'
        BY <1>1 DEF RequestQueueing, BillingStep
    <2>5. ActivationUnderWay(s)' => ActivationHasTask(s)'
        <3>1. ASSUME ActivationUnderWay(s), s \notin stranded
              PROVE  activations'[s] > 0 /\ (WorkerFinishing(s)' => activations'[s] > 1)
            <4>1. WorkerFinishing(s) => activations[s] > 0
                BY <2>2 DEF WorkerFinishing, WorkerRunning
            <4>2. activations[s] >= 0
                BY DEF TasksHeld
            <4> QED BY <1>2, <2>1, <4>1, <4>2 DEF WorkerFinishing
        <3> QED BY <1>0, <3>1 DEF ActivationHasTask, ActivationUnderWay
    <2>6. \A x \in Sessions : x # s /\ ActivationUnderWay(x)' => ActivationHasTask(x)'
        BY <1>0, <1>2, <2>1, <2>4
           DEF TasksHeld, ActivationUnderWay, ActivationHasTask, WorkerFinishing
    <2> QED BY <1>b, <2>3, <2>5, <2>6 DEF TasksHeld
<1> QED BY <1>3, <1>4

LEMMA DoneKeepsTasks ==
    ASSUME BillingTypes, TasksHeld, ActivationDone
    PROVE  TasksHeld'
<1> USE BillingActorsFacts
<1>a. WorkerRunning
    BY DEF ActivationDone, WorkerRunning
<1> PICK s \in Sessions : s = billing[Worker].session /\ activations[s] > 0
    BY <1>a DEF TasksHeld
<1>0. /\ UNCHANGED <<pend, stranded>> /\ activations \in [Sessions -> Int]
      /\ activations' = [activations EXCEPT ![s] = @ - 1]
      /\ WorkerFinishing(s) /\ Rests(Worker)
    BY DEF ActivationDone, BillingTypes, WorkerFinishing
<1>1. BillingStep(Worker) /\ billing'[Worker] = AtRest
    BY <1>0, RestsEffect
<1>2. /\ activations'[s] = activations[s] - 1 /\ activations[s] \in Int
      /\ \A x \in Sessions : x # s => activations'[x] = activations[x]
    BY <1>0
<1>3. \A x \in Sessions : activations'[x] >= 0
    BY <1>2 DEF TasksHeld
<1>4. \A x \in Sessions : RequestQueueing(x) => RequestQueueing(x)'
    BY <1>1 DEF RequestQueueing, BillingStep
<1>5. \A x \in Sessions : ~WorkerFinishing(x)'
    BY <1>1 DEF WorkerFinishing, AtRest
<1>6. ActivationUnderWay(s)' => ActivationHasTask(s)'
    <2>1. activations[s] > 1 => activations'[s] > 0
        BY <1>2
    <2> QED BY <1>0, <1>4, <1>5, <2>1 DEF TasksHeld, ActivationUnderWay, ActivationHasTask
<1>7. \A x \in Sessions : x # s /\ ActivationUnderWay(x)' => ActivationHasTask(x)'
    BY <1>0, <1>2, <1>4, <1>5 DEF TasksHeld, ActivationUnderWay, ActivationHasTask
<1> QED BY <1>1, <1>3, <1>6, <1>7 DEF TasksHeld, WorkerRunning, AtRest

LEMMA DeathKeepsTasks ==
    ASSUME BillingTypes, RowsHeld, TasksHeld, NEW t \in BillingActors, BillingDies(t)
    PROVE  TasksHeld'
<1> USE BillingActorsFacts
<1>1. /\ UNCHANGED <<pend, activations>> /\ BillingStep(t) /\ billing'[t] = AtRest
      /\ stranded \subseteq stranded'
      /\ t # Worker /\ billing[t].step = "queueing" => billing[t].session \in stranded'
    BY RestsEffect DEF BillingDies
<1>2. \A s \in Sessions : WorkerFinishing(s)' => WorkerFinishing(s)
    BY <1>1 DEF WorkerFinishing, BillingStep, AtRest
<1>3. \A s \in Sessions : RequestQueueing(s) => RequestQueueing(s)' \/ s \in stranded'
    BY <1>1 DEF RequestQueueing, BillingStep
<1>4. \A s \in Sessions : ActivationUnderWay(s)' => ActivationHasTask(s)'
    BY <1>1, <1>2, <1>3 DEF TasksHeld, ActivationUnderWay, ActivationHasTask
<1>5. WorkerRunning' => WorkerRunning /\ billing'[Worker] = billing[Worker]
    BY <1>1 DEF WorkerRunning, BillingStep, AtRest
<1> QED BY <1>1, <1>4, <1>5 DEF TasksHeld

LEMMA TasksHeldStep ==
    ASSUME BillingTypes, RowsHeld, TasksHeld, BillingNext
    PROVE  TasksHeld'
<1> USE BillingActorsFacts
<1>1. CASE \E s \in Sessions : WorkerClaims(s)
    BY <1>1, ClaimKeepsTasks
<1>2. CASE \E t \in BillingThreads : DeferRequest(t)
    BY <1>2, DeferKeepsTasks
<1>3. CASE WorkerSaves \/ ActivationDone
    BY <1>3, SaveKeepsTasks, DoneKeepsTasks
<1>4. CASE \E t \in BillingActors : QueueActivation(t) \/ BillingDies(t)
    BY <1>4, QueueKeepsTasks, DeathKeepsTasks
<1>5. CASE /\ \A s \in Sessions : ~WorkerClaims(s)
           /\ \A t \in BillingThreads : ~DeferRequest(t)
           /\ ~WorkerSaves /\ ~ActivationDone
           /\ \A t \in BillingActors : ~QueueActivation(t) /\ ~BillingDies(t)
    <2>1. UNCHANGED <<pend, activations, stranded>>
        BY <1>5 DEF BillingNext, Pay, Reserve, CreateSession, SettleCheckout, FindCheckout,
           CancelSession, SaveDiscard, ReopenAttempt, OpenSuccessUrl, AskPendingActivation,
           Preflight, Recheck, CommitActivation, Finalize, CancelAtStripe, AskAccount,
           CopyCancellation, Demote
    <2> QED BY <1>5, <2>1, QuietKeepsTasks
<1> QED BY <1>1, <1>2, <1>3, <1>4, <1>5

-------------------------------------------------------------------------------
(* The whole *)

BillingIInv == BillingTypes /\ KeysHeld /\ Entitled /\ RowsHeld /\ CancellationHeld /\ TasksHeld

LEMMA BillingIInvInit == BillingInit => BillingIInv
<1> SUFFICES ASSUME BillingInit PROVE BillingIInv
    OBVIOUS
<1> USE BillingConstants, BillingActorsFacts
<1>0. /\ \A t \in BillingActors : billing[t] = AtRest
      /\ 1 \in Sessions
    BY DEF BillingInit, Sessions
<1>1. BillingTypes
    BY BillingInitTypes
<1>2. KeysHeld
    BY <1>0 DEF BillingInit, KeysHeld, GoodKeys, AtRest
<1>3. Entitled
    BY <1>0 DEF Entitled, AtRest
<1>4. RowsHeld
    <2>1. \A t \in BillingActors : HandFits(t) /\ ~OnCheckout(t)
        BY <1>0 DEF HandFits, OnCheckout, OnActivation, OfSession, AtRest
    <2>2. \A i \in Sessions : AttemptSettled(i)
        BY <1>0 DEF BillingInit, AttemptSettled
    <2> QED BY <2>1, <2>2 DEF RowsHeld, RowsApart
<1>5. CancellationHeld
    BY <1>0 DEF BillingInit, CancellationHeld, AtRest
<1>6. TasksHeld
    <2>1. \A s \in Sessions : activations[s] >= 0 /\ (ActivationUnderWay(s) => activations[s] > 0)
        BY <1>0 DEF BillingInit, ActivationUnderWay
    <2> QED BY <1>0, <2>1 DEF TasksHeld, WorkerRunning, ActivationHasTask, WorkerFinishing, AtRest
<1> QED BY <1>1, <1>2, <1>3, <1>4, <1>5, <1>6 DEF BillingIInv

LEMMA BillingIInvStep ==
    ASSUME BillingIInv, BillingNext
    PROVE  BillingIInv'
BY BillingKeepsTypes, KeysHeldStep, EntitledStep, RowsHeldStep, CancellationHeldStep, TasksHeldStep
   DEF BillingIInv

LEMMA BillingIInvStutter ==
    ASSUME BillingIInv, UNCHANGED billingVars
    PROVE  BillingIInv'
<1> SUFFICES ASSUME /\ UNCHANGED <<attempt, sub, pend, activations, billing, admins>>
                    /\ UNCHANGED <<session, contract, keys, stranded, overtakenKeys, crossed>>
             PROVE  BillingIInv'
    BY DEF billingVars
<1>1. BillingTypes' /\ KeysHeld' /\ Entitled'
    BY DEF BillingIInv, BillingTypes, KeysHeld, GoodKeys, Entitled
<1>2. RowsHeld'
    BY
       DEF BillingIInv, RowsHeld, HandFits, RowsApart, AttemptSettled, OnCheckout, OnActivation, OfSession
<1>3. CancellationHeld' /\ TasksHeld'
    BY
       DEF BillingIInv, CancellationHeld, Bought, TasksHeld, WorkerRunning, ActivationHasTask, WorkerFinishing, ActivationUnderWay,
       RequestQueueing
<1> QED BY <1>1, <1>2, <1>3 DEF BillingIInv

LEMMA BillingIInvSuffices == BillingIInv => SubscriptionHolds
<1> SUFFICES ASSUME BillingIInv PROVE SubscriptionHolds
    OBVIOUS
<1>1. ActiveKeyWorks
    BY DEF BillingIInv, KeysHeld, GoodKeys, ActiveKeyWorks
<1>2. CanceledIsCanceled
    BY DEF BillingIInv, CancellationHeld, Bought, CanceledIsCanceled
<1>3. UnderWayHasTask
    BY
       DEF BillingIInv, TasksHeld, ActivationHasTask, ActivationUnderWay, RequestQueueing, UnderWayHasTask
<1>4. OnlyAdminsActivate
    BY DEF BillingIInv, Entitled, OnlyAdminsActivate
<1> QED BY <1>1, <1>2, <1>3, <1>4 DEF SubscriptionHolds

\* What the rows say of the subscription is so, and those who may have it so made it.
THEOREM SubscriptionKept == BillingSpec => []SubscriptionHolds
<1>1. BillingIInv /\ [BillingNext]_billingVars => BillingIInv'
    BY BillingIInvStep, BillingIInvStutter
<1> QED BY BillingIInvInit, <1>1, BillingIInvSuffices, PTL DEF BillingSpec

-------------------------------------------------------------------------------
(* Media jobs *)

\* Runs of the task that have not called the webhook yet, the current one included.
RunsToCome ==
    IF step \in {"answered", "refused", "requeue", "requeued"} THEN mediaTasks - 1 ELSE mediaTasks

\* Retries that put another task into the queue: the last one does not.
Requeues == IF job.retries < MaxMediaRetries THEN job.retries ELSE MaxMediaRetries - 1

MediaTypes ==
    /\ job = [status |-> job.status, retries |-> job.retries] /\ job.retries \in Nat
    /\ mediaTasks \in Nat /\ calls \in Nat /\ accidents \in Nat
    /\ step \in {"none", "call", "answered", "refused", "requeue", "requeued"}

\* A running task is in the queue, the one it queued beside it; nobody writes the count
\* of retries that it has read.
RunningIsQueued ==
    /\ step # "none" => mediaTasks > 0
    /\ step = "requeued" => mediaTasks > 1
    /\ step \in {"call", "answered", "refused"} => seen = job.retries
    /\ step = "requeue" => job.retries < MaxMediaRetries
    /\ job.status \in {"queued", "processing"} => mediaTasks > 0

\* Calls made and calls to come are paid for by the first task, the requeues and the
\* accidents.
CallsPaidFor ==
    calls + RunsToCome + (IF step = "requeue" THEN 1 ELSE 0) <= 1 + Requeues + accidents

MediaInv == MediaTypes /\ RunningIsQueued /\ CallsPaidFor

LEMMA MediaInvInit == MediaInit => MediaInv
BY MediaConstants DEF MediaInit, MediaInv, MediaTypes, RunningIsQueued, CallsPaidFor, RunsToCome,
                      Requeues

LEMMA MediaNextKeeps == MediaInv /\ [MediaNext]_mediaVars => MediaInv'
<1> SUFFICES ASSUME MediaInv, [MediaNext]_mediaVars PROVE MediaInv'
    OBVIOUS
<1> USE MediaConstants DEF MediaInv, MediaTypes, RunningIsQueued, CallsPaidFor, RunsToCome, Requeues
<1>0. job' = job => job'.retries = job.retries /\ job'.status = job.status
    OBVIOUS
<1>1. ASSUME NEW yes \in BOOLEAN, StartJob(yes) PROVE MediaInv'
    <2>1. PICK s : job' = [job EXCEPT !.status = s]
        BY <1>1 DEF StartJob
    <2>2. job'.retries = job.retries /\ job' = [status |-> job'.status, retries |-> job'.retries]
        BY <2>1
    <2>3. CASE yes
        BY <1>1, <2>2, <2>3 DEF StartJob
    <2>4. CASE ~yes
        <3>1. job'.status = "waiting_provider"
            BY <1>1, <2>4 DEF StartJob
        <3> QED BY <1>1, <2>2, <2>4, <3>1 DEF StartJob
    <2> QED BY <2>3, <2>4
<1>2. ASSUME NEW yes \in BOOLEAN, CallWebhook(yes) PROVE MediaInv'
    BY <1>0, <1>2 DEF CallWebhook
<1>3. ASSUME NEW s \in JobStatuses, SaveAnswer(s) PROVE MediaInv'
    <2>1. job' = [job EXCEPT !.status = s] /\ s \in {"ready_for_review", "waiting_provider"}
        BY <1>3 DEF SaveAnswer
    <2>2. /\ job'.retries = job.retries /\ job'.status = s
          /\ job' = [status |-> job'.status, retries |-> job'.retries]
        BY <2>1
    <2> QED BY <1>3, <2>1, <2>2 DEF SaveAnswer
<1>4. CASE SaveRefusal
    <2>1. /\ job'.retries = job.retries + 1
          /\ job' = [status |-> job'.status, retries |-> job'.retries]
          /\ step = "refused"
          /\ UNCHANGED <<seen, calls, accidents>>
        BY <1>4 DEF SaveRefusal
    <2>2. CASE GivesUp(job.retries + 1)
        <3>1. job'.status = "failed" /\ step' = "none" /\ mediaTasks' = mediaTasks - 1
            BY <1>4, <2>1, <2>2 DEF SaveRefusal
        <3> QED BY <2>1, <2>2, <3>1 DEF GivesUp
    <2>3. CASE ~GivesUp(job.retries + 1)
        <3>1. step' = "requeue" /\ mediaTasks' = mediaTasks
            BY <1>4, <2>1, <2>3 DEF SaveRefusal
        <3> QED BY <2>1, <2>3, <3>1 DEF GivesUp
    <2> QED BY <2>2, <2>3
<1>5. CASE Requeue
    BY <1>0, <1>5 DEF Requeue
<1>6. CASE TaskDone
    BY <1>0, <1>6 DEF TaskDone
<1>7. CASE RunAgain
    BY <1>0, <1>7 DEF RunAgain, Accident
<1>8. CASE UNCHANGED mediaVars
    BY <1>0, <1>8 DEF mediaVars
<1> QED BY <1>1, <1>2, <1>3, <1>4, <1>5, <1>6, <1>7, <1>8 DEF MediaNext

LEMMA MediaInvBounds == MediaInv => MediaCallsBounded
BY MediaConstants DEF MediaInv, MediaTypes, RunningIsQueued, CallsPaidFor, RunsToCome, Requeues,
                      MediaCallsBounded

\* Whatever the retries, deaths and answers, the webhook of the operator is called once
\* per retry and accident, and a job that may be tried again has a task to do it.
THEOREM MediaCallsStayBounded == MediaSpec => []MediaCallsBounded
BY MediaInvInit, MediaNextKeeps, MediaInvBounds, PTL DEF MediaSpec

-------------------------------------------------------------------------------
(* Campaigns *)

CampaignTypes ==
    /\ \A d \in draft \cup edit : d = [key |-> d.key, flagged |-> d.flagged, posted |-> d.posted]
    /\ \A d \in draft \cup edit : d.key \in DraftKeys /\ d.key[1] <= generation
    /\ \A d, e \in draft : d.key = e.key => d = e
    /\ \A d \in draft : d.posted \in BOOLEAN
    /\ approval = [t \in Approvers |-> approval[t]]
    /\ \A t \in Approvers : approval[t] = [step |-> approval[t].step, list |-> approval[t].list]
    /\ \A t \in Approvers : approval[t].step # "listed" => approval[t].list = {}
    /\ posts \in [DraftKeys -> Nat]
    /\ generation \in 0..MaxGenerations /\ tasks \in Nat
    /\ worker # "none" => tasks > 0

\* A draft that became a post says so; one that an approval is about to make a post of
\* has none.
PostsShown ==
    /\ \A k \in DraftKeys \ raced : posts[k] <= 1
    /\ \A k \in DraftKeys \ raced : posts[k] > 0 => \E d \in draft : d.key = k /\ d.posted
    /\ \A t \in Approvers : \A d \in approval[t].list :
          ~d.posted /\ d.key \in DraftKeys \ raced => posts[d.key] = 0

\* Beside a post there is no later draft, and no request for one, unless an approval
\* was overtaken.
LaterIsOvertaken ==
    /\ \A d \in draft : d.posted /\ (tasks > 0 \/ request # "none") => overtaken
    /\ \A d \in draft : \A e \in draft \cup edit : d.posted /\ d.key[1] < e.key[1] => overtaken

CampaignInv == CampaignTypes /\ PostsShown /\ LaterIsOvertaken

LEMMA CampaignInvInit == CampaignInit => CampaignInv
<1> SUFFICES ASSUME CampaignInit PROVE CampaignInv
    OBVIOUS
<1>1. CampaignTypes
    BY CampaignConstants DEF CampaignInit, CampaignTypes, NoApproval
<1>2. PostsShown
    BY DEF CampaignInit, PostsShown, NoApproval
<1> QED BY <1>1, <1>2 DEF CampaignInit, CampaignInv, LaterIsOvertaken

LEMMA KeysOfDrafts ==
    /\ \A k \in DraftKeys : k[1] \in 1..MaxGenerations /\ k[2] \in Items
    /\ \A k \in DraftKeys : k[1] \in Int
    /\ \A g \in 1..MaxGenerations : \A i \in Items :
          <<g, i>> \in DraftKeys /\ <<g, i>>[1] = g
BY CampaignConstants DEF DraftKeys

\* Asking, failing, dying and recording leave the drafts and approvals alone.
LEMMA AskingKeeps ==
    ASSUME CampaignInv,
           \/ RegenerateCheck \/ RegenerateSave \/ QueueGeneration \/ RequestDies
           \/ Ask \/ Refused \/ RecordUsage \/ WorkerDies
           \/ (\E i \in Items : ToggleAccount(i)) \/ UNCHANGED campaignVars
    PROVE  CampaignInv'
<1>1. UNCHANGED <<draft, edit, approval, generation, posts, raced, overtaken>>
    BY DEF RegenerateCheck, RegenerateSave, QueueGeneration, RequestDies, Ask, Refused,
           RecordUsage, WorkerDies, ToggleAccount, campaignVars
<1>2. tasks' \in Nat /\ (worker' # "none" => tasks' > 0)
    BY DEF CampaignInv, CampaignTypes, RegenerateCheck, RegenerateSave, QueueGeneration,
           RequestDies, Ask, Refused, RecordUsage, WorkerDies, ToggleAccount, campaignVars
<1>3. CampaignTypes'
    BY <1>1, <1>2 DEF CampaignInv, CampaignTypes
<1>4. PostsShown'
    BY <1>1 DEF CampaignInv, PostsShown
<1>5. (\E d \in draft : d.posted) /\ (tasks' > 0 \/ request' # "none") => overtaken
    BY DEF CampaignInv, CampaignTypes, LaterIsOvertaken,
           RegenerateCheck, MayRegenerate, RegenerateSave, QueueGeneration,
           RequestDies, Ask, Refused, RecordUsage, WorkerDies, ToggleAccount, campaignVars
<1>6. LaterIsOvertaken'
    BY <1>1, <1>5 DEF CampaignInv, LaterIsOvertaken
<1> QED BY <1>3, <1>4, <1>6 DEF CampaignInv

LEMMA PersistKeeps ==
    ASSUME CampaignInv, NEW flagged \in SUBSET Items, Persist(flagged)
    PROVE  CampaignInv'
<1> DEFINE fresh == {Row(<<generation', i>>, i \in flagged) : i \in Items}
<1>1. /\ draft' = {d \in draft : d.posted} \cup fresh
      /\ generation' = generation + 1 /\ generation' \in 1..MaxGenerations
      /\ tasks > 0 /\ UNCHANGED <<request, tasks, approval, edit, posts, raced, overtaken>>
    BY CampaignConstants DEF Persist, CampaignInv, CampaignTypes
<1>2. \A e \in fresh : /\ e = [key |-> e.key, flagged |-> e.flagged, posted |-> e.posted]
                       /\ e.posted = FALSE
                       /\ \E i \in Items : e.key = <<generation', i>> /\ e = Row(<<generation', i>>, i \in flagged)
    BY DEF Row
<1>3. \A e \in fresh : e.key \in DraftKeys /\ e.key[1] = generation + 1
    <2> SUFFICES ASSUME NEW e \in fresh PROVE e.key \in DraftKeys /\ e.key[1] = generation + 1
        OBVIOUS
    <2>1. PICK i \in Items : e.key = <<generation', i>>
        BY <1>2
    <2> HIDE DEF fresh
    <2>2. <<generation', i>> \in DraftKeys /\ <<generation', i>>[1] = generation'
        BY <1>1, KeysOfDrafts
    <2> QED BY <1>1, <2>1, <2>2
<1>4. \A d \in draft \cup edit : d.key \in DraftKeys /\ d.key[1] \in Int /\ d.key[1] <= generation
    BY KeysOfDrafts DEF CampaignInv, CampaignTypes
<1>5. generation \in Nat
    BY CampaignConstants DEF CampaignInv, CampaignTypes
<1>6. \A d, e \in fresh : d.key = e.key => d = e
    <2> SUFFICES ASSUME NEW d \in fresh, NEW e \in fresh, d.key = e.key PROVE d = e
        OBVIOUS
    <2>1. PICK i \in Items : d.key = <<generation', i>> /\ d = Row(<<generation', i>>, i \in flagged)
        BY <1>2
    <2>2. PICK j \in Items : e.key = <<generation', j>> /\ e = Row(<<generation', j>>, j \in flagged)
        BY <1>2
    <2>3. i = j
        <3>1. d.key[2] = i
            BY <2>1
        <3>2. e.key[2] = j
            BY <2>2
        <3> QED BY <3>1, <3>2
    <2> QED BY <2>1, <2>2, <2>3
<1> HIDE DEF fresh
<1>7. \A d \in draft : \A e \in fresh : d.key # e.key
    BY <1>3, <1>4, <1>5
<1>8. CampaignTypes'
    <2>1. \A d \in draft' \cup edit' :
             /\ d = [key |-> d.key, flagged |-> d.flagged, posted |-> d.posted]
             /\ d.key \in DraftKeys /\ d.key[1] <= generation'
        BY <1>1, <1>2, <1>3, <1>4, <1>5 DEF CampaignInv, CampaignTypes
    <2>2. \A d, e \in draft' : d.key = e.key => d = e
        BY <1>1, <1>6, <1>7 DEF CampaignInv, CampaignTypes
    <2>3. \A d \in draft' : d.posted \in BOOLEAN
        BY <1>1, <1>2 DEF CampaignInv, CampaignTypes
    <2>4. generation' \in 0..MaxGenerations
        BY <1>1
    <2> QED BY <1>1, <2>1, <2>2, <2>3, <2>4 DEF CampaignInv, CampaignTypes
<1>9. PostsShown'
    BY <1>1 DEF CampaignInv, PostsShown
<1>10. LaterIsOvertaken'
    <2>1. \A d \in draft' : d.posted => d \in draft /\ overtaken
        BY <1>1, <1>2 DEF CampaignInv, LaterIsOvertaken
    <2> QED BY <1>1, <2>1 DEF LaterIsOvertaken
<1> QED BY <1>8, <1>9, <1>10 DEF CampaignInv

\* An approval moves to a next step.
LEMMA ApprovalBecomes ==
    ASSUME CampaignInv, NEW t \in Approvers, NEW s, NEW list,
           approval' = [approval EXCEPT ![t] = [step |-> s, list |-> list]],
           s # "listed" => list = {}
    PROVE  /\ approval' = [x \in Approvers |-> approval'[x]]
           /\ \A x \in Approvers : approval'[x] = [step |-> approval'[x].step, list |-> approval'[x].list]
           /\ \A x \in Approvers : approval'[x].step # "listed" => approval'[x].list = {}
           /\ \A x \in Approvers \ {t} : approval'[x] = approval[x]
           /\ approval'[t].list = list
BY DEF CampaignInv, CampaignTypes

LEMMA ApprovalBeginsKeeps ==
    ASSUME CampaignInv, NEW t \in Approvers, ApproveCheck(t) \/ ApproveList(t)
    PROVE  CampaignInv'
<1>1. UNCHANGED <<draft, edit, request, tasks, worker, generation, posts, raced, overtaken>>
    BY DEF ApproveCheck, ApproveList
<1>2. \E s, list : /\ approval' = [approval EXCEPT ![t] = [step |-> s, list |-> list]]
                   /\ s # "listed" => list = {}
                   /\ list \in {{}, draft}
    <2>1. ASSUME ApproveCheck(t)
          PROVE  approval' = [approval EXCEPT ![t] = [step |-> "checked", list |-> {}]]
        <3>1. [approval[t] EXCEPT !.step = "checked"] = [step |-> "checked", list |-> {}]
            BY <2>1 DEF ApproveCheck, NoApproval
        <3> QED BY <2>1, <3>1 DEF ApproveCheck
    <2>2. ASSUME ApproveList(t)
          PROVE  \/ approval' = [approval EXCEPT ![t] = [step |-> "none", list |-> {}]]
                 \/ approval' = [approval EXCEPT ![t] = [step |-> "listed", list |-> draft]]
        BY <2>2 DEF ApproveList, NoApproval
    <2> QED BY <2>1, <2>2
<1>3. PICK s, list : /\ approval' = [approval EXCEPT ![t] = [step |-> s, list |-> list]]
                     /\ s # "listed" => list = {}
                     /\ list \in {{}, draft}
    BY <1>2
<1>4. /\ approval' = [x \in Approvers |-> approval'[x]]
      /\ \A x \in Approvers : approval'[x] = [step |-> approval'[x].step, list |-> approval'[x].list]
      /\ \A x \in Approvers : approval'[x].step # "listed" => approval'[x].list = {}
      /\ \A x \in Approvers \ {t} : approval'[x] = approval[x]
      /\ approval'[t].list = list
    BY <1>3, ApprovalBecomes
<1>5. CampaignTypes'
    BY <1>1, <1>4 DEF CampaignInv, CampaignTypes
<1>6. \A d \in draft : ~d.posted /\ d.key \in DraftKeys \ raced => posts[d.key] = 0
    <2> SUFFICES ASSUME NEW d \in draft, ~d.posted, d.key \in DraftKeys \ raced, posts[d.key] # 0
                 PROVE  FALSE
        OBVIOUS
    <2>1. posts[d.key] > 0
        BY DEF CampaignInv, CampaignTypes
    <2>2. PICK e \in draft : e.key = d.key /\ e.posted
        BY <2>1 DEF CampaignInv, PostsShown
    <2> QED BY <2>2 DEF CampaignInv, CampaignTypes
<1>7. PostsShown'
    BY <1>1, <1>3, <1>4, <1>6 DEF CampaignInv, PostsShown
<1>8. LaterIsOvertaken'
    BY <1>1 DEF CampaignInv, LaterIsOvertaken
<1> QED BY <1>5, <1>7, <1>8 DEF CampaignInv

LEMMA ApproveCommitKeeps ==
    ASSUME CampaignInv, NEW t \in Approvers, ApproveCommit(t)
    PROVE  CampaignInv'
<1> DEFINE list == approval[t].list
           wanted == {d.key : d \in ToMake(list)}
           made == {k \in wanted : k[2] \in connected}
           others == {x \in Approvers \ {t} : approval[x].step = "listed"}
           rows == {d.key : d \in draft}
           After(d) == IF d.key \in made THEN [d EXCEPT !.posted = TRUE] ELSE d
<1>1. /\ approval' = [approval EXCEPT ![t] = [step |-> "none", list |-> {}]]
      /\ UNCHANGED <<request, tasks, worker, edit, generation>>
    BY DEF ApproveCommit, NoApproval
<1>2. /\ approval' = [x \in Approvers |-> approval'[x]]
      /\ \A x \in Approvers : approval'[x] = [step |-> approval'[x].step, list |-> approval'[x].list]
      /\ \A x \in Approvers : approval'[x].step # "listed" => approval'[x].list = {}
      /\ \A x \in Approvers \ {t} : approval'[x] = approval[x]
      /\ approval'[t].list = {}
    BY <1>1, ApprovalBecomes
<1>3. ASSUME UNCHANGED <<draft, posts, raced, overtaken>> PROVE CampaignInv'
    <2>1. CampaignTypes'
        BY <1>1, <1>2, <1>3 DEF CampaignInv, CampaignTypes
    <2>2. PostsShown'
        BY <1>2, <1>3 DEF CampaignInv, PostsShown
    <2>3. LaterIsOvertaken'
        BY <1>1, <1>3 DEF CampaignInv, LaterIsOvertaken
    <2> QED BY <2>1, <2>2, <2>3 DEF CampaignInv
<1>4. ASSUME wanted \subseteq rows PROVE CampaignInv'
    <2>1. /\ draft' = {After(d) : d \in draft}
          /\ posts' = [k \in DraftKeys |-> posts[k] + Cardinality({k} \cap made)]
          /\ raced' = raced \cup {k \in made : \E x \in others :
                                     \E d \in approval[x].list : d.key = k /\ ~d.posted}
          /\ overtaken' = (\/ overtaken \/ tasks > 0 \/ request # "none"
                           \/ \E k \in made : k[1] < generation)
        BY <1>4 DEF ApproveCommit
    <2>2. \A k \in made : /\ \E d \in list : d.key = k /\ ~d.posted
                          /\ \E d \in draft : d.key = k
        BY <1>4 DEF ToMake
    <2>3. \A d \in draft : /\ After(d).key = d.key
                           /\ After(d) = [key |-> d.key, flagged |-> d.flagged, posted |-> After(d).posted]
                           /\ After(d).posted \in BOOLEAN
                           /\ d.key \in made => After(d).posted
                           /\ d.key \notin made => After(d) = d
        <3> SUFFICES ASSUME NEW d \in draft
                     PROVE  /\ After(d).key = d.key
                            /\ After(d) = [key |-> d.key, flagged |-> d.flagged, posted |-> After(d).posted]
                            /\ After(d).posted \in BOOLEAN
                            /\ d.key \in made => After(d).posted
                            /\ d.key \notin made => After(d) = d
            OBVIOUS
        <3>1. d = [key |-> d.key, flagged |-> d.flagged, posted |-> d.posted] /\ d.posted \in BOOLEAN
            BY DEF CampaignInv, CampaignTypes
        <3> HIDE DEF made
        <3>2. CASE d.key \in made
            <4>1. After(d) = [key |-> d.key, flagged |-> d.flagged, posted |-> TRUE]
                BY <3>1, <3>2
            <4> HIDE DEF After
            <4> QED BY <3>2, <4>1
        <3>3. CASE d.key \notin made
            <4>1. After(d) = d
                BY <3>3
            <4> HIDE DEF After
            <4> QED BY <3>1, <3>3, <4>1
        <3> QED BY <3>2, <3>3
    <2>4. \A k \in DraftKeys :
             /\ k \in made => posts'[k] = posts[k] + 1
             /\ k \notin made => posts'[k] = posts[k]
        <3>1. \A k : /\ k \in made => {k} \cap made = {k}
                     /\ k \notin made => {k} \cap made = {}
            OBVIOUS
        <3>2. Cardinality({}) = 0 /\ \A k : Cardinality({k}) = 1
            BY FS_EmptySet, FS_Singleton
        <3>3. \A k \in DraftKeys : posts[k] \in Nat
            BY DEF CampaignInv, CampaignTypes
        <3>4. \A k \in DraftKeys : posts'[k] = posts[k] + Cardinality({k} \cap made)
            BY <2>1
        <3> HIDE DEF made
        <3>5. ASSUME NEW k \in DraftKeys, k \in made PROVE posts'[k] = posts[k] + 1
            <4>1. {k} \cap made = {k}
                BY <3>1, <3>5
            <4>2. Cardinality({k} \cap made) = 1
                BY <3>2, <4>1
            <4> QED BY <3>4, <4>2
        <3>6. ASSUME NEW k \in DraftKeys, k \notin made PROVE posts'[k] = posts[k]
            <4>1. {k} \cap made = {}
                BY <3>1, <3>6
            <4>2. Cardinality({k} \cap made) = 0
                BY <3>2, <4>1
            <4> QED BY <3>3, <3>4, <4>2
        <3> QED BY <3>5, <3>6
    <2>5. \A e \in draft' : \E d \in draft : e = After(d)
        BY <2>1
    <2>6. \A d \in draft : After(d) \in draft'
        BY <2>1
    <2> HIDE DEF After, made, wanted, rows
    <2>7. CampaignTypes'
        <3>1. \A d \in draft' \cup edit' :
                 /\ d = [key |-> d.key, flagged |-> d.flagged, posted |-> d.posted]
                 /\ d.key \in DraftKeys /\ d.key[1] <= generation'
            <4>1. \A d \in draft' : /\ d = [key |-> d.key, flagged |-> d.flagged, posted |-> d.posted]
                                    /\ d.key \in DraftKeys /\ d.key[1] <= generation
                BY <2>3, <2>5 DEF CampaignInv, CampaignTypes
            <4> QED BY <1>1, <4>1 DEF CampaignInv, CampaignTypes
        <3>2. \A d, e \in draft' : d.key = e.key => d = e
            <4> SUFFICES ASSUME NEW d \in draft', NEW e \in draft', d.key = e.key PROVE d = e
                OBVIOUS
            <4>1. PICK a \in draft : d = After(a)
                BY <2>5
            <4>2. PICK b \in draft : e = After(b)
                BY <2>5
            <4>3. a.key = b.key
                BY <2>3, <4>1, <4>2
            <4>4. a = b
                BY <4>3 DEF CampaignInv, CampaignTypes
            <4> QED BY <4>1, <4>2, <4>4
        <3>3. \A d \in draft' : d.posted \in BOOLEAN
            BY <2>3, <2>5
        <3>4. posts' \in [DraftKeys -> Nat]
            <4>1. \A k \in DraftKeys : posts'[k] \in Nat
                BY <2>4 DEF CampaignInv, CampaignTypes
            <4> QED BY <2>1, <4>1
        <3> QED BY <1>1, <1>2, <3>1, <3>2, <3>3, <3>4 DEF CampaignInv, CampaignTypes
    <2>8. PostsShown'
        <3>1. \A k \in made \ raced : posts[k] = 0 /\ k \in DraftKeys
            <4> SUFFICES ASSUME NEW k \in made \ raced PROVE posts[k] = 0 /\ k \in DraftKeys
                OBVIOUS
            <4>1. PICK d \in list : d.key = k /\ ~d.posted
                BY <2>2
            <4>2. k \in DraftKeys
                BY <2>2 DEF CampaignInv, CampaignTypes
            <4> QED BY <4>1, <4>2 DEF CampaignInv, PostsShown
        <3>2. raced \subseteq raced'
            BY <2>1
        <3>3. \A k \in DraftKeys \ raced' : posts'[k] <= 1
            BY <2>4, <3>1, <3>2 DEF CampaignInv, PostsShown
        <3>4. ASSUME NEW k \in DraftKeys \ raced', posts'[k] > 0
              PROVE  \E d \in draft' : d.key = k /\ d.posted
            <4>1. CASE k \in made
                <5>1. PICK d \in draft : d.key = k
                    BY <2>2, <4>1
                <5> QED BY <2>3, <2>6, <4>1, <5>1
            <4>2. CASE k \notin made
                <5>1. posts[k] > 0 /\ k \notin raced
                    BY <2>4, <3>2, <3>4, <4>2
                <5>2. PICK d \in draft : d.key = k /\ d.posted
                    BY <5>1 DEF CampaignInv, PostsShown
                <5> QED BY <2>3, <2>6, <4>2, <5>2
            <4> QED BY <4>1, <4>2
        <3>5. ASSUME NEW x \in Approvers, NEW d \in approval'[x].list,
                     ~d.posted, d.key \in DraftKeys \ raced'
              PROVE  posts'[d.key] = 0
            <4>1. x # t /\ d \in approval[x].list
                BY <1>2, <3>5
            <4>2. x \in others
                BY <4>1 DEF CampaignInv, CampaignTypes
            <4>3. d.key \notin made
                BY <2>1, <3>5, <4>1, <4>2
            <4>4. posts[d.key] = 0
                BY <3>2, <3>5, <4>1 DEF CampaignInv, PostsShown
            <4> QED BY <2>4, <3>5, <4>3, <4>4
        <3> QED BY <3>3, <3>4, <3>5 DEF PostsShown
    <2>9. LaterIsOvertaken'
        <3>1. ASSUME NEW e \in draft', e.posted, ~overtaken'
              PROVE  /\ ~(tasks > 0 \/ request # "none")
                     /\ \/ e \in draft
                        \/ e.key[1] >= generation
            <4>1. PICK d \in draft : e = After(d)
                BY <2>5
            <4>2. ~(tasks > 0) /\ request = "none" /\ \A k \in made : ~(k[1] < generation)
                BY <2>1, <3>1
            <4>3. d.key \in DraftKeys /\ d.key[1] \in Int /\ generation \in Int
                BY KeysOfDrafts, CampaignConstants DEF CampaignInv, CampaignTypes
            <4> QED BY <2>3, <4>1, <4>2, <4>3
        <3>2. \A d \in draft' \cup edit : /\ d.key[1] \in Int /\ d.key[1] <= generation
                                          /\ \E a \in draft \cup edit : a.key = d.key
            <4>1. \A d \in draft \cup edit : d.key[1] \in Int /\ d.key[1] <= generation
                BY KeysOfDrafts DEF CampaignInv, CampaignTypes
            <4> QED BY <2>3, <2>5, <4>1
        <3>3. generation \in Int
            BY CampaignConstants DEF CampaignInv, CampaignTypes
        <3>4. ASSUME NEW d \in draft', NEW e \in draft' \cup edit, d.posted, d.key[1] < e.key[1],
                     ~overtaken'
              PROVE  FALSE
            <4>1. d \in draft
                BY <3>1, <3>2, <3>3, <3>4
            <4>2. PICK a \in draft \cup edit : a.key = e.key
                BY <3>2
            <4>3. overtaken
                BY <3>4, <4>1, <4>2 DEF CampaignInv, LaterIsOvertaken
            <4> QED BY <2>1, <3>4, <4>3
        <3> QED BY <1>1, <3>1, <3>4 DEF LaterIsOvertaken
    <2> QED BY <2>7, <2>8, <2>9 DEF CampaignInv
<1> QED BY <1>3, <1>4 DEF ApproveCommit

LEMMA EditKeeps ==
    ASSUME CampaignInv,
           (\E d \in draft : EditDraft(d)) \/ \E flagged \in BOOLEAN : SaveDraft(flagged)
    PROVE  CampaignInv'
<1>1. ASSUME NEW d \in draft, EditDraft(d) PROVE CampaignInv'
    <2>1. /\ edit' = {d}
          /\ UNCHANGED <<draft, request, tasks, worker, approval, generation, posts, raced, overtaken>>
        BY <1>1 DEF EditDraft
    <2>2. CampaignTypes'
        BY <2>1 DEF CampaignInv, CampaignTypes
    <2> QED BY <2>1, <2>2 DEF CampaignInv, PostsShown, LaterIsOvertaken
<1>2. ASSUME NEW flagged \in BOOLEAN, SaveDraft(flagged) PROVE CampaignInv'
    <2>1. PICK d \in edit :
              /\ draft' = {x \in draft : x.key # d.key} \cup {Row(d.key, flagged)}
              /\ raced' = IF \E x \in draft : x.key = d.key /\ x.posted THEN raced \cup {d.key} ELSE raced
              /\ edit' = {}
              /\ UNCHANGED <<request, tasks, worker, approval, generation, posts, overtaken>>
        BY <1>2 DEF SaveDraft
    <2>2. \A x \in draft' : (x \in draft /\ x.key # d.key) \/ x = Row(d.key, flagged)
        BY <2>1
    <2>3. PICK new : new = Row(d.key, flagged)
        OBVIOUS
    <2>4. /\ new.key = d.key /\ new.posted = FALSE
          /\ new = [key |-> new.key, flagged |-> new.flagged, posted |-> new.posted]
        BY <2>3 DEF Row
    <2>5. d.key \in DraftKeys /\ d.key[1] <= generation
        BY DEF CampaignInv, CampaignTypes
    <2>6. CampaignTypes'
        BY <2>1, <2>2, <2>3, <2>4, <2>5 DEF CampaignInv, CampaignTypes
    <2>7. PostsShown'
        <3>1. raced \subseteq raced'
            BY <2>1
        <3>2. ASSUME NEW k \in DraftKeys \ raced', posts[k] > 0
              PROVE  \E x \in draft' : x.key = k /\ x.posted
            <4>1. PICK x \in draft : x.key = k /\ x.posted
                BY <3>1, <3>2 DEF CampaignInv, PostsShown
            <4>2. k # d.key
                BY <2>1, <3>2, <4>1
            <4> QED BY <2>1, <4>1, <4>2
        <3> QED BY <2>1, <3>1, <3>2 DEF CampaignInv, PostsShown
    <2>8. LaterIsOvertaken'
        <3>1. \A x \in draft' : x.posted => x \in draft
            BY <2>2, <2>3, <2>4
        <3>2. \A x \in draft' : \E y \in draft \cup edit : y.key = x.key
            BY <2>2, <2>3, <2>4
        <3> QED BY <2>1, <3>1, <3>2 DEF CampaignInv, LaterIsOvertaken
    <2> QED BY <2>6, <2>7, <2>8 DEF CampaignInv
<1> QED BY <1>1, <1>2

LEMMA CampaignNextKeeps == CampaignInv /\ [CampaignNext]_campaignVars => CampaignInv'
<1> SUFFICES ASSUME CampaignInv, [CampaignNext]_campaignVars PROVE CampaignInv'
    OBVIOUS
<1> QED BY AskingKeeps, PersistKeeps, ApprovalBeginsKeeps, ApproveCommitKeeps, EditKeeps
        DEF CampaignNext

LEMMA CampaignInvHolds == CampaignInv => CampaignIsSound
BY DEF CampaignInv, PostsShown, LaterIsOvertaken, CampaignIsSound, OnePostPerDraft,
       RegenerationStopsAtComposer

\* Whatever the items, approvers and generations, a draft becomes one post, and drafts of
\* a later generation do not come beside posts of an earlier one, but for the named races.
THEOREM CampaignStaysSound == CampaignSpec => []CampaignIsSound
BY CampaignInvInit, CampaignNextKeeps, CampaignInvHolds, PTL DEF CampaignSpec

-------------------------------------------------------------------------------
(* Generations: sequences *)

\* A finite set in the order of a rank that tells its members apart has each of them once.
LEMMA OrderedEnumerates ==
    ASSUME NEW S, IsFiniteSet(S), NEW rank, \A x \in S : rank[x] \in Int,
           \A x, y \in S : rank[x] = rank[y] => x = y
    PROVE  /\ Cardinality(S) \in Nat /\ DOMAIN Ordered(S, rank) = 1..Cardinality(S)
           /\ \A n \in 1..Cardinality(S) : Ordered(S, rank)[n] \in S
           /\ \A n, m \in 1..Cardinality(S) : Ordered(S, rank)[n] = Ordered(S, rank)[m] => n = m
<1> DEFINE Upto(x) == {y \in S : rank[y] <= rank[x]}
           size == Cardinality(S)
           pos == [x \in S |-> Cardinality(Upto(x))]
<1>1. size \in Nat
    BY FS_CardinalityType
<1>2. \A x \in S : /\ IsFiniteSet(Upto(x)) /\ Cardinality(Upto(x)) \in Nat
                   /\ Cardinality(Upto(x)) <= size
    <2> SUFFICES ASSUME NEW x \in S
                 PROVE  /\ IsFiniteSet(Upto(x)) /\ Cardinality(Upto(x)) \in Nat
                        /\ Cardinality(Upto(x)) <= size
        OBVIOUS
    <2>1. Upto(x) \in SUBSET S
        OBVIOUS
    <2> HIDE DEF Upto
    <2> QED BY <2>1, FS_Subset, FS_CardinalityType
<1>3. \A x \in S : Cardinality(Upto(x)) # 0
    <2> SUFFICES ASSUME NEW x \in S PROVE Cardinality(Upto(x)) # 0
        OBVIOUS
    <2>1. x \in Upto(x)
        OBVIOUS
    <2> HIDE DEF Upto
    <2> QED BY <1>2, <2>1, FS_EmptySet
<1>4. ASSUME NEW x \in S, NEW y \in S, rank[x] < rank[y] PROVE pos[x] # pos[y]
    <2>1. Upto(x) \in SUBSET Upto(y) /\ y \in Upto(y) /\ y \notin Upto(x)
        BY <1>4
    <2>2. IsFiniteSet(Upto(y))
        BY <1>2
    <2>3. pos[x] = Cardinality(Upto(x)) /\ pos[y] = Cardinality(Upto(y))
        OBVIOUS
    <2> HIDE DEF Upto, pos
    <2> QED BY <2>1, <2>2, <2>3, FS_Subset
<1>5. pos \in [S -> 1..size]
    <2>1. \A x \in S : pos[x] = Cardinality(Upto(x))
        OBVIOUS
    <2> HIDE DEF Upto
    <2>2. \A x \in S : Cardinality(Upto(x)) \in 1..size
        BY <1>1, <1>2, <1>3
    <2> QED BY <2>2
<1>6. \A x, y \in S : pos[x] = pos[y] => x = y
    <2> HIDE DEF pos
    <2> SUFFICES ASSUME NEW x \in S, NEW y \in S, x # y PROVE pos[x] # pos[y]
        OBVIOUS
    <2>1. rank[x] < rank[y] \/ rank[y] < rank[x]
        OBVIOUS
    <2> QED BY <1>4, <2>1
<1> HIDE DEF pos
<1>7. pos \in Injection(S, 1..size)
    BY <1>5, <1>6 DEF Injection, IsInjective
<1>8. IsFiniteSet(1..size) /\ Cardinality(1..size) = size
    BY <1>1, FS_Interval
<1>9. pos \in Surjection(S, 1..size)
    BY <1>7, <1>8, FS_Injection
<1>10. \A n \in 1..size : \E x \in S : pos[x] = n
    BY <1>9 DEF Surjection
<1>11. \A x \in S : pos[x] = Cardinality({y \in S : rank[y] <= rank[x]})
    BY DEF pos
<1>12. \A n \in 1..size : Ordered(S, rank)[n] \in S /\ pos[Ordered(S, rank)[n]] = n
    <2> SUFFICES ASSUME NEW n \in 1..size
                 PROVE  Ordered(S, rank)[n] \in S /\ pos[Ordered(S, rank)[n]] = n
        OBVIOUS
    <2>1. PICK x \in S : Cardinality({y \in S : rank[y] <= rank[x]}) = n
        BY <1>10, <1>11
    <2>2. Ordered(S, rank)[n] = CHOOSE z \in S : Cardinality({y \in S : rank[y] <= rank[z]}) = n
        BY DEF Ordered
    <2>3. /\ Ordered(S, rank)[n] \in S
          /\ Cardinality({y \in S : rank[y] <= rank[Ordered(S, rank)[n]]}) = n
        BY <2>1, <2>2
    <2> QED BY <1>11, <2>3
<1>13. DOMAIN Ordered(S, rank) = 1..size
    BY DEF Ordered
<1> QED BY <1>1, <1>12, <1>13

LEMMA HeadMoves ==
    ASSUME NEW T, NEW s \in Seq(T), NEW c \in Seq(T), c # <<>>
    PROVE  /\ Append(s, Head(c)) \o Tail(c) = s \o c
           /\ Append(s, Head(c)) \in Seq(T) /\ Tail(c) \in Seq(T)
<1>1. Len(c) \in Nat /\ Len(c) > 0 /\ Len(s) \in Nat
    OBVIOUS
<1>2. Tail(c) \in Seq(T) /\ Len(Tail(c)) = Len(c) - 1 /\ Head(c) = c[1] /\ c[1] \in T
    BY <1>1
<1>3. Append(s, Head(c)) \in Seq(T) /\ Len(Append(s, Head(c))) = Len(s) + 1
    BY <1>2
<1>4. \A i \in 1..(Len(s) + Len(c)) : (Append(s, Head(c)) \o Tail(c))[i] = (s \o c)[i]
    BY <1>1, <1>2, <1>3
<1>5. /\ Append(s, Head(c)) \o Tail(c) \in Seq(T) /\ s \o c \in Seq(T)
      /\ Len(Append(s, Head(c)) \o Tail(c)) = Len(s) + Len(c) /\ Len(s \o c) = Len(s) + Len(c)
    BY <1>1, <1>2, <1>3
<1> QED BY <1>1, <1>2, <1>3, <1>4, <1>5

\* What is in front of an injective sequence is injective.
LEMMA FrontIsInjective ==
    ASSUME NEW T, NEW s \in Seq(T), NEW c \in Seq(T), c # <<>>, IsInjective(s \o c)
    PROVE  IsInjective(Append(s, Head(c)) \o <<>>)
<1> DEFINE a == Append(s, Head(c))
<1>1. Len(c) \in Nat /\ Len(c) > 0 /\ Len(s) \in Nat /\ Head(c) = c[1] /\ c[1] \in T
    OBVIOUS
<1>2. a \in Seq(T) /\ Len(a) = Len(s) + 1 /\ \A i \in 1..Len(a) : a[i] = (s \o c)[i]
    BY <1>1
<1>3. DOMAIN (a \o <<>>) = 1..Len(a) /\ \A i \in 1..Len(a) : (a \o <<>>)[i] = a[i]
    BY <1>2
<1>4. \A i \in 1..Len(a) : i \in DOMAIN (s \o c)
    BY <1>1, <1>2
<1> HIDE DEF a
<1> QED BY <1>2, <1>3, <1>4 DEF IsInjective, a

-------------------------------------------------------------------------------
(* Generations: connections *)

LEMMA AIProvidersAre ==
    AIProviders = {"anthropic", "gemini", "openai", "openai_compatible"}
BY DEF AIProviders, Alphabetical, Compatible, ToSet

\* Rows as they are stored or held by somebody who has read one.
StoredRows ==
    [id : Slots, provider : AIProviders, model : Models, priority : Nat, active : BOOLEAN,
     key : Nat, test : {"untested", "success", "failure"}]

HeldRows(t) == {form[t], probe[t]} \ {NoConnection}

ProviderTypes ==
    /\ connection \in [Slots -> StoredRows \cup {NoConnection}]
    /\ form \in [ProviderAdmins -> StoredRows \cup {NoConnection}]
    /\ probe \in [ProviderAdmins -> StoredRows \cup {NoConnection}]
    /\ entered \in [Slots -> Nat] /\ formsDone \in Nat

\* A row is what its endpoint and its model make of it, and no two of them are one provider's.
ProvidersApart ==
    /\ \A c \in Existing(Slots) :
          connection[c].id = c /\ Effective(connection[c]) = connection[c].provider
    /\ \A c, d \in Existing(Slots) : connection[c].provider = connection[d].provider => c = d

\* What somebody alone has read of a row is the row.
CopiesAreCurrent ==
    \A t \in ProviderAdmins :
        /\ form[t] = NoConnection \/ probe[t] = NoConnection
        /\ \A r \in HeldRows(t) :
              r.id \notin crossedRows => connection[r.id] = r /\ ~HeldByOther(t, r.id)

ProviderInv ==
    ProviderTypes /\ ProvidersApart /\ CopiesAreCurrent /\ VerdictOfThisKey /\ KeyEnteredLast

LEMMA NoRowIsNoConnection ==
    /\ NoConnection \notin StoredRows /\ \A p \in AIProviders : NoConnection.provider # p
BY AIProvidersAre DEF NoConnection, StoredRows

LEMMA CleanIsEffective ==
    ASSUME NEW p \in AIProviders, NEW m \in Models, NEW u \in BOOLEAN
    PROVE  /\ CleanProvider(p, m, u) \in AIProviders
           /\ \A row : row.provider = CleanProvider(p, m, u) /\ row.model = m
                         => Effective(row) = row.provider
BY AIProvidersAre, GenerationConstants DEF CleanProvider, Effective, Compatible

SavedRow(old, p, m, a, k) ==
    [old EXCEPT !.provider = p, !.model = m, !.active = a, !.key = k, !.test = "untested"]

LEMMA SavedRowFacts ==
    ASSUME NEW old \in StoredRows, NEW p \in AIProviders, NEW m \in Models, NEW a \in BOOLEAN,
           NEW k \in Nat
    PROVE  /\ SavedRow(old, p, m, a, k) \in StoredRows /\ SavedRow(old, p, m, a, k).id = old.id
           /\ SavedRow(old, p, m, a, k).provider = p /\ SavedRow(old, p, m, a, k).model = m
           /\ SavedRow(old, p, m, a, k).key = k /\ SavedRow(old, p, m, a, k).test = "untested"
BY DEF StoredRows, SavedRow

LEMMA TestedRow ==
    ASSUME NEW old \in StoredRows, NEW v \in {"untested", "success", "failure"},
           NEW row, row = [old EXCEPT !.test = v]
    PROVE  /\ row \in StoredRows /\ row.id = old.id /\ row.provider = old.provider
           /\ row.model = old.model /\ row.key = old.key /\ row.test = v
           /\ Called(row) = Called(old) /\ Effective(row) = Effective(old)
BY DEF StoredRows, Called, Effective

LEMMA ProviderInvInit == GenerationInit => ProviderInv
<1> SUFFICES ASSUME GenerationInit PROVE ProviderInv
    OBVIOUS
<1>1. ProviderTypes
    BY DEF GenerationInit, ProviderTypes
<1>2. Existing(Slots) = {} /\ \A t \in ProviderAdmins : HeldRows(t) = {} /\ form[t] = NoConnection
    BY DEF GenerationInit, Existing, HeldRows
<1> QED BY <1>1, <1>2 DEF ProviderInv, ProvidersApart, CopiesAreCurrent, VerdictOfThisKey, KeyEnteredLast

\* A form or a probe that is opened has the row, and nobody else has it but on a row that
\* is crossed by now.
LEMMA OpeningKeeps ==
    ASSUME ProviderInv, NEW t \in ProviderAdmins, NEW c \in Slots,
           ReadForEdit(t, c) \/ BeginProbe(t, c)
    PROVE  ProviderInv'
<1> USE DEF ProviderInv
<1>1. /\ connection' = connection /\ entered' = entered /\ proven' = proven
      /\ crossedRows' = crossedRows \cup {d \in {c} : HeldByOther(t, d)}
      /\ connection[c] # NoConnection /\ connection[c].id = c
      /\ form[t] = NoConnection /\ probe[t] = NoConnection
      /\ \/ form' = [form EXCEPT ![t] = connection[c]] /\ probe' = probe
         \/ probe' = [probe EXCEPT ![t] = connection[c]] /\ form' = form
    BY DEF ReadForEdit, BeginProbe, AdminIdle, ProvidersApart, Existing
<1>2. ProviderTypes'
    BY DEF ReadForEdit, BeginProbe, ProviderTypes
<1>3. ProvidersApart' /\ VerdictOfThisKey' /\ KeyEnteredLast'
    BY <1>1 DEF ProvidersApart, VerdictOfThisKey, KeyEnteredLast, Existing, Called, Effective
<1>4. /\ HeldRows(t)' = {connection[c]} /\ \A x \in ProviderAdmins \ {t} : HeldRows(x)' = HeldRows(x)
      /\ form'[t] = NoConnection \/ probe'[t] = NoConnection
      /\ \A x \in ProviderAdmins \ {t} : form'[x] = form[x] /\ probe'[x] = probe[x]
    BY <1>1 DEF HeldRows, ProviderTypes
<1>5. \A x \in ProviderAdmins : \A d : HeldByOther(x, d)
         <=> \E y \in ProviderAdmins \ {x} : \E r \in HeldRows(y) : r.id = d
    BY DEF HeldByOther, HeldRows
<1>6. \A x \in ProviderAdmins : \A d : HeldByOther(x, d)'
         <=> \E y \in ProviderAdmins \ {x} : \E r \in HeldRows(y)' : r.id = d
    BY DEF HeldByOther, HeldRows
<1>7. CopiesAreCurrent'
    <2> SUFFICES ASSUME NEW x \in ProviderAdmins, NEW r \in HeldRows(x)', r.id \notin crossedRows'
                 PROVE  connection[r.id] = r /\ ~HeldByOther(x, r.id)'
        BY <1>1, <1>4 DEF CopiesAreCurrent
    <2>1. CASE x = t
        BY <1>1, <1>4, <1>5, <1>6, <2>1
    <2>2. CASE x # t
        <3>1. connection[r.id] = r /\ ~HeldByOther(x, r.id)
            BY <1>1, <1>4, <2>2 DEF CopiesAreCurrent
        <3>2. r.id = c => HeldByOther(t, c)
            BY <1>4, <1>5, <2>2
        <3> QED BY <1>1, <1>4, <1>5, <1>6, <2>2, <3>1, <3>2
    <2> QED BY <2>1, <2>2
<1> QED BY <1>2, <1>3, <1>7

LEMMA CreatingKeeps ==
    ASSUME ProviderInv, NEW c \in Slots, NEW p \in AIProviders, NEW m \in Models,
           NEW u \in BOOLEAN, NEW n \in Priorities, CreateConnection(c, p, m, u, n)
    PROVE  ProviderInv'
<1> DEFINE provider == CleanProvider(p, m, u)
           row == [id |-> c, provider |-> provider, model |-> m, priority |-> n,
                   active |-> TRUE, key |-> formsDone + 1, test |-> "untested"]
<1> USE DEF ProviderInv
<1>1. /\ connection' = [connection EXCEPT ![c] = row] /\ entered' = [entered EXCEPT ![c] = formsDone + 1]
      /\ form' = form /\ probe' = probe /\ proven' = proven /\ crossedRows' = crossedRows \ {c}
      /\ formsDone' = formsDone + 1 /\ connection[c] = NoConnection /\ Distinct(c, provider)
      /\ \A t \in ProviderAdmins : \A r \in HeldRows(t) : r.id # c
    BY DEF CreateConnection, HeldRows
<1>2. provider \in AIProviders /\ n \in Nat /\ formsDone \in Nat
    BY CleanIsEffective, GenerationConstants DEF ProviderTypes
<1>3. /\ row \in StoredRows /\ row.id = c /\ row.provider = provider /\ row.model = m
      /\ row.key = formsDone + 1 /\ row.test = "untested"
    <2> HIDE DEF provider
    <2> QED BY <1>2 DEF StoredRows
<1>4. Effective(row) = row.provider
    BY <1>3, CleanIsEffective
<1> HIDE DEF row, provider
<1>5. ProviderTypes'
    BY <1>1, <1>2, <1>3 DEF ProviderTypes
<1>6. connection'[c] = row /\ \A d \in Slots \ {c} : connection'[d] = connection[d]
    BY <1>1 DEF ProviderTypes
<1>7. Existing(Slots)' = Existing(Slots) \cup {c}
    BY <1>3, <1>6, NoRowIsNoConnection DEF Existing
<1>8. ProvidersApart'
    <2>1. \A d \in Existing(Slots) : d # c /\ connection[d].provider # provider
        BY <1>1 DEF Existing, Distinct
    <2>2. \A d \in Existing(Slots)' :
             connection'[d].id = d /\ Effective(connection'[d]) = connection'[d].provider
        BY <1>3, <1>4, <1>6, <1>7, <2>1 DEF ProvidersApart, Existing
    <2>3. \A d, e \in Existing(Slots)' : connection'[d].provider = connection'[e].provider => d = e
        BY <1>3, <1>6, <1>7, <2>1 DEF ProvidersApart, Existing
    <2> QED BY <2>2, <2>3 DEF ProvidersApart, Effective
<1>9. CopiesAreCurrent'
    <2>1. \A x \in ProviderAdmins : HeldRows(x)' = HeldRows(x)
        BY <1>1 DEF HeldRows
    <2>2. \A x \in ProviderAdmins : \A d : HeldByOther(x, d)' <=> HeldByOther(x, d)
        BY <1>1 DEF HeldByOther
    <2>3. \A x \in ProviderAdmins : \A r \in HeldRows(x) : r.id \in Slots
        BY DEF ProviderTypes, HeldRows, StoredRows
    <2> QED BY <1>1, <1>6, <2>1, <2>2, <2>3 DEF CopiesAreCurrent
<1>10. VerdictOfThisKey' /\ KeyEnteredLast'
    <2>1. \A d \in Existing(Slots)' \ crossedRows' : d = c \/ d \in Existing(Slots) \ crossedRows
        BY <1>1, <1>7
    <2>2. \A d \in Existing(Slots) : d # c
        BY <1>1 DEF Existing
    <2>3. \A d \in Slots : entered'[d] = IF d = c THEN formsDone + 1 ELSE entered[d]
        BY <1>1 DEF ProviderTypes
    <2>4. \A d \in Existing(Slots)' : d \in Slots
        BY DEF Existing
    <2>5. ASSUME NEW d \in Existing(Slots)' \ crossedRows'
          PROVE  /\ connection'[d].test = "success" => Called(connection'[d]) \in proven
                 /\ connection'[d].key = entered'[d]
        <3>1. CASE d = c
            BY <1>3, <1>6, <2>3, <3>1
        <3>2. CASE d # c
            BY <1>6, <2>1, <2>3, <2>4, <3>2 DEF VerdictOfThisKey, KeyEnteredLast
        <3> QED BY <3>1, <3>2
    <2> QED BY <1>1, <2>5 DEF VerdictOfThisKey, KeyEnteredLast, Called
<1> QED BY <1>5, <1>8, <1>9, <1>10

\* What somebody puts down was nobody else's to hold.
LEMMA ClosingFacts ==
    ASSUME ProviderInv, NEW t \in ProviderAdmins, NEW r \in StoredRows,
           \/ form[t] = r /\ form' = [form EXCEPT ![t] = NoConnection] /\ probe' = probe
           \/ probe[t] = r /\ probe' = [probe EXCEPT ![t] = NoConnection] /\ form' = form
    PROVE  /\ HeldRows(t) = {r} /\ HeldRows(t)' = {}
           /\ \A x \in ProviderAdmins : /\ form'[x] = NoConnection \/ probe'[x] = NoConnection
                                        /\ HeldRows(x)' \subseteq HeldRows(x)
           /\ \A x \in ProviderAdmins : \A d : HeldByOther(x, d)' => HeldByOther(x, d)
           /\ r.id \notin crossedRows =>
                 /\ connection[r.id] = r /\ r.id \in Existing(Slots)
                 /\ \A x \in ProviderAdmins : \A o \in HeldRows(x)' : o.id # r.id
<1> USE DEF ProviderInv
<1>1. r # NoConnection /\ r.id \in Slots
    BY NoRowIsNoConnection DEF StoredRows
<1>2. HeldRows(t) = {r} /\ HeldRows(t)' = {}
    BY <1>1 DEF HeldRows, ProviderTypes, CopiesAreCurrent
<1>3. \A x \in ProviderAdmins : x # t => HeldRows(x)' = HeldRows(x)
    BY DEF HeldRows, ProviderTypes
<1>4. \A x \in ProviderAdmins : form'[x] = NoConnection \/ probe'[x] = NoConnection
    BY DEF ProviderTypes, CopiesAreCurrent
<1>5. \A x \in ProviderAdmins : \A d : HeldByOther(x, d)
         <=> \E y \in ProviderAdmins \ {x} : \E o \in HeldRows(y) : o.id = d
    BY DEF HeldByOther, HeldRows
<1>6. \A x \in ProviderAdmins : \A d : HeldByOther(x, d)'
         <=> \E y \in ProviderAdmins \ {x} : \E o \in HeldRows(y)' : o.id = d
    BY DEF HeldByOther, HeldRows
<1>7. \A x \in ProviderAdmins : HeldRows(x)' \subseteq HeldRows(x)
    BY <1>2, <1>3
<1>8. \A x \in ProviderAdmins : \A d : HeldByOther(x, d)' => HeldByOther(x, d)
    BY <1>5, <1>6, <1>7
<1>9. ASSUME r.id \notin crossedRows
      PROVE  /\ connection[r.id] = r /\ r.id \in Existing(Slots)
             /\ \A x \in ProviderAdmins : \A o \in HeldRows(x)' : o.id # r.id
    <2>1. connection[r.id] = r /\ ~HeldByOther(t, r.id)
        BY <1>2, <1>9 DEF CopiesAreCurrent
    <2>2. r.id \in Existing(Slots)
        BY <1>1, <2>1 DEF Existing
    <2> QED BY <1>2, <1>3, <1>5, <2>1, <2>2
<1> QED BY <1>2, <1>4, <1>7, <1>8, <1>9

LEMMA SavingKeeps ==
    ASSUME ProviderInv, NEW t \in ProviderAdmins, NEW p \in AIProviders, NEW m \in Models,
           NEW u \in BOOLEAN, NEW a \in BOOLEAN, NEW new \in 0..MaxForms,
           SaveConnection(t, p, m, u, a, new)
    PROVE  ProviderInv'
<1> DEFINE old == form[t]
           c == old.id
           provider == CleanProvider(p, m, u)
           kept == CleanKey(old.key, new)
           row == SavedRow(old, provider, m, a, kept)
<1> USE DEF ProviderInv
<1>1. /\ old # NoConnection /\ form' = [form EXCEPT ![t] = NoConnection] /\ probe' = probe
      /\ proven' = proven /\ crossedRows' = crossedRows /\ formsDone' = formsDone
      /\ IF Distinct(c, provider)
         THEN /\ connection' = [connection EXCEPT ![c] = row]
              /\ entered' = IF new = 0 THEN entered ELSE [entered EXCEPT ![c] = new]
         ELSE connection' = connection /\ entered' = entered
    BY DEF SaveConnection, AfterEdit, SavedRow
<1>2. old \in StoredRows /\ c \in Slots /\ old.key \in Nat /\ MaxForms \in Nat /\ new \in Nat
    <2>1. old \in StoredRows
        BY <1>1 DEF ProviderTypes
    <2>2. c \in Slots /\ old.key \in Nat
        BY <2>1 DEF StoredRows
    <2>3. MaxForms \in Nat
        BY GenerationConstants
    <2> QED BY <2>1, <2>2, <2>3
<1>3. provider \in AIProviders /\ kept \in Nat /\ kept = IF new = 0 THEN old.key ELSE new
    BY <1>2, CleanIsEffective DEF CleanKey
<1>4. /\ row \in StoredRows /\ row.id = c /\ row.provider = provider /\ row.model = m
      /\ row.key = kept /\ row.test = "untested"
    BY <1>2, <1>3, SavedRowFacts
<1> HIDE DEF row
<1>5. Effective(row) = row.provider
    BY <1>4, CleanIsEffective
<1>6. form[t] = old
    OBVIOUS
<1> HIDE DEF kept, provider
<1>7. /\ \A x \in ProviderAdmins : /\ form'[x] = NoConnection \/ probe'[x] = NoConnection
                                   /\ HeldRows(x)' \subseteq HeldRows(x)
      /\ \A x \in ProviderAdmins : \A d : HeldByOther(x, d)' => HeldByOther(x, d)
      /\ c \notin crossedRows =>
            /\ connection[c] = old /\ c \in Existing(Slots)
            /\ \A x \in ProviderAdmins : \A o \in HeldRows(x)' : o.id # c
    BY <1>1, <1>2, ClosingFacts
<1> HIDE DEF old, c
<1>8. CASE ~Distinct(c, provider)
    <2>1. connection' = connection /\ entered' = entered
        BY <1>1, <1>8
    <2>2. ProviderTypes'
        BY <1>1, <2>1 DEF ProviderTypes
    <2>3. ProvidersApart' /\ VerdictOfThisKey' /\ KeyEnteredLast'
        BY <1>1, <2>1 DEF ProvidersApart, VerdictOfThisKey, KeyEnteredLast, Existing, Called, Effective
    <2>4. CopiesAreCurrent'
        BY <1>1, <1>7, <2>1 DEF CopiesAreCurrent
    <2> QED BY <2>2, <2>3, <2>4
<1>9. CASE Distinct(c, provider)
    <2>1. /\ connection' = [connection EXCEPT ![c] = row]
          /\ entered' = IF new = 0 THEN entered ELSE [entered EXCEPT ![c] = new]
        BY <1>1, <1>9
    <2>2. ProviderTypes'
        BY <1>1, <1>2, <1>4, <2>1 DEF ProviderTypes
    <2>3. connection'[c] = row /\ \A d \in Slots \ {c} : connection'[d] = connection[d]
        BY <1>2, <2>1 DEF ProviderTypes
    <2>4. Existing(Slots)' = Existing(Slots) \cup {c}
        BY <1>2, <1>4, <2>3, NoRowIsNoConnection DEF Existing
    <2>5. \A d \in Existing(Slots) \ {c} : connection[d].provider # provider
        BY <1>9 DEF Existing, Distinct
    <2>6. \A d \in Existing(Slots)' :
             connection'[d].id = d /\ Effective(connection'[d]) = connection'[d].provider
        BY <1>4, <1>5, <2>3, <2>4 DEF ProvidersApart, Existing
    <2>7. \A d, e \in Existing(Slots)' : connection'[d].provider = connection'[e].provider => d = e
        BY <1>4, <2>3, <2>4, <2>5 DEF ProvidersApart, Existing
    <2>8. ProvidersApart'
        BY <2>6, <2>7 DEF ProvidersApart, Effective
    <2>9. CopiesAreCurrent'
        <3> SUFFICES ASSUME NEW x \in ProviderAdmins, NEW r \in HeldRows(x)',
                            r.id \notin crossedRows'
                     PROVE  connection'[r.id] = r /\ ~HeldByOther(x, r.id)'
            BY <1>7 DEF CopiesAreCurrent
        <3>1. connection[r.id] = r /\ ~HeldByOther(x, r.id)
            BY <1>1, <1>7 DEF CopiesAreCurrent
        <3>2. r.id # c
            BY <1>1, <1>7
        <3>3. r.id \in Slots
            BY <1>7 DEF ProviderTypes, HeldRows, StoredRows
        <3> QED BY <1>7, <2>3, <3>1, <3>2, <3>3
    <2>10. VerdictOfThisKey' /\ KeyEnteredLast'
        <3>1. \A d \in Slots : entered'[d] = IF d = c /\ new # 0 THEN new ELSE entered[d]
            BY <1>2, <2>1 DEF ProviderTypes
        <3>2. ASSUME NEW d \in Existing(Slots)' \ crossedRows'
              PROVE  /\ connection'[d].test = "success" => Called(connection'[d]) \in proven
                     /\ connection'[d].key = entered'[d]
            <4>1. d \in Slots /\ d \notin crossedRows
                BY <1>1 DEF Existing
            <4>2. CASE d = c
                <5>1. connection[c] = old /\ c \in Existing(Slots) \ crossedRows
                    BY <1>7, <4>1, <4>2
                <5>2. old.key = entered[c]
                    BY <5>1 DEF KeyEnteredLast
                <5> QED BY <1>3, <1>4, <2>3, <3>1, <4>1, <4>2, <5>2
            <4>3. CASE d # c
                BY <2>3, <2>4, <3>1, <4>1, <4>3 DEF VerdictOfThisKey, KeyEnteredLast
            <4> QED BY <4>2, <4>3
        <3> QED BY <1>1, <3>2 DEF VerdictOfThisKey, KeyEnteredLast, Called
    <2> QED BY <2>2, <2>8, <2>9, <2>10
<1> QED BY <1>8, <1>9

LEMMA DeletingKeeps ==
    ASSUME ProviderInv, NEW c \in Slots, DeleteConnection(c)
    PROVE  ProviderInv'
<1> USE DEF ProviderInv
<1>1. /\ connection' = [connection EXCEPT ![c] = NoConnection] /\ entered' = entered
      /\ form' = form /\ probe' = probe /\ proven' = proven /\ formsDone' = formsDone
      /\ crossedRows' = crossedRows \cup {c}
    BY DEF DeleteConnection
<1>2. ProviderTypes'
    BY <1>1 DEF ProviderTypes
<1>3. connection'[c] = NoConnection /\ \A d \in Slots \ {c} : connection'[d] = connection[d]
    BY <1>1 DEF ProviderTypes
<1>4. Existing(Slots)' = Existing(Slots) \ {c}
    BY <1>3 DEF Existing
<1>5. \A d \in Existing(Slots)' : connection'[d] = connection[d] /\ d \in Existing(Slots)
    BY <1>3, <1>4 DEF Existing
<1>6. ProvidersApart' /\ VerdictOfThisKey' /\ KeyEnteredLast'
    <2>1. ProvidersApart'
        BY <1>5 DEF ProvidersApart, Effective
    <2>2. VerdictOfThisKey'
        BY <1>1, <1>5 DEF VerdictOfThisKey, Called
    <2>3. KeyEnteredLast'
        BY <1>1, <1>5 DEF KeyEnteredLast
    <2> QED BY <2>1, <2>2, <2>3
<1>7. CopiesAreCurrent'
    <2>1. \A x \in ProviderAdmins : HeldRows(x)' = HeldRows(x) /\ \A r \in HeldRows(x) : r.id \in Slots
        BY <1>1 DEF HeldRows, ProviderTypes, StoredRows
    <2>2. \A x \in ProviderAdmins : \A d : HeldByOther(x, d)' <=> HeldByOther(x, d)
        BY <1>1 DEF HeldByOther
    <2> QED BY <1>1, <1>3, <2>1, <2>2 DEF CopiesAreCurrent
<1> QED BY <1>2, <1>6, <1>7

LEMMA TestingKeeps ==
    ASSUME ProviderInv, NEW t \in ProviderAdmins, NEW works \in BOOLEAN, EndProbe(t, works)
    PROVE  ProviderInv'
<1> DEFINE old == probe[t]
           c == old.id
           verdict == IF works THEN "success" ELSE "failure"
           Tested(row) == [row EXCEPT !.test = verdict]
<1> USE DEF ProviderInv
<1>1. /\ old # NoConnection /\ probe' = [probe EXCEPT ![t] = NoConnection] /\ form' = form
      /\ entered' = entered /\ crossedRows' = crossedRows /\ formsDone' = formsDone
      /\ proven' = IF works THEN proven \cup {Called(old)} ELSE proven
      /\ connection' = [d \in Slots |-> IF d = c /\ connection[d] # NoConnection
                                        THEN Tested(connection[d]) ELSE connection[d]]
    BY DEF EndProbe
<1>2. old \in StoredRows /\ c \in Slots
    BY <1>1 DEF ProviderTypes, StoredRows
<1>3. \A row \in StoredRows :
         /\ Tested(row) \in StoredRows /\ Tested(row).id = row.id /\ Tested(row).key = row.key
         /\ Tested(row).provider = row.provider /\ Tested(row).test = verdict
         /\ Called(Tested(row)) = Called(row) /\ Effective(Tested(row)) = Effective(row)
    BY TestedRow
<1>4. probe[t] = old /\ (verdict = "success" => works)
    OBVIOUS
<1> HIDE DEF Tested, verdict
<1>5. /\ \A x \in ProviderAdmins : /\ form'[x] = NoConnection \/ probe'[x] = NoConnection
                                   /\ HeldRows(x)' \subseteq HeldRows(x)
      /\ \A x \in ProviderAdmins : \A d : HeldByOther(x, d)' => HeldByOther(x, d)
      /\ c \notin crossedRows =>
            /\ connection[c] = old /\ c \in Existing(Slots)
            /\ \A x \in ProviderAdmins : \A o \in HeldRows(x)' : o.id # c
    BY <1>1, <1>2, ClosingFacts
<1> HIDE DEF old, c
<1>6. \A d \in Slots : connection[d] # NoConnection => connection[d] \in StoredRows
    BY DEF ProviderTypes
<1>7. \A d \in Slots :
         /\ d # c => connection'[d] = connection[d]
         /\ connection[d] = NoConnection => connection'[d] = NoConnection
         /\ d = c /\ connection[d] # NoConnection => connection'[d] = Tested(connection[d])
    BY <1>1
<1>8. Existing(Slots)' = Existing(Slots)
    <2>1. \A d \in Slots : connection'[d] # NoConnection <=> connection[d] # NoConnection
        BY <1>3, <1>6, <1>7, NoRowIsNoConnection
    <2> QED BY <2>1 DEF Existing
<1>9. ProviderTypes'
    <2>1. connection' \in [Slots -> StoredRows \cup {NoConnection}]
        BY <1>1, <1>3, <1>6
    <2> QED BY <1>1, <2>1 DEF ProviderTypes
<1>10. \A d \in Existing(Slots) :
          /\ connection'[d].id = connection[d].id /\ connection'[d].key = connection[d].key
          /\ connection'[d].provider = connection[d].provider
          /\ Called(connection'[d]) = Called(connection[d])
          /\ Effective(connection'[d]) = Effective(connection[d])
          /\ d # c => connection'[d].test = connection[d].test
          /\ d = c => connection'[d].test = verdict
    BY <1>3, <1>6, <1>7 DEF Existing
<1>11. ProvidersApart'
    <2>1. \A d \in Existing(Slots)' :
             connection'[d].id = d /\ Effective(connection'[d]) = connection'[d].provider
        BY <1>8, <1>10 DEF ProvidersApart
    <2>2. \A d, e \in Existing(Slots)' : connection'[d].provider = connection'[e].provider => d = e
        BY <1>8, <1>10 DEF ProvidersApart
    <2> QED BY <2>1, <2>2 DEF ProvidersApart, Effective
<1>12. CopiesAreCurrent'
    <2> SUFFICES ASSUME NEW x \in ProviderAdmins, NEW r \in HeldRows(x)', r.id \notin crossedRows'
                 PROVE  connection'[r.id] = r /\ ~HeldByOther(x, r.id)'
        BY <1>5 DEF CopiesAreCurrent
    <2>1. connection[r.id] = r /\ ~HeldByOther(x, r.id)
        BY <1>1, <1>5 DEF CopiesAreCurrent
    <2>2. r.id # c /\ r.id \in Slots
        BY <1>1, <1>5 DEF ProviderTypes, HeldRows, StoredRows
    <2> QED BY <1>5, <1>7, <2>1, <2>2
<1>13. KeyEnteredLast'
    BY <1>1, <1>8, <1>10 DEF KeyEnteredLast
<1>14. VerdictOfThisKey'
    <2> SUFFICES ASSUME NEW d \in Existing(Slots)' \ crossedRows', connection'[d].test = "success"
                 PROVE  Called(connection'[d]) \in proven'
        BY DEF VerdictOfThisKey, Called
    <2>1. d \in Existing(Slots) \ crossedRows
        BY <1>1, <1>8
    <2>2. CASE d = c
        <3>1. verdict = "success" /\ connection[c] = old
            BY <1>5, <1>10, <2>1, <2>2
        <3> QED BY <1>1, <1>4, <1>10, <2>1, <2>2, <3>1
    <2>3. CASE d # c
        <3>1. Called(connection[d]) \in proven
            BY <1>10, <2>1, <2>3 DEF VerdictOfThisKey
        <3> QED BY <1>1, <1>10, <2>1, <3>1
    <2> QED BY <2>2, <2>3
<1> QED BY <1>9, <1>11, <1>12, <1>13, <1>14

-------------------------------------------------------------------------------
(* Generations: the chain *)

EveryProvider == AIProviders \cup {"demo"}

LEMMA PlaceInAlphabet ==
    /\ \A p \in AIProviders : (CHOOSE i \in 1..4 : Alphabetical[i] = p) \in 1..4
    /\ \A p, q \in AIProviders :
          (CHOOSE i \in 1..4 : Alphabetical[i] = p) = (CHOOSE i \in 1..4 : Alphabetical[i] = q)
             => p = q
<1>1. \A p \in AIProviders : \E i \in 1..4 : Alphabetical[i] = p
    BY AIProvidersAre DEF Alphabetical, Compatible
<1> QED BY <1>1

\* Connections of two providers have two ranks.
LEMMA PreferenceTellsApart ==
    ASSUME NEW r \in StoredRows, NEW s \in StoredRows
    PROVE  Preference(r) \in Int /\ (Preference(r) = Preference(s) => r.provider = s.provider)
<1> DEFINE place(p) == CHOOSE i \in 1..4 : Alphabetical[i] = p
<1>1. /\ r.priority \in Nat /\ s.priority \in Nat
      /\ r.provider \in AIProviders /\ s.provider \in AIProviders
    BY DEF StoredRows
<1>2. /\ place(r.provider) \in 1..4 /\ place(s.provider) \in 1..4
      /\ place(r.provider) = place(s.provider) => r.provider = s.provider
    BY <1>1, PlaceInAlphabet
<1>3. Preference(r) = r.priority * 4 + place(r.provider) /\ Preference(s) = s.priority * 4 + place(s.provider)
    BY DEF Preference
<1> HIDE DEF place
<1> QED BY <1>1, <1>2, <1>3

LEMMA ConcatIsInjective ==
    ASSUME NEW T, NEW s \in Seq(T), NEW c \in Seq(T), IsInjective(s), IsInjective(c),
           \A i \in 1..Len(s), j \in 1..Len(c) : s[i] # c[j]
    PROVE  s \o c \in Seq(T) /\ IsInjective(s \o c)
<1>1. /\ Len(s) \in Nat /\ Len(c) \in Nat /\ s \o c \in Seq(T) /\ Len(s \o c) = Len(s) + Len(c)
      /\ DOMAIN s = 1..Len(s) /\ DOMAIN c = 1..Len(c) /\ DOMAIN (s \o c) = 1..(Len(s) + Len(c))
    OBVIOUS
<1>2. \A i \in 1..(Len(s) + Len(c)) : \/ i \in 1..Len(s) /\ (s \o c)[i] = s[i]
                                      \/ i - Len(s) \in 1..Len(c) /\ (s \o c)[i] = c[i - Len(s)]
    BY <1>1
<1> SUFFICES ASSUME NEW i \in 1..(Len(s) + Len(c)), NEW j \in 1..(Len(s) + Len(c)),
                    (s \o c)[i] = (s \o c)[j]
             PROVE  i = j
    BY <1>1 DEF IsInjective
<1>3. i - Len(s) = j - Len(s) => i = j
    BY <1>1
<1>4. \A a, b \in 1..Len(s) : s[a] = s[b] => a = b
    BY <1>1 DEF IsInjective
<1>5. \A a, b \in 1..Len(c) : c[a] = c[b] => a = b
    BY <1>1 DEF IsInjective
<1> QED BY <1>2, <1>3, <1>4, <1>5

\* Whatever the operator has configured and whatever is connected, the chain names nobody twice.
LEMMA ConfiguredIsChain ==
    ASSUME ProviderInv, NEW environment \in Environments
    PROVE  Configured(environment) \in Seq(EveryProvider) /\ IsInjective(Configured(environment))
<1> DEFINE own == {c \in Existing(Slots) : connection[c].active}
           rank == [c \in own |-> Preference(connection[c])]
           order == Ordered(own, rank)
           first == [n \in DOMAIN order |-> Effective(connection[order[n]])]
           names == {Effective(connection[c]) : c \in own}
           left == {i \in DOMAIN environment : environment[i] \notin names}
           rest == Ordered(left, [i \in left |-> i])
           second == [n \in DOMAIN rest |-> environment[rest[n]]]
<1> USE DEF ProviderInv
<1>1. Configured(environment) = first \o second
    BY DEF Configured, Fallbacks
<1>2. environment \in Seq(EveryProvider) /\ IsInjective(environment)
    BY GenerationConstants DEF EveryProvider
<1>3. own \in SUBSET Slots /\ IsFiniteSet(Slots)
    BY GenerationConstants DEF Existing
<1>4. IsFiniteSet(own)
    BY <1>3, FS_Subset
<1>5. \A c \in own : /\ connection[c] \in StoredRows /\ connection[c].provider \in AIProviders
                     /\ Effective(connection[c]) = connection[c].provider
    BY DEF Existing, ProviderTypes, ProvidersApart, StoredRows
<1>6. \A c, d \in own : connection[c].provider = connection[d].provider => c = d
    BY DEF ProvidersApart
<1>7. \A c \in own : rank[c] \in Int
    BY <1>5, PreferenceTellsApart
<1>8. \A c, d \in own : rank[c] = rank[d] => c = d
    BY <1>5, <1>6, PreferenceTellsApart
<1>9. DOMAIN environment = 1..Len(environment) /\ Len(environment) \in Nat
    BY <1>2
<1>10. left \in SUBSET (1..Len(environment)) /\ IsFiniteSet(1..Len(environment))
    BY <1>9, FS_Interval
<1>11. IsFiniteSet(left)
    BY <1>10, FS_Subset
<1>12. /\ \A i \in left : [k \in left |-> k][i] \in Int
       /\ \A i, j \in left : [k \in left |-> k][i] = [k \in left |-> k][j] => i = j
    BY <1>10
<1>13. \A c \in own : Effective(connection[c]) \in names
    OBVIOUS
<1>14. \A i \in left : environment[i] \notin names /\ environment[i] \in EveryProvider
    BY <1>2, <1>9, <1>10
<1>15. \A i, j \in left : environment[i] = environment[j] => i = j
    BY <1>2 DEF IsInjective
<1> HIDE DEF own, rank, left, names
<1>16. /\ Cardinality(own) \in Nat /\ DOMAIN order = 1..Cardinality(own)
       /\ \A n \in 1..Cardinality(own) : order[n] \in own
       /\ \A n, m \in 1..Cardinality(own) : order[n] = order[m] => n = m
    BY <1>4, <1>7, <1>8, OrderedEnumerates
<1>17. /\ Cardinality(left) \in Nat /\ DOMAIN rest = 1..Cardinality(left)
       /\ \A n \in 1..Cardinality(left) : rest[n] \in left
       /\ \A n, m \in 1..Cardinality(left) : rest[n] = rest[m] => n = m
    BY <1>11, <1>12, OrderedEnumerates
<1> HIDE DEF order, rest
<1>18. /\ \A n \in 1..Cardinality(own) : first[n] \in EveryProvider /\ first[n] \in names
       /\ \A n, m \in 1..Cardinality(own) : first[n] = first[m] => n = m
    BY <1>5, <1>6, <1>13, <1>16 DEF EveryProvider
<1>19. /\ \A n \in 1..Cardinality(left) : second[n] \in EveryProvider /\ second[n] \notin names
       /\ \A n, m \in 1..Cardinality(left) : second[n] = second[m] => n = m
    BY <1>14, <1>15, <1>17
<1>20. first \in Seq(EveryProvider) /\ DOMAIN first = 1..Cardinality(own) /\ Len(first) = Cardinality(own)
    <2>1. DOMAIN first = 1..Cardinality(own)
        BY <1>16
    <2>2. first \in [1..Cardinality(own) -> EveryProvider]
        BY <1>16, <1>18
    <2> QED BY <1>16, <2>1, <2>2
<1>21. second \in Seq(EveryProvider) /\ DOMAIN second = 1..Cardinality(left) /\ Len(second) = Cardinality(left)
    <2>1. DOMAIN second = 1..Cardinality(left)
        BY <1>17
    <2>2. second \in [1..Cardinality(left) -> EveryProvider]
        BY <1>17, <1>19
    <2> QED BY <1>17, <2>1, <2>2
<1> HIDE DEF first, second
<1>22. IsInjective(first) /\ IsInjective(second)
    BY <1>18, <1>19, <1>20, <1>21 DEF IsInjective
<1>23. \A i \in 1..Len(first), j \in 1..Len(second) : first[i] # second[j]
    BY <1>18, <1>19, <1>20, <1>21
<1> QED BY <1>1, <1>20, <1>21, <1>22, <1>23, ConcatIsInjective

\* Who was asked and who is still to be asked are different, and one who fails is followed by
\* the next as long as there is one.
ChainInv ==
    /\ chain \in Seq(EveryProvider) /\ attempted \in Seq(EveryProvider)
    /\ NobodyAskedTwice /\ FailsOnlyWhenAllDid

LEMMA ChainStep ==
    ASSUME ProviderInv, ChainInv, [GenerationNext]_generationVars
    PROVE  ChainInv'
<1> USE DEF ChainInv
<1>1. ASSUME chain' = chain, attempted' = attempted, generated' = generated PROVE ChainInv'
    BY <1>1 DEF NobodyAskedTwice, FailsOnlyWhenAllDid
<1>2. ASSUME NEW environment \in Environments, StartGeneration(environment) PROVE ChainInv'
    <2>1. /\ chain' = Configured(environment) /\ attempted' = <<>> /\ generated' = "asking"
        BY <1>2 DEF StartGeneration
    <2>2. chain' \in Seq(EveryProvider) /\ IsInjective(chain')
        BY <2>1, ConfiguredIsChain
    <2>3. <<>> \o chain' = chain'
        BY <2>2
    <2> QED BY <2>1, <2>2, <2>3 DEF NobodyAskedTwice, FailsOnlyWhenAllDid
<1>3. ASSUME NothingConfigured PROVE ChainInv'
    BY <1>3 DEF NothingConfigured, NobodyAskedTwice, FailsOnlyWhenAllDid
<1>4. ASSUME NEW reply \in ProviderReplies, AskNext(reply) PROVE ChainInv'
    <2>1. /\ chain # <<>> /\ attempted' = Append(attempted, Head(chain)) /\ chain' = Tail(chain)
          /\ generated' = "failed" => Tail(chain) = <<>>
        BY <1>4 DEF AskNext, AfterError
    <2>2. attempted' \o chain' = attempted \o chain /\ attempted' \in Seq(EveryProvider) /\ chain' \in Seq(EveryProvider)
        BY <2>1, HeadMoves
    <2> QED BY <2>1, <2>2 DEF NobodyAskedTwice, FailsOnlyWhenAllDid
<1>5. ASSUME NEW reply \in ProviderReplies, NEW answer \in Answers, UseAnswer(reply, answer)
      PROVE  ChainInv'
    <2>1. chain # <<>> /\ attempted' = Append(attempted, Head(chain)) /\ chain' = <<>>
        BY <1>5 DEF UseAnswer
    <2>2. IsInjective(Append(attempted, Head(chain)) \o <<>>)
        BY <2>1, FrontIsInjective DEF NobodyAskedTwice
    <2>3. attempted' \in Seq(EveryProvider) /\ chain' \in Seq(EveryProvider)
        BY <2>1, HeadMoves
    <2> QED BY <2>1, <2>2, <2>3 DEF NobodyAskedTwice, FailsOnlyWhenAllDid
<1> QED BY ZenonT(30), <1>1, <1>2, <1>3, <1>4, <1>5
        DEF GenerationNext, generationVars, CreateConnection, ReadForEdit, BeginProbe,
            SaveConnection, DeleteConnection, EndProbe

-------------------------------------------------------------------------------
(* Generations: drafts *)

LEMMA GreatestOf ==
    ASSUME NEW n \in Nat, NEW S \in SUBSET (1..n), S # {}
    PROVE  \E i \in S : \A j \in S : j <= i
<1> DEFINE D == {d \in Nat : \E i \in S : d = n - i}
<1>1. \A i \in S : i \in Nat /\ n - i \in Nat
    OBVIOUS
<1>2. D \in SUBSET Nat /\ D # {}
    BY <1>1
<1>3. PICK d \in D : \A e \in D : d <= e
    BY <1>2, LeastNatural
<1>4. PICK i \in S : d = n - i
    BY <1>3
<1>5. \A j \in S : n - i <= n - j
    BY <1>1, <1>3, <1>4
<1> QED BY <1>1, <1>5

LEMMA ConcatLength ==
    ASSUME NEW T, NEW s \in Seq(T), NEW c \in Seq(T)
    PROVE  Len(s \o c) = Len(s) + Len(c)
OBVIOUS

LEMMA CaptionFits ==
    ASSUME NEW text \in Seq(STRING)
    PROVE  Len(FitCaption(text)) <= CaptionLimit
<1> DEFINE width == IF CaptionLimit > 4 THEN CaptionLimit - 3 ELSE 1
           cut == SubSeq(text, 1, width)
           spaces == {i \in DOMAIN cut : cut[i] = " "}
           last == CHOOSE i \in spaces : \A j \in spaces : j <= i
           word == IF spaces = {} THEN Len(cut) ELSE last - 1
           kept == {i \in 1..word : cut[i] # " "}
           end == CHOOSE i \in kept : \A j \in kept : j <= i
           dots == <<".", ".", ".">>
           Letters == STRING \cup {"."}
<1>1. CaptionLimit \in Nat /\ CaptionLimit >= 4
    BY GenerationConstants
<1>2. width \in Nat /\ width >= 1 /\ width + 3 <= CaptionLimit
    BY <1>1
<1>3. FitCaption(text) = IF Len(text) <= CaptionLimit THEN text
                         ELSE (IF kept = {} THEN cut ELSE SubSeq(cut, 1, end)) \o dots
    BY DEF FitCaption
<1>4. Len(dots) = 3 /\ dots \in Seq(Letters) /\ text \in Seq(Letters)
    <2>1. Len(dots) = 3
        OBVIOUS
    <2>2. "." \in Letters
        OBVIOUS
    <2>3. \A T : "." \in T => dots \in Seq(T)
        OBVIOUS
    <2>4. \A i \in 1..Len(text) : text[i] \in Letters
        OBVIOUS
    <2>5. text \in Seq(Letters)
        BY <2>4
    <2> QED BY <2>1, <2>2, <2>3, <2>5
<1> HIDE DEF width, dots, Letters
<1>5. ASSUME Len(text) > CaptionLimit PROVE Len(FitCaption(text)) <= CaptionLimit
    <2>1. cut \in Seq(Letters) /\ Len(cut) = width /\ DOMAIN cut = 1..width
        BY <1>1, <1>2, <1>4, <1>5
    <2> HIDE DEF cut
    <2>2. spaces \in SUBSET (1..width)
        BY <2>1
    <2> HIDE DEF spaces
    <2>3. spaces # {} => last \in spaces
        BY <1>2, <2>2, GreatestOf
    <2> HIDE DEF last
    <2>4. word \in Nat /\ word <= width
        <3>1. CASE spaces = {}
            BY <1>2, <2>1, <3>1
        <3>2. CASE spaces # {}
            <4>1. last \in 1..width
                BY <2>2, <2>3, <3>2
            <4>2. word = last - 1
                BY <3>2
            <4> QED BY <1>2, <4>1, <4>2
        <3> QED BY <3>1, <3>2
    <2> HIDE DEF word
    <2>5. kept \in SUBSET (1..word)
        OBVIOUS
    <2> HIDE DEF kept
    <2>6. kept # {} => end \in 1..word
        BY <2>4, <2>5, GreatestOf
    <2> HIDE DEF end
    <2>7. kept # {} => /\ SubSeq(cut, 1, end) \in Seq(Letters)
                       /\ Len(SubSeq(cut, 1, end)) = end
        BY <1>2, <2>1, <2>4, <2>6
    <2> DEFINE front == IF kept = {} THEN cut ELSE SubSeq(cut, 1, end)
    <2>8. FitCaption(text) = front \o dots
        <3>1. ~(Len(text) <= CaptionLimit)
            BY <1>1, <1>5
        <3> QED BY <1>3, <3>1
    <2>9. \A x \in Seq(Letters) : Len(x \o dots) = Len(x) + 3
        BY <1>4, ConcatLength
    <2>10. (kept = {} => front = cut) /\ (kept # {} => front = SubSeq(cut, 1, end))
        OBVIOUS
    <2> HIDE DEF front
    <2>11. CASE kept = {}
        <3>1. FitCaption(text) = cut \o dots
            BY <2>11, <2>8, <2>10
        <3>2. Len(cut \o dots) = width + 3
            BY <2>1, <2>9
        <3> QED BY <1>2, <3>1, <3>2
    <2>12. CASE kept # {}
        <3>1. FitCaption(text) = SubSeq(cut, 1, end) \o dots
            BY <2>12, <2>8, <2>10
        <3>2. Len(SubSeq(cut, 1, end) \o dots) = end + 3
            BY <2>7, <2>12, <2>9
        <3>3. end <= width /\ end \in Nat
            BY <1>2, <2>4, <2>6, <2>12
        <3> QED BY <1>1, <1>2, <3>1, <3>2, <3>3
    <2> QED BY <2>11, <2>12
<1>6. ASSUME ~(Len(text) > CaptionLimit) PROVE Len(FitCaption(text)) <= CaptionLimit
    <2>1. Len(text) \in Nat /\ Len(text) <= CaptionLimit
        BY <1>1, <1>6
    <2> QED BY <1>3, <2>1
<1> QED BY <1>5, <1>6

LEMMA HourFits ==
    ASSUME NEW at, at.hour \in Int, at.offset \in Int
    PROVE  ScheduleHour(at) \div 24 \in CampaignDays[1]..CampaignDays[2]
<1> DEFINE hour == at.hour - at.offset + ZoneOffset
           from == CampaignDays[1]
           until == CampaignDays[2]
<1>1. from \in Int /\ until \in Int /\ from <= until /\ hour \in Int
    <2>1. ZoneOffset \in Int /\ CampaignDays[1] \in Int /\ CampaignDays[2] \in Int
        BY GenerationConstants
    <2>2. CampaignDays[1] <= CampaignDays[2]
        BY GenerationConstants
    <2> QED BY <2>1, <2>2
<1>2. ScheduleHour(at) = IF ~at.valid \/ hour \div 24 < from THEN from * 24 + 9
                         ELSE IF hour \div 24 > until THEN until * 24 + 9 ELSE hour
    BY DEF ScheduleHour, LocalDay
<1>3. \A day \in Int : (day * 24 + 9) \div 24 = day
    OBVIOUS
<1> HIDE DEF hour, from, until
<1>4. hour \div 24 \in Int
    BY <1>1
<1>5. ScheduleHour(at) \div 24 \in from..until
    BY <1>1, <1>2, <1>3, <1>4
<1> QED BY <1>5 DEF from, until

LEMMA DraftsStep ==
    ASSUME DraftsFit, [GenerationNext]_generationVars
    PROVE  DraftsFit'
<1>1. ASSUME planned' = planned PROVE DraftsFit'
    BY <1>1 DEF DraftsFit
<1>2. ASSUME NEW reply \in ProviderReplies, NEW answer \in Answers, UseAnswer(reply, answer)
      PROVE  DraftsFit'
    <2>1. planned' = planned \/ planned' = Normalized(answer)
        BY <1>2 DEF UseAnswer
    <2>2. ASSUME NEW d \in Normalized(answer)
          PROVE  /\ Len(d.caption) <= CaptionLimit
                 /\ d.hour \div 24 \in CampaignDays[1]..CampaignDays[2]
                 /\ d.flagged \/ d.topics \cap {"title", "caption", "visual_prompt", "video_script"} = {}
        <3>1. PICK i \in answer :
                 d = [caption |-> FitCaption(i.caption), hour |-> ScheduleHour(i.at),
                      topics |-> i.topics, flagged |-> i.topics \cap Moderated # {}]
            BY DEF Normalized
        <3>2. i.caption \in Seq(STRING) /\ i.at.hour \in Int /\ i.at.offset \in Int
            BY GenerationConstants
        <3>3. Len(FitCaption(i.caption)) <= CaptionLimit
            BY <3>2, CaptionFits
        <3>4. ScheduleHour(i.at) \div 24 \in CampaignDays[1]..CampaignDays[2]
            BY <3>2, HourFits
        <3>5. /\ d.caption = FitCaption(i.caption) /\ d.hour = ScheduleHour(i.at)
              /\ d.topics = i.topics /\ d.flagged = (i.topics \cap Moderated # {})
            BY <3>1
        <3>6. d.flagged \/ d.topics \cap {"title", "caption", "visual_prompt", "video_script"} = {}
            BY <3>5 DEF Moderated
        <3> QED BY <3>3, <3>4, <3>5, <3>6
    <2> QED BY <1>1, <2>1, <2>2 DEF DraftsFit
<1> QED BY ZenonT(30), <1>1, <1>2
        DEF GenerationNext, generationVars, CreateConnection, ReadForEdit, BeginProbe,
            SaveConnection, DeleteConnection, EndProbe, StartGeneration, NothingConfigured, AskNext

-------------------------------------------------------------------------------

GenerationInv == ProviderInv /\ ChainInv /\ DraftsFit

LEMMA GenerationInvInit == GenerationInit => GenerationInv
<1> SUFFICES ASSUME GenerationInit PROVE GenerationInv
    OBVIOUS
<1>1. ProviderInv
    BY ProviderInvInit
<1>2. ChainInv
    BY DEF GenerationInit, ChainInv, NobodyAskedTwice, FailsOnlyWhenAllDid, IsInjective
<1>3. DraftsFit
    BY DEF GenerationInit, DraftsFit
<1> QED BY <1>1, <1>2, <1>3 DEF GenerationInv

LEMMA GenerationNextKeeps == GenerationInv /\ [GenerationNext]_generationVars => GenerationInv'
<1> SUFFICES ASSUME GenerationInv, [GenerationNext]_generationVars PROVE GenerationInv'
    OBVIOUS
<1>1. ProviderInv /\ ChainInv /\ DraftsFit
    BY DEF GenerationInv
<1>2. ProviderInv'
    <2>1. ASSUME UNCHANGED <<connection, form, probe, formsDone, entered, proven, crossedRows>>
          PROVE  ProviderInv'
        <3>1. ProviderTypes' /\ VerdictOfThisKey' /\ KeyEnteredLast'
            BY <1>1, <2>1
               DEF ProviderInv, ProviderTypes, VerdictOfThisKey, KeyEnteredLast, Existing
        <3>2. ProvidersApart'
            BY <1>1, <2>1 DEF ProviderInv, ProvidersApart, Existing, Effective
        <3>3. CopiesAreCurrent'
            BY <1>1, <2>1 DEF ProviderInv, CopiesAreCurrent, HeldRows, HeldByOther
        <3> QED BY <3>1, <3>2, <3>3 DEF ProviderInv
    <2> QED BY <1>1, <2>1, OpeningKeeps, CreatingKeeps, SavingKeeps, DeletingKeeps, TestingKeeps
            DEF GenerationNext, generationVars, StartGeneration, NothingConfigured, AskNext, UseAnswer
<1>3. ChainInv' /\ DraftsFit'
    BY <1>1, ChainStep, DraftsStep
<1> QED BY <1>2, <1>3 DEF GenerationInv

\* A generation asks nobody twice and gives up only when everybody failed, a verdict and a key
\* are the present ones but for overlapping edits, and drafts fit their campaign and platform:
\* for any connections, administrators, operator's providers and answers.
THEOREM GenerationsStaySound == GenerationSpec => []GenerationsHold
<1>1. GenerationInv => GenerationsHold
    BY DEF GenerationInv, ProviderInv, ChainInv, GenerationsHold
<1> QED BY <1>1, GenerationInvInit, GenerationNextKeeps, PTL DEF GenerationSpec

-------------------------------------------------------------------------------
(* Media jobs have their types *)

MediaShapes ==
    /\ MediaInv
    /\ job.status \in JobStatuses /\ accidents <= MaxMediaAccidents

LEMMA MediaShapesInit == MediaInit => MediaShapes
<1> SUFFICES ASSUME MediaInit PROVE MediaShapes
    OBVIOUS
<1>1. MediaInv BY MediaInvInit
<1> QED BY <1>1, MediaConstants DEF MediaInit, MediaShapes, JobStatuses

LEMMA MediaShapesKept == MediaShapes /\ [MediaNext]_mediaVars => MediaShapes'
<1> SUFFICES ASSUME MediaShapes, [MediaNext]_mediaVars PROVE MediaShapes'
    OBVIOUS
<1>1. MediaInv /\ MediaInv' BY MediaNextKeeps DEF MediaShapes
<1>2. /\ accidents \in Nat /\ accidents <= MaxMediaAccidents /\ MaxMediaAccidents \in Nat
      /\ job = [status |-> job.status, retries |-> job.retries] /\ job.status \in JobStatuses
    BY <1>1, MediaConstants DEF MediaShapes, MediaInv, MediaTypes
<1>3. accidents' <= MaxMediaAccidents
    <2>1. accidents' = accidents \/ (accidents < MaxMediaAccidents /\ accidents' = accidents + 1)
        BY DEF MediaNext, StartJob, CallWebhook, SaveAnswer, SaveRefusal, Requeue, TaskDone, RunAgain,
               Accident, mediaVars
    <2> QED BY <1>2, <2>1
<1>4. job'.status \in JobStatuses
    <2>1. \/ UNCHANGED job
          \/ \E s \in JobStatuses : job' = [job EXCEPT !.status = s]
          \/ \E s \in JobStatuses : \E n : job' = [status |-> s, retries |-> n]
        BY DEF MediaNext, StartJob, CallWebhook, SaveAnswer, SaveRefusal, Requeue, TaskDone, RunAgain,
               JobStatuses, mediaVars
    <2> QED BY <1>2, <2>1
<1> QED BY <1>1, <1>3, <1>4 DEF MediaShapes

LEMMA MediaShapesHold == MediaShapes => MediaTypeOK
BY MediaConstants DEF MediaShapes, MediaInv, MediaTypes, MediaTypeOK

-------------------------------------------------------------------------------
(* Campaigns, their drafts and approvals have their types *)

\* What CampaignTypeOK says beside what the invariant needs.
CampaignFields ==
    /\ campaign \in CampaignStatuses /\ connected \subseteq Items
    /\ request \in {"none", "checked", "saved"} /\ worker \in {"none", "asking", "recording"}
    /\ \A t \in Approvers : approval[t].step \in {"none", "checked", "listed"}
    /\ \A d \in draft : d.flagged \in BOOLEAN
    /\ \A d \in edit : d.flagged \in BOOLEAN /\ d.posted = FALSE

CampaignShapes == CampaignInv /\ CampaignFields

LEMMA CampaignShapesInit == CampaignInit => CampaignShapes
<1> SUFFICES ASSUME CampaignInit PROVE CampaignShapes
    OBVIOUS
<1>1. CampaignInv BY CampaignInvInit
<1>2. CampaignFields BY DEF CampaignInit, CampaignFields, CampaignStatuses, NoApproval
<1> QED BY <1>1, <1>2 DEF CampaignShapes

LEMMA CampaignShapesKept == CampaignShapes /\ [CampaignNext]_campaignVars => CampaignShapes'
<1> SUFFICES ASSUME CampaignShapes, [CampaignNext]_campaignVars PROVE CampaignShapes'
    OBVIOUS
<1>1. CampaignInv /\ CampaignInv' BY CampaignNextKeeps DEF CampaignShapes
<1>2. /\ campaign \in CampaignStatuses /\ connected \subseteq Items
      /\ request \in {"none", "checked", "saved"} /\ worker \in {"none", "asking", "recording"}
      /\ \A t \in Approvers : approval[t].step \in {"none", "checked", "listed"}
      /\ \A d \in draft : d.flagged \in BOOLEAN
      /\ \A d \in edit : d.flagged \in BOOLEAN /\ d.posted = FALSE
      /\ \A d \in draft \cup edit : d = [key |-> d.key, flagged |-> d.flagged, posted |-> d.posted]
      /\ approval = [t \in Approvers |-> approval[t]]
      /\ \A t \in Approvers : approval[t] = [step |-> approval[t].step, list |-> approval[t].list]
      /\ \A d \in draft : d.posted \in BOOLEAN
    BY <1>1 DEF CampaignShapes, CampaignFields, CampaignInv, CampaignTypes
<1>3. campaign' \in CampaignStatuses
    BY <1>2 DEF CampaignNext, RegenerateCheck, RegenerateSave, QueueGeneration, RequestDies, Ask, Refused,
           RecordUsage, WorkerDies, Persist, ApproveCheck, ApproveList, ApproveCommit, ToggleAccount,
           EditDraft, SaveDraft, campaignVars, CampaignStatuses
<1>4. connected' \subseteq Items
    BY <1>2 DEF CampaignNext, RegenerateCheck, RegenerateSave, QueueGeneration, RequestDies, Ask, Refused,
           RecordUsage, WorkerDies, Persist, ApproveCheck, ApproveList, ApproveCommit, ToggleAccount,
           EditDraft, SaveDraft, campaignVars
<1>5. request' \in {"none", "checked", "saved"} /\ worker' \in {"none", "asking", "recording"}
    BY <1>2 DEF CampaignNext, RegenerateCheck, RegenerateSave, QueueGeneration, RequestDies, Ask, Refused,
           RecordUsage, WorkerDies, Persist, ApproveCheck, ApproveList, ApproveCommit, ToggleAccount,
           EditDraft, SaveDraft, campaignVars
<1>6. \A t \in Approvers : approval'[t].step \in {"none", "checked", "listed"}
    <2>1. CASE UNCHANGED approval BY <2>1, <1>2
    <2>2. ASSUME NEW x \in Approvers, ApproveCheck(x)
          PROVE  \A t \in Approvers : approval'[t].step \in {"none", "checked", "listed"}
        BY <2>2, <1>2 DEF ApproveCheck
    <2>3. ASSUME NEW x \in Approvers, ApproveList(x) \/ ApproveCommit(x)
          PROVE  \A t \in Approvers : approval'[t].step \in {"none", "checked", "listed"}
        <3>1. \/ approval' = [approval EXCEPT ![x] = NoApproval]
              \/ approval' = [approval EXCEPT ![x] = [step |-> "listed", list |-> draft]]
            BY <2>3 DEF ApproveList, ApproveCommit
        <3> QED BY <3>1, <1>2 DEF NoApproval
    <2> QED BY <2>1, <2>2, <2>3
        DEF CampaignNext, RegenerateCheck, RegenerateSave, QueueGeneration, RequestDies, Ask, Refused,
           RecordUsage, WorkerDies, Persist, ToggleAccount, EditDraft, SaveDraft, campaignVars
<1>7. \A d \in draft' : d.flagged \in BOOLEAN
    <2>1. CASE UNCHANGED draft BY <2>1, <1>2
    <2>2. ASSUME NEW F \in SUBSET Items, Persist(F) PROVE \A d \in draft' : d.flagged \in BOOLEAN
        <3>1. \A k : \A b \in BOOLEAN : Row(k, b).flagged \in BOOLEAN
            BY DEF Row
        <3>2. \A i : (i \in F) \in BOOLEAN
            OBVIOUS
        <3>3. \A i : Row(<<generation', i>>, i \in F).flagged \in BOOLEAN
            BY <3>1, <3>2
        <3>4. \A d \in draft' : d \in draft \/ \E i \in Items : d = Row(<<generation', i>>, i \in F)
            BY <2>2 DEF Persist
        <3> QED BY <3>3, <3>4, <1>2
    <2>3. ASSUME NEW f \in BOOLEAN, SaveDraft(f) PROVE \A d \in draft' : d.flagged \in BOOLEAN
        BY <2>3, <1>2 DEF SaveDraft, Row
    <2>4. ASSUME NEW t \in Approvers, ApproveCommit(t) PROVE \A d \in draft' : d.flagged \in BOOLEAN
        <3>1. \A e \in draft : [e EXCEPT !.posted = TRUE].flagged = e.flagged
            BY <1>2
        <3>2. \/ draft' = draft
              \/ \E M : draft' = {IF d.key \in M THEN [d EXCEPT !.posted = TRUE] ELSE d : d \in draft}
            BY <2>4 DEF ApproveCommit
        <3>3. \A d \in draft' : d \in draft \/ \E e \in draft : d = [e EXCEPT !.posted = TRUE]
            BY <3>2
        <3> QED BY <3>1, <3>3, <1>2
    <2> QED BY <2>1, <2>2, <2>3, <2>4
        DEF CampaignNext, RegenerateCheck, RegenerateSave, QueueGeneration, RequestDies, Ask, Refused,
           RecordUsage, WorkerDies, ApproveCheck, ApproveList, ToggleAccount, EditDraft, campaignVars
<1>8. \A d \in edit' : d.flagged \in BOOLEAN /\ d.posted = FALSE
    <2>1. CASE edit' \subseteq edit BY <2>1, <1>2
    <2>2. ASSUME NEW e \in draft, EditDraft(e) PROVE \A d \in edit' : d.flagged \in BOOLEAN /\ d.posted = FALSE
        <3>1. edit' = {e} /\ ~e.posted /\ e.posted \in BOOLEAN BY <2>2, <1>2 DEF EditDraft
        <3>2. e.posted = FALSE BY <3>1
        <3> QED BY <3>1, <3>2, <1>2
    <2> QED BY <2>1, <2>2
        DEF CampaignNext, RegenerateCheck, RegenerateSave, QueueGeneration, RequestDies, Ask, Refused,
           RecordUsage, WorkerDies, Persist, ApproveCheck, ApproveList, ApproveCommit, ToggleAccount,
           SaveDraft, campaignVars
<1>9. CampaignFields' BY <1>3, <1>4, <1>5, <1>6, <1>7, <1>8 DEF CampaignFields
<1> QED BY <1>1, <1>9 DEF CampaignShapes

LEMMA CampaignShapesHold == CampaignShapes => CampaignTypeOK
<1> SUFFICES ASSUME CampaignShapes PROVE CampaignTypeOK
    OBVIOUS
<1>1. CampaignTypes /\ CampaignFields BY DEF CampaignShapes, CampaignInv
<1>2. draft \subseteq [key: DraftKeys, flagged: BOOLEAN, posted: BOOLEAN]
    <2>1. ASSUME NEW d \in draft PROVE d \in [key: DraftKeys, flagged: BOOLEAN, posted: BOOLEAN]
        <3>1. d.key \in DraftKeys /\ d.flagged \in BOOLEAN /\ d.posted \in BOOLEAN
            BY <1>1 DEF CampaignTypes, CampaignFields
        <3>2. d = [key |-> d.key, flagged |-> d.flagged, posted |-> d.posted]
            BY <1>1 DEF CampaignTypes
        <3> QED BY <3>1, <3>2
    <2> QED BY <2>1
<1>3. edit \subseteq [key: DraftKeys, flagged: BOOLEAN, posted: {FALSE}]
    <2>1. ASSUME NEW d \in edit PROVE d \in [key: DraftKeys, flagged: BOOLEAN, posted: {FALSE}]
        <3>1. d.key \in DraftKeys /\ d.flagged \in BOOLEAN /\ d.posted \in {FALSE}
            BY <1>1 DEF CampaignTypes, CampaignFields
        <3>2. d = [key |-> d.key, flagged |-> d.flagged, posted |-> d.posted]
            BY <1>1 DEF CampaignTypes
        <3> QED BY <3>1, <3>2
    <2> QED BY <2>1
<1> QED BY <1>1, <1>2, <1>3 DEF CampaignTypes, CampaignFields, CampaignTypeOK

-------------------------------------------------------------------------------
(* Generations and their connections have their types *)

\* What a generation can have come to, and how often its connections were edited and tested.
GenerationShapes ==
    /\ GenerationInv /\ generated \in {"none", "asking", "drafts", "failed", "broken"}
    /\ formsDone \in 0..MaxForms /\ probesDone \in 0..MaxProbes

LEMMA GenerationShapesInit == GenerationInit => GenerationShapes
<1> SUFFICES ASSUME GenerationInit PROVE GenerationShapes
    OBVIOUS
<1>1. GenerationInv BY GenerationInvInit
<1>2. MaxForms \in Nat /\ MaxProbes \in Nat BY GenerationConstants
<1> QED BY <1>1, <1>2 DEF GenerationInit, GenerationShapes

LEMMA GenerationShapesKept ==
    GenerationShapes /\ [GenerationNext]_generationVars => GenerationShapes'
<1> SUFFICES ASSUME GenerationShapes, [GenerationNext]_generationVars PROVE GenerationShapes'
    OBVIOUS
<1>1. GenerationInv' BY GenerationNextKeeps DEF GenerationShapes
<1>2. /\ formsDone \in 0..MaxForms /\ probesDone \in 0..MaxProbes
      /\ MaxForms \in Nat /\ MaxProbes \in Nat
      /\ generated \in {"none", "asking", "drafts", "failed", "broken"}
    BY GenerationConstants DEF GenerationShapes
<1>3. /\ formsDone' = formsDone \/ (formsDone < MaxForms /\ formsDone' = formsDone + 1)
      /\ probesDone' = probesDone \/ (probesDone < MaxProbes /\ probesDone' = probesDone + 1)
    BY ZenonT(30) DEF GenerationNext, CreateConnection, ReadForEdit, SaveConnection, DeleteConnection, BeginProbe,
           EndProbe, StartGeneration, NothingConfigured, AskNext, UseAnswer, generationVars
<1>4. formsDone' \in 0..MaxForms /\ probesDone' \in 0..MaxProbes BY <1>2, <1>3
<1>5. generated' \in {generated, "asking", "drafts", "failed", "broken"}
    BY ZenonT(30) DEF GenerationNext, CreateConnection, ReadForEdit, SaveConnection, DeleteConnection, BeginProbe,
           EndProbe, StartGeneration, NothingConfigured, AskNext, UseAnswer, generationVars, AfterError
<1>6. generated' \in {"none", "asking", "drafts", "failed", "broken"} BY <1>2, <1>5
<1> QED BY <1>1, <1>4, <1>6 DEF GenerationShapes

LEMMA GenerationShapesHold == GenerationShapes => GenerationTypeOK
<1> SUFFICES ASSUME GenerationShapes PROVE GenerationTypeOK
    OBVIOUS
<1>1. ProviderTypes /\ ChainInv BY DEF GenerationShapes, GenerationInv, ProviderInv
<1>2. ASSUME NEW c \in Slots PROVE connection[c] = NoConnection \/ connection[c].provider \in AIProviders
    <2>1. connection[c] \in StoredRows \cup {NoConnection} BY <1>1 DEF ProviderTypes
    <2> QED BY <2>1 DEF StoredRows
<1> QED BY <1>1, <1>2 DEF GenerationShapes, ChainInv, EveryProvider, GenerationTypeOK

-------------------------------------------------------------------------------
(* The subscription: one checkout in progress, and keys that were given *)

\* One checkout at most is in progress, and keys are those that were given.
OneCheckout == \A i, j \in InProgress : i = j
KeysGiven == keys.accepted \subseteq 1..keys.given /\ overtakenKeys \subseteq 1..keys.given

BillingShapes == BillingIInv /\ OneCheckout /\ KeysGiven

LEMMA BillingShapesInit == BillingInit => BillingShapes
<1> SUFFICES ASSUME BillingInit PROVE BillingShapes
    OBVIOUS
<1>1. BillingIInv BY BillingIInvInit
<1>2. \A i \in InProgress : i = 1 BY DEF BillingInit, InProgress
<1>3. OneCheckout BY <1>2 DEF OneCheckout
<1>4. KeysGiven
    <2>1. overtakenKeys = {} /\ (keys = [given |-> 1, accepted |-> {1}] \/ keys = [given |-> 0, accepted |-> {}])
        BY DEF BillingInit
    <2> QED BY <2>1 DEF KeysGiven
<1> QED BY <1>1, <1>3, <1>4 DEF BillingShapes

\* A step ends checkouts in progress, or leaves one of its own at most.
LEMMA CheckoutsEnd ==
    ASSUME BillingTypes, BillingNext
    PROVE  InProgress' \subseteq InProgress \/ \E i \in Nat : InProgress' \subseteq {i}
<1> DEFINE Goal == InProgress' \subseteq InProgress \/ \E i \in Nat : InProgress' \subseteq {i}
<1>0. /\ attempt \in [Sessions -> AttemptRow] /\ Sessions \subseteq Nat
      /\ \A t \in BillingActors : billing[t].row \in Sessions \cup {0}
    BY BillingActorsFacts DEF BillingTypes, BillingHand
<1>10. \A t \in BillingActors : billing[t].row \in Nat
    <2>1. Sessions \cup {0} \subseteq Nat BY <1>0
    <2> QED BY <1>0, <2>1
<1>11. \A t \in BillingThreads : billing[t].row \in Nat BY <1>10, BillingActorsFacts
<1>1. UNCHANGED attempt => Goal BY DEF InProgress
<1>2. ASSUME NEW i \in Nat, NEW r, attempt' = [attempt EXCEPT ![i] = r],
             r.status \in {"none", "activated", "expired", "canceled"} \/ InProgress \subseteq {i}
      PROVE  Goal
    BY <1>0, <1>2 DEF InProgress
<1>3. ASSUME NEW i \in Nat, NEW s \in {"activated", "expired", "canceled"},
             attempt' = [attempt EXCEPT ![i].status = s]
      PROVE  Goal
    <2>1. \A j \in Sessions : j # i => attempt'[j] = attempt[j]
        BY <1>0, <1>3
    <2>2. i \in Sessions => attempt'[i].status = s BY <1>0, <1>3 DEF AttemptRow
    <2> QED BY <2>1, <2>2 DEF InProgress
<1>4. ASSUME NEW t \in BillingThreads, Reserve(t) PROVE Goal
    <2>1. PICK i \in Unused : attempt' = [attempt EXCEPT ![i] = [status |-> "creating", session |-> 0]]
        BY <1>4, EarliestIsMember DEF Reserve, Unused
    <2>2. InProgress = {} /\ i \in Nat BY <1>0, <1>4, <2>1 DEF Reserve, IndexAdmits, Unused
    <2> QED BY <1>2, <2>1, <2>2
<1>5. ASSUME NEW t \in BillingThreads, SettleCheckout(t) PROVE Goal
    <2> DEFINE i == billing[t].row
    <2>1. i \in Nat BY <1>11
    <2>2. \/ UNCHANGED attempt
          \/ InProgress \subseteq {i} /\ attempt' = [attempt EXCEPT ![i] = [status |-> "open", session |-> billing[t].session]]
          \/ attempt' = [attempt EXCEPT ![i].status = "expired"]
          \/ attempt' = [attempt EXCEPT ![i] = [status |-> "none", session |-> 0]]
        BY <1>5 DEF SettleCheckout
    <2> HIDE DEF i, Goal
    <2>3. [status |-> "none", session |-> 0].status = "none" OBVIOUS
    <2> QED BY <1>1, <1>2, <1>3, <2>1, <2>2, <2>3
<1>6. ASSUME NEW t \in BillingThreads, SaveDiscard(t) PROVE Goal
    <2>1. billing[t].row \in Nat BY <1>11
    <2>2. UNCHANGED attempt \/ attempt' = [attempt EXCEPT ![billing[t].row].status = "canceled"]
        BY <1>6 DEF SaveDiscard
    <2> QED BY <1>1, <1>3, <2>1, <2>2
<1>7. ASSUME NEW t \in BillingThreads, ReopenAttempt(t) PROVE Goal
    <2> DEFINE i == billing[t].row
               open == [status |-> "open", session |-> billing[t].session]
    <2>1. i \in Nat BY <1>11
    <2>2. CASE InProgress \subseteq {i} /\ attempt' = [attempt EXCEPT ![i] = open]
        <3> HIDE DEF i, open, Goal
        <3> QED BY <1>2, <2>1, <2>2
    <2>3. ASSUME NEW n \in Sessions,
                 attempt' = [j \in Sessions |->
                               IF j = n THEN open
                               ELSE IF j \in InProgress
                               THEN [attempt[j] EXCEPT !.status = "expired"] ELSE attempt[j]]
          PROVE  Goal
        <3>1. \A j \in Sessions \ {n} :
                 attempt'[j].status = IF j \in InProgress THEN "expired" ELSE attempt[j].status
            <4> HIDE DEF open
            <4> QED BY <1>0, <2>3 DEF AttemptRow
        <3>2. InProgress' \subseteq {n} BY <3>1 DEF InProgress
        <3> QED BY <1>0, <3>2
    <2> QED BY <1>1, <1>7, <2>2, <2>3 DEF ReopenAttempt
<1>8. ASSUME NEW t \in BillingActors, Finalize(t) PROVE Goal
    <2>1. billing[t].row \in Nat BY <1>10
    <2>2. UNCHANGED attempt \/ attempt' = [attempt EXCEPT ![billing[t].row].status = "activated"]
        BY <1>8 DEF Finalize
    <2> QED BY <1>1, <1>3, <2>1, <2>2
<1> HIDE DEF Goal
<1>9. Goal
    BY ZenonT(30), <1>1, <1>4, <1>5, <1>6, <1>7, <1>8
       DEF BillingNext, Pay, WorkerClaims, Demote, CreateSession, FindCheckout, CancelSession,
           DeferRequest, OpenSuccessUrl, AskPendingActivation, Preflight, Recheck, CommitActivation,
           QueueActivation, BillingDies, CancelAtStripe, WorkerSaves, ActivationDone, AskAccount,
           CopyCancellation
<1> QED BY <1>9 DEF Goal

\* Keys are given one at a time; a rotation overtakes those on the way to the row.
LEMMA KeysGoOn ==
    ASSUME BillingNext
    PROVE  \/ UNCHANGED <<keys, overtakenKeys>>
           \/ /\ keys' = [given |-> keys.given + 1, accepted |-> keys.accepted \cup {keys.given + 1}]
              /\ UNCHANGED overtakenKeys
           \/ /\ keys' = [given |-> keys.given + 1, accepted |-> {keys.given + 1}]
              /\ \E t \in BillingActors : overtakenKeys' = overtakenKeys \cup Held(t)
<1> DEFINE Goal == \/ UNCHANGED <<keys, overtakenKeys>>
                   \/ /\ keys' = [given |-> keys.given + 1, accepted |-> keys.accepted \cup {keys.given + 1}]
                      /\ UNCHANGED overtakenKeys
                   \/ /\ keys' = [given |-> keys.given + 1, accepted |-> {keys.given + 1}]
                      /\ \E t \in BillingActors : overtakenKeys' = overtakenKeys \cup Held(t)
<1>1. ASSUME NEW t \in BillingActors, CommitActivation(t) PROVE Goal BY <1>1 DEF CommitActivation
<1>2. ASSUME NEW t \in BillingActors, Finalize(t) PROVE Goal BY <1>2 DEF Finalize
<1>3. UNCHANGED <<keys, overtakenKeys>> => Goal OBVIOUS
<1> HIDE DEF Goal
<1>4. Goal
    BY ZenonT(30), <1>1, <1>2, <1>3
       DEF BillingNext, Pay, WorkerClaims, Demote, Reserve, CreateSession, SettleCheckout, FindCheckout,
           CancelSession, SaveDiscard, ReopenAttempt, DeferRequest, OpenSuccessUrl, AskPendingActivation,
           Preflight, Recheck, QueueActivation, BillingDies, CancelAtStripe, WorkerSaves, ActivationDone,
           AskAccount, CopyCancellation
<1> QED BY <1>4 DEF Goal

LEMMA BillingShapesKept == BillingShapes /\ [BillingNext]_billingVars => BillingShapes'
<1> SUFFICES ASSUME BillingShapes, [BillingNext]_billingVars PROVE BillingShapes'
    OBVIOUS
<1>1. BillingIInv' BY BillingIInvStep, BillingIInvStutter DEF BillingShapes
<1>2. BillingTypes /\ KeysHeld /\ OneCheckout /\ KeysGiven BY DEF BillingShapes, BillingIInv
<1>3. CASE UNCHANGED billingVars
    <2>1. UNCHANGED <<attempt, keys, overtakenKeys>> BY <1>3 DEF billingVars
    <2> QED BY <1>1, <1>2, <2>1 DEF BillingShapes, OneCheckout, InProgress, KeysGiven
<1>4. CASE BillingNext
    <2>1. OneCheckout' BY <1>2, <1>4, CheckoutsEnd DEF OneCheckout
    <2>2. keys.given \in Nat BY <1>2 DEF BillingTypes
    <2>3. \A t \in BillingActors : Held(t) \subseteq 1..keys.given
        BY <1>2 DEF KeysHeld, GoodKeys, Held, KeysGiven
    <2>4. KeysGiven'
        <3>1. 1..keys.given \subseteq 1..(keys.given + 1) /\ keys.given + 1 \in 1..(keys.given + 1) BY <2>2
        <3>2. \/ UNCHANGED <<keys, overtakenKeys>>
              \/ /\ keys'.given = keys.given + 1
                 /\ keys'.accepted \subseteq keys.accepted \cup {keys.given + 1}
                 /\ overtakenKeys' = overtakenKeys \/ \E t \in BillingActors : overtakenKeys' = overtakenKeys \cup Held(t)
            BY <1>4, KeysGoOn
        <3>3. keys.accepted \subseteq 1..keys.given /\ overtakenKeys \subseteq 1..keys.given BY <1>2 DEF KeysGiven
        <3>4. CASE UNCHANGED <<keys, overtakenKeys>> BY <3>3, <3>4 DEF KeysGiven
        <3>5. CASE /\ keys'.given = keys.given + 1
                   /\ keys'.accepted \subseteq keys.accepted \cup {keys.given + 1}
                   /\ overtakenKeys' = overtakenKeys \/ \E t \in BillingActors : overtakenKeys' = overtakenKeys \cup Held(t)
            <4> DEFINE upto == 1..(keys.given + 1)
            <4>1. keys.accepted \cup {keys.given + 1} \subseteq upto /\ 1..keys.given \subseteq upto BY <3>1, <3>3
            <4>2. 1..keys'.given = upto BY <3>5
            <4> HIDE DEF upto
            <4>3. overtakenKeys' \subseteq 1..keys.given BY <2>3, <3>3, <3>5
            <4>4. keys'.accepted \subseteq upto /\ overtakenKeys' \subseteq upto BY <3>5, <4>1, <4>3
            <4> QED BY <4>2, <4>4 DEF KeysGiven
        <3> QED BY <3>2, <3>4, <3>5
    <2> QED BY <1>1, <2>1, <2>4 DEF BillingShapes
<1> QED BY <1>3, <1>4

LEMMA BillingShapesHold == BillingShapes => BillingTypeOK
<1> SUFFICES ASSUME BillingShapes PROVE BillingTypeOK
    OBVIOUS
<1>1. BillingTypes /\ KeysHeld /\ TasksHeld /\ OneCheckout /\ KeysGiven BY DEF BillingShapes, BillingIInv
<1>2. Cardinality(InProgress) <= 1
    <2>1. CASE InProgress = {} BY <2>1, FS_EmptySet
    <2>2. ASSUME NEW i \in InProgress PROVE Cardinality(InProgress) <= 1
        <3>1. InProgress = {i} BY <1>1 DEF OneCheckout
        <3> QED BY <3>1, FS_Singleton
    <2> QED BY <2>1, <2>2
<1>3. keys.given \in Nat BY <1>1 DEF BillingTypes
<1>4. sub.key \in 0..keys.given
    <2>1. 0 \in 0..keys.given /\ 1..keys.given \subseteq 0..keys.given BY <1>3
    <2> QED BY <1>1, <2>1 DEF KeysHeld, GoodKeys, KeysGiven
<1>5. \A s \in Sessions : activations[s] \in Int /\ activations[s] >= 0 BY <1>1 DEF BillingTypes, TasksHeld
<1>6. \A s \in Sessions : activations[s] \in Nat BY <1>5
<1>7. sub.status \in {"none", "active", "canceled"} /\ admins \subseteq Admins BY <1>1 DEF BillingTypes
<1>8. \A i \in Sessions :
         /\ attempt[i].status \in {"none", "creating", "open", "activated", "expired", "canceled"}
         /\ attempt[i].session \in Sessions \cup {0}
    BY <1>1 DEF BillingTypes, AttemptRow
<1>9. \A s \in Sessions :
         /\ pend[s].status \in {"none", "pending", "in_progress", "unauthorized", "failed", "completed"}
         /\ pend[s].attempts \in Nat
    BY <1>1 DEF BillingTypes, PendingRow
<1> QED BY <1>1, <1>2, <1>4, <1>6, <1>7, <1>8, <1>9 DEF BillingTypeOK, KeysGiven
===============================================================================
