----------------------------- MODULE Subscriptions -----------------------------
(***************************************************************************)
(* The Intelligence subscription of one organization: administrators open, *)
(* discard and pay checkouts, come back from Stripe to activate, recover a *)
(* closed tab; a worker takes over an activation the service was not        *)
(* reachable for and copies cancellations.  Intelligence and Stripe are     *)
(* external, modelled from the answers the code expects of them.            *)
(***************************************************************************)
EXTENDS Integers, FiniteSets

CONSTANTS
    Admins,            \* OWNER and ADMIN members at the start
    BillingThreads,    \* web threads
    MaxCheckouts,      \* bound on attempt rows, and on Stripe sessions
    WorkerMaxAttempts, \* WORKER_MAX_ATTEMPTS
    MaxBillingOps,     \* bound on requests
    MaxBillingFaults   \* bound on deaths and unanswered calls

ASSUME BillingConstants ==
    /\ MaxCheckouts \in Nat \ {0} /\ WorkerMaxAttempts \in Nat \ {0}
    /\ MaxBillingOps \in Nat /\ MaxBillingFaults \in Nat
    /\ "worker" \notin BillingThreads

VARIABLES
    attempt,    \* id -> StudioCheckoutAttempt row: status and session (0: none yet)
    sub,        \* IntelligenceSubscription: status and API key (0: blank)
    pend,       \* session -> PendingActivation row: status, attempts, user
    activations, \* session -> provisioning tasks, the one running included
    billing,    \* thread -> what it is doing
    admins,     \* users who are OWNER or ADMIN now
    session,    \* external: Stripe session -> none, open, canceled, paid, committed
    contract,    \* external: the subscription at Intelligence
    keys,       \* external: how many keys were given, and which are accepted
    billingOps, billingFaults, \* counters; a start counts requests that led to it
    stranded,    \* history: sessions whose request died before it queued the task
    overtakenKeys, \* history: keys rotated away while on the way to the row
    crossed     \* history: activated while the worker held "canceled"

billingVars == <<attempt, sub, pend, activations, billing, admins, session, contract, keys,
                 billingOps, billingFaults, stranded, overtakenKeys, crossed>>

Sessions == 1..MaxCheckouts
Worker == "worker"
BillingActors == BillingThreads \cup {Worker}
AtRest == [step |-> "rest", row |-> 0, session |-> 0, user |-> "nobody", key |-> 0, tries |-> 0,
           entitled |-> TRUE]

InProgress == {i \in Sessions : attempt[i].status \in {"creating", "open", "pending"}}
Unused == {i \in Sessions : attempt[i].status = "none" /\ session[i] = "none"}
Earliest(S) == CHOOSE i \in S : \A j \in S : i <= j

\* The newest attempt of session s, 0 if there is none.
AttemptOf(s) ==
    LET rows == {i \in Sessions : attempt[i].status # "none" /\ attempt[i].session = s}
    IN  IF rows = {} THEN 0 ELSE CHOOSE i \in rows : \A j \in rows : i >= j

Goes(t, step) == billing' = [billing EXCEPT ![t].step = step]
Rests(t) == billing' = [billing EXCEPT ![t] = AtRest]
Fault == billingFaults < MaxBillingFaults /\ billingFaults' = billingFaults + 1
BillingRequest(t) ==
    /\ t \in BillingThreads /\ billing[t].step = "rest"
    /\ billingOps < MaxBillingOps /\ billingOps' = billingOps + 1

-------------------------------------------------------------------------------
(* Intelligence and Stripe *)

\* Nothing open, paid for or running: the organization may start a checkout.
Eligible == contract # "active" /\ \A s \in Sessions : session[s] \notin {"open", "paid"}

Pay(s) ==
    /\ session[s] = "open" /\ session' = [session EXCEPT ![s] = "paid"]
    /\ UNCHANGED <<attempt, sub, pend, activations, billing, admins, contract, keys, billingOps,
                   billingFaults, stranded, overtakenKeys, crossed>>

CancelAtStripe ==
    /\ contract = "active" /\ contract' = "canceled"
    /\ UNCHANGED <<attempt, sub, pend, activations, billing, admins, session, keys, billingOps,
                   billingFaults, stranded, overtakenKeys, crossed>>

Demote(u) ==
    /\ u \in admins /\ Cardinality(admins) > 1 /\ admins' = admins \ {u}
    /\ UNCHANGED <<attempt, sub, pend, activations, billing, session, contract, keys, billingOps,
                   billingFaults, stranded, overtakenKeys, crossed>>

-------------------------------------------------------------------------------
(* Checkout *)

\* Mutant: the index does not cover a row whose session is still being made.
NoneOpen == \A i \in Sessions : attempt[i].status \notin {"open", "pending"}

\* The partial unique index, one row in progress per organization, takes another.
IndexAdmits == InProgress = {}

\* TX1, under the index.
Reserve(t) ==
    /\ BillingRequest(t) /\ IndexAdmits /\ Unused # {}
    /\ LET i == Earliest(Unused) IN
       /\ attempt' = [attempt EXCEPT ![i] = [status |-> "creating", session |-> 0]]
       /\ billing' = [billing EXCEPT ![t].step = "reserved", ![t].row = i]
    /\ UNCHANGED <<sub, pend, activations, admins, session, contract, keys, billingFaults, stranded,
                   overtakenKeys, crossed>>

\* The idempotency key names the organization and the plan only: the answer may
\* be that of an earlier checkout.
CreateSession(t) ==
    /\ billing[t].step = "reserved"
    /\ \/ /\ Eligible /\ session' = [session EXCEPT ![billing[t].row] = "open"]
          /\ \/ /\ billing' = [billing EXCEPT ![t].step = "opened", ![t].session = billing[t].row]
                /\ UNCHANGED billingFaults
             \/ Goes(t, "unreachable") /\ Fault
       \/ \E s \in Sessions :
             /\ session[s] # "none" /\ billing' = [billing EXCEPT ![t].step = "opened",
                                                                  ![t].session = s]
             /\ UNCHANGED <<session, billingFaults>>
       \/ ~Eligible /\ Goes(t, "conflict") /\ UNCHANGED <<session, billingFaults>>
       \/ Goes(t, "unreachable") /\ Fault /\ UNCHANGED session
    /\ UNCHANGED <<attempt, sub, pend, activations, admins, contract, keys, billingOps, stranded,
                   overtakenKeys, crossed>>

\* TX2: the row becomes resumable unless the index refuses (the error leaves it),
\* or its slot is given back.
SettleCheckout(t) ==
    LET i == billing[t].row IN
    /\ \/ /\ billing[t].step = "opened"
          /\ attempt' = IF InProgress \subseteq {i}
                        THEN [attempt EXCEPT ![i] = [status |-> "open",
                                                     session |-> billing[t].session]]
                        ELSE attempt
       \/ /\ billing[t].step = "conflict"
          /\ attempt' = [attempt EXCEPT ![i].status = "expired"]
       \/ /\ billing[t].step = "unreachable"
          /\ attempt' = [attempt EXCEPT ![i] = [status |-> "none", session |-> 0]]
    /\ Rests(t)
    /\ UNCHANGED <<sub, pend, activations, admins, session, contract, keys, billingOps,
                   billingFaults, stranded, overtakenKeys, crossed>>

\* Discard: the row in progress, or a session only Intelligence knows.
FindCheckout(t) ==
    /\ BillingRequest(t)
    /\ \/ \E i \in InProgress :
             billing' = [billing EXCEPT ![t].step = "discarding", ![t].row = i,
                                        ![t].session = attempt[i].session]
       \/ /\ InProgress = {}
          /\ \E s \in Sessions :
                /\ session[s] = "open"
                /\ billing' = [billing EXCEPT ![t].step = "discarding", ![t].session = s]
    /\ UNCHANGED <<attempt, sub, pend, activations, admins, session, contract, keys, billingFaults,
                   stranded, overtakenKeys, crossed>>

CancelSession(t) ==
    LET closed == [s \in Sessions |->
                     IF session[s] = "open" /\ billing[t].session \in {0, s} THEN "canceled"
                     ELSE session[s]]
    IN
    /\ billing[t].step = "discarding"
    /\ \/ session' = closed /\ Goes(t, "discarded") /\ UNCHANGED billingFaults
       \/ session' \in {closed, session} /\ Rests(t) /\ Fault
    /\ UNCHANGED <<attempt, sub, pend, activations, admins, contract, keys, billingOps, stranded,
                   overtakenKeys, crossed>>

SaveDiscard(t) ==
    LET i == billing[t].row IN
    /\ billing[t].step = "discarded" /\ Rests(t)
    /\ attempt' = IF i # 0 /\ attempt[i].status # "none"
                  THEN [attempt EXCEPT ![i].status = "canceled"] ELSE attempt
    /\ UNCHANGED <<sub, pend, activations, admins, session, contract, keys, billingOps,
                   billingFaults, stranded, overtakenKeys, crossed>>

-------------------------------------------------------------------------------
(* Ways into an activation: the success URL, recovery, the worker *)

OpenSuccessUrl(t, u, s) ==
    /\ BillingRequest(t) /\ session[s] # "none" /\ AttemptOf(s) # 0 /\ u \in admins
    /\ billing' = [billing EXCEPT ![t] = [AtRest EXCEPT !.step = "activating", !.session = s,
                                                        !.user = u, !.row = AttemptOf(s)]]
    /\ UNCHANGED <<attempt, sub, pend, activations, admins, session, contract, keys, billingFaults,
                   stranded, overtakenKeys, crossed>>

AskPendingActivation(t, u, s) ==
    /\ BillingRequest(t) /\ session[s] = "paid" /\ u \in admins
    /\ billing' = [billing EXCEPT ![t] = [AtRest EXCEPT !.step = "recovering", !.session = s,
                                                        !.user = u, !.row = AttemptOf(s)]]
    /\ UNCHANGED <<attempt, sub, pend, activations, admins, session, contract, keys, billingFaults,
                   stranded, overtakenKeys, crossed>>

\* A known row is reopened, which the index may refuse; for an unknown session
\* whatever is in progress is expired and a row made.
ReopenAttempt(t) ==
    LET i == billing[t].row
        open == [status |-> "open", session |-> billing[t].session]
    IN
    /\ billing[t].step = "recovering"
    /\ \/ /\ i # 0 /\ InProgress \subseteq {i} /\ attempt' = [attempt EXCEPT ![i] = open]
          /\ Goes(t, "activating")
       \/ i # 0 /\ ~(InProgress \subseteq {i}) /\ UNCHANGED attempt /\ Rests(t)
       \/ /\ i = 0
          /\ \E n \in {j \in Sessions : attempt[j].status = "none"} :
                /\ attempt' = [j \in Sessions |->
                                 IF j = n THEN open
                                 ELSE IF j \in InProgress
                                 THEN [attempt[j] EXCEPT !.status = "expired"] ELSE attempt[j]]
                /\ billing' = [billing EXCEPT ![t].step = "activating", ![t].row = n]
    /\ UNCHANGED <<sub, pend, activations, admins, session, contract, keys, billingOps,
                   billingFaults, stranded, overtakenKeys, crossed>>

\* Mutant: a row the last run left in progress is somebody else's.
ClaimableIfPending(s) == pend[s].status = "pending"

Claimable(s) == pend[s].status \in {"pending", "in_progress"}

WorkerClaims(s) ==
    /\ billing[Worker].step = "rest" /\ activations[s] > 0
    /\ \/ /\ Claimable(s)
          /\ pend' = [pend EXCEPT ![s].status = "in_progress", ![s].attempts = @ + 1]
          /\ billing' = [billing EXCEPT ![Worker] =
                           [step |-> IF AttemptOf(s) = 0 THEN "rejected" ELSE "activating",
                            row |-> AttemptOf(s), session |-> s, user |-> pend[s].user, key |-> 0,
                            tries |-> pend[s].attempts + 1, entitled |-> pend[s].user \in admins]]
          /\ UNCHANGED activations
       \/ /\ ~Claimable(s) /\ activations' = [activations EXCEPT ![s] = @ - 1]
          /\ UNCHANGED <<pend, billing>>
    /\ UNCHANGED <<attempt, sub, admins, session, contract, keys, billingOps, billingFaults,
                   stranded, overtakenKeys, crossed>>

-------------------------------------------------------------------------------
(* The two phases *)

\* A refusal ends a request; the worker records it.
Declined(t) == IF t = Worker THEN Goes(t, "rejected") ELSE Rests(t)

Preflight(t) ==
    /\ billing[t].step = "activating"
    /\ \/ session[billing[t].session] \in {"paid", "committed"} /\ Goes(t, "preflighted")
          /\ UNCHANGED billingFaults
       \/ session[billing[t].session] # "paid" /\ Declined(t) /\ UNCHANGED billingFaults
       \/ Goes(t, "deferring") /\ Fault
    /\ UNCHANGED <<attempt, sub, pend, activations, admins, session, contract, keys, billingOps,
                   stranded, overtakenKeys, crossed>>

MayActivate(t) == billing[t].user \in admins

Recheck(t) ==
    /\ billing[t].step = "preflighted"
    /\ \/ MayActivate(t) /\ Goes(t, "allowed")
       \/ ~MayActivate(t) /\ t = Worker /\ Goes(t, "unauthorized")
       \/ ~MayActivate(t) /\ t # Worker /\ Rests(t)
    /\ UNCHANGED <<attempt, sub, pend, activations, admins, session, contract, keys, billingOps,
                   billingFaults, stranded, overtakenKeys, crossed>>

\* The first commit of a session gives the key, a replay does not.
CommitActivation(t) ==
    LET s == billing[t].session
        new == keys.given + 1
    IN
    /\ billing[t].step = "allowed"
    /\ \/ /\ session[s] = "paid" /\ session' = [session EXCEPT ![s] = "committed"]
          /\ contract' = "active"
          /\ keys' = [given |-> new, accepted |-> keys.accepted \cup {new}]
          /\ \/ /\ billing' = [billing EXCEPT ![t].step = "committed", ![t].key = new]
                /\ UNCHANGED billingFaults
             \/ Goes(t, "deferring") /\ Fault
       \/ /\ session[s] = "committed" /\ Goes(t, "committed")
          /\ UNCHANGED <<session, contract, keys, billingFaults>>
       \/ (Declined(t) \/ Goes(t, "deferring")) /\ Fault /\ UNCHANGED <<session, contract, keys>>
    /\ UNCHANGED <<attempt, sub, pend, activations, admins, billingOps, stranded, overtakenKeys,
                   crossed>>

NeedsRotation(t) == billing[t].key = 0 /\ sub.key = 0

Held(t) == {billing[x].key : x \in BillingActors \ {t}} \ {0}

\* One transaction on the locked row; the rotation is called from inside it, and
\* when that fails nothing is written.
Finalize(t) ==
    LET new == keys.given + 1
        rotated == [given |-> new, accepted |-> {new}]
        activates(key) ==
            /\ sub' = [status |-> "active", key |-> key]
            /\ attempt' = [attempt EXCEPT ![billing[t].row].status = "activated"]
            /\ crossed' = (crossed \/ billing[Worker].step = "canceled")
            /\ IF t = Worker THEN Goes(t, "activated") ELSE Rests(t)
    IN
    /\ billing[t].step = "committed"
    /\ \/ /\ ~NeedsRotation(t) /\ activates(IF billing[t].key # 0 THEN billing[t].key ELSE sub.key)
          /\ UNCHANGED <<keys, overtakenKeys, billingFaults>>
       \/ /\ NeedsRotation(t) /\ activates(new) /\ keys' = rotated
          /\ overtakenKeys' = overtakenKeys \cup Held(t) /\ UNCHANGED billingFaults
       \/ /\ NeedsRotation(t) /\ Fault /\ Goes(t, "deferring")
          /\ \/ keys' = rotated /\ overtakenKeys' = overtakenKeys \cup Held(t)
             \/ UNCHANGED <<keys, overtakenKeys>>
          /\ UNCHANGED <<sub, attempt, crossed>>
    /\ UNCHANGED <<pend, activations, admins, session, contract, billingOps, stranded>>

-------------------------------------------------------------------------------
(* What remains of an activation *)

\* A session has one pending row, of one user: for another the insert fails.
DeferRequest(t) ==
    LET s == billing[t].session IN
    /\ t # Worker /\ billing[t].step = "deferring"
    /\ \/ /\ pend[s].status = "none"
          /\ pend' = [pend EXCEPT ![s] = [status |-> "pending", attempts |-> 0,
                                          user |-> billing[t].user]]
          /\ Goes(t, "queueing")
       \/ /\ pend[s].status # "none" /\ pend[s].user = billing[t].user
          /\ pend' = [pend EXCEPT ![s].status = "pending"] /\ Goes(t, "queueing")
       \/ /\ pend[s].status # "none" /\ pend[s].user # billing[t].user
          /\ Rests(t) /\ UNCHANGED pend
    /\ UNCHANGED <<attempt, sub, activations, admins, session, contract, keys, billingOps,
                   billingFaults, stranded, overtakenKeys, crossed>>

\* The worker's ends, saved from the copy it read; the last try gives up.
Outcome ==
    LET b == billing[Worker] IN
    CASE b.step = "rejected" -> "failed"
      [] b.step = "unauthorized" -> "unauthorized"
      [] b.step = "activated" -> "completed"
      [] b.step = "deferring" -> IF b.tries >= WorkerMaxAttempts THEN "failed" ELSE "pending"
      [] OTHER -> "none"

WorkerSaves ==
    LET s == billing[Worker].session IN
    /\ Outcome # "none" /\ pend' = [pend EXCEPT ![s].status = Outcome]
    /\ Goes(Worker, IF Outcome = "pending" THEN "queueing" ELSE "done")
    /\ UNCHANGED <<attempt, sub, activations, admins, session, contract, keys, billingOps,
                   billingFaults, stranded, overtakenKeys, crossed>>

QueueActivation(t) ==
    LET s == billing[t].session IN
    /\ billing[t].step = "queueing"
    /\ activations' = [activations EXCEPT ![s] = @ + 1]
    /\ IF t = Worker THEN Goes(t, "done") ELSE Rests(t)
    /\ UNCHANGED <<attempt, sub, pend, admins, session, contract, keys, billingOps, billingFaults,
                   stranded, overtakenKeys, crossed>>

ActivationDone ==
    /\ billing[Worker].step = "done" /\ Rests(Worker)
    /\ activations' = [activations EXCEPT ![billing[Worker].session] = @ - 1]
    /\ UNCHANGED <<attempt, sub, pend, admins, session, contract, keys, billingOps, billingFaults,
                   stranded, overtakenKeys, crossed>>

\* A task whose worker died runs again.
BillingDies(t) ==
    /\ billing[t].step # "rest" /\ Rests(t) /\ Fault
    /\ stranded' = IF t # Worker /\ billing[t].step = "queueing"
                  THEN stranded \cup {billing[t].session} ELSE stranded
    /\ UNCHANGED <<attempt, sub, pend, activations, admins, session, contract, keys, billingOps,
                   overtakenKeys, crossed>>

-------------------------------------------------------------------------------
(* Reconciliation, periodic and on a visit: a row not yet canceled takes over
   what Intelligence said.  (past_due is copied alike and reconciled again.) *)

AskAccount ==
    /\ billing[Worker].step = "rest" /\ sub.status = "active" /\ contract = "canceled"
    /\ Goes(Worker, "canceled")
    /\ UNCHANGED <<attempt, sub, pend, activations, admins, session, contract, keys, billingOps,
                   billingFaults, stranded, overtakenKeys, crossed>>

CopyCancellation ==
    /\ billing[Worker].step = "canceled" /\ Rests(Worker)
    /\ sub' = [sub EXCEPT !.status = "canceled"]
    /\ UNCHANGED <<attempt, pend, activations, admins, session, contract, keys, billingOps,
                   billingFaults, stranded, overtakenKeys, crossed>>

-------------------------------------------------------------------------------
\* No subscription yet; one that runs; or one paid for whose activation was deferred.
BillingInit ==
    /\ \E start \in {"none", "running", "deferred"}, n \in 0..(WorkerMaxAttempts - 1), u \in Admins :
          LET first(yes, no) ==
                [i \in Sessions |-> IF start # "none" /\ i = 1 THEN yes ELSE no]
              deferred == start = "deferred"
              running == start = "running"
          IN
          /\ attempt = first([status |-> IF running THEN "activated" ELSE "open", session |-> 1],
                             [status |-> "none", session |-> 0])
          /\ session = first(IF running THEN "committed" ELSE "paid", "none")
          /\ sub = IF running THEN [status |-> "active", key |-> 1]
                   ELSE [status |-> "none", key |-> 0]
          /\ contract = IF running THEN "active" ELSE "none"
          /\ keys = IF running THEN [given |-> 1, accepted |-> {1}]
                    ELSE [given |-> 0, accepted |-> {}]
          /\ pend = [s \in Sessions |->
                       IF deferred /\ s = 1 THEN [status |-> "pending", attempts |-> n, user |-> u]
                       ELSE [status |-> "none", attempts |-> 0, user |-> "nobody"]]
          /\ activations = [s \in Sessions |-> IF deferred /\ s = 1 THEN 1 ELSE 0]
          /\ billingOps = CASE start = "none" -> 0 [] running -> 1 [] deferred -> 2
    /\ billing = [t \in BillingActors |-> AtRest] /\ admins = Admins /\ billingFaults = 0
    /\ stranded = {} /\ overtakenKeys = {} /\ crossed = FALSE

BillingNext ==
    \/ \E s \in Sessions : Pay(s) \/ WorkerClaims(s)
    \/ \E u \in Admins : Demote(u)
    \/ \E t \in BillingThreads :
          \/ Reserve(t) \/ CreateSession(t) \/ SettleCheckout(t)
          \/ FindCheckout(t) \/ CancelSession(t) \/ SaveDiscard(t)
          \/ ReopenAttempt(t) \/ DeferRequest(t)
          \/ \E u \in Admins, s \in Sessions :
                OpenSuccessUrl(t, u, s) \/ AskPendingActivation(t, u, s)
    \/ \E t \in BillingActors :
          \/ Preflight(t) \/ Recheck(t) \/ CommitActivation(t) \/ Finalize(t)
          \/ QueueActivation(t) \/ BillingDies(t)
    \/ CancelAtStripe \/ WorkerSaves \/ ActivationDone \/ AskAccount \/ CopyCancellation

BillingSpec == BillingInit /\ [][BillingNext]_billingVars

-------------------------------------------------------------------------------
BillingTypeOK ==
    /\ \A i \in Sessions :
          /\ attempt[i].status \in {"none", "creating", "open", "activated", "expired", "canceled"}
          /\ attempt[i].session \in Sessions \cup {0}
    /\ Cardinality(InProgress) <= 1
    /\ sub.status \in {"none", "active", "canceled"} /\ sub.key \in 0..keys.given
    /\ \A s \in Sessions :
          /\ pend[s].status \in {"none", "pending", "in_progress", "unauthorized", "failed",
                                 "completed"}
          /\ pend[s].attempts \in Nat /\ activations[s] \in Nat
    /\ admins \subseteq Admins /\ keys.accepted \subseteq 1..keys.given

\* An active subscription has a key Intelligence accepts, unless the key was rotated
\* away while another request carried it to the row.
ActiveKeyWorks == sub.status = "active" => sub.key \in keys.accepted \cup overtakenKeys

\* A subscription shown as canceled, which no reconciliation looks at again, is
\* canceled, unless what was bought since is not activated yet or a reconciliation
\* carried the old answer past its activation.
CanceledIsCanceled ==
    sub.status = "canceled" =>
        \/ contract = "canceled" \/ crossed
        \/ \E i \in Sessions :
              /\ attempt[i].session # 0 /\ session[attempt[i].session] = "committed"
              /\ attempt[i].status # "activated"

\* An activation shown as under way has a task, unless its request died before it
\* queued one.
UnderWayHasTask ==
    \A s \in Sessions :
        pend[s].status \in {"pending", "in_progress"} =>
            \/ activations[s] > 0 \/ s \in stranded
            \/ \E t \in BillingThreads : billing[t].step = "queueing" /\ billing[t].session = s

\* "the worker is the authoritative auth re-checker": nothing is committed for a
\* user who was demoted before the run that commits began, however long ago and
\* under whatever role the activation was asked for.
OnlyAdminsActivate ==
    \A t \in BillingActors : billing[t].step \in {"committed", "activated"} => billing[t].entitled

\* What the rows say of the subscription is so, and those who may have it so made it.
SubscriptionHolds ==
    ActiveKeyWorks /\ CanceledIsCanceled /\ UnderWayHasTask /\ OnlyAdminsActivate
===============================================================================
