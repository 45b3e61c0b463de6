--------------------------------- MODULE Inbox ---------------------------------
(***************************************************************************)
(* The inbox of one social account.  The polling cycle pulls messages from  *)
(* the platform since the newest one stored, then looks for messages past   *)
(* their response target; the platform's webhooks and the backfill command  *)
(* store messages beside it, and people answer, resolve and archive them.   *)
(***************************************************************************)
EXTENDS Integers, FiniteSets

CONSTANTS
    InboxMessages,  \* messages the platform will have
    MaxPulls,       \* bound on the pulls
    LastPoll,       \* bound on the clock, which counts INBOX_SYNC_INTERVAL_SECONDS
    BacklogWindow,  \* INBOX_BACKLOG_NOTIFY_WINDOW
    TargetResponse, \* InboxSLAConfig.target_response_minutes
    MaxInboxFaults  \* bound on deaths and on errors inside a batch

ASSUME InboxConstants ==
    /\ MaxPulls \in Nat /\ LastPoll \in Nat /\ BacklogWindow \in Nat
    /\ TargetResponse \in Nat /\ MaxInboxFaults \in Nat

VARIABLES
    sentAt,  \* when each message was sent, as the platform has it
    listing, \* opener: the comment whose thread a message is in; off: messages that the
             \* platform's list, as far as a provider reads it, no longer holds
    message, \* InboxMessage: received_at, status, extra["sla_notified"]
    pull,    \* the cycle and the backfill: what was fetched and what is in hand
    hook,    \* the webhook request: the message it created and has to announce
    poll,    \* the clock
    alerts, overdueNotices, \* history: notices sent about each message
    quiet,   \* history: messages stored without an alert on purpose, or by a death
    passed,  \* history: messages a webhook's time or a lost batch left behind
    erased,  \* history: SLA marks overwritten, or lost with a death
    pulls, inboxFaults

inboxVars == <<sentAt, listing, message, pull, hook, poll, alerts, overdueNotices,
               quiet, passed, erased, pulls, inboxFaults>>

Pullers == {"cycle", "backfill"}
\* waiting: unread or open; handled: resolved or archived
InboxStatuses == {"waiting", "handled"}
NoInstant == -1
Absent == [at |-> NoInstant, status |-> "waiting", marked |-> FALSE]
NoPull == [step |-> "idle", todo |-> {}, first |-> FALSE, inHand |-> {}]

Sent == {m \in InboxMessages : sentAt[m] # NoInstant}
Stored == {m \in InboxMessages : message[m] # Absent}
Faulty == inboxFaults < MaxInboxFaults /\ inboxFaults' = inboxFaults + 1

-------------------------------------------------------------------------------
(* The platform and the clock *)

\* Providers read one page of a list, or the comments of the newest posts, or the
\* replies listed with a thread: what comes in pushes out what was there.
Arrive(m) ==
    /\ m \notin Sent
    /\ sentAt' = [sentAt EXCEPT ![m] = poll]
    /\ \E opener \in Sent \cup {m}, out \in SUBSET (Sent \cup {m}) :
          /\ opener = m \/ listing.opener[opener] = opener
          /\ m \in out => opener # m
          /\ listing' = [opener |-> [listing.opener EXCEPT ![m] = opener],
                         off |-> listing.off \cup out]
    /\ UNCHANGED <<message, pull, hook, poll, alerts, overdueNotices, quiet, passed,
                   erased, pulls, inboxFaults>>

PollTick ==
    /\ poll < LastPoll /\ poll' = poll + 1
    /\ UNCHANGED <<sentAt, listing, message, pull, hook, alerts, overdueNotices, quiet, passed,
                   erased, pulls, inboxFaults>>

-------------------------------------------------------------------------------
(* Pulling *)

\* "if since and published < since: continue", where the backfill asks for days and
\* the cycle for what came since the newest message stored.
Since(w, m) == w = "cycle" => \A x \in Stored : message[x].at <= sentAt[m]

\* A thread is passed over, with its replies, when the comment that opens it is older.
Overlooked(w, m) == ~Since(w, listing.opener[m])

\* Messages the platform will return.
OnList(w) == {m \in Sent \ listing.off : Since(w, m) /\ ~Overlooked(w, m)}

\* A call that fails, or that the platform lacks, ends this account's pull; some return
\* what is older as well.
Fetch(w) ==
    /\ pull[w].step = "idle" /\ pulls < MaxPulls /\ pulls' = pulls + 1
    /\ \E messages \in SUBSET (Sent \ listing.off) :
          /\ OnList(w) \subseteq messages \/ messages = {}
          /\ pull' = [pull EXCEPT ![w] = [step |-> "pull", todo |-> messages,
                                          first |-> Stored = {}, inHand |-> {}]]
    /\ UNCHANGED <<sentAt, listing, message, hook, poll, alerts, overdueNotices, quiet, passed,
                   erased, inboxFaults>>

Recent(m) == sentAt[m] >= poll - BacklogWindow

\* Mutant: nothing of a first sync is announced.
NotifyUnlessFirst(w, m) == w = "cycle" /\ ~pull[w].first

NotifyNew(w, m) == w = "cycle" /\ (~pull[w].first \/ Recent(m))

\* update_or_create writes received_at and extra over what is there.
Upsert(w, m) ==
    LET created == m \notin Stored
        notify == created /\ NotifyNew(w, m)
        muted == w = "backfill" \/ (pull[w].first /\ ~Recent(m))
    IN  /\ pull[w].step = "pull" /\ m \in pull[w].todo /\ pull[w].inHand = {}
        /\ message' = [message EXCEPT ![m] = [at |-> sentAt[m], status |-> @.status,
                                              marked |-> FALSE]]
        /\ erased' = IF message[m].marked THEN [erased EXCEPT ![m] = @ + 1] ELSE erased
        /\ quiet' = IF created /\ muted THEN quiet \cup {m} ELSE quiet
        /\ pull' = [pull EXCEPT ![w].todo = @ \ {m},
                                ![w].inHand = IF notify THEN {m} ELSE {}]
        /\ UNCHANGED <<sentAt, listing, hook, poll, alerts, overdueNotices, passed, pulls, inboxFaults>>

Announce(w) ==
    \E m \in pull[w].inHand :
        /\ pull[w].step = "pull"
        /\ alerts' = [alerts EXCEPT ![m] = @ + 1]
        /\ pull' = [pull EXCEPT ![w].inHand = {}]
        /\ UNCHANGED <<sentAt, listing, message, hook, poll, overdueNotices, quiet, passed,
                       erased, pulls, inboxFaults>>

Overdue ==
    {m \in Stored : /\ message[m].status = "waiting"
                    /\ message[m].at <= poll - TargetResponse
                    /\ ~message[m].marked}

\* check_sla follows the pull; with no active target there is nothing to check.
PullDone(w) ==
    /\ pull[w].step = "pull" /\ pull[w].todo = {} /\ pull[w].inHand = {}
    /\ \E messages \in (IF w = "cycle" THEN {Overdue, {}} ELSE {{}}) :
          pull' = [pull EXCEPT ![w] = [step |-> IF messages = {} THEN "idle" ELSE "sla",
                                       todo |-> messages, first |-> FALSE, inHand |-> {}]]
    /\ UNCHANGED <<sentAt, listing, message, hook, poll, alerts, overdueNotices, quiet, passed,
                   erased, pulls, inboxFaults>>

NotifyOverdue(m) ==
    LET c == pull["cycle"]
    IN  /\ c.step = "sla" /\ m \in c.todo /\ c.inHand = {}
        /\ overdueNotices' = [overdueNotices EXCEPT ![m] = @ + 1]
        /\ pull' = [pull EXCEPT !["cycle"].todo = @ \ {m}, !["cycle"].inHand = {m}]
        /\ UNCHANGED <<sentAt, listing, message, hook, poll, alerts, quiet, passed, erased,
                       pulls, inboxFaults>>

MarkOverdue ==
    LET c == pull["cycle"]
    IN  \E m \in c.inHand :
            /\ c.step = "sla"
            /\ message' = [message EXCEPT ![m].marked = TRUE]
            /\ pull' = [pull EXCEPT !["cycle"] =
                          IF c.todo = {} THEN NoPull ELSE [c EXCEPT !.inHand = {}]]
            /\ UNCHANGED <<sentAt, listing, hook, poll, alerts, overdueNotices, quiet, passed,
                           erased, pulls, inboxFaults>>

\* The process dies, or an error ends the batch: the rest of it is not looked at.
PullDies(w) ==
    LET w0 == pull[w]
    IN  /\ w0.step # "idle" /\ Faulty
        /\ passed' = IF w0.step = "pull" THEN passed \cup (w0.todo \ Stored) ELSE passed
        /\ quiet' = IF w0.step = "pull" THEN quiet \cup w0.inHand ELSE quiet
        /\ erased' = IF w0.step = "sla"
                     THEN [m \in InboxMessages |-> IF m \in w0.inHand THEN erased[m] + 1 ELSE erased[m]]
                     ELSE erased
        /\ pull' = [pull EXCEPT ![w] = NoPull]
        /\ UNCHANGED <<sentAt, listing, message, hook, poll, alerts, overdueNotices, pulls>>

-------------------------------------------------------------------------------
(* The webhooks: the first delivery of a message creates it, dated now *)

HookStores(m) ==
    /\ hook = {} /\ m \in Sent \ Stored
    /\ message' = [message EXCEPT ![m] = [at |-> poll, status |-> "waiting", marked |-> FALSE]]
    /\ hook' = {m}
    /\ passed' = passed \cup {x \in Sent \ (Stored \cup {m}) : sentAt[x] < poll}
    /\ UNCHANGED <<sentAt, listing, pull, poll, alerts, overdueNotices, quiet, erased, pulls, inboxFaults>>

HookAnnounces ==
    \E m \in hook :
        /\ alerts' = [alerts EXCEPT ![m] = @ + 1]
        /\ hook' = {}
        /\ UNCHANGED <<sentAt, listing, message, pull, poll, overdueNotices, quiet, passed, erased,
                       pulls, inboxFaults>>

HookDies ==
    /\ hook # {} /\ Faulty
    /\ quiet' = quiet \cup hook /\ hook' = {}
    /\ UNCHANGED <<sentAt, listing, message, pull, poll, alerts, overdueNotices, passed, erased,
                   pulls>>

-------------------------------------------------------------------------------
(* People *)

\* Opening, answering (with auto_resolve_on_reply), the status menu and the bulk
\* actions: any status may follow any, and a save may be of a status read before.
ChangeStatus(m, s) ==
    /\ m \in Stored /\ message[m].status # s
    /\ message' = [message EXCEPT ![m].status = s]
    /\ UNCHANGED <<sentAt, listing, pull, hook, poll, alerts, overdueNotices, quiet, passed, erased,
                   pulls, inboxFaults>>

-------------------------------------------------------------------------------

InboxInit ==
    /\ sentAt = [m \in InboxMessages |-> NoInstant]
    /\ listing = [opener |-> [m \in InboxMessages |-> m], off |-> {}]
    /\ message = [m \in InboxMessages |-> Absent]
    /\ pull = [w \in Pullers |-> NoPull]
    /\ hook = {}
    /\ poll = 0
    /\ alerts = [m \in InboxMessages |-> 0]
    /\ overdueNotices = [m \in InboxMessages |-> 0]
    /\ quiet = {} /\ passed = {}
    /\ erased = [m \in InboxMessages |-> 0]
    /\ pulls = 0 /\ inboxFaults = 0

InboxNext ==
    \/ \E m \in InboxMessages :
          \/ Arrive(m) \/ HookStores(m) \/ NotifyOverdue(m)
          \/ \E s \in InboxStatuses : ChangeStatus(m, s)
          \/ \E w \in Pullers : Upsert(w, m)
    \/ \E w \in Pullers : Fetch(w) \/ Announce(w) \/ PullDone(w) \/ PullDies(w)
    \/ MarkOverdue \/ HookAnnounces \/ HookDies
    \/ PollTick

InboxSpec == InboxInit /\ [][InboxNext]_inboxVars

-------------------------------------------------------------------------------

InboxTypeOK ==
    /\ sentAt \in [InboxMessages -> -1..LastPoll]
    /\ listing \in [opener: [InboxMessages -> InboxMessages], off: SUBSET InboxMessages]
    /\ message \in [InboxMessages -> [at: -1..LastPoll, status: InboxStatuses, marked: BOOLEAN]]
    /\ \A w \in Pullers :
          /\ pull[w].step \in {"idle", "pull", "sla"}
          /\ pull[w].todo \subseteq Sent /\ pull[w].inHand \subseteq Stored
    /\ hook \subseteq Stored
    /\ \A m \in quiet : m \in Stored
    /\ pulls \in 0..MaxPulls /\ inboxFaults \in 0..MaxInboxFaults

\* The polls leave no hole: a message is stored, on the list of a pull under way, or
\* among what the next poll gets, unless a webhook's message, dated by its arrival, or a
\* batch that broke off moved the mark beyond it, it fell off the part of the platform's
\* list that is read, or it answers in a thread opened before the newest message stored.
NothingMissed ==
    \A m \in Sent \ (passed \cup listing.off) :
        \/ m \in Stored \cup OnList("cycle") \cup UNION {pull[w].todo : w \in Pullers}
        \/ listing.opener[m] # m /\ Overlooked("cycle", m)

\* Nobody is alerted twice to a message, however many ways it came in; one that came
\* in with no reason to be quiet about it (the first sync is quiet about its backlog
\* only) has been announced or will be by the process that stored it; a late message
\* is reported once, and again only after a pull wrote over its mark, or a death came
\* before the mark.
NoticesSentOnce ==
    \A m \in InboxMessages :
        /\ alerts[m] <= 1
        /\ m \in Stored /\ alerts[m] = 0 =>
              m \in quiet \cup hook \cup pull["cycle"].inHand
        /\ overdueNotices[m] <= 1 + erased[m]

\* Both of the two above: every message comes in, and is told of once.
InboxHolds == NothingMissed /\ NoticesSentOnce
===============================================================================
