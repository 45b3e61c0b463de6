------------------------------- MODULE Reminders -------------------------------
(***************************************************************************)
(* The hourly sweep that reminds reviewers and clients of a post that waits *)
(* for them and escalates to the managers when reminders did not help,      *)
(* against the workflow that moves the post and resets the reminders.       *)
(***************************************************************************)
EXTENDS Integers, FiniteSets

CONSTANTS MaxReminders, LastHour, MaxMoves, MaxSweepDeaths

ASSUME ReminderConstants ==
    /\ MaxReminders \in Nat /\ LastHour \in Nat
    /\ MaxMoves \in Nat /\ MaxSweepDeaths \in Nat

VARIABLES
    waiting,  \* stages some child of the post waits in
    updated,  \* Post.updated_at
    reminder, \* ApprovalReminder of each stage: count, last, escalated
    hour,     \* clock, in units of the review threshold
    sweep,    \* the sweep under way
    round,    \* history: what was sent since a stage's reminders were last reset
    moves, sweepDeaths

reminderVars == <<waiting, updated, reminder, hour, sweep, round, moves, sweepDeaths>>

Stage == {"pending_review", "pending_client"}

\* PENDING_REVIEW_HOURS and PENDING_CLIENT_HOURS
Threshold(s) == IF s = "pending_review" THEN 1 ELSE 2

Never == -1
Fresh == [count |-> 0, last |-> Never, escalated |-> FALSE]

\* clean: no reset or death came between a sweep's reading and its saving.
FreshRound(s) == [reminders |-> 0, escalations |-> 0, last |-> Never,
                  clean |-> ~(sweep.step \in {"send", "save"} /\ sweep.stage = s)]

NoSweep == [step |-> "none", stage |-> "pending_review", now |-> 0, read |-> Fresh]

-------------------------------------------------------------------------------
(* The workflow *)

Moved == moves < MaxMoves /\ moves' = moves + 1

\* What update_or_create leaves.
ResetCounts(s) == Fresh

EnterStage(s, others) ==
    /\ waiting' = others \cup {s}
    /\ reminder' = [reminder EXCEPT ![s] = ResetCounts(s)]
    /\ round' = [round EXCEPT ![s] = FreshRound(s)]
    /\ UNCHANGED <<updated, hour, sweep, sweepDeaths>>

\* submit_for_review and resubmit_post
SubmitAgain == Moved /\ EnterStage("pending_review", waiting)

\* approve_post with two stages
AdvanceToClient ==
    /\ Moved /\ "pending_review" \in waiting
    /\ EnterStage("pending_client", waiting \ {"pending_review"})

\* Any decision that ends the wait; the reminder row stays.
LeaveStage(s) ==
    /\ Moved /\ s \in waiting /\ waiting' = waiting \ {s}
    /\ UNCHANGED <<updated, reminder, hour, sweep, round, sweepDeaths>>

\* A composer save; one that changes an approved child sends it back for review
\* without touching the reminders.
SavePost(reverts) ==
    /\ Moved /\ updated' = hour
    /\ waiting' = IF reverts THEN waiting \cup {"pending_review"} ELSE waiting
    /\ UNCHANGED <<reminder, hour, sweep, round, sweepDeaths>>

-------------------------------------------------------------------------------
(* The sweep *)

SweepStart ==
    /\ sweep.step = "none"
    /\ sweep' = [NoSweep EXCEPT !.step = "look", !.now = hour]
    /\ UNCHANGED <<waiting, updated, reminder, hour, round, moves, sweepDeaths>>

\* After pending_review comes pending_client.
Onward == IF sweep.stage = "pending_review"
          THEN [sweep EXCEPT !.step = "look", !.stage = "pending_client", !.read = Fresh]
          ELSE NoSweep

Cooling(r, s) == r.last # Never /\ sweep.now < r.last + Threshold(s)

\* Mutant: the reminder that would be the last counts as sent.
LastReached(r) == r.count + 1 >= MaxReminders

MaxReached(r) == r.count >= MaxReminders

Escalates(r) == MaxReached(r) /\ ~r.escalated

Stalled(s) == s \in waiting /\ updated + Threshold(s) <= sweep.now

SweepLook ==
    LET s == sweep.stage
        r == reminder[s]
        due == Stalled(s) /\ (Escalates(r) \/ (~MaxReached(r) /\ ~Cooling(r, s)))
    IN  /\ sweep.step = "look"
        /\ sweep' = IF due THEN [sweep EXCEPT !.step = "send", !.read = r] ELSE Onward
        /\ UNCHANGED <<waiting, updated, reminder, hour, round, moves, sweepDeaths>>

SweepSend ==
    LET r == round[sweep.stage]
    IN  /\ sweep.step = "send"
        /\ round' = [round EXCEPT ![sweep.stage] =
                       IF MaxReached(sweep.read)
                       THEN [r EXCEPT !.escalations = r.escalations + 1]
                       ELSE [r EXCEPT !.reminders = r.reminders + 1, !.last = sweep.now]]
        /\ sweep' = [sweep EXCEPT !.step = "save"]
        /\ UNCHANGED <<waiting, updated, reminder, hour, moves, sweepDeaths>>

\* Saved from what was read before sending, over whatever is there by now.
SweepSave ==
    LET r == reminder[sweep.stage]
    IN  /\ sweep.step = "save"
        /\ reminder' = [reminder EXCEPT ![sweep.stage] =
                          IF MaxReached(sweep.read)
                          THEN [r EXCEPT !.escalated = TRUE]
                          ELSE [r EXCEPT !.count = sweep.read.count + 1, !.last = sweep.now]]
        /\ sweep' = Onward
        /\ UNCHANGED <<waiting, updated, hour, round, moves, sweepDeaths>>

SweepDie ==
    /\ sweep.step # "none"
    /\ sweepDeaths < MaxSweepDeaths /\ sweepDeaths' = sweepDeaths + 1
    /\ round' = IF sweep.step = "save" THEN [round EXCEPT ![sweep.stage].clean = FALSE] ELSE round
    /\ sweep' = NoSweep
    /\ UNCHANGED <<waiting, updated, reminder, hour, moves>>

HourTick ==
    /\ hour < LastHour /\ hour' = hour + 1
    /\ UNCHANGED <<waiting, updated, reminder, sweep, round, moves, sweepDeaths>>

-------------------------------------------------------------------------------

ReminderInit ==
    /\ waiting = {"pending_review"} /\ updated = 0 /\ hour = 0
    /\ reminder = [s \in Stage |-> Fresh]
    /\ sweep = NoSweep
    /\ round = [s \in Stage |-> FreshRound(s)]
    /\ moves = 0 /\ sweepDeaths = 0

ReminderNext ==
    \/ SubmitAgain \/ AdvanceToClient
    \/ \E s \in Stage : LeaveStage(s)
    \/ \E reverts \in BOOLEAN : SavePost(reverts)
    \/ SweepStart \/ SweepLook \/ SweepSend \/ SweepSave \/ SweepDie
    \/ HourTick

ReminderSpec == ReminderInit /\ [][ReminderNext]_reminderVars

-------------------------------------------------------------------------------

ReminderTypeOK ==
    /\ waiting \subseteq Stage
    /\ updated \in 0..LastHour /\ hour \in 0..LastHour
    /\ reminder \in [Stage -> [count: 0..MaxReminders, last: -1..LastHour, escalated: BOOLEAN]]
    /\ sweep.step \in {"none", "look", "send", "save"} /\ sweep.stage \in Stage
    /\ moves \in 0..MaxMoves /\ sweepDeaths \in 0..MaxSweepDeaths

\* Since a stage was last entered through the workflow its people got at most
\* MAX_REMINDERS reminders and its managers one escalation, which came after all
\* of them; a reset inside a sweep and a death after sending are the exceptions.
RemindersThenOneEscalation ==
    \A s \in Stage :
        round[s].clean =>
            /\ round[s].reminders <= MaxReminders
            /\ round[s].escalations <= 1
            /\ round[s].escalations = 1 => round[s].reminders = MaxReminders
===============================================================================
