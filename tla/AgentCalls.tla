------------------------------- MODULE AgentCalls -------------------------------
(***************************************************************************)
(* Calls of AI agents on one account of a workspace, over REST or as MCP    *)
(* messages of which one HTTP request may carry several: what each is       *)
(* charged, how the account's daily quota admits it, and how it is logged.  *)
(* Beside it, the throttle on failed logins of one address.                 *)
(***************************************************************************)
EXTENDS Integers, FiniteSets, Sequences

CONSTANTS
    AgentPosts,    \* posts on the account, with one child each
    Callers,       \* API keys and OAuth users of the workspace
    CallThreads,   \* web threads
    Batches,       \* what an HTTP request may carry: sequences of Messages
    CallRate,      \* per_key_writes, calls of each caller in a minute
    WorkspaceRate, \* WORKSPACE_AGG_WRITE_RATE
    DailyCap,      \* resolve_platform_limit
    CapWindow,     \* days a row counts, 24 hours in the code
    LastCallDay, MaxCalls, MaxCallFaults,
    AuthFailLimit, \* _AUTH_FAIL_LIMIT
    MaxLogins      \* bound on failed logins

VARIABLES
    agentRows,     \* the posts: status, when created and last updated
    charged,  \* this minute's counter of each caller, and of "workspace"
    call,     \* the HTTP request of each thread
    handled,  \* history: messages let through this minute, per caller and in all
    owed,     \* history: threads whose last change is not in the log
    capDay, callNo, callFaults,
    fails,    \* the address's counter of failed logins, 0 when its key has expired
    login,    \* how far each thread is with a login that will fail
    tried     \* history: failed logins recorded since the counter started

callVars == <<agentRows, charged, call, handled, owed, capDay, callNo, callFaults>>

throttleVars == <<fails, login, tried>>

NotAdmitted == -CapWindow \* a day that no window reaches
Tools == {"create_draft", "schedule_post", "schedule_draft", "cancel_post"}
Messages == [tool : {"create_draft", "schedule_post"}, post : {"new"}]
            \cup [tool : {"schedule_draft", "cancel_post"}, post : AgentPosts]

ASSUME AgentCallsAssumption ==
    /\ IsFiniteSet(AgentPosts) /\ IsFiniteSet(CallThreads)
    /\ "workspace" \notin Callers /\ \A b \in Batches : b \in Seq(Messages) /\ b # <<>>
    /\ \A c \in Callers : CallRate[c] \in Nat
    /\ WorkspaceRate \in Nat /\ DailyCap \in Nat /\ CapWindow \in Nat
    /\ AuthFailLimit \in Nat \ {0}
    /\ {LastCallDay, MaxCalls, MaxCallFaults, MaxLogins} \subseteq Nat

\* admitted: the day an agent made the row count, with nobody else between the
\* check and the write.
AgentRow == [status : {"none", "draft", "scheduled", "published"}, made : 0..LastCallDay,
             touched : 0..LastCallDay, admitted : (0..LastCallDay) \cup {NotAdmitted}]
NoRequestYet == [step |-> "idle", caller |-> "nobody", todo |-> <<>>, crossed |-> FALSE]

\* Statuses that consume the platform's budget.
Consuming(p) == agentRows[p].status \in {"scheduled", "published"}

\* Mutant: the row counts from its creation, as it once did.
CountedByCreation(p) == Consuming(p) /\ agentRows[p].made > capDay - CapWindow

\* count_recent_creations: by the last update, which every transition bumps.
Counted(p) == Consuming(p) /\ agentRows[p].touched > capDay - CapWindow

QuotaLeft == Cardinality({p \in AgentPosts : Counted(p)}) < DailyCap

Now(t) == Head(call[t].todo)
CallFault == callFaults < MaxCallFaults /\ callFaults' = callFaults + 1

-------------------------------------------------------------------------------
(* mcp/handlers.py: what a tool asks of a row before it writes *)

Room == \E p \in AgentPosts : agentRows[p].status = "none"

\* A draft does not look at the quota; whatever makes a row count does.
MayCreateDraft == Room
MaySchedulePost == Room /\ QuotaLeft
MayScheduleDraft(p) == agentRows[p].status = "draft" /\ QuotaLeft
MayCancelPost(p) == agentRows[p].status = "scheduled"

Schedules(m) == m.tool \in {"schedule_post", "schedule_draft"}

Accepted(m) ==
    CASE m.tool = "create_draft"   -> MayCreateDraft
      [] m.tool = "schedule_post"  -> MaySchedulePost
      [] m.tool = "schedule_draft" -> MayScheduleDraft(m.post)
      [] m.tool = "cancel_post"    -> MayCancelPost(m.post)

CheckMessage(t) ==
    call' = [call EXCEPT ![t].step = IF Accepted(Now(t)) THEN "write" ELSE "audit",
                         ![t].crossed = FALSE]

-------------------------------------------------------------------------------
(* mcp/transport.py and api/limits.py *)

\* An authenticated POST; a REST route is a request of one message.
McpEndpoint(t, caller, batch) ==
    /\ call[t] = NoRequestYet /\ callNo < MaxCalls /\ callNo' = callNo + 1
    /\ call' = [call EXCEPT ![t] = [NoRequestYet EXCEPT !.step = "first", !.caller = caller,
                                                  !.todo = batch]]
    /\ UNCHANGED <<agentRows, charged, handled, owed, capDay, callFaults>>

\* Mutant: an HTTP request is charged once, whatever it carries.
ChargedPerRequest(t) == IF call[t].step = "first" THEN 1 ELSE 0

\* Every message of a batch is charged.
Charge(t) == 1

\* Both counters are raised, each atomically, the workspace's only when the
\* caller's is not exceeded.  A 429 ends the whole request: the answers to its
\* earlier messages are not sent.
EnforceRateLimits(t) ==
    LET c == call[t].caller
        own == charged[c] + Charge(t)
        shared == charged["workspace"] + (IF own > CallRate[c] THEN 0 ELSE Charge(t))
        over == own > CallRate[c] \/ shared > WorkspaceRate
    IN  /\ call[t].step \in {"first", "next"}
        /\ charged' = [charged EXCEPT ![c] = own, !["workspace"] = shared]
        /\ handled' = IF over THEN handled ELSE [handled EXCEPT ![c] = @ + 1, !["workspace"] = @ + 1]
        /\ IF over THEN call' = [call EXCEPT ![t] = NoRequestYet] ELSE CheckMessage(t)
        /\ UNCHANGED <<agentRows, owed, capDay, callNo, callFaults>>

\* The counters start again with the minute.
NextMinute ==
    /\ \E c \in DOMAIN charged : charged[c] > 0
    /\ charged' = [c \in DOMAIN charged |-> 0]
    /\ handled' = [c \in DOMAIN handled |-> 0]
    /\ UNCHANGED <<agentRows, call, owed, capDay, callNo, callFaults>>

\* Others who have checked and not written are overtaken by this admission.
Overtaking(t) ==
    [u \in CallThreads |-> IF u # t /\ call[u].step = "write"
                           THEN [call[u] EXCEPT !.crossed = TRUE] ELSE call[u]]

\* The write goes by the status that was read.  No more posts than AgentPosts: a bound.
WriteMessage(t) ==
    LET m == Now(t)
    IN  /\ call[t].step = "write"
        /\ \E p \in AgentPosts :
              /\ IF m.post = "new" THEN agentRows[p].status = "none" ELSE p = m.post
              /\ agentRows' = [agentRows EXCEPT ![p] =
                    [status |-> IF Schedules(m) THEN "scheduled" ELSE "draft",
                     made |-> IF m.post = "new" THEN capDay ELSE agentRows[p].made,
                     touched |-> capDay,
                     admitted |-> IF Schedules(m) /\ ~call[t].crossed THEN capDay ELSE NotAdmitted]]
        /\ call' = [IF Schedules(m) THEN Overtaking(t) ELSE call EXCEPT ![t].step = "audit"]
        /\ owed' = owed \cup {t}
        /\ UNCHANGED <<charged, handled, capDay, callNo, callFaults>>

NextMessage(t) ==
    call' = IF Len(call[t].todo) = 1 THEN [call EXCEPT ![t] = NoRequestYet]
            ELSE [call EXCEPT ![t].step = "next", ![t].todo = Tail(@)]

\* Mutant: only what has an answer is logged, so a notification is not.
AuditAnswered(t) ==
    /\ call[t].step = "audit"
    /\ owed' \in {owed, owed \ {t}}
    /\ NextMessage(t)
    /\ UNCHANGED <<agentRows, charged, handled, capDay, callNo, callFaults>>

\* Every message is logged, refused ones and notifications too.
AuditMessage(t) ==
    /\ call[t].step = "audit"
    /\ owed' = owed \ {t}
    /\ NextMessage(t)
    /\ UNCHANGED <<agentRows, charged, handled, capDay, callNo, callFaults>>

\* The log is best effort: its failure does not fail the message.
AuditFails(t) ==
    /\ call[t].step = "audit" /\ CallFault
    /\ owed' = owed \ {t}
    /\ NextMessage(t)
    /\ UNCHANGED <<agentRows, charged, handled, capDay, callNo>>

AgentCallDies(t) ==
    /\ call[t] # NoRequestYet /\ CallFault
    /\ owed' = owed \ {t}
    /\ call' = [call EXCEPT ![t] = NoRequestYet]
    /\ UNCHANGED <<agentRows, charged, handled, capDay, callNo>>

\* The engine publishes, which bumps the row again; the web interface schedules
\* without a look at the quota.
TeamTouches(p, from, to) ==
    /\ agentRows[p].status = from
    /\ agentRows' = [agentRows EXCEPT ![p].status = to, ![p].touched = capDay,
                            ![p].admitted = IF to = "scheduled" THEN NotAdmitted ELSE @]
    /\ call' = [t \in CallThreads |-> IF to = "scheduled" /\ call[t].step = "write"
                                      THEN [call[t] EXCEPT !.crossed = TRUE] ELSE call[t]]
    /\ UNCHANGED <<charged, handled, owed, capDay, callNo, callFaults>>

NextCapDay ==
    /\ capDay < LastCallDay /\ capDay' = capDay + 1
    /\ UNCHANGED <<agentRows, charged, call, handled, owed, callNo, callFaults>>

-------------------------------------------------------------------------------

CallInit ==
    /\ agentRows = [p \in AgentPosts |-> [status |-> "none", made |-> 0, touched |-> 0,
                                     admitted |-> NotAdmitted]]
    /\ charged = [c \in Callers \cup {"workspace"} |-> 0]
    /\ call = [t \in CallThreads |-> NoRequestYet]
    /\ handled = [c \in Callers \cup {"workspace"} |-> 0]
    /\ owed = {} /\ capDay = 0 /\ callNo = 0 /\ callFaults = 0

CallNext ==
    \/ \E t \in CallThreads :
          \/ \E caller \in Callers, batch \in Batches : McpEndpoint(t, caller, batch)
          \/ EnforceRateLimits(t) \/ WriteMessage(t)
          \/ AuditMessage(t) \/ AuditFails(t) \/ AgentCallDies(t)
    \/ NextMinute \/ NextCapDay
    \/ \E p \in AgentPosts : TeamTouches(p, "scheduled", "published")
                             \/ TeamTouches(p, "draft", "scheduled")

-------------------------------------------------------------------------------
(* The failed-login throttle of api/limits.py, for one address *)

\* A request with a bad credential passes while the counter is below its limit.
BadLogin(t) ==
    /\ login[t] = "idle" /\ fails < AuthFailLimit
    /\ login' = [login EXCEPT ![t] = "refused"]
    /\ UNCHANGED <<fails, tried>>

\* cache.add starts a counter and its window, unless there is one.
AddFailure(t) ==
    /\ login[t] = "refused" /\ tried < MaxLogins
    /\ login' = [login EXCEPT ![t] = IF fails = 0 THEN "idle" ELSE "raise"]
    /\ fails' = IF fails = 0 THEN 1 ELSE fails
    /\ tried' = IF fails = 0 THEN 1 ELSE tried

\* Mutant: the counter is read and set, so that one of two failures is lost.
SetAsRead(t) ==
    /\ login[t] = "raise" /\ tried < MaxLogins
    /\ fails' \in {fails, fails + 1} /\ tried' = tried + 1
    /\ login' = [login EXCEPT ![t] = "idle"]

\* cache.incr raises it; a counter that expired in between is set anew.
RaiseFailures(t) ==
    /\ login[t] = "raise" /\ tried < MaxLogins
    /\ fails' = fails + 1 /\ tried' = tried + 1
    /\ login' = [login EXCEPT ![t] = "idle"]

\* The window, which started with the first failure, ends.
WindowEnds ==
    /\ fails > 0 /\ fails' = 0 /\ tried' = 0
    /\ UNCHANGED login

ThrottleInit == fails = 0 /\ login = [t \in CallThreads |-> "idle"] /\ tried = 0

ThrottleNext ==
    \/ \E t \in CallThreads : BadLogin(t) \/ AddFailure(t) \/ RaiseFailures(t)
    \/ WindowEnds

ThrottleTypeOK ==
    /\ fails \in 0..MaxLogins /\ tried \in 0..MaxLogins
    /\ login \in [CallThreads -> {"idle", "refused", "raise"}]

\* "The budget is 10 failed attempts, period": in one window no more than the limit
\* fail, but for those that were under way when it was reached.
ThrottleHolds == tried <= AuthFailLimit - 1 + Cardinality(CallThreads)

-------------------------------------------------------------------------------

CallTypeOK ==
    /\ agentRows \in [AgentPosts -> AgentRow]
    /\ \A t \in CallThreads :
          /\ call[t].step \in {"idle", "first", "next", "write", "audit"}
          /\ call[t].todo \in Seq(Messages)
    /\ owed \subseteq CallThreads
    /\ capDay \in 0..LastCallDay /\ callNo \in 0..MaxCalls /\ callFaults \in 0..MaxCallFaults

\* "Rate limiting is charged per JSON-RPC message": no caller, and not all of them
\* together, get more messages through in a minute than the rates allow.
RatesKept ==
    /\ \A c \in Callers : handled[c] <= CallRate[c]
    /\ handled["workspace"] <= WorkspaceRate

\* The rows agents put before the platform within a window are no more than its
\* cap, except those whose check another admission overtook.
CapKept ==
    Cardinality({p \in AgentPosts : Consuming(p) /\ agentRows[p].admitted > capDay - CapWindow})
        <= DailyCap

\* Whatever a message changed is in the log, unless the log failed or the process
\* died.
EffectsAreLogged == \A t \in owed : call[t].step = "audit"

AgentCallsAreSound == RatesKept /\ CapKept /\ EffectsAreLogged
===============================================================================
