----------------------------- MODULE Connections -----------------------------
(***************************************************************************)
(* The tokens of one social account on a platform whose refresh tokens are   *)
(* good for one use.  The health check and whoever uses the account (the     *)
(* publishing engine, two endpoints of the composer) refresh them; people    *)
(* connect the account anew and disconnect it.  None of them takes a lock.   *)
(***************************************************************************)
EXTENDS Integers

CONSTANTS
    MaxGrants,      \* bound on the token pairs the platform gives out
    MaxTokenFaults  \* bound on deaths and lost answers

ASSUME ConnectionConstants == MaxGrants \in Nat \ {0} /\ MaxTokenFaults \in Nat

VARIABLES
    account, \* SocialAccount: row (a new one after a disconnect), token, status
    granted, \* the last token pair the platform gave out; it honours no other
    queued,  \* a health check of the row is in the task queue
    hand,    \* holder -> its copy of the account
    slipped, \* history: a pair was lost with a death or an answer, or a copy was
             \* saved over a pair stored after the copy was read
    tokenFaults

connectionVars == <<account, granted, queued, hand, slipped, tokenFaults>>

Holders == {"check", "user"}
ConnectionStatuses == {"connected", "token_expiring", "error"}
NoRow == 0
Disconnected == [row |-> NoRow, token |-> 0, status |-> "connected"]
EmptyCopy == [step |-> "none", row |-> NoRow, read |-> 0, token |-> 0, status |-> "connected"]

TokenFault == tokenFaults < MaxTokenFaults /\ tokenFaults' = tokenFaults + 1

-------------------------------------------------------------------------------
(* People *)

\* The callback has exchanged its code for tokens: update_or_create of the row.
Connect ==
    /\ granted < MaxGrants /\ granted' = granted + 1
    /\ account' = [row |-> IF account.row = NoRow THEN granted' ELSE account.row,
                   token |-> granted', status |-> "connected"]
    /\ UNCHANGED <<queued, hand, slipped, tokenFaults>>

\* The row goes; a task that is queued for it will not find it.
Disconnect ==
    /\ account.row # NoRow /\ account' = Disconnected /\ queued' = FALSE
    /\ UNCHANGED <<granted, hand, slipped, tokenFaults>>

-------------------------------------------------------------------------------
(* Refreshing *)

\* An account in error is not looked at again.
ScheduleCheck ==
    /\ account.row # NoRow /\ account.status \in {"connected", "token_expiring"}
    /\ ~queued /\ queued' = TRUE
    /\ UNCHANGED <<account, granted, hand, slipped, tokenFaults>>

\* Whether the token expires within seven days is for the clock to say; a user
\* that need not refresh writes nothing.
ReadAccount(w, expiring) ==
    /\ hand[w].step = "none" /\ account.row # NoRow
    /\ w = "check" => queued
    /\ w = "user" => expiring
    /\ queued' = (queued /\ w # "check")
    /\ hand' = [hand EXCEPT ![w] = [step |-> IF expiring THEN "refresh" ELSE "profile",
                                    row |-> account.row, read |-> account.token,
                                    token |-> account.token, status |-> account.status]]
    /\ UNCHANGED <<account, granted, slipped, tokenFaults>>

AfterRefresh(w) == IF w = "check" THEN "profile" ELSE "save"

\* The platform takes the last pair it gave, for a new one.
Refresh(w) ==
    /\ hand[w].step = "refresh" /\ hand[w].token = granted
    /\ granted < MaxGrants /\ granted' = granted + 1
    /\ hand' = [hand EXCEPT ![w].step = AfterRefresh(w), ![w].token = granted',
                            ![w].status = "connected"]
    /\ UNCHANGED <<account, queued, slipped, tokenFaults>>

\* The check goes on with its copy; the user keeps the token it has, or gives up.
RefreshFails(w) ==
    /\ hand[w].step = "refresh"
    /\ hand' = [hand EXCEPT ![w] = IF w = "user" THEN EmptyCopy
                                   ELSE [@ EXCEPT !.step = "profile", !.status = "token_expiring"]]
    /\ UNCHANGED <<account, granted, queued, slipped, tokenFaults>>

\* The new pair never arrives: a failure to whoever asked.
AnswerLost(w) ==
    /\ hand[w].step = "refresh" /\ hand[w].token = granted
    /\ granted < MaxGrants /\ granted' = granted + 1
    /\ TokenFault /\ slipped' = TRUE
    /\ hand' = [hand EXCEPT ![w] = IF w = "user" THEN EmptyCopy
                                   ELSE [@ EXCEPT !.step = "profile", !.status = "token_expiring"]]
    /\ UNCHANGED <<account, queued>>

FetchProfile(ok) ==
    LET c == hand["check"]
    IN  /\ c.step = "profile"
        /\ hand' = [hand EXCEPT !["check"] =
                      [c EXCEPT !.step = "save",
                                !.status = IF ~ok THEN "error"
                                           ELSE IF c.status = "token_expiring" THEN @
                                           ELSE "connected"]]
        /\ UNCHANGED <<account, granted, queued, slipped, tokenFaults>>

\* Mutant: only the access token is saved.
AccessTokenOnly(w) == account.token

\* The tokens of the copy, refreshed or not.
TokensToSave(w) == hand[w].token

\* save(update_fields=...) of a row that is gone raises, and writes nothing.
SaveAccount(w) ==
    LET there == hand[w].row = account.row
    IN  /\ hand[w].step = "save"
        /\ account' = IF there THEN [account EXCEPT !.token = TokensToSave(w),
                                                    !.status = hand[w].status]
                      ELSE account
        /\ slipped' = (slipped \/ (there /\ account.token # hand[w].read))
        /\ hand' = [hand EXCEPT ![w] = EmptyCopy]
        /\ UNCHANGED <<granted, queued, tokenFaults>>

\* A check that dies is run again once its task's lock expires.
HolderDies(w) ==
    /\ hand[w].step # "none" /\ TokenFault
    /\ slipped' = (slipped \/ hand[w].token # hand[w].read)
    /\ hand' = [hand EXCEPT ![w] = EmptyCopy]
    /\ queued' = (queued \/ (w = "check" /\ hand[w].row = account.row))
    /\ UNCHANGED <<account, granted>>

-------------------------------------------------------------------------------

ConnectionInit ==
    /\ account = Disconnected /\ granted = 0 /\ queued = FALSE
    /\ hand = [w \in Holders |-> EmptyCopy]
    /\ slipped = FALSE /\ tokenFaults = 0

ConnectionNext ==
    \/ Connect \/ Disconnect \/ ScheduleCheck
    \/ \E w \in Holders :
          \/ \E expiring \in BOOLEAN : ReadAccount(w, expiring)
          \/ Refresh(w) \/ RefreshFails(w) \/ AnswerLost(w)
          \/ SaveAccount(w) \/ HolderDies(w)
    \/ \E ok \in BOOLEAN : FetchProfile(ok)

ConnectionSpec == ConnectionInit /\ [][ConnectionNext]_connectionVars

-------------------------------------------------------------------------------

ConnectionTypeOK ==
    /\ account \in [row: 0..MaxGrants, token: 0..MaxGrants, status: ConnectionStatuses]
    /\ granted \in 0..MaxGrants /\ queued \in BOOLEAN
    /\ hand \in [Holders -> [step: {"none", "refresh", "profile", "save"}, row: 0..MaxGrants,
                             read: 0..MaxGrants, token: 0..MaxGrants,
                             status: ConnectionStatuses]]
    /\ slipped \in BOOLEAN /\ tokenFaults \in 0..MaxTokenFaults

\* The pair the platform honours is in the row, or in the hand that is about to
\* save it there, unless it was lost on the way or a copy read before it was saved
\* over it: whichever of them refreshes, and whoever reconnects meanwhile.
GrantKept ==
    account.row # NoRow /\ ~slipped =>
        \/ account.token = granted
        \/ \E w \in Holders : hand[w].row = account.row /\ hand[w].token = granted
===============================================================================
