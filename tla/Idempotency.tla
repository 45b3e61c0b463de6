------------------------------ MODULE Idempotency ------------------------------
(***************************************************************************)
(* Creation through the REST API: web threads that claim an idempotency    *)
(* key, check the account's daily quota, create a resource and store the   *)
(* answer, while clients send the same request again, processes die and a  *)
(* sweep deletes old records.                                              *)
(*                                                                         *)
(* Two routes use the protocol: POST /posts, which releases its claim on   *)
(* every error, and POST /media, which releases it in some cases only.     *)
(***************************************************************************)
EXTENDS Integers, FiniteSets

CONSTANTS
    Threads,        \* web threads
    Keys,           \* (api_key, idempotency_key) pairs
    Bodies,         \* request fingerprints: route, action and payload
    MediaBodies,    \* those of POST /media
    ScheduleBodies, \* those of POST /posts with the action "schedule"
    Null,           \* no key, no body
    TTL,            \* IDEMPOTENCY_RECORD_TTL_HOURS
    Limit,          \* resolve_platform_limit of the one account
    FaultKinds,     \* which of AllFaults happen
    MaxFaults,      \* bound on how many
    MaxCalls        \* bound on the requests that arrive

AllFaults == {"crash", "db_error"}

ASSUME IdempotencyConstants ==
    /\ IsFiniteSet(Threads)
    /\ MediaBodies \subseteq Bodies
    /\ ScheduleBodies \subseteq Bodies \ MediaBodies
    /\ Null \notin Keys \cup Bodies
    /\ TTL \in Nat \ {0} /\ Limit \in Nat
    /\ FaultKinds \subseteq AllFaults
    /\ MaxFaults \in Nat /\ MaxCalls \in Nat

VARIABLES
    record,  \* the IdempotencyRecord table
    req,     \* what a thread is working on
    used,    \* count_recent_creations of the account, as far as this route adds to it
    made,    \* history: how many resources were created for a key
    works,   \* history: <<key, body, n>>, the n-th creation for a key
    answers, \* history: the <<key, body, n>> clients were told of
    lapses,  \* history: how often a key became claimable again: its record expired,
             \* or was released after the resource had been created
    faults,  \* how many faults have happened
    calls    \* how many requests have arrived

vars == <<record, req, used, made, works, answers, lapses, faults, calls>>
tableVars == <<record, used, made, works, lapses>>

\* pending: claimed, response_status = 0; done: finalized.
Absent == [status |-> "absent", body |-> Null, work |-> 0, age |-> 0]
Idle == [stage |-> "idle", key |-> Null, body |-> Null, work |-> 0]

Record == [status: {"absent", "pending", "done"}, body: Bodies \cup {Null}, work: Nat,
           age: 0..TTL]

\* claim: about to insert; contended: the insert hit the unique constraint;
\* claimed, cleared: past the claim, past the quota check; made: the resource is
\* committed; failing: on the error path, about to release.
Stages == {"idle", "claim", "contended", "claimed", "cleared", "made", "failing"}
Owning == {"claimed", "cleared", "made", "failing"}

Request == [stage: Stages, key: Keys \cup {Null}, body: Bodies \cup {Null}, work: Nat]

Owners(k) == {r \in Threads : req[r].key = k /\ req[r].stage \in Owning}

Move(r, stage) == req' = [req EXCEPT ![r].stage = stage]
Finish(r) == req' = [req EXCEPT ![r] = Idle]
Fault(kind) == kind \in FaultKinds /\ faults < MaxFaults /\ faults' = faults + 1

\* Mutant: a placeholder does not keep others out.
ClaimableIfPending(k) == record[k].status # "done"

\* The unique constraint on (api_key, key) lets the insert through.
Claimable(k) == record[k].status = "absent"

\* Mutant: an answer is replayed whatever the body was.
ReplayableWhateverBody(r) == record[req[r].key].status = "done"

\* The stored answer is for this request.
Replayable(r) ==
    /\ record[req[r].key].status = "done"
    /\ record[req[r].key].body = req[r].body

\* Mutant: the claim is released whether it was finalized or not.
ReleasableDone(k) == record[k].status # "absent"

\* Only a placeholder is released.
Releasable(k) == record[k].status = "pending"

\* Mutant: placeholders are left to their owners.
ExpiredAnswer(k) == record[k].status = "done" /\ record[k].age = TTL

\* Past the TTL, in whatever state.
Expired(k) == record[k].status # "absent" /\ record[k].age = TTL

\* Mutant: one more than the limit is let through.
QuotaAllowsLimit == used <= Limit

QuotaAllows == used < Limit

\* The answer takes the placeholder's place; the fingerprint stays.
Stored(r) == [record[req[r].key] EXCEPT !.status = "done", !.work = req[r].work]

-------------------------------------------------------------------------------
Init ==
    /\ record = [k \in Keys |-> Absent]
    /\ req = [r \in Threads |-> Idle]
    /\ used = 0
    /\ made = [k \in Keys |-> 0]
    /\ works = {}
    /\ answers = {}
    /\ lapses = [k \in Keys |-> 0]
    /\ faults = 0
    /\ calls = 0

\* A client sends a request, for the first time or again.
Arrive(r, k, b) ==
    /\ req[r] = Idle
    /\ calls < MaxCalls
    /\ req' = [req EXCEPT ![r] = [stage |-> "claim", key |-> k, body |-> b, work |-> 0]]
    /\ calls' = calls + 1
    /\ UNCHANGED <<tableVars, answers, faults>>

(* claim_idempotency_slot *)

\* The insert succeeds...
Claim(r) ==
    LET k == req[r].key
    IN  /\ req[r].stage = "claim"
        /\ Claimable(k)
        /\ record' = [record EXCEPT ![k] = [status |-> "pending", body |-> req[r].body,
                                            work |-> 0, age |-> 0]]
        /\ Move(r, "claimed")
        /\ UNCHANGED <<used, made, works, answers, lapses, faults, calls>>

\* ...or violates the unique constraint...
Contend(r) ==
    /\ req[r].stage = "claim"
    /\ ~Claimable(req[r].key)
    /\ Move(r, "contended")
    /\ UNCHANGED <<tableVars, answers, faults, calls>>

\* ...and the record is read in a second statement: replay a stored answer...
Replay(r) ==
    LET k == req[r].key
    IN  /\ req[r].stage = "contended"
        /\ Replayable(r)
        /\ answers' = answers \cup {<<k, req[r].body, record[k].work>>}
        /\ Finish(r)
        /\ UNCHANGED <<tableVars, faults, calls>>

\* ...or answer 409 (in flight), 422 (another body) or 500 (the record is gone).
Refuse(r) ==
    /\ req[r].stage = "contended"
    /\ ~Replayable(r)
    /\ Finish(r)
    /\ UNCHANGED <<tableVars, answers, faults, calls>>

-------------------------------------------------------------------------------
(* The route *)

\* check_platform_quota, for scheduled posts only.
CheckQuota(r) ==
    /\ req[r].stage = "claimed"
    /\ req[r].body \notin MediaBodies
    /\ Move(r, IF req[r].body \in ScheduleBodies /\ ~QuotaAllows THEN "failing"
               ELSE "cleared")
    /\ UNCHANGED <<tableVars, answers, faults, calls>>

\* Its query fails: only a 429 is caught there, so nothing is released.
CheckQuotaFails(r) ==
    /\ req[r].stage = "claimed"
    /\ req[r].body \in ScheduleBodies
    /\ Fault("db_error")
    /\ Finish(r)
    /\ UNCHANGED <<tableVars, answers, calls>>

\* POST /media looks its folder up between the claim and the try block: an unknown
\* folder ends the request with 404 and nothing else...
FolderMissing(r) ==
    /\ req[r].stage = "claimed"
    /\ req[r].body \in MediaBodies
    /\ Finish(r)
    /\ UNCHANGED <<tableVars, answers, faults, calls>>

\* ...or is found, or none was named.
FolderFound(r) ==
    /\ req[r].stage = "claimed"
    /\ req[r].body \in MediaBodies
    /\ Move(r, "cleared")
    /\ UNCHANGED <<tableVars, answers, faults, calls>>

\* create_post or create_asset commits.
Create(r) ==
    LET k == req[r].key
        n == made[k] + 1
    IN  /\ req[r].stage = "cleared"
        /\ made' = [made EXCEPT ![k] = n]
        /\ works' = works \cup {<<k, req[r].body, n>>}
        /\ used' = IF req[r].body \in ScheduleBodies THEN used + 1 ELSE used
        /\ req' = [req EXCEPT ![r] = [@ EXCEPT !.stage = "made", !.work = n]]
        /\ UNCHANGED <<record, answers, lapses, faults, calls>>

\* create_post or create_asset rejects its arguments.
CreateFails(r) ==
    /\ req[r].stage = "cleared"
    /\ Move(r, "failing")
    /\ UNCHANGED <<tableVars, answers, faults, calls>>

\* finalize_idempotent_response and the answer.
Finalize(r) ==
    LET k == req[r].key
    IN  /\ req[r].stage = "made"
        /\ record' = [record EXCEPT ![k] = Stored(r)]
        /\ answers' = answers \cup {<<k, req[r].body, req[r].work>>}
        /\ Finish(r)
        /\ UNCHANGED <<used, made, works, lapses, faults, calls>>

\* The finalizing update commits and its acknowledgement is lost.
FinalizeUnacknowledged(r) ==
    LET k == req[r].key
    IN  /\ req[r].stage = "made"
        /\ Fault("db_error")
        /\ record' = [record EXCEPT ![k] = Stored(r)]
        /\ IF req[r].body \in MediaBodies THEN Finish(r) ELSE Move(r, "failing")
        /\ UNCHANGED <<used, made, works, answers, lapses, calls>>

\* An error between the creation and the finalizing update: POST /posts goes on to
\* release the claim of what it has created, POST /media just ends.
FinishFails(r) ==
    /\ req[r].stage = "made"
    /\ Fault("db_error")
    /\ IF req[r].body \in MediaBodies THEN Finish(r) ELSE Move(r, "failing")
    /\ UNCHANGED <<tableVars, answers, calls>>

\* release_idempotent_claim and the error answer.
Release(r) ==
    LET k == req[r].key
    IN  /\ req[r].stage = "failing"
        /\ record' = IF Releasable(k) THEN [record EXCEPT ![k] = Absent] ELSE record
        /\ lapses' = IF record[k].status = "pending" /\ req[r].work > 0
                     THEN [lapses EXCEPT ![k] = @ + 1] ELSE lapses
        /\ Finish(r)
        /\ UNCHANGED <<used, made, works, answers, faults, calls>>

ReleaseFails(r) ==
    /\ req[r].stage = "failing"
    /\ Fault("db_error")
    /\ Finish(r)
    /\ UNCHANGED <<tableVars, answers, calls>>

-------------------------------------------------------------------------------
(* The rest of the world *)

\* The thread's process dies or the server's timeout kills it.
Crash(r) ==
    /\ req[r] # Idle
    /\ Fault("crash")
    /\ Finish(r)
    /\ UNCHANGED <<tableVars, answers, calls>>

\* Records age.  A request lives for two minutes at most, a TTL is a day: the
\* record of a request under way stays young.
Age ==
    /\ record' = [k \in Keys |->
                    IF record[k].status # "absent" /\ Owners(k) = {} /\ record[k].age < TTL
                    THEN [record[k] EXCEPT !.age = @ + 1] ELSE record[k]]
    /\ record' # record
    /\ UNCHANGED <<req, used, made, works, answers, lapses, faults, calls>>

\* sweep_stale_idempotency_records
Sweep ==
    /\ \E k \in Keys : Expired(k)
    /\ record' = [k \in Keys |-> IF Expired(k) THEN Absent ELSE record[k]]
    /\ lapses' = [k \in Keys |-> IF Expired(k) THEN lapses[k] + 1 ELSE lapses[k]]
    /\ UNCHANGED <<req, used, made, works, answers, faults, calls>>

\* A creation leaves the quota's 24 hour window.
QuotaFrees ==
    /\ used > 0
    /\ used' = used - 1
    /\ UNCHANGED <<record, req, made, works, answers, lapses, faults, calls>>

Handle(r) ==
    \/ Claim(r) \/ Contend(r) \/ Replay(r) \/ Refuse(r)
    \/ CheckQuota(r) \/ CheckQuotaFails(r) \/ FolderMissing(r) \/ FolderFound(r)
    \/ Create(r) \/ CreateFails(r) \/ Finalize(r) \/ FinalizeUnacknowledged(r)
    \/ FinishFails(r) \/ Release(r) \/ ReleaseFails(r)

Next ==
    \/ \E r \in Threads : Handle(r) \/ Crash(r)
    \/ \E r \in Threads, k \in Keys, b \in Bodies : Arrive(r, k, b)
    \/ Age \/ Sweep \/ QuotaFrees

Spec == Init /\ [][Next]_vars

\* A request is handled to its end, time passes, and the hourly sweep runs.
FairSpec ==
    /\ Spec
    /\ \A r \in Threads : WF_vars(Handle(r))
    /\ WF_vars(Age) /\ WF_vars(Sweep)

-------------------------------------------------------------------------------
TypeOK ==
    /\ record \in [Keys -> Record]
    /\ req \in [Threads -> Request]
    /\ used \in Nat
    /\ made \in [Keys -> Nat]
    /\ works \subseteq Keys \X Bodies \X Nat
    /\ answers \subseteq Keys \X Bodies \X Nat
    /\ lapses \in [Keys -> Nat]
    /\ faults \in 0..MaxFaults
    /\ calls \in 0..MaxCalls
    /\ \A r \in Threads : req[r].stage # "idle" => req[r].key # Null /\ req[r].body # Null

\* A key's request is carried out by one thread at a time, and as long as it is
\* the record is there, for the body that thread works on: nobody else's sweep,
\* release or insert takes the claim away.
OwnerKeepsClaim ==
    \A k \in Keys :
        /\ \A r1, r2 \in Owners(k) : r1 = r2
        /\ \A r \in Owners(k) :
              /\ record[k].body = req[r].body
              /\ record[k].status # "absent"
              /\ req[r].stage # "failing" => record[k].status = "pending"

\* One creation may still come for a key that is unclaimed, or whose claim is
\* held by a thread that has not created anything yet.
ToCome(k) ==
    IF \/ record[k].status = "absent"
       \/ /\ record[k].status = "pending"
          /\ \E r \in Owners(k) : req[r].work = 0
    THEN 1 ELSE 0

\* "We cache the first response and replay it verbatim for 24 hours": a key's
\* resource is created once, plus once for every time its record expired or an
\* error between creation and answer released it.
CreatedOnce == \A k \in Keys : made[k] + ToCome(k) <= 1 + lapses[k]

\* Nobody is told of a resource that was not created for the key and body of the
\* request that is answered.
AnswersAreTrue ==
    /\ answers \subseteq works
    /\ \A k \in Keys :
          record[k].status = "done" => <<k, record[k].body, record[k].work>> \in works

\* The quota is checked before the creation and without a lock, so concurrent
\* requests overrun it, by no more than the threads there are.
Overrunning == {r \in Threads : req[r].stage = "cleared" /\ req[r].body \in ScheduleBodies}

QuotaOverrunBounded ==
    used + Cardinality(Overrunning) <=
        IF Limit = 0 THEN 0 ELSE Limit + Cardinality(Threads) - 1

\* A placeholder blocks its key for a while only: its owner, or in the end the
\* sweep, removes it or turns it into an answer.
PendingEnds == \A k \in Keys : record[k].status = "pending" ~> record[k].status # "pending"

\* "MUST call ``finalize_idempotent_response`` on success or
\* ``release_idempotent_claim`` on failure": as long as nothing crashes, a placeholder has an owner.
ClaimsAreSettled ==
    faults = 0 => \A k \in Keys : record[k].status = "pending" => Owners(k) # {}
===============================================================================
