--------------------------- MODULE IdempotencyProofs ---------------------------
(***************************************************************************)
(* Theorems about Idempotency for every number of threads, keys and bodies *)
(* and every bound.                                                        *)
(***************************************************************************)
EXTENDS Idempotency, FiniteSetTheorems, TLAPS

-------------------------------------------------------------------------------
(* Type correctness *)

\* A thread at work has a key and a body.
LEMMA BusyRequest ==
    ASSUME TypeOK, NEW r \in Threads, req[r].stage # "idle"
    PROVE  req[r].key \in Keys /\ req[r].body \in Bodies
BY DEF TypeOK, Request

\* Finalizing gives a record.
LEMMA StoredRecord ==
    ASSUME TypeOK, NEW r \in Threads, req[r].stage # "idle"
    PROVE  Stored(r) \in Record
<1>1. record[req[r].key] \in Record /\ req[r].work \in Nat
    BY BusyRequest DEF TypeOK, Request
<1> QED BY <1>1 DEF Stored, Record

\* A fresh database has the type...
LEMMA TypeInit == Init => TypeOK
BY IdempotencyConstants DEF Init, TypeOK, Absent, Idle, Record, Request, Stages

\* ...and every step of a request, of a fault and of the sweep keeps it.
LEMMA TypeStep ==
    ASSUME TypeOK, [Next]_vars
    PROVE  TypeOK'
<1> USE IdempotencyConstants DEF TypeOK
<1>1. ASSUME NEW r \in Threads, Claim(r) PROVE TypeOK'
    BY <1>1 DEF Claim, Move, Record, Request, Stages, Idle, Absent
<1>2. ASSUME NEW r \in Threads, Contend(r) PROVE TypeOK'
    BY <1>2 DEF Contend, Move, tableVars, Record, Request, Stages, Idle, Absent
<1>3. ASSUME NEW r \in Threads, Replay(r) PROVE TypeOK'
    BY <1>3 DEF Replay, Finish, tableVars, Record, Request, Stages, Idle, Absent
<1>4. ASSUME NEW r \in Threads, Refuse(r) PROVE TypeOK'
    BY <1>4 DEF Refuse, Finish, tableVars, Record, Request, Stages, Idle, Absent
<1>5. ASSUME NEW r \in Threads, CheckQuota(r) PROVE TypeOK'
    BY <1>5 DEF CheckQuota, Move, tableVars, Record, Request, Stages, Idle, Absent
<1>6. ASSUME NEW r \in Threads, CheckQuotaFails(r) PROVE TypeOK'
    BY <1>6 DEF CheckQuotaFails, Finish, Fault, tableVars, Record, Request, Stages,
       Idle, Absent
<1>7. ASSUME NEW r \in Threads, FolderMissing(r) PROVE TypeOK'
    BY <1>7 DEF FolderMissing, Finish, tableVars, Record, Request, Stages, Idle, Absent
<1>8. ASSUME NEW r \in Threads, FolderFound(r) PROVE TypeOK'
    BY <1>8 DEF FolderFound, Move, tableVars, Record, Request, Stages, Idle, Absent
<1>9. ASSUME NEW r \in Threads, Create(r) PROVE TypeOK'
    <2> DEFINE k == req[r].key
               n == made[k] + 1
    <2>1. k \in Keys /\ req[r].body \in Bodies
        BY <1>9, BusyRequest DEF Create
    <2>2. n \in Nat
        BY <2>1
    <2> HIDE DEF n
    <2>3. /\ made' = [made EXCEPT ![k] = n]
          /\ works' = works \cup {<<k, req[r].body, n>>}
          /\ req' = [req EXCEPT ![r] = [@ EXCEPT !.stage = "made", !.work = n]]
          /\ used' = used + 1 \/ used' = used
          /\ UNCHANGED <<record, answers, lapses, faults, calls>>
        BY <1>9 DEF Create, n
    <2>4. req' \in [Threads -> Request]
        BY <2>2, <2>3 DEF Request, Stages
    <2>5. \A t \in Threads :
             req'[t].stage # "idle" => req'[t].key # Null /\ req'[t].body # Null
        BY <2>1, <2>3 DEF Request
    <2>6. made' \in [Keys -> Nat] /\ works' \subseteq Keys \X Bodies \X Nat
        BY <2>1, <2>2, <2>3
    <2> QED BY <2>3, <2>4, <2>5, <2>6
<1>10. ASSUME NEW r \in Threads, CreateFails(r) PROVE TypeOK'
    BY <1>10 DEF CreateFails, Move, tableVars, Record, Request, Stages, Idle, Absent
<1>11. ASSUME NEW r \in Threads, Finalize(r) PROVE TypeOK'
    <2>1. req[r].key \in Keys /\ req[r].body \in Bodies /\ Stored(r) \in Record
        BY <1>11, BusyRequest, StoredRecord DEF Finalize
    <2>2. req' \in [Threads -> Request]
        BY <1>11 DEF Finalize, Finish, Request, Stages, Idle
    <2>3. \A t \in Threads :
             req'[t].stage # "idle" => req'[t].key # Null /\ req'[t].body # Null
        BY <1>11, <2>1 DEF Finalize, Finish, Idle
    <2>4. record' \in [Keys -> Record]
        BY <1>11, <2>1 DEF Finalize
    <2>5. answers' \subseteq Keys \X Bodies \X Nat
        BY <1>11, <2>1 DEF Finalize, Request
    <2> QED BY <1>11, <2>2, <2>3, <2>4, <2>5 DEF Finalize
<1>12. ASSUME NEW r \in Threads, FinalizeUnacknowledged(r) PROVE TypeOK'
    <2>1. req[r].key \in Keys /\ req[r].body \in Bodies /\ Stored(r) \in Record
        BY <1>12, BusyRequest, StoredRecord DEF FinalizeUnacknowledged
    <2>2. req' \in [Threads -> Request]
        BY <1>12 DEF FinalizeUnacknowledged, Move, Finish, Request, Stages, Idle
    <2>3. \A t \in Threads :
             req'[t].stage # "idle" => req'[t].key # Null /\ req'[t].body # Null
        <3>1. \/ req' = [req EXCEPT ![r] = Idle]
              \/ req' = [req EXCEPT ![r].stage = "failing"]
            BY <1>12 DEF FinalizeUnacknowledged, Move, Finish
        <3> QED BY <2>1, <3>1, IdempotencyConstants DEF Idle, Request
    <2>4. record' \in [Keys -> Record]
        BY <1>12, <2>1 DEF FinalizeUnacknowledged
    <2>5. answers' \subseteq Keys \X Bodies \X Nat
        BY <1>12, <2>1 DEF FinalizeUnacknowledged, Request
    <2> QED BY <1>12, <2>2, <2>3, <2>4, <2>5 DEF FinalizeUnacknowledged, Fault
<1>13. ASSUME NEW r \in Threads, FinishFails(r) PROVE TypeOK'
    BY <1>13 DEF FinishFails, Move, Finish, Fault, tableVars, Record, Request, Stages,
       Idle, Absent
<1>14. ASSUME NEW r \in Threads, Release(r) PROVE TypeOK'
    <2> DEFINE k == req[r].key
    <2>1. k \in Keys
        BY <1>14, BusyRequest DEF Release
    <2>2. record' \in [Keys -> Record] /\ lapses' \in [Keys -> Nat]
        BY <1>14, <2>1 DEF Release, Record, Absent
    <2>3. req' \in [Threads -> Request]
        BY <1>14 DEF Release, Finish, Request, Stages, Idle
    <2>4. \A t \in Threads :
             req'[t].stage # "idle" => req'[t].key # Null /\ req'[t].body # Null
        BY <1>14 DEF Release, Finish, Idle
    <2> QED BY <1>14, <2>2, <2>3, <2>4 DEF Release
<1>15. ASSUME NEW r \in Threads, ReleaseFails(r) PROVE TypeOK'
    BY <1>15 DEF ReleaseFails, Finish, Fault, tableVars, Record, Request, Stages,
       Idle, Absent
<1>16. ASSUME NEW r \in Threads, Crash(r) PROVE TypeOK'
    BY <1>16 DEF Crash, Finish, Fault, tableVars, Record, Request, Stages, Idle, Absent
<1>17. ASSUME NEW r \in Threads, NEW k \in Keys, NEW b \in Bodies, Arrive(r, k, b)
       PROVE TypeOK'
    BY <1>17 DEF Arrive, tableVars, Record, Request, Stages, Idle, Absent
<1>18. CASE Age
    <2>1. ASSUME NEW k \in Keys, record[k].age < TTL
          PROVE  [record[k] EXCEPT !.age = @ + 1] \in Record
        <3>1. record[k].age + 1 \in 0..TTL
            BY <2>1 DEF Record
        <3> QED BY <3>1 DEF Record
    <2>2. record' \in [Keys -> Record]
        BY <1>18, <2>1 DEF Age
    <2> QED BY <1>18, <2>2 DEF Age
<1>19. CASE Sweep
    BY <1>19 DEF Sweep, Expired, Record, Request, Stages, Idle, Absent
<1>20. CASE QuotaFrees
    BY <1>20 DEF QuotaFrees, Record, Request, Stages, Idle, Absent
<1>21. CASE UNCHANGED vars
    BY <1>21 DEF vars, Record, Request, Stages, Idle, Absent
<1> QED
    BY <1>1, <1>2, <1>3, <1>4, <1>5, <1>6, <1>7, <1>8, <1>9, <1>10, <1>11, <1>12,
       <1>13, <1>14, <1>15, <1>16, <1>17, <1>18, <1>19, <1>20, <1>21 DEF Next, Handle

\* Everything the code stores has its type.
THEOREM TypeCorrect == Spec => []TypeOK
<1>1. TypeOK /\ [Next]_vars => TypeOK'
    BY TypeStep
<1> QED BY <1>1, TypeInit, PTL DEF Spec

-------------------------------------------------------------------------------
(* One thread per key *)

\* Two threads past their claims work on two keys.
Alone ==
    \A r1, r2 \in Threads :
        /\ req[r1].stage \in Owning /\ req[r2].stage \in Owning
        /\ req[r1].key = req[r2].key
        => r1 = r2

\* The record of a thread that is past its claim: there, for its body, young.
HeldBy(r) ==
    /\ record[req[r].key].status # "absent"
    /\ record[req[r].key].body = req[r].body
    /\ record[req[r].key].age = 0
    /\ req[r].stage # "failing" => record[req[r].key].status = "pending"

\* So for every thread.
Held == \A r \in Threads : req[r].stage \in Owning => HeldBy(r)

ClaimInv == TypeOK /\ Alone /\ Held

\* At the start nobody holds a key.
LEMMA ClaimInit == Init => ClaimInv
BY TypeInit DEF Init, ClaimInv, Alone, Held, Idle, Owning

\* Only the insert makes a holder, and only the holder, once it is none any more,
\* leaves a record for the others to remove.
LEMMA ClaimStep ==
    ASSUME ClaimInv, [Next]_vars
    PROVE  ClaimInv'
<1> USE IdempotencyConstants DEF ClaimInv
<1>type. TypeOK'
    BY TypeStep
<1>1. ASSUME NEW r \in Threads, Claim(r) PROVE Alone' /\ Held'
    <2> DEFINE k == req[r].key
    <2>1. k \in Keys /\ req[r].stage = "claim" /\ record[k].status = "absent"
        BY <1>1, BusyRequest DEF Claim, Claimable
    <2>2. \A t \in Threads : req[t].stage \in Owning => req[t].key # k
        BY <2>1 DEF Held, HeldBy
    <2>3. req' = [req EXCEPT ![r].stage = "claimed"]
        BY <1>1 DEF Claim, Move
    <2>4. record' = [record EXCEPT ![k] = [status |-> "pending", body |-> req[r].body,
                                           work |-> 0, age |-> 0]]
        BY <1>1 DEF Claim
    <2> HIDE DEF k
    <2>5. ASSUME NEW t \in Threads, t # r
          PROVE  req'[t] = req[t]
        BY <2>3, <2>5 DEF TypeOK
    <2>6. req'[r].key = k /\ req'[r].body = req[r].body /\ req'[r].stage = "claimed"
        BY <2>3 DEF TypeOK, Request, k
    <2>7. Alone'
        BY <2>2, <2>5, <2>6 DEF Alone
    <2>8. ASSUME NEW t \in Threads, t # r, req[t].stage \in Owning
          PROVE  HeldBy(t)'
        <3>1. HeldBy(t) /\ req[t].key # k
            BY <2>2, <2>8 DEF Held
        <3>2. record'[req[t].key] = record[req[t].key]
            BY <2>4, <3>1, BusyRequest, <2>8 DEF Owning, TypeOK
        <3> QED BY <2>5, <2>8, <3>1, <3>2 DEF HeldBy
    <2>9. HeldBy(r)'
        BY <2>1, <2>4, <2>6 DEF HeldBy, TypeOK
    <2> QED BY <2>5, <2>7, <2>8, <2>9 DEF Held
<1>2. ASSUME NEW r \in Threads, Contend(r) PROVE Alone' /\ Held'
    BY <1>2 DEF Contend, Move, tableVars, TypeOK, Alone, Held, HeldBy, Owning, Record,
       Request, Idle, Absent
<1>3. ASSUME NEW r \in Threads, Replay(r) PROVE Alone' /\ Held'
    BY <1>3 DEF Replay, Finish, tableVars, TypeOK, Alone, Held, HeldBy, Owning,
       Record, Request, Idle, Absent
<1>4. ASSUME NEW r \in Threads, Refuse(r) PROVE Alone' /\ Held'
    BY <1>4 DEF Refuse, Finish, tableVars, TypeOK, Alone, Held, HeldBy, Owning,
       Record, Request, Idle, Absent
<1>5. ASSUME NEW r \in Threads, CheckQuota(r) PROVE Alone' /\ Held'
    BY <1>5 DEF CheckQuota, Move, tableVars, TypeOK, Alone, Held, HeldBy, Owning,
       Record, Request, Idle, Absent
<1>6. ASSUME NEW r \in Threads, CheckQuotaFails(r) PROVE Alone' /\ Held'
    BY <1>6 DEF CheckQuotaFails, Finish, Fault, tableVars, TypeOK, Alone, Held,
       HeldBy, Owning, Record, Request, Idle, Absent
<1>7. ASSUME NEW r \in Threads, FolderMissing(r) PROVE Alone' /\ Held'
    BY <1>7 DEF FolderMissing, Finish, tableVars, TypeOK, Alone, Held, HeldBy, Owning,
       Record, Request, Idle, Absent
<1>8. ASSUME NEW r \in Threads, FolderFound(r) PROVE Alone' /\ Held'
    BY <1>8 DEF FolderFound, Move, tableVars, TypeOK, Alone, Held, HeldBy, Owning,
       Record, Request, Idle, Absent
<1>9. ASSUME NEW r \in Threads, Create(r) PROVE Alone' /\ Held'
    BY <1>9 DEF Create, TypeOK, Alone, Held, HeldBy, Owning, Record, Request, Idle,
       Absent
<1>10. ASSUME NEW r \in Threads, CreateFails(r) PROVE Alone' /\ Held'
    BY <1>10 DEF CreateFails, Move, tableVars, TypeOK, Alone, Held, HeldBy, Owning,
       Record, Request, Idle, Absent
<1>11. ASSUME NEW r \in Threads, Finalize(r) PROVE Alone' /\ Held'
    BY <1>11 DEF Finalize, Finish, Stored, TypeOK, Alone, Held, HeldBy, Owning,
       Record, Request, Idle, Absent
<1>12. ASSUME NEW r \in Threads, FinalizeUnacknowledged(r) PROVE Alone' /\ Held'
    <2> DEFINE k == req[r].key
    <2>1. k \in Keys /\ req[r].stage = "made"
        BY <1>12, BusyRequest DEF FinalizeUnacknowledged
    <2>2. \/ req' = [req EXCEPT ![r] = Idle]
          \/ req' = [req EXCEPT ![r].stage = "failing"]
        BY <1>12 DEF FinalizeUnacknowledged, Move, Finish
    <2>3. record' = [record EXCEPT ![k] = Stored(r)]
        BY <1>12 DEF FinalizeUnacknowledged
    <2>4. \A t \in Threads : t # r => req'[t] = req[t]
        BY <2>2 DEF TypeOK
    <2>5. \/ req'[r].stage = "idle"
          \/ /\ req'[r].key = k /\ req'[r].body = req[r].body
             /\ req'[r].stage = "failing"
        BY <2>2 DEF TypeOK, Request, Idle
    <2>6. Alone'
        BY <2>1, <2>4, <2>5 DEF Alone, Owning
    <2>7. ASSUME NEW t \in Threads, t # r, req[t].stage \in Owning
          PROVE  HeldBy(t)'
        <3>1. HeldBy(t) /\ req[t].key # k
            BY <2>1, <2>7 DEF Held, Alone, Owning
        <3>2. record'[req[t].key] = record[req[t].key]
            BY <2>3, <3>1, BusyRequest, <2>7 DEF Owning, TypeOK
        <3> QED BY <2>4, <2>7, <3>1, <3>2 DEF HeldBy
    <2>8. ASSUME req'[r].stage = "failing"
          PROVE  HeldBy(r)'
        <3>1. HeldBy(r) /\ record[k] \in Record
            BY <2>1 DEF Held, Owning, TypeOK
        <3>2. record'[k] = Stored(r)
            BY <2>1, <2>3 DEF TypeOK
        <3>3. Stored(r).status = "done" /\ Stored(r).body = record[k].body
              /\ Stored(r).age = record[k].age
            BY <3>1 DEF Stored, Record
        <3> QED BY <2>5, <2>8, <3>1, <3>2, <3>3 DEF HeldBy
    <2> QED BY <2>4, <2>5, <2>6, <2>7, <2>8 DEF Held, Owning
<1>13. ASSUME NEW r \in Threads, FinishFails(r) PROVE Alone' /\ Held'
    BY SMTT(30), <1>13 DEF FinishFails, Move, Finish, Fault, tableVars, TypeOK, Alone, Held,
       HeldBy, Owning, Record, Request, Idle, Absent
<1>14. ASSUME NEW r \in Threads, Release(r) PROVE Alone' /\ Held'
    BY <1>14 DEF Release, Finish, TypeOK, Alone, Held, HeldBy, Owning, Record,
       Request, Idle, Absent
<1>15. ASSUME NEW r \in Threads, ReleaseFails(r) PROVE Alone' /\ Held'
    BY <1>15 DEF ReleaseFails, Finish, Fault, tableVars, TypeOK, Alone, Held, HeldBy,
       Owning, Record, Request, Idle, Absent
<1>16. ASSUME NEW r \in Threads, Crash(r) PROVE Alone' /\ Held'
    BY <1>16 DEF Crash, Finish, Fault, tableVars, TypeOK, Alone, Held, HeldBy, Owning,
       Record, Request, Idle, Absent
<1>17. ASSUME NEW r \in Threads, NEW k \in Keys, NEW b \in Bodies, Arrive(r, k, b)
       PROVE Alone' /\ Held'
    BY <1>17 DEF Arrive, tableVars, TypeOK, Alone, Held, HeldBy, Owning, Record,
       Request, Idle, Absent
<1>18. CASE Age
    <2>0. req' = req /\ \A k \in Keys : Owners(k) # {} => record'[k] = record[k]
        BY <1>18 DEF Age
    <2>1. Alone'
        BY <1>18 DEF Age, Alone
    <2>2. ASSUME NEW t \in Threads, req[t].stage \in Owning
          PROVE  HeldBy(t)'
        <3>1. HeldBy(t) /\ req[t].key \in Keys
            BY <2>2, BusyRequest DEF Held, Owning
        <3>2. Owners(req[t].key) # {}
            BY <2>2 DEF Owners
        <3>3. record'[req[t].key] = record[req[t].key] /\ req' = req
            BY <2>0, <3>1, <3>2
        <3> QED BY <3>1, <3>3 DEF HeldBy
    <2> QED BY <1>type, <1>18, <2>1, <2>2 DEF Age, Held
<1>19. CASE Sweep
    BY <1>19 DEF Sweep, Expired, TypeOK, Alone, Held, HeldBy, Owning, Record, Request,
       Idle, Absent
<1>20. CASE QuotaFrees
    BY <1>20 DEF QuotaFrees, TypeOK, Alone, Held, HeldBy, Owning, Record, Request,
       Idle, Absent
<1>21. CASE UNCHANGED vars
    BY <1>21 DEF vars, TypeOK, Alone, Held, HeldBy, Owning, Record, Request, Idle,
       Absent
<1> QED
    BY <1>type, <1>1, <1>2, <1>3, <1>4, <1>5, <1>6, <1>7, <1>8, <1>9, <1>10, <1>11,
       <1>12, <1>13, <1>14, <1>15, <1>16, <1>17, <1>18, <1>19, <1>20, <1>21 DEF Next,
       Handle

\* claim_idempotency_slot is exclusive: between its claim and its answer a thread
\* is alone with its key, and no sweep, release or insert of another takes its record.
THEOREM ClaimsAreExclusive == Spec => []OwnerKeepsClaim
<1>1. ClaimInv /\ [Next]_vars => ClaimInv'
    BY ClaimStep
<1>2. ClaimInv => OwnerKeepsClaim
    BY DEF ClaimInv, Alone, Held, HeldBy, OwnerKeepsClaim, Owners, TypeOK
<1> QED BY <1>1, <1>2, ClaimInit, PTL DEF Spec

-------------------------------------------------------------------------------
(* What a thread carries *)

\* A thread has created something exactly when it is past the creation, and what it
\* has created was created for its key and body.
Carries(r) ==
    /\ req[r].work > 0 => /\ req[r].stage \in {"made", "failing"}
                          /\ <<req[r].key, req[r].body, req[r].work>> \in works
    /\ req[r].stage = "made" => req[r].work > 0

WorkInv == ClaimInv /\ \A r \in Threads : Carries(r)

\* At the start nothing has been created.
LEMMA WorkInit == Init => WorkInv
BY ClaimInit DEF Init, WorkInv, Carries, Idle

\* Only the creation gives a thread something to carry.
LEMMA WorkStep ==
    ASSUME WorkInv, [Next]_vars
    PROVE  WorkInv'
<1> USE DEF WorkInv
<1>claim. ClaimInv'
    BY ClaimStep
<1>type. TypeOK /\ TypeOK'
    BY <1>claim DEF ClaimInv
<1>1. ASSUME NEW r \in Threads, Claim(r) PROVE \A t \in Threads : Carries(t)'
    BY <1>1, <1>type DEF Claim, Move, Carries, TypeOK, Request, Idle
<1>2. ASSUME NEW r \in Threads, Contend(r) PROVE \A t \in Threads : Carries(t)'
    BY <1>2, <1>type DEF Contend, Move, tableVars, Carries, TypeOK, Request, Idle
<1>3. ASSUME NEW r \in Threads, Replay(r) PROVE \A t \in Threads : Carries(t)'
    BY <1>3, <1>type DEF Replay, Finish, tableVars, Carries, TypeOK, Request, Idle
<1>4. ASSUME NEW r \in Threads, Refuse(r) PROVE \A t \in Threads : Carries(t)'
    BY <1>4, <1>type DEF Refuse, Finish, tableVars, Carries, TypeOK, Request, Idle
<1>5. ASSUME NEW r \in Threads, CheckQuota(r) PROVE \A t \in Threads : Carries(t)'
    BY <1>5, <1>type DEF CheckQuota, Move, tableVars, Carries, TypeOK, Request, Idle
<1>6. ASSUME NEW r \in Threads, CheckQuotaFails(r) PROVE \A t \in Threads : Carries(t)'
    BY <1>6, <1>type DEF CheckQuotaFails, Finish, Fault, tableVars, Carries, TypeOK,
       Request, Idle
<1>7. ASSUME NEW r \in Threads, FolderMissing(r) PROVE \A t \in Threads : Carries(t)'
    BY <1>7, <1>type DEF FolderMissing, Finish, tableVars, Carries, TypeOK, Request,
       Idle
<1>8. ASSUME NEW r \in Threads, FolderFound(r) PROVE \A t \in Threads : Carries(t)'
    BY <1>8, <1>type DEF FolderFound, Move, tableVars, Carries, TypeOK, Request, Idle
<1>9. ASSUME NEW r \in Threads, Create(r) PROVE \A t \in Threads : Carries(t)'
    <2> DEFINE k == req[r].key
               n == made[k] + 1
    <2>1. k \in Keys /\ req[r].body \in Bodies /\ n \in Nat /\ n > 0
        BY <1>9, <1>type, BusyRequest DEF Create, TypeOK
    <2> HIDE DEF n
    <2>2. /\ works' = works \cup {<<k, req[r].body, n>>}
          /\ req' = [req EXCEPT ![r] = [@ EXCEPT !.stage = "made", !.work = n]]
        BY <1>9 DEF Create, n
    <2>3. \A t \in Threads : t # r => req'[t] = req[t]
        BY <1>type, <2>2 DEF TypeOK
    <2>4. /\ req'[r].key = k /\ req'[r].body = req[r].body
          /\ req'[r].stage = "made" /\ req'[r].work = n
        BY <1>type, <2>2 DEF TypeOK, Request
    <2> QED BY <2>1, <2>2, <2>3, <2>4 DEF Carries
<1>10. ASSUME NEW r \in Threads, CreateFails(r) PROVE \A t \in Threads : Carries(t)'
    BY <1>10, <1>type DEF CreateFails, Move, tableVars, Carries, TypeOK, Request, Idle
<1>11. ASSUME NEW r \in Threads, Finalize(r) PROVE \A t \in Threads : Carries(t)'
    BY <1>11, <1>type DEF Finalize, Finish, Stored, Carries, TypeOK, Request, Idle
<1>12. ASSUME NEW r \in Threads, FinalizeUnacknowledged(r) PROVE \A t \in Threads :
   Carries(t)'
    BY <1>12, <1>type DEF FinalizeUnacknowledged, Move, Finish, Fault, Stored,
       tableVars, Carries, TypeOK, Request, Idle
<1>13. ASSUME NEW r \in Threads, FinishFails(r) PROVE \A t \in Threads : Carries(t)'
    BY <1>13, <1>type DEF FinishFails, Move, Finish, Fault, tableVars, Carries,
       TypeOK, Request, Idle
<1>14. ASSUME NEW r \in Threads, Release(r) PROVE \A t \in Threads : Carries(t)'
    BY <1>14, <1>type DEF Release, Finish, Carries, TypeOK, Request, Idle
<1>15. ASSUME NEW r \in Threads, ReleaseFails(r) PROVE \A t \in Threads : Carries(t)'
    BY <1>15, <1>type DEF ReleaseFails, Finish, Fault, tableVars, Carries, TypeOK,
       Request, Idle
<1>16. ASSUME NEW r \in Threads, Crash(r) PROVE \A t \in Threads : Carries(t)'
    BY <1>16, <1>type DEF Crash, Finish, Fault, tableVars, Carries, TypeOK, Request,
       Idle
<1>17. ASSUME NEW r \in Threads, NEW k \in Keys, NEW b \in Bodies, Arrive(r, k, b)
       PROVE \A t \in Threads : Carries(t)'
    BY <1>17, <1>type DEF Arrive, tableVars, Carries, TypeOK, Request, Idle
<1>18. CASE Age
    BY <1>18, <1>type, <1>claim DEF Age, Carries, TypeOK, Request, Idle
<1>19. CASE Sweep
    BY <1>19, <1>type, <1>claim DEF Sweep, Expired, Carries, TypeOK, Request, Idle
<1>20. CASE QuotaFrees
    BY <1>20, <1>type, <1>claim DEF QuotaFrees, Carries, TypeOK, Request, Idle
<1>21. CASE UNCHANGED vars
    BY <1>21, <1>type, <1>claim DEF vars, Carries, TypeOK, Request, Idle
<1> QED
    BY <1>claim, <1>1, <1>2, <1>3, <1>4, <1>5, <1>6, <1>7, <1>8, <1>9, <1>10, <1>11,
       <1>12, <1>13, <1>14, <1>15, <1>16, <1>17, <1>18, <1>19, <1>20, <1>21 DEF Next,
       Handle

-------------------------------------------------------------------------------
(* Created once *)

\* A creation may still come for the key.
Open(k) ==
    \/ record[k].status = "absent"
    \/ /\ record[k].status = "pending"
       /\ \E r \in Threads : /\ req[r].key = k /\ req[r].stage \in Owning
                             /\ req[r].work = 0

\* ToCome counts what Open says.
LEMMA ToComeOpen ==
    ASSUME NEW k \in Keys
    PROVE  ToCome(k) = IF Open(k) THEN 1 ELSE 0
BY DEF ToCome, Open, Owners

\* What a step may do to a key's account: create only for an open key, which
\* it closes, or open the key for one lapse more.
Budget(k) ==
    \/ /\ made'[k] = made[k] /\ lapses'[k] = lapses[k]
       /\ Open(k)' => Open(k)
    \/ made'[k] = made[k] /\ lapses'[k] = lapses[k] + 1
    \/ /\ made'[k] = made[k] + 1 /\ lapses'[k] = lapses[k]
       /\ Open(k) /\ ~Open(k)'

\* A step within the budget keeps the count of the key's creations.
LEMMA BudgetKept ==
    ASSUME WorkInv, WorkInv', NEW k \in Keys, Budget(k),
           made[k] + ToCome(k) <= 1 + lapses[k]
    PROVE  (made[k] + ToCome(k) <= 1 + lapses[k])'
<1>1. made[k] \in Nat /\ lapses[k] \in Nat
    BY DEF WorkInv, ClaimInv, TypeOK
<1>2. ToCome(k) = IF Open(k) THEN 1 ELSE 0
    BY ToComeOpen
<1>3. ToCome(k)' = IF Open(k)' THEN 1 ELSE 0
    BY DEF ToCome, Open, Owners
<1> QED BY <1>1, <1>2, <1>3 DEF Budget

\* Every step is within the budget of every key.
LEMMA BudgetStep ==
    ASSUME WorkInv, [Next]_vars, NEW k \in Keys
    PROVE  Budget(k)
<1>inv. TypeOK /\ Alone /\ Held /\ \A t \in Threads : Carries(t)
    BY DEF WorkInv, ClaimInv
<1>1. ASSUME NEW r \in Threads, Claim(r) PROVE Budget(k)
    <2> DEFINE c == req[r].key
    <2>1. c \in Keys /\ record[c].status = "absent" /\ req' = [req EXCEPT ![r].stage =
       "claimed"]
        BY <1>1, <1>inv, BusyRequest DEF Claim, Claimable, Move
    <2>2. \A l \in Keys : l # c => record'[l] = record[l]
        BY <1>1, <1>inv DEF Claim, TypeOK
    <2>3. \A t \in Threads : t # r => req'[t] = req[t]
        BY <1>inv, <2>1 DEF TypeOK
    <2>4. req'[r].key = c
        BY <1>inv, <2>1 DEF TypeOK, Request
    <2>5. made' = made /\ lapses' = lapses
        BY <1>1 DEF Claim
    <2>6. CASE k = c
        BY <2>1, <2>5, <2>6 DEF Budget, Open
    <2>7. CASE k # c
        <3>1. Open(k)' => Open(k)
            BY <2>2, <2>3, <2>4, <2>7 DEF Open
        <3> QED BY <2>5, <3>1 DEF Budget
    <2> QED BY <2>6, <2>7
<1>2. ASSUME NEW r \in Threads, Contend(r) PROVE Budget(k)
    BY <1>2, <1>inv DEF Contend, Move, tableVars, Budget, Open, TypeOK, Request, Idle,
       Owning
<1>3. ASSUME NEW r \in Threads, Replay(r) PROVE Budget(k)
    BY <1>3, <1>inv DEF Replay, Finish, tableVars, Budget, Open, TypeOK, Request,
       Idle, Owning
<1>4. ASSUME NEW r \in Threads, Refuse(r) PROVE Budget(k)
    BY <1>4, <1>inv DEF Refuse, Finish, tableVars, Budget, Open, TypeOK, Request,
       Idle, Owning
<1>5. ASSUME NEW r \in Threads, CheckQuota(r) PROVE Budget(k)
    BY <1>5, <1>inv DEF CheckQuota, Move, tableVars, Budget, Open, TypeOK, Request,
       Idle, Owning
<1>6. ASSUME NEW r \in Threads, CheckQuotaFails(r) PROVE Budget(k)
    BY <1>6, <1>inv DEF CheckQuotaFails, Finish, Fault, tableVars, Budget, Open,
       TypeOK, Request, Idle, Owning
<1>7. ASSUME NEW r \in Threads, FolderMissing(r) PROVE Budget(k)
    BY <1>7, <1>inv DEF FolderMissing, Finish, tableVars, Budget, Open, TypeOK,
       Request, Idle, Owning
<1>8. ASSUME NEW r \in Threads, FolderFound(r) PROVE Budget(k)
    BY <1>8, <1>inv DEF FolderFound, Move, tableVars, Budget, Open, TypeOK, Request,
       Idle, Owning
<1>9. ASSUME NEW r \in Threads, Create(r) PROVE Budget(k)
    <2> DEFINE c == req[r].key
               n == made[c] + 1
    <2>1. c \in Keys /\ n \in Nat /\ n > 0 /\ req[r].stage = "cleared"
        BY <1>9, <1>inv, BusyRequest DEF Create, TypeOK
    <2>2. /\ made' = [made EXCEPT ![c] = n]
          /\ req' = [req EXCEPT ![r] = [@ EXCEPT !.stage = "made", !.work = n]]
          /\ record' = record /\ lapses' = lapses
        BY <1>9 DEF Create
    <2>3. \A t \in Threads : t # r => req'[t] = req[t]
        BY <1>inv, <2>2 DEF TypeOK
    <2>4. req'[r].key = c /\ req'[r].work > 0
        BY <1>inv, <2>1, <2>2 DEF TypeOK, Request
    <2>5. record[c].status = "pending" /\ req[r].work = 0
        <3>1. HeldBy(r) /\ Carries(r) /\ req[r].work \in Nat
            BY <1>inv, <2>1 DEF Held, Owning, TypeOK, Request
        <3> QED BY <2>1, <3>1 DEF HeldBy, Carries
    <2>6. Open(c)
        BY <2>1, <2>5 DEF Open, Owning
    <2>7. ~Open(c)'
        <3>1. ASSUME NEW t \in Threads, req'[t].key = c, req'[t].stage \in Owning
              PROVE  t = r
            BY <1>inv, <2>1, <2>3, <3>1 DEF Alone, Owning
        <3> QED BY <2>2, <2>4, <2>5, <3>1 DEF Open
    <2>8. CASE k = c
        BY <1>inv, <2>1, <2>2, <2>6, <2>7, <2>8 DEF Budget, TypeOK
    <2>9. CASE k # c
        <3>1. Open(k)' => Open(k)
            BY <2>2, <2>3, <2>4, <2>9 DEF Open
        <3>2. made'[k] = made[k]
            BY <1>inv, <2>2, <2>9 DEF TypeOK
        <3> QED BY <2>2, <3>1, <3>2 DEF Budget
    <2> QED BY <2>8, <2>9
<1>10. ASSUME NEW r \in Threads, CreateFails(r) PROVE Budget(k)
    BY <1>10, <1>inv DEF CreateFails, Move, tableVars, Budget, Open, TypeOK, Request,
       Idle, Owning
<1>11. ASSUME NEW r \in Threads, Finalize(r) PROVE Budget(k)
    BY <1>11, <1>inv DEF Finalize, Finish, Stored, Budget, Open, TypeOK, Request,
       Idle, Owning
<1>12. ASSUME NEW r \in Threads, FinalizeUnacknowledged(r) PROVE Budget(k)
    BY <1>12, <1>inv DEF FinalizeUnacknowledged, Move, Finish, Fault, Stored,
       tableVars, Budget, Open, TypeOK, Request, Idle, Owning
<1>13. ASSUME NEW r \in Threads, FinishFails(r) PROVE Budget(k)
    BY <1>13, <1>inv DEF FinishFails, Move, Finish, Fault, tableVars, Budget, Open,
       TypeOK, Request, Idle, Owning
<1>14. ASSUME NEW r \in Threads, Release(r) PROVE Budget(k)
    <2> DEFINE c == req[r].key
    <2>1. c \in Keys /\ req[r].stage = "failing" /\ req[r].work \in Nat
        BY <1>14, <1>inv, BusyRequest DEF Release, TypeOK, Request
    <2>2. \A t \in Threads : req'[t].stage \in Owning => req'[t] = req[t] /\ t # r
        BY <1>14, <1>inv DEF Release, Finish, TypeOK, Idle, Owning
    <2>3. made' = made
        BY <1>14 DEF Release
    <2>4. \A l \in Keys : l # c => record'[l] = record[l] /\ lapses'[l] = lapses[l]
        BY <1>14, <1>inv DEF Release, TypeOK
    <2>5. CASE k # c
        <3>1. Open(k)' => Open(k)
            BY <2>2, <2>4, <2>5 DEF Open
        <3> QED BY <2>3, <2>4, <2>5, <3>1 DEF Budget
    <2>6. CASE k = c /\ Releasable(c) /\ req[r].work > 0
        BY <1>14, <1>inv, <2>1, <2>3, <2>6 DEF Release, Releasable, Budget, TypeOK
    <2>7. CASE k = c /\ Releasable(c) /\ req[r].work = 0
        <3>1. Open(c)
            BY <2>1, <2>7 DEF Open, Releasable, Owning
        <3>2. lapses' = lapses
            BY <1>14, <2>7 DEF Release
        <3> QED BY <2>3, <2>7, <3>1, <3>2 DEF Budget
    <2>8. CASE k = c /\ ~Releasable(c)
        <3>1. record' = record /\ lapses' = lapses
            BY <1>14, <2>8 DEF Release, Releasable
        <3>2. Open(k)' => Open(k)
            BY <2>2, <3>1 DEF Open
        <3> QED BY <2>3, <3>1, <3>2 DEF Budget
    <2> QED BY <2>1, <2>5, <2>6, <2>7, <2>8
<1>15. ASSUME NEW r \in Threads, ReleaseFails(r) PROVE Budget(k)
    BY <1>15, <1>inv DEF ReleaseFails, Finish, Fault, tableVars, Budget, Open, TypeOK,
       Request, Idle, Owning
<1>16. ASSUME NEW r \in Threads, Crash(r) PROVE Budget(k)
    BY <1>16, <1>inv DEF Crash, Finish, Fault, tableVars, Budget, Open, TypeOK,
       Request, Idle, Owning
<1>17. ASSUME NEW r \in Threads, NEW l \in Keys, NEW b \in Bodies, Arrive(r, l, b)
       PROVE Budget(k)
    BY <1>17, <1>inv DEF Arrive, tableVars, Budget, Open, TypeOK, Request, Idle, Owning
<1>18. CASE Age
    BY <1>18, <1>inv DEF Age, Budget, Open, TypeOK, Request, Idle, Owning
<1>19. CASE Sweep
    BY <1>19, <1>inv DEF Sweep, Expired, Budget, Open, TypeOK, Request, Idle, Owning
<1>20. CASE QuotaFrees
    BY <1>20, <1>inv DEF QuotaFrees, Budget, Open, TypeOK, Request, Idle, Owning
<1>21. CASE UNCHANGED vars
    BY <1>21, <1>inv DEF vars, Budget, Open, TypeOK, Request, Idle, Owning
<1> QED
    BY <1>1, <1>2, <1>3, <1>4, <1>5, <1>6, <1>7, <1>8, <1>9, <1>10, <1>11, <1>12,
       <1>13, <1>14, <1>15, <1>16, <1>17, <1>18, <1>19, <1>20, <1>21 DEF Next, Handle

\* Retries of a request create its resource once, plus once for every time the
\* record expired or was released after a creation, whatever is lost or dies.
THEOREM CreationIsUnique == Spec => []CreatedOnce
<1> DEFINE IInv == WorkInv /\ CreatedOnce
<1>1. Init => IInv
    BY WorkInit DEF Init, CreatedOnce, ToCome, Absent
<1>2. ASSUME IInv, [Next]_vars PROVE IInv'
    <2>1. WorkInv'
        BY <1>2, WorkStep
    <2>2. \A k \in Keys : Budget(k)
        BY <1>2, BudgetStep
    <2>3. CreatedOnce'
        BY <1>2, <2>1, <2>2, BudgetKept DEF CreatedOnce
    <2> QED BY <2>1, <2>3
<1>3. IInv /\ [Next]_vars => IInv'
    BY <1>2
<1> QED BY <1>1, <1>3, PTL DEF Spec

-------------------------------------------------------------------------------
(* Answers *)

\* A stored or given answer is one of the creations for its key and body.
LEMMA AnswersStep ==
    ASSUME WorkInv, AnswersAreTrue, [Next]_vars
    PROVE  AnswersAreTrue'
<1> USE DEF AnswersAreTrue
<1>inv. TypeOK /\ Held /\ \A t \in Threads : Carries(t)
    BY DEF WorkInv, ClaimInv
<1>busy. \A t \in Threads : req[t].stage # "idle" => req[t].key \in Keys
    BY <1>inv, BusyRequest
<1>1. ASSUME NEW r \in Threads, Claim(r) PROVE AnswersAreTrue'
    <2>1. req[r].key \in Keys
        BY <1>1, <1>busy DEF Claim
    <2> QED BY <1>1, <1>inv, <2>1 DEF Claim, TypeOK
<1>2. ASSUME NEW r \in Threads, Contend(r) PROVE AnswersAreTrue'
    BY <1>2, <1>inv DEF Contend, Move, tableVars, TypeOK
<1>3. ASSUME NEW r \in Threads, Replay(r) PROVE AnswersAreTrue'
    BY <1>3, <1>busy DEF Replay, Replayable, tableVars
<1>4. ASSUME NEW r \in Threads, Refuse(r) PROVE AnswersAreTrue'
    BY <1>4, <1>inv DEF Refuse, Finish, tableVars, TypeOK
<1>5. ASSUME NEW r \in Threads, CheckQuota(r) PROVE AnswersAreTrue'
    BY <1>5, <1>inv DEF CheckQuota, Move, tableVars, TypeOK
<1>6. ASSUME NEW r \in Threads, CheckQuotaFails(r) PROVE AnswersAreTrue'
    BY <1>6, <1>inv DEF CheckQuotaFails, Finish, Fault, tableVars, TypeOK
<1>7. ASSUME NEW r \in Threads, FolderMissing(r) PROVE AnswersAreTrue'
    BY <1>7, <1>inv DEF FolderMissing, Finish, tableVars, TypeOK
<1>8. ASSUME NEW r \in Threads, FolderFound(r) PROVE AnswersAreTrue'
    BY <1>8, <1>inv DEF FolderFound, Move, tableVars, TypeOK
<1>9. ASSUME NEW r \in Threads, Create(r) PROVE AnswersAreTrue'
    BY <1>9, <1>inv DEF Create, TypeOK
<1>10. ASSUME NEW r \in Threads, CreateFails(r) PROVE AnswersAreTrue'
    BY <1>10, <1>inv DEF CreateFails, Move, tableVars, TypeOK
<1>11. ASSUME NEW r \in Threads, Finalize(r) PROVE AnswersAreTrue'
    <2>1. req[r].key \in Keys /\ HeldBy(r) /\ Carries(r) /\ req[r].stage = "made"
        BY <1>11, <1>inv, <1>busy DEF Finalize, Held, Owning
    <2>2. <<req[r].key, req[r].body, req[r].work>> \in works
        BY <2>1 DEF Carries
    <2>3. record[req[r].key] \in Record
        BY <1>inv, <2>1 DEF TypeOK
    <2>4. Stored(r).body = req[r].body /\ Stored(r).work = req[r].work
        BY <2>1, <2>3 DEF Stored, Record, HeldBy
    <2> QED BY <1>11, <1>inv, <2>1, <2>2, <2>4 DEF Finalize, TypeOK
<1>12. ASSUME NEW r \in Threads, FinalizeUnacknowledged(r) PROVE AnswersAreTrue'
    <2>1. req[r].key \in Keys /\ HeldBy(r) /\ Carries(r) /\ req[r].stage = "made"
        BY <1>12, <1>inv, <1>busy DEF FinalizeUnacknowledged, Held, Owning
    <2>2. <<req[r].key, req[r].body, req[r].work>> \in works
        BY <2>1 DEF Carries
    <2>3. record[req[r].key] \in Record
        BY <1>inv, <2>1 DEF TypeOK
    <2>4. Stored(r).body = req[r].body /\ Stored(r).work = req[r].work
        BY <2>1, <2>3 DEF Stored, Record, HeldBy
    <2> QED BY <1>12, <1>inv, <2>1, <2>2, <2>4 DEF FinalizeUnacknowledged, TypeOK
<1>13. ASSUME NEW r \in Threads, FinishFails(r) PROVE AnswersAreTrue'
    BY <1>13, <1>inv DEF FinishFails, Move, Finish, Fault, tableVars, TypeOK
<1>14. ASSUME NEW r \in Threads, Release(r) PROVE AnswersAreTrue'
    <2>1. record' = record \/ record' = [record EXCEPT ![req[r].key] = Absent]
        BY <1>14 DEF Release
    <2>2. req[r].key \in Keys /\ answers' = answers /\ works' = works
        BY <1>14, <1>busy DEF Release
    <2> QED BY <1>inv, <2>1, <2>2 DEF TypeOK, Absent
<1>15. ASSUME NEW r \in Threads, ReleaseFails(r) PROVE AnswersAreTrue'
    BY <1>15, <1>inv DEF ReleaseFails, Finish, Fault, tableVars, TypeOK
<1>16. ASSUME NEW r \in Threads, Crash(r) PROVE AnswersAreTrue'
    BY <1>16, <1>inv DEF Crash, Finish, Fault, tableVars, TypeOK
<1>17. ASSUME NEW r \in Threads, NEW k \in Keys, NEW b \in Bodies, Arrive(r, k, b)
       PROVE AnswersAreTrue'
    BY <1>17, <1>inv DEF Arrive, tableVars, TypeOK
<1>18. CASE Age
    <2>1. ASSUME NEW k \in Keys
          PROVE  /\ record'[k].status = record[k].status
                 /\ record'[k].body = record[k].body
                 /\ record'[k].work = record[k].work
        BY <1>18, <1>inv DEF Age, TypeOK, Record
    <2> QED BY <1>18, <2>1 DEF Age
<1>19. CASE Sweep
    BY <1>19, <1>inv DEF Sweep, TypeOK, Absent
<1>20. CASE QuotaFrees
    BY <1>20, <1>inv DEF QuotaFrees, TypeOK
<1>21. CASE UNCHANGED vars
    BY <1>21, <1>inv DEF vars, TypeOK
<1> QED
    BY <1>1, <1>2, <1>3, <1>4, <1>5, <1>6, <1>7, <1>8, <1>9, <1>10, <1>11, <1>12,
       <1>13, <1>14, <1>15, <1>16, <1>17, <1>18, <1>19, <1>20, <1>21 DEF Next, Handle

\* A replayed answer is that of a request with the same key and body.
THEOREM AnswersAreSound == Spec => []AnswersAreTrue
<1> DEFINE IInv == WorkInv /\ AnswersAreTrue
<1>1. Init => IInv
    BY WorkInit DEF Init, AnswersAreTrue, Absent
<1>2. IInv /\ [Next]_vars => IInv'
    BY WorkStep, AnswersStep
<1> QED BY <1>1, <1>2, PTL DEF Spec

-------------------------------------------------------------------------------
(* The quota *)

\* There are at most as many threads past the check as threads.
LEMMA OverrunningFinite ==
    /\ IsFiniteSet(Overrunning) /\ Cardinality(Overrunning) \in Nat
    /\ Cardinality(Overrunning) <= Cardinality(Threads)
    /\ Cardinality(Threads) \in Nat
<1>1. Overrunning \in SUBSET Threads
    BY DEF Overrunning
<1> QED BY <1>1, IdempotencyConstants, FS_Subset, FS_CardinalityType

\* No thread more is past the check, and no creation more is counted.
Settling == Overrunning' \subseteq Overrunning /\ used' \in Nat /\ used' <= used

\* A step that settles keeps the bound.
LEMMA SettlingKept ==
    ASSUME TypeOK, QuotaOverrunBounded, Settling
    PROVE  QuotaOverrunBounded'
<1> DEFINE B == IF Limit = 0 THEN 0 ELSE Limit + Cardinality(Threads) - 1
<1>1. used + Cardinality(Overrunning) <= B
    BY DEF QuotaOverrunBounded
<1>2. /\ Cardinality(Overrunning') <= Cardinality(Overrunning)
      /\ Cardinality(Overrunning') \in Nat
    <2>1. Overrunning' \in SUBSET Overrunning
        BY DEF Settling
    <2> QED BY <2>1, OverrunningFinite, FS_Subset, FS_CardinalityType
<1>3. Limit \in Nat /\ used \in Nat /\ used' \in Nat /\ used' <= used
    BY IdempotencyConstants DEF TypeOK, Settling
<1>4. B \in Int
    BY <1>3, OverrunningFinite
<1> HIDE DEF B
<1>5. used' + Cardinality(Overrunning') <= B
    BY <1>1, <1>2, <1>3, <1>4, OverrunningFinite
<1> QED BY <1>5 DEF B, QuotaOverrunBounded

\* Only a check that finds room adds a thread, and then room was left for one.
LEMMA QuotaStep ==
    ASSUME TypeOK, QuotaOverrunBounded, [Next]_vars
    PROVE  QuotaOverrunBounded'
<1> USE IdempotencyConstants
<1>limits. Limit \in Nat /\ used \in Nat
    BY DEF TypeOK
<1>1. ASSUME NEW r \in Threads, Claim(r) PROVE QuotaOverrunBounded'
    BY <1>1, <1>limits, SettlingKept DEF Claim, Move, Settling, Overrunning, TypeOK,
       Idle
<1>2. ASSUME NEW r \in Threads, Contend(r) PROVE QuotaOverrunBounded'
    BY <1>2, <1>limits, SettlingKept DEF Contend, Move, tableVars, Settling,
       Overrunning, TypeOK, Idle
<1>3. ASSUME NEW r \in Threads, Replay(r) PROVE QuotaOverrunBounded'
    BY <1>3, <1>limits, SettlingKept DEF Replay, Finish, tableVars, Settling,
       Overrunning, TypeOK, Idle
<1>4. ASSUME NEW r \in Threads, Refuse(r) PROVE QuotaOverrunBounded'
    BY <1>4, <1>limits, SettlingKept DEF Refuse, Finish, tableVars, Settling,
       Overrunning, TypeOK, Idle
<1>5. ASSUME NEW r \in Threads, CheckQuota(r) PROVE QuotaOverrunBounded'
    <2>1. used' = used /\ \A t \in Threads : t # r => req'[t] = req[t]
        BY <1>5 DEF CheckQuota, Move, tableVars, TypeOK
    <2>2. CASE req[r].body \in ScheduleBodies /\ QuotaAllows
        <3>1. Overrunning' \in SUBSET Threads
            BY DEF Overrunning
        <3>2. /\ Cardinality(Overrunning') \in Nat
              /\ Cardinality(Overrunning') <= Cardinality(Threads)
            BY <3>1, FS_Subset, FS_CardinalityType
        <3>3. used < Limit
            BY <2>2 DEF QuotaAllows
        <3>4. used' + Cardinality(Overrunning') <= Limit + Cardinality(Threads) - 1
            BY <1>limits, <2>1, <3>2, <3>3, OverrunningFinite
        <3> QED BY <1>limits, <3>3, <3>4 DEF QuotaOverrunBounded
    <2>3. CASE ~(req[r].body \in ScheduleBodies /\ QuotaAllows)
        <3>1. /\ req'[r].body = req[r].body
              /\ req[r].body \in ScheduleBodies => req'[r].stage = "failing"
            BY <1>5, <2>3 DEF CheckQuota, Move, TypeOK, Request
        <3>2. Settling
            BY <1>limits, <2>1, <3>1 DEF Settling, Overrunning
        <3> QED BY <3>2, SettlingKept
    <2> QED BY <2>2, <2>3
<1>6. ASSUME NEW r \in Threads, CheckQuotaFails(r) PROVE QuotaOverrunBounded'
    BY <1>6, <1>limits, SettlingKept DEF CheckQuotaFails, Finish, Fault, tableVars,
       Settling, Overrunning, TypeOK, Idle
<1>7. ASSUME NEW r \in Threads, FolderMissing(r) PROVE QuotaOverrunBounded'
    BY <1>7, <1>limits, SettlingKept DEF FolderMissing, Finish, tableVars, Settling,
       Overrunning, TypeOK, Idle
<1>8. ASSUME NEW r \in Threads, FolderFound(r) PROVE QuotaOverrunBounded'
    <2>1. used' = used /\ \A t \in Threads : t # r => req'[t] = req[t]
        BY <1>8 DEF FolderFound, Move, tableVars, TypeOK
    <2>2. req'[r].body \notin ScheduleBodies
        BY <1>8 DEF FolderFound, Move, TypeOK, Request
    <2>3. Settling
        BY <1>limits, <2>1, <2>2 DEF Settling, Overrunning
    <2> QED BY <2>3, SettlingKept
<1>9. ASSUME NEW r \in Threads, Create(r) PROVE QuotaOverrunBounded'
    <2> DEFINE n == made[req[r].key] + 1
    <2>1. /\ req' = [req EXCEPT ![r] = [@ EXCEPT !.stage = "made", !.work = n]]
          /\ req[r].stage = "cleared"
          /\ used' = IF req[r].body \in ScheduleBodies THEN used + 1 ELSE used
        BY <1>9 DEF Create
    <2> HIDE DEF n
    <2>2. \A t \in Threads : t # r => req'[t] = req[t]
        BY <2>1 DEF TypeOK
    <2>3. req'[r].stage = "made"
        BY <2>1 DEF TypeOK, Request
    <2>4. Overrunning' = Overrunning \ {r}
        BY <2>2, <2>3 DEF Overrunning
    <2>5. CASE req[r].body \in ScheduleBodies
        <3>1. r \in Overrunning
            BY <2>1, <2>5 DEF Overrunning
        <3>2. Cardinality(Overrunning') = Cardinality(Overrunning) - 1
            BY <2>4, <3>1, OverrunningFinite, FS_RemoveElement
        <3>3. used' + Cardinality(Overrunning') = used + Cardinality(Overrunning)
            BY <1>limits, <2>1, <2>5, <3>2, OverrunningFinite
        <3> QED BY <3>3 DEF QuotaOverrunBounded
    <2>6. CASE req[r].body \notin ScheduleBodies
        <3>1. Settling
            BY <1>limits, <2>1, <2>4, <2>6 DEF Settling
        <3> QED BY <3>1, SettlingKept
    <2> QED BY <2>5, <2>6
<1>10. ASSUME NEW r \in Threads, CreateFails(r) PROVE QuotaOverrunBounded'
    BY <1>10, <1>limits, SettlingKept DEF CreateFails, Move, tableVars, Settling,
       Overrunning, TypeOK, Idle
<1>11. ASSUME NEW r \in Threads, Finalize(r) PROVE QuotaOverrunBounded'
    BY <1>11, <1>limits, SettlingKept DEF Finalize, Finish, Stored, Settling,
       Overrunning, TypeOK, Idle
<1>12. ASSUME NEW r \in Threads, FinalizeUnacknowledged(r) PROVE QuotaOverrunBounded'
    <2>1. \/ req' = [req EXCEPT ![r] = Idle]
          \/ req' = [req EXCEPT ![r].stage = "failing"]
        BY <1>12 DEF FinalizeUnacknowledged, Move, Finish
    <2>2. used' = used /\ \A t \in Threads : t # r => req'[t] = req[t]
        BY <1>12, <2>1 DEF FinalizeUnacknowledged, tableVars, TypeOK
    <2>3. req'[r].stage # "cleared"
        BY <2>1 DEF TypeOK, Request, Idle
    <2>4. Settling
        BY <1>limits, <2>2, <2>3 DEF Settling, Overrunning
    <2> QED BY <2>4, SettlingKept
<1>13. ASSUME NEW r \in Threads, FinishFails(r) PROVE QuotaOverrunBounded'
    <2>1. \/ req' = [req EXCEPT ![r] = Idle]
          \/ req' = [req EXCEPT ![r].stage = "failing"]
        BY <1>13 DEF FinishFails, Move, Finish
    <2>2. used' = used /\ \A t \in Threads : t # r => req'[t] = req[t]
        BY <1>13, <2>1 DEF FinishFails, tableVars, TypeOK
    <2>3. req'[r].stage # "cleared"
        BY <2>1 DEF TypeOK, Request, Idle
    <2>4. Settling
        BY <1>limits, <2>2, <2>3 DEF Settling, Overrunning
    <2> QED BY <2>4, SettlingKept
<1>14. ASSUME NEW r \in Threads, Release(r) PROVE QuotaOverrunBounded'
    BY <1>14, <1>limits, SettlingKept DEF Release, Finish, Settling, Overrunning,
       TypeOK, Idle
<1>15. ASSUME NEW r \in Threads, ReleaseFails(r) PROVE QuotaOverrunBounded'
    BY <1>15, <1>limits, SettlingKept DEF ReleaseFails, Finish, Fault, tableVars,
       Settling, Overrunning, TypeOK, Idle
<1>16. ASSUME NEW r \in Threads, Crash(r) PROVE QuotaOverrunBounded'
    BY <1>16, <1>limits, SettlingKept DEF Crash, Finish, Fault, tableVars, Settling,
       Overrunning, TypeOK, Idle
<1>17. ASSUME NEW r \in Threads, NEW k \in Keys, NEW b \in Bodies, Arrive(r, k, b)
       PROVE QuotaOverrunBounded'
    BY <1>17, <1>limits, SettlingKept DEF Arrive, tableVars, Settling, Overrunning,
       TypeOK, Idle
<1>18. CASE Age
    BY <1>18, <1>limits, SettlingKept DEF Age, Settling, Overrunning, TypeOK, Idle
<1>19. CASE Sweep
    BY <1>19, <1>limits, SettlingKept DEF Sweep, Expired, Settling, Overrunning,
       TypeOK, Idle
<1>20. CASE QuotaFrees
    BY <1>20, <1>limits, SettlingKept DEF QuotaFrees, Settling, Overrunning, TypeOK,
       Idle
<1>21. CASE UNCHANGED vars
    BY <1>21, <1>limits, SettlingKept DEF vars, Settling, Overrunning, TypeOK, Idle
<1> QED
    BY <1>1, <1>2, <1>3, <1>4, <1>5, <1>6, <1>7, <1>8, <1>9, <1>10, <1>11, <1>12,
       <1>13, <1>14, <1>15, <1>16, <1>17, <1>18, <1>19, <1>20, <1>21 DEF Next, Handle

\* check_platform_quota and the creation are two steps without a lock: concurrent
\* requests overrun the account's limit by fewer than there are threads.
THEOREM QuotaIsBounded == Spec => []QuotaOverrunBounded
<1> DEFINE IInv == TypeOK /\ QuotaOverrunBounded
<1>1. Init => IInv
    <2> SUFFICES ASSUME Init PROVE IInv
        OBVIOUS
    <2>1. TypeOK /\ used = 0
        BY TypeInit DEF Init
    <2>2. Overrunning = {}
        BY DEF Init, Overrunning, Idle
    <2>3. Cardinality(Overrunning) = 0
        BY <2>2, FS_EmptySet
    <2>4. Limit # 0 => Limit >= 1
        BY IdempotencyConstants
    <2> QED BY <2>1, <2>3, <2>4, IdempotencyConstants, OverrunningFinite
            DEF QuotaOverrunBounded
<1>2. IInv /\ [Next]_vars => IInv'
    BY TypeStep, QuotaStep
<1> QED BY <1>1, <1>2, PTL DEF Spec

===============================================================================
