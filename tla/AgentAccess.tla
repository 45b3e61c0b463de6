------------------------------ MODULE AgentAccess ------------------------------
(***************************************************************************)
(* One agent key: apps/api_keys and apps/api/auth.py.  Requests verify the  *)
(* key through a row kept in their process's cache, administrators edit and *)
(* revoke it, and members of its workspace are demoted or leave.            *)
(***************************************************************************)
EXTENDS Integers, FiniteSets

CONSTANTS KeyPerms,       \* PERMISSION_KEYS
          KeyAccounts,    \* accounts of the workspace
          KeyEditors,     \* administrators; Issuer is one
          Issuer,
          Agents,         \* request threads
          Processes,      \* caches: one with Redis, else one for each web process
          KeyTTL,         \* REVOCATION_CACHE_TTL
          SlowStep,       \* how long a verification or an edit may take
          LastAccess,     \* bound on the clock
          MaxKeyChanges   \* bound on edits, revocations and changes of members

ASSUME AccessAssumption ==
    /\ Issuer \in KeyEditors /\ KeyAccounts # {} /\ KeyTTL \in Nat \ {0} /\ SlowStep \in Nat
    /\ LastAccess \in Nat /\ MaxKeyChanges \in Nat

VARIABLES
    key,      \* the ApiKey row with its social_accounts
    holds,    \* user -> effective permissions in the workspace, Gone without membership
    cached,   \* process -> the row it keeps and until when
    agent,    \* thread -> its request
    keyEdits, \* administrator -> the edit or revocation under way
    hours,    \* the clock
    keyChanges,
    keyPast   \* history, see KeyHistory

accessVars == <<key, holds, cached, agent, keyEdits, hours, keyChanges, keyPast>>

Gone == {"gone"}
NoExpiry == 99
NoKey == [kind |-> "none"]
NoAgent == [step |-> "idle"]
NoEdit == [step |-> "idle"]

\* ApiKey.is_active
Active(row) == ~row.revoked /\ hours < row.expires

IsMember(u) == holds[u] # Gone
Granting(u) == holds[u] \ Gone

\* The row changed: by an edit or revocation made in process p.
Changed(p) == [keyPast EXCEPT !.at = hours, !.by = p]

KeyChange == keyChanges < MaxKeyChanges /\ keyChanges' = keyChanges + 1

-------------------------------------------------------------------------------
(* verify_token and ApiKeyAuth.authenticate *)

Agent(a, request) == agent' = [agent EXCEPT ![a] = request]

\* cache.get, in the process that serves the request.
Present(a, p) ==
    /\ agent[a] = NoAgent
    /\ LET hit == cached[p] # NoKey
       IN  Agent(a, [step |-> IF hit THEN "verify" ELSE "read", process |-> p, hit |-> hit,
                     row |-> IF hit THEN cached[p].row ELSE NoKey, since |-> 0])
    /\ UNCHANGED <<key, holds, cached, keyEdits, hours, keyChanges, keyPast>>

ReadRow(a) ==
    /\ agent[a].step = "read"
    /\ Agent(a, [agent[a] EXCEPT !.step = "store", !.row = key, !.since = hours])
    /\ UNCHANGED <<key, holds, cached, keyEdits, hours, keyChanges, keyPast>>

\* "Only cache active rows"
StoreRow(a) ==
    LET p == agent[a].process
        overtaken == agent[a].row # key \/ \E e \in KeyEditors : keyEdits[e].step = "commit"
    IN  /\ agent[a].step = "store"
        /\ IF Active(agent[a].row)
           THEN /\ cached' = [cached EXCEPT ![p] = [kind |-> "row", row |-> agent[a].row,
                                                    until |-> hours + KeyTTL]]
                /\ keyPast' = [keyPast EXCEPT !.late =
                                 IF overtaken THEN @ \cup {p} ELSE @ \ {p}]
           ELSE UNCHANGED <<cached, keyPast>>
        /\ Agent(a, [agent[a] EXCEPT !.step = "verify", !.since = 0])
        /\ UNCHANGED <<key, holds, keyEdits, hours, keyChanges>>

\* Mutant: the issuer is looked up only when the row is read.
IssuerIn(request) == request.hit \/ IsMember(Issuer)

\* _issuer_still_authorized, on every call
IssuerAuthorized(request) == IsMember(Issuer)

Authorize(a) ==
    /\ agent[a].step = "verify"
    /\ Active(agent[a].row) /\ IssuerAuthorized(agent[a])
    /\ Agent(a, [step |-> "resolve", perms |-> agent[a].row.perms, lost |-> {}])
    /\ UNCHANGED <<key, holds, cached, keyEdits, hours, keyChanges, keyPast>>

\* _resolve_effective_permissions: what both the key and its issuer, as it is now,
\* may do; nothing if the membership ended in between.
Admit(a) ==
    /\ agent[a].step = "resolve"
    /\ Agent(a, [agent[a] EXCEPT !.step = "act", !.perms = @ \cap Granting(Issuer)])
    /\ UNCHANGED <<key, holds, cached, keyEdits, hours, keyChanges, keyPast>>

RefuseKey(a) ==
    /\ agent[a].step = "verify"
    /\ ~(Active(agent[a].row) /\ IssuerAuthorized(agent[a]))
    /\ cached' = [cached EXCEPT ![agent[a].process] = NoKey]
    /\ Agent(a, NoAgent)
    /\ UNCHANGED <<key, holds, keyEdits, hours, keyChanges, keyPast>>

\* One route, or the messages of one MCP batch, under what was resolved on entry.
Answer(a) ==
    /\ agent[a].step = "act" /\ Agent(a, NoAgent)
    /\ UNCHANGED <<key, holds, cached, keyEdits, hours, keyChanges, keyPast>>

-------------------------------------------------------------------------------
(* edit_key and revoke_key *)

Edit(e, request) == keyEdits' = [keyEdits EXCEPT ![e] = request]

\* The view's reading of the row.
OpenKey(e, p, kind) ==
    /\ keyEdits[e] = NoEdit /\ KeyChange
    /\ IF kind = "edit" THEN Active(key) ELSE ~key.revoked
    /\ Edit(e, [step |-> kind, process |-> p, since |-> 0,
                 read |-> IF kind = "edit" THEN key.perms ELSE {}])
    /\ UNCHANGED <<key, holds, cached, agent, hours, keyPast>>

\* Mutant: what the editor cannot grant is taken from the key.
OnlyPosted(posted, grantable, current) == posted \cap grantable

\* "flip permissions within their own grantable set", of the row the view read
NewPerms(posted, grantable, current) == (posted \cap grantable) \cup (current \ grantable)

\* The signals bust the cache of this process inside the transaction.
SaveEdit(e, posted, accounts, expires) ==
    LET new == NewPerms(posted, Granting(e), keyEdits[e].read)
    IN  /\ keyEdits[e].step = "edit" /\ IsMember(e) /\ accounts # {}
        /\ \A o \in KeyEditors : keyEdits[o].step # "commit" \* the row is locked
        /\ Edit(e, [step |-> "commit", process |-> keyEdits[e].process, since |-> hours,
                     read |-> keyEdits[e].read, decides |-> Granting(e),
                     new |-> [perms |-> new, accounts |-> accounts, expires |-> expires,
                              revoked |-> FALSE]])
        /\ cached' = [cached EXCEPT ![keyEdits[e].process] = NoKey]
        /\ UNCHANGED <<key, holds, agent, hours, keyChanges, keyPast>>

EditRefused(e) ==
    /\ keyEdits[e].step = "edit" /\ ~IsMember(e) /\ Edit(e, NoEdit)
    /\ UNCHANGED <<key, holds, cached, agent, hours, keyChanges, keyPast>>

\* Mutant: the whole row is saved.
SavedWhole(row, new) == new

\* save(update_fields=["permissions", "expires_at"]) and social_accounts.set
Saved(row, new) == [new EXCEPT !.revoked = row.revoked]

\* What the editor could grant is decided by this edit, the rest as it was; what
\* others changed since the editor's page was read is not decided by anybody.
CommitKey(e) ==
    LET row == Saved(key, keyEdits[e].new)
        decided == keyEdits[e].decides
        crossed == (key.perms \ keyEdits[e].read) \cup (keyEdits[e].read \ key.perms)
    IN  /\ keyEdits[e].step = "commit"
        /\ key' = row /\ Edit(e, NoEdit)
        /\ keyPast' = [Changed(keyEdits[e].process) EXCEPT
                         !.chosen = (keyEdits[e].new.perms \cap decided) \cup (@ \ decided),
                         !.crossed = @ \cup crossed]
        /\ UNCHANGED <<holds, cached, agent, hours, keyChanges>>

\* revoke_api_key saves one column, then busts.
Revoke(e) ==
    /\ keyEdits[e].step = "revoke"
    /\ \A o \in KeyEditors : keyEdits[o].step # "commit"
    /\ key' = [key EXCEPT !.revoked = TRUE]
    /\ Edit(e, [keyEdits[e] EXCEPT !.step = "bust", !.since = hours])
    /\ keyPast' = [Changed(keyEdits[e].process) EXCEPT !.revoked = TRUE]
    /\ UNCHANGED <<holds, cached, agent, hours, keyChanges>>

Bust(e) ==
    /\ keyEdits[e].step = "bust" /\ Edit(e, NoEdit)
    /\ cached' = [cached EXCEPT ![keyEdits[e].process] = NoKey]
    /\ keyPast' = [keyPast EXCEPT !.late = @ \ {keyEdits[e].process}]
    /\ UNCHANGED <<key, holds, agent, hours, keyChanges>>

-------------------------------------------------------------------------------
(* Members and time *)

\* A demotion, a promotion or the end of a membership.
SetRole(u, perms) ==
    /\ KeyChange /\ holds[u] # perms
    /\ holds' = [holds EXCEPT ![u] = perms]
    /\ agent' = [a \in Agents |->
                   IF u = Issuer /\ agent[a].step \in {"resolve", "act"}
                   THEN [agent[a] EXCEPT !.lost = @ \cup (holds[u] \ perms) \cup (perms \cap Gone)]
                   ELSE agent[a]]
    /\ UNCHANGED <<key, cached, keyEdits, hours, keyPast>>

\* Time passes while requests are under way, but no step of one takes longer
\* than SlowStep; entries at their end are gone.
AccessHour ==
    /\ hours < LastAccess /\ hours' = hours + 1
    /\ \A a \in Agents : agent[a].step = "store" => hours - agent[a].since < SlowStep
    /\ \A e \in KeyEditors : keyEdits[e].step \in {"commit", "bust"} =>
          hours - keyEdits[e].since < SlowStep
    /\ cached' = [p \in Processes |->
                    IF cached[p] # NoKey /\ cached[p].until <= hours + 1 THEN NoKey ELSE cached[p]]
    /\ UNCHANGED <<key, holds, agent, keyEdits, keyChanges, keyPast>>

-------------------------------------------------------------------------------

\* late: processes that cached a row while it was being changed; chosen: permissions
\* as the last editor able to grant each left it; crossed: those changed under an edit.
KeyHistory == [at |-> 0, by |-> "nobody", late |-> {}, revoked |-> FALSE,
               chosen |-> KeyPerms, crossed |-> {}]

\* issue_api_key by an administrator who holds all of them.
AccessInit ==
    /\ key = [perms |-> KeyPerms, accounts |-> KeyAccounts, expires |-> NoExpiry, revoked |-> FALSE]
    /\ holds = [u \in KeyEditors |-> KeyPerms]
    /\ cached = [p \in Processes |-> NoKey]
    /\ agent = [a \in Agents |-> NoAgent] /\ keyEdits = [e \in KeyEditors |-> NoEdit]
    /\ hours = 0 /\ keyChanges = 0 /\ keyPast = KeyHistory

KeyRoles == {{}, KeyPerms, Gone} \cup {{p} : p \in KeyPerms}

AccessNext ==
    \/ \E a \in Agents :
          \/ \E p \in Processes : Present(a, p)
          \/ ReadRow(a) \/ StoreRow(a) \/ Authorize(a) \/ Admit(a) \/ RefuseKey(a) \/ Answer(a)
    \/ \E e \in KeyEditors :
          \/ \E p \in Processes, kind \in {"edit", "revoke"} : OpenKey(e, p, kind)
          \/ \E posted \in SUBSET KeyPerms, accounts \in SUBSET KeyAccounts,
                expires \in {NoExpiry, LastAccess} : SaveEdit(e, posted, accounts, expires)
          \/ EditRefused(e) \/ CommitKey(e) \/ Revoke(e) \/ Bust(e)
          \/ \E perms \in KeyRoles : SetRole(e, perms)
    \/ AccessHour

-------------------------------------------------------------------------------

AccessTypeOK ==
    /\ key.perms \subseteq KeyPerms /\ key.accounts \subseteq KeyAccounts /\ key.accounts # {}
    /\ \A u \in KeyEditors : holds[u] \in KeyRoles
    /\ \A p \in Processes : cached[p] # NoKey => cached[p].until > hours

\* No edit, however old the page it was made on, revives a revoked key.
RevocationStands == keyPast.revoked => key.revoked

\* "Worst-case revocation propagation after this returns is bounded by
\* REVOCATION_CACHE_TTL": a cache that still serves the former row does so no longer
\* than that, and the time of the step that raced the change, after it; and that of
\* the process that made the change does so only if a verification raced it.
ScopeCatchesUp ==
    \A p \in Processes :
        cached[p] # NoKey /\ cached[p].row # key =>
            /\ cached[p].until <= keyPast.at + KeyTTL + SlowStep
            /\ \/ p # keyPast.by \/ p \in keyPast.late
               \/ \E e \in KeyEditors : keyEdits[e].step = "bust" /\ keyEdits[e].process = p

\* "Any permission the key already holds that the editor cannot grant ... is preserved,
\* never silently stripped": the key may do what the last editors able to grant it
\* left, except for permissions that two edits changed on pages read at the same time.
PermsAreChosen == key.perms \ keyPast.crossed = keyPast.chosen \ keyPast.crossed

\* "a freshly offboarded user's key dies on the very next call": whoever was let in
\* acts within what the issuer may do, or could when its membership was looked up.
IssuerBoundsKey ==
    \A a \in Agents : agent[a].step = "act" =>
        /\ agent[a].perms \ agent[a].lost \subseteq Granting(Issuer)
        /\ IsMember(Issuer) \/ Gone \subseteq agent[a].lost

KeysAreSound == RevocationStands /\ ScopeCatchesUp /\ PermsAreChosen /\ IssuerBoundsKey
===============================================================================
