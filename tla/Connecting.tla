------------------------------ MODULE Connecting ------------------------------
(***************************************************************************)
(* Connecting social accounts: apps/social_accounts/views.py for a member    *)
(* and the connection links of apps/onboarding/views.py for a client.  An    *)
(* authorization leaves a state in the browser's session and comes back from *)
(* the platform with a code.  Every request works on the copy of the session *)
(* it read and writes all of it back when it answers; every row commits by   *)
(* itself.  One account of each kind; the link is one of LinkWorkspace.      *)
(***************************************************************************)
EXTENDS Integers, Sequences

CONSTANTS Places,    \* <<workspace, kind>> of what people connect; the kind is "pages"
                     \* (Facebook and the like), "instance" (Mastodon) or any other
          LinkWorkspace,
          Tabs,      \* requests at work
          Seats,     \* the browsers that they may be in: functions of the tabs
          MaxAuths,  \* bound on authorizations begun
          MaxEnds    \* bound on revocations, removals, disconnections and deaths

ASSUME ConnectingAssumption ==
    /\ \A p \in Places : p = <<p[1], p[2]>>
    /\ Seats \subseteq [Tabs -> {"member", "client"}]
    /\ MaxAuths \in Nat /\ MaxEnds \in Nat

VARIABLES
    browserOf,  \* tab -> the browser it is in
    sessions,    \* browser -> [oauth, select]: authorizations, or NoAuth
    auths,      \* the authorizations begun so far, 1, 2, ...
    apps,       \* MastodonAppRegistration of the instance: the client, or NoAuth
    clients,    \* clients the instance registered: the redirect URI of each
    socialAccounts,   \* <<workspace, kind>> -> SocialAccount, or NoAccount
    defaultQueues,     \* rows of accounts that have their default queue
    linkUsages,     \* rows that a ConnectionLinkUsage names
    mayConnect,    \* browser -> the member may manage accounts; the link is active
    tabs,       \* tab -> the request at work in it
    ends,       \* what was ended so far
    died,       \* history: rows a death left unfinished
    tooLate,    \* history: authorizations that came back after access had ended
    appRefused     \* history: the platform refused a code for its client or verifier

connectVars == <<browserOf, sessions, auths, apps, clients, socialAccounts, defaultQueues,
                 linkUsages, mayConnect, tabs, ends, died, tooLate, appRefused>>

Browsers == {"member", "client"}
NoAuth == 0
NoAccount == [row |-> 0, grant |-> NoAuth]
NoSession == [oauth |-> NoAuth, select |-> NoAuth]
Call(step, auth, copy, place, row) ==
    [step |-> step, auth |-> auth, copy |-> copy, place |-> place, row |-> row]
IdleTab == Call("idle", NoAuth, NoSession, <<LinkWorkspace, "pages">>, 0)

Begun == Len(auths)
Here(t) == sessions[browserOf[t]]
AskedFor(n) == <<auths[n].ws, auths[n].kind>>

KeepRows == UNCHANGED <<socialAccounts, defaultQueues, linkUsages>>
KeepHistory == UNCHANGED <<died, tooLate, appRefused>>
KeepPlatform == UNCHANGED <<apps, clients>>
KeepRest == UNCHANGED <<browserOf, mayConnect, ends>>

ToStep(t, next) == tabs' = [tabs EXCEPT ![t].step = next]

\* The response goes out, and the copy of the session with it.
Respond(t, copy) ==
    /\ tabs' = [tabs EXCEPT ![t] = IdleTab]
    /\ sessions' = [sessions EXCEPT ![browserOf[t]] = copy]

-------------------------------------------------------------------------------
(* Beginning an authorization *)

MayBegin(t, ws) ==
    mayConnect[browserOf[t]] /\ (browserOf[t] = "client" => ws = LinkWorkspace)

\* connect_platform, reconnect, connect_mastodon; connection_oauth_start and
\* connection_mastodon_start.  For Mastodon the instance's registration is read.
OpenStart(t, ws, kind) ==
    /\ tabs[t] = IdleTab /\ MayBegin(t, ws) /\ Begun < MaxAuths
    /\ LET first == IF kind = "instance" /\ apps = NoAuth THEN "register" ELSE "start"
       IN  tabs' = [tabs EXCEPT ![t] = Call(first, NoAuth, Here(t), <<ws, kind>>, apps)]
    /\ UNCHANGED sessions /\ UNCHANGED auths
    /\ KeepPlatform /\ KeepRows /\ KeepHistory /\ KeepRest

\* register_app: the instance hands out a client for this flow's redirect URI.
RegisterApp(t) ==
    /\ tabs[t].step = "register"
    /\ \/ /\ clients' = Append(clients, browserOf[t])
          /\ tabs' = [tabs EXCEPT ![t].step = "save app", ![t].row = Len(clients) + 1]
          /\ UNCHANGED sessions
       \/ Respond(t, tabs[t].copy) /\ UNCHANGED clients
    /\ UNCHANGED apps /\ UNCHANGED auths /\ KeepRows /\ KeepHistory /\ KeepRest

\* Mutant: update_or_create.
LatestApp(client) == client

\* The instance has one row: a second registration violates its unique URL.
SavedApp(client) == IF apps = NoAuth THEN client ELSE apps

SaveApp(t) ==
    LET client == tabs[t].row
    IN  /\ tabs[t].step = "save app"
        /\ apps' = SavedApp(client)
        /\ IF apps' = client THEN ToStep(t, "start") /\ UNCHANGED sessions
           ELSE Respond(t, tabs[t].copy)
        /\ UNCHANGED <<clients, auths>> /\ KeepRows /\ KeepHistory /\ KeepRest

\* The state, with its verifier or instance, goes to the session and to the platform.
EndStart(t) ==
    /\ tabs[t].step = "start" /\ Begun < MaxAuths
    /\ auths' = Append(auths, [ws |-> tabs[t].place[1], kind |-> tabs[t].place[2],
                               browser |-> browserOf[t], client |-> tabs[t].row,
                               at |-> "open"])
    /\ Respond(t, [oauth |-> Begun + 1, select |-> tabs[t].copy.select])
    /\ KeepPlatform /\ KeepRows /\ KeepHistory /\ KeepRest

-------------------------------------------------------------------------------
(* Coming back *)

\* Mutant: access is not looked at again.
Trusted(t, n) == TRUE

\* "user may have lost access during OAuth": membership and permission, or the link.
StillAllowed(t, n) == mayConnect[auths[n].browser]

\* The user consents, and comes back; reloading the page comes back again.  An instance
\* refuses to ask for a redirect URI that its client was not registered with.
ComesBack(n) ==
    /\ auths[n].at # "declined"
    /\ auths[n].kind = "instance" => clients[auths[n].client] = auths[n].browser

\* oauth_callback, connection_oauth_callback: the state is popped, and must be this one.
OpenCallback(t, n) ==
    LET copy == [oauth |-> NoAuth, select |-> Here(t).select]
    IN  /\ tabs[t] = IdleTab /\ ComesBack(n) /\ auths[n].browser = browserOf[t]
        /\ IF Here(t).oauth = n /\ StillAllowed(t, n)
           THEN /\ tabs' = [tabs EXCEPT ![t] = Call("exchange", n, copy, AskedFor(n), 0)]
                /\ UNCHANGED sessions
           ELSE Respond(t, copy)
        /\ tooLate' = IF ~mayConnect[auths[n].browser] /\ auths[n].at = "open"
                         /\ \A u \in Tabs : tabs[u].auth # n
                      THEN tooLate \cup {n} ELSE tooLate
        /\ UNCHANGED <<auths, died, appRefused>> /\ KeepPlatform /\ KeepRows /\ KeepRest

\* error=access_denied: the state is popped and that is all.
UserDeclines(t, n) ==
    /\ tabs[t] = IdleTab /\ auths[n].at = "open" /\ auths[n].browser = browserOf[t]
    /\ auths' = [auths EXCEPT ![n].at = "declined"]
    /\ Respond(t, [oauth |-> NoAuth, select |-> Here(t).select])
    /\ KeepPlatform /\ KeepRows /\ KeepHistory /\ KeepRest

\* _resolve_mastodon_extra_creds: the registration there is now.
SameClient(n) == auths[n].kind = "instance" => apps = auths[n].client

\* exchange_code with the verifier of the session, or the client registered now: once.
Exchange(t) ==
    LET n == tabs[t].auth
        ours == SameClient(n)
    IN  /\ tabs[t].step = "exchange"
        /\ auths' = [auths EXCEPT ![n].at = "spent"]
        /\ appRefused' = (appRefused \/ (auths[n].at = "open" /\ ~ours))
        /\ IF auths[n].at = "open" /\ ours
           THEN IF auths[n].kind = "pages" /\ browserOf[t] = "member"
                THEN Respond(t, [oauth |-> tabs[t].copy.oauth, select |-> n])
                ELSE ToStep(t, "store") /\ UNCHANGED sessions
           ELSE Respond(t, tabs[t].copy)
        /\ UNCHANGED <<died, tooLate>> /\ KeepPlatform /\ KeepRows /\ KeepRest

\* The exchange, or get_profile or get_user_pages after it: "Failed to connect account."
CallFails(t) ==
    /\ tabs[t].step = "exchange"
    /\ auths' = [auths EXCEPT ![tabs[t].auth].at = "spent"]
    /\ Respond(t, tabs[t].copy)
    /\ KeepPlatform /\ KeepRows /\ KeepHistory /\ KeepRest

\* Mutant: the workspace of the tab's last authorization.
LastStarted(t) == <<IF Here(t).oauth = NoAuth THEN LinkWorkspace ELSE auths[Here(t).oauth].ws,
                    "pages">>

\* The workspace that was stored with the pages.
SelectionTarget(t) == AskedFor(Here(t).select)

\* select_account: whatever selection the session holds now.
OpenSelect(t) ==
    /\ tabs[t] = IdleTab /\ browserOf[t] = "member" /\ Here(t).select # NoAuth
    /\ LET copy == [oauth |-> Here(t).oauth, select |-> NoAuth]
       IN  tabs' = [tabs EXCEPT ![t] = Call("store", Here(t).select, copy, SelectionTarget(t), 0)]
    /\ UNCHANGED <<sessions, auths>> /\ KeepPlatform /\ KeepRows /\ KeepHistory /\ KeepRest

-------------------------------------------------------------------------------
(* _create_or_update_account and what follows *)

RowsThere == {socialAccounts[p].row : p \in DOMAIN socialAccounts}

\* update_or_create; a row is known by the authorization that created it.
StoreAccount(t) ==
    LET p == tabs[t].place
        n == tabs[t].auth
        created == socialAccounts[p] = NoAccount
        row == IF created THEN n ELSE socialAccounts[p].row
    IN  /\ tabs[t].step = "store"
        /\ socialAccounts' = [socialAccounts EXCEPT ![p] = [row |-> row, grant |-> n]]
        /\ IF created \/ browserOf[t] = "client"
           THEN /\ tabs' = [tabs EXCEPT ![t].row = row,
                                        ![t].step = IF created THEN "queue" ELSE "usage"]
                /\ UNCHANGED sessions
           ELSE Respond(t, tabs[t].copy)
        /\ UNCHANGED <<auths, defaultQueues, linkUsages>> /\ KeepPlatform /\ KeepHistory /\ KeepRest

\* create_default_queue_and_slots: an account that is gone again is an error.
CreateQueue(t) ==
    /\ tabs[t].step = "queue"
    /\ defaultQueues' = defaultQueues \cup ({tabs[t].row} \cap RowsThere)
    /\ IF tabs[t].row \in RowsThere /\ browserOf[t] = "client"
       THEN ToStep(t, "usage") /\ UNCHANGED sessions
       ELSE Respond(t, tabs[t].copy)
    /\ UNCHANGED <<auths, socialAccounts, linkUsages>> /\ KeepPlatform /\ KeepHistory /\ KeepRest

\* ConnectionLinkUsage.get_or_create.
RecordLinkUsage(t) ==
    /\ tabs[t].step = "usage"
    /\ linkUsages' = linkUsages \cup ({tabs[t].row} \cap RowsThere)
    /\ Respond(t, tabs[t].copy)
    /\ UNCHANGED <<auths, socialAccounts, defaultQueues>> /\ KeepPlatform /\ KeepHistory /\ KeepRest

-------------------------------------------------------------------------------
(* Ends *)

AnEnd == ends < MaxEnds /\ ends' = ends + 1

\* The member is removed or loses the permission; the link is revoked, or expires.
EndAccess(b) ==
    /\ AnEnd /\ mayConnect[b] /\ mayConnect' = [mayConnect EXCEPT ![b] = FALSE]
    /\ UNCHANGED <<browserOf, sessions, auths, tabs>> /\ KeepPlatform /\ KeepRows /\ KeepHistory

\* disconnect, by another member: the row goes, and its queue and usage with it.
RemoveAccount(p) ==
    /\ AnEnd /\ socialAccounts[p] # NoAccount
    /\ socialAccounts' = [socialAccounts EXCEPT ![p] = NoAccount]
    /\ defaultQueues' = defaultQueues \ {socialAccounts[p].row}
    /\ linkUsages' = linkUsages \ {socialAccounts[p].row}
    /\ UNCHANGED <<browserOf, mayConnect, sessions, auths, tabs>> /\ KeepPlatform /\ KeepHistory

CallDies(t) ==
    /\ AnEnd /\ tabs[t] # IdleTab /\ tabs' = [tabs EXCEPT ![t] = IdleTab]
    /\ died' = died \cup (IF tabs[t].step \in {"queue", "usage"} THEN {tabs[t].row} ELSE {})
    /\ UNCHANGED <<browserOf, mayConnect, sessions, auths, tooLate, appRefused>>
    /\ KeepPlatform /\ KeepRows

-------------------------------------------------------------------------------

ConnectInit ==
    /\ browserOf \in Seats /\ sessions = [b \in Browsers |-> NoSession]
    /\ auths = <<>> /\ apps = NoAuth /\ clients = <<>>
    /\ socialAccounts = [p \in Places |-> NoAccount]
    /\ defaultQueues = {} /\ linkUsages = {} /\ mayConnect = [b \in Browsers |-> TRUE]
    /\ tabs = [t \in Tabs |-> IdleTab] /\ ends = 0
    /\ died = {} /\ tooLate = {} /\ appRefused = FALSE

ConnectNext ==
    \/ \E t \in Tabs :
          \/ \E p \in Places : OpenStart(t, p[1], p[2])
          \/ RegisterApp(t) \/ SaveApp(t) \/ EndStart(t)
          \/ \E n \in DOMAIN auths : OpenCallback(t, n) \/ UserDeclines(t, n)
          \/ Exchange(t) \/ CallFails(t) \/ OpenSelect(t)
          \/ StoreAccount(t) \/ CreateQueue(t) \/ RecordLinkUsage(t) \/ CallDies(t)
    \/ \E b \in Browsers : EndAccess(b)
    \/ \E p \in DOMAIN socialAccounts : RemoveAccount(p)

ConnectSpec == ConnectInit /\ [][ConnectNext]_connectVars

-------------------------------------------------------------------------------

CallSteps == {"idle", "register", "save app", "start", "exchange", "store", "queue", "usage"}

ConnectTypeOK ==
    /\ browserOf \in [Tabs -> Browsers] /\ mayConnect \in [Browsers -> BOOLEAN]
    /\ sessions \in [Browsers -> [oauth: 0..Begun, select: 0..Begun]]
    /\ \A n \in DOMAIN auths : auths[n].at \in {"open", "declined", "spent"}
    /\ apps \in {NoAuth} \cup DOMAIN clients
    /\ \A p \in DOMAIN socialAccounts : socialAccounts[p] \in [row: 0..Begun, grant: 0..Begun]
    /\ defaultQueues \cup linkUsages \cup died \cup tooLate \subseteq 1..Begun
    /\ \A t \in Tabs : tabs[t].step \in CallSteps /\ tabs[t].auth \in 0..Begun
    /\ ends \in 0..MaxEnds /\ appRefused \in BOOLEAN

ConnectedPlaces == {p \in DOMAIN socialAccounts : socialAccounts[p] # NoAccount}
Unfinished(row, within) == \E t \in Tabs : tabs[t].step \in within /\ tabs[t].row = row

\* What is connected in a workspace was authorized for it and for that platform,
\* whatever the user's other tabs began, finished or selected meanwhile.
ConnectedWhereAsked == \A p \in ConnectedPlaces : AskedFor(socialAccounts[p].grant) = p

\* An authorization is finished with the client, and the verifier, it was begun with:
\* people who connect to one instance at the same time share one registration.
FinishedAsBegun == ~appRefused

\* Who came back after losing access, or by a link no longer active, connected nothing.
AccessRechecked == \A p \in ConnectedPlaces : socialAccounts[p].grant \notin tooLate

\* An account has its default queue, and one that a client connected is counted by the
\* link, as soon as the request that connected it is through - unless that died.
ConnectedInFull ==
    \A p \in ConnectedPlaces :
        LET a == socialAccounts[p]
        IN  /\ a.row \in defaultQueues \cup died \/ Unfinished(a.row, {"queue"})
            /\ auths[a.grant].browser = "client" =>
                  a.row \in linkUsages \cup died \/ Unfinished(a.row, {"queue", "usage"})

ConnectionsAreSound == ConnectedWhereAsked /\ FinishedAsBegun /\ AccessRechecked /\ ConnectedInFull
===============================================================================
