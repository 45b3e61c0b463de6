--------------------------------- MODULE Portal ---------------------------------
(***************************************************************************)
(* The client portal: magic links that open a session once, a session that  *)
(* serves one workspace while its client belongs there, and the client's    *)
(* decisions on posts that the team moves at the same time.                 *)
(***************************************************************************)
EXTENDS Integers, FiniteSets, Sequences, PlatformPostStatus

CONSTANTS
    Workspaces,    \* workspaces of one client; each has one post, named after it
    PortalThreads, \* web threads, each in at most one request
    MaxLinks, MaxPortalOps

ASSUME PortalConstants == MaxLinks \in Nat /\ MaxPortalOps \in Nat

VARIABLES
    belongs,  \* workspaces the client has a membership of
    links,    \* MagicLinkToken rows, oldest first
    portalSession,  \* the workspace of the browser's portal session, or Nowhere
    linkPage,     \* the link whose confirmation page is open, or NoLink
    post,     \* the status of each workspace's post
    task,     \* the request of each thread
    answers,  \* history: what the portal told the client, and how it came about
    portalOps

portalVars == <<belongs, links, portalSession, linkPage, post, task, answers, portalOps>>

Nowhere == "nowhere"
NoLink == 0
Decisions == {"approve", "request_changes", "reject", "hold"}
NoTask == [step |-> "idle", ws |-> Nowhere, link |-> NoLink, decision |-> "approve",
           crossed |-> FALSE]

\* opened: how many sessions the link opened; crossed: another request that makes
\* links or ends the membership was under way when this one was made.
Link == [ws : Workspaces, live : BOOLEAN, is_consumed : BOOLEAN, opened : 0..MaxPortalOps,
         crossed : BOOLEAN]

Opens(l) == links[l].live /\ ~links[l].is_consumed

PortalCall == portalOps < MaxPortalOps /\ portalOps' = portalOps + 1
IdleThread(t) == task[t] = NoTask

\* The threads that are in one of these steps for the workspace learn of another.
Crossing(t, w, S) ==
    [u \in PortalThreads |->
        IF u # t /\ task[u].ws = w /\ task[u].step \in S
        THEN [task[u] EXCEPT !.crossed = TRUE] ELSE task[u]]

\* Every link of the workspace that has not expired ends now.
ExpiredIn(w, S) ==
    [l \in DOMAIN links |-> IF links[l].ws = w /\ links[l].is_consumed \in S
                            THEN [links[l] EXCEPT !.live = FALSE] ELSE links[l]]

-------------------------------------------------------------------------------
(* client_portal/services.py and views_admin.py *)

\* A manager sends a link to somebody who is a client of the workspace now.
GenerateMagicLink(t, w) ==
    /\ PortalCall /\ IdleThread(t) /\ w \in belongs
    /\ task' = [task EXCEPT ![t] = [NoTask EXCEPT !.step = "expire", !.ws = w]]
    /\ UNCHANGED <<belongs, links, portalSession, linkPage, post, answers>>

\* Mutant: the links sent before stay open.
KeepOlder(t) ==
    /\ task[t].step = "expire"
    /\ task' = [task EXCEPT ![t].step = "create"]
    /\ UNCHANGED <<belongs, links, portalSession, linkPage, post, answers, portalOps>>

\* The links sent before and not used are ended.
ExpireOlder(t) ==
    /\ task[t].step = "expire"
    /\ links' = ExpiredIn(task[t].ws, {FALSE})
    /\ task' = [task EXCEPT ![t].step = "create"]
    /\ UNCHANGED <<belongs, portalSession, linkPage, post, answers, portalOps>>

CreateLink(t) ==
    /\ task[t].step = "create" /\ Len(links) < MaxLinks
    /\ LET w == task[t].ws
           beside == \E u \in PortalThreads \ {t} :
                        task[u].ws = w /\ task[u].step \in {"create", "delete"}
       IN /\ links' = Append(links, [ws |-> w, live |-> TRUE, is_consumed |-> FALSE, opened |-> 0,
                                     crossed |-> beside \/ task[t].crossed])
          /\ task' = [Crossing(t, w, {"create"}) EXCEPT ![t] = NoTask]
    /\ UNCHANGED <<belongs, portalSession, linkPage, post, answers, portalOps>>

\* A manager removes the client: the links end, then the membership.
RemoveClient(t, w) ==
    /\ PortalCall /\ IdleThread(t) /\ w \in belongs
    /\ links' = ExpiredIn(w, BOOLEAN)
    /\ task' = [task EXCEPT ![t] = [NoTask EXCEPT !.step = "delete", !.ws = w]]
    /\ UNCHANGED <<belongs, portalSession, linkPage, post, answers>>

DeleteMembership(t) ==
    /\ task[t].step = "delete"
    /\ belongs' = belongs \ {task[t].ws}
    /\ task' = [Crossing(t, task[t].ws, {"expire", "create"}) EXCEPT ![t] = NoTask]
    /\ UNCHANGED <<links, portalSession, linkPage, post, answers, portalOps>>

\* The client accepts a new invitation to the workspace.
ClientJoins(w) ==
    /\ PortalCall /\ w \notin belongs /\ belongs' = belongs \cup {w}
    /\ UNCHANGED <<links, portalSession, linkPage, post, task, answers>>

\* A link's thirty days end.
LinkExpires(l) ==
    /\ PortalCall /\ links[l].live
    /\ links' = [links EXCEPT ![l].live = FALSE]
    /\ UNCHANGED <<belongs, portalSession, linkPage, post, task, answers>>

\* GET: the confirmation page, of a link that has neither expired nor been used.
\* A scanner that fetches it changes nothing, and neither does the client.
PeekMagicLink(l) ==
    /\ Opens(l) /\ linkPage # l /\ linkPage' = l
    /\ UNCHANGED <<belongs, links, portalSession, post, task, answers, portalOps>>

\* POST from the page, perhaps twice: the link is read and must not have expired.
EnterPortal(t) ==
    /\ PortalCall /\ IdleThread(t) /\ linkPage # NoLink /\ links[linkPage].live
    /\ task' = [task EXCEPT ![t] = [NoTask EXCEPT !.step = "consume", !.link = linkPage]]
    /\ UNCHANGED <<belongs, links, portalSession, linkPage, post, answers>>

\* Mutant: whoever read a link that was not used uses it.
ConsumeAsRead(t) ==
    LET l == task[t].link
    IN  /\ task[t].step = "consume"
        /\ links' = [links EXCEPT ![l].is_consumed = TRUE, ![l].opened = @ + 1]
        /\ portalSession' = links[l].ws
        /\ task' = [task EXCEPT ![t] = NoTask]
        /\ UNCHANGED <<belongs, linkPage, post, answers, portalOps>>

\* The browser's session is now this workspace's, whichever it was before.
CreatePortalSession(w) == portalSession' = w

\* Only the request that turns is_consumed on opens the session.
ConsumeMagicLink(t) ==
    LET l == task[t].link
        won == ~links[l].is_consumed
    IN  /\ task[t].step = "consume"
        /\ links' = IF won THEN [links EXCEPT ![l].is_consumed = TRUE, ![l].opened = @ + 1]
                    ELSE links
        /\ IF won THEN CreatePortalSession(links[l].ws) ELSE UNCHANGED portalSession
        /\ task' = [task EXCEPT ![t] = NoTask]
        /\ UNCHANGED <<belongs, linkPage, post, answers, portalOps>>

-------------------------------------------------------------------------------
(* decorators.py and views.py: what the client decides *)

\* Mutant: a portal session is enough.
SessionAlone(w) == portalSession = w

\* The session's workspace, of which the client is still a member.
PortalAuth(w) == portalSession = w /\ w \in belongs

\* The status each decision wants to find before it calls the service.
Awaits(decision) == IF decision = "hold" THEN "approved" ELSE "pending_client"

\* A page of any workspace may be sent; the post must be the session's.
PortalDecide(t, w, decision) ==
    /\ PortalCall /\ IdleThread(t)
    /\ PortalAuth(w)
    /\ post[w] = Awaits(decision)
    /\ task' = [task EXCEPT ![t] = [NoTask EXCEPT !.step = "decide", !.ws = w,
                                                  !.decision = decision,
                                                  !.crossed = w \notin belongs]]
    /\ UNCHANGED <<belongs, links, portalSession, linkPage, post, answers>>

\* Mutant: the services take what the view saw.
AsTheViewSaw(decision, s) ==
    CASE decision = "approve" -> "approved"
      [] decision = "request_changes" -> "changes_requested"
      [] decision = "reject" -> "rejected"
      [] decision = "hold" -> "on_hold"

\* What the services of approvals make of a post in status s: they read it again,
\* and approve in two stages.
DecidedAs(decision, s) ==
    CASE decision = "approve" /\ s = "pending_review" -> "pending_client"
      [] decision = "approve" /\ s = "pending_client" -> "approved"
      [] decision = "request_changes" /\ s \in {"pending_review", "pending_client"} ->
            "changes_requested"
      [] decision = "reject" /\ s \in {"pending_review", "pending_client"} -> "rejected"
      [] decision = "hold" /\ s = "approved" -> "on_hold"
      [] OTHER -> s

\* The portal reports success whether or not the service moved anything.
PortalDecides(t) ==
    LET w == task[t].ws
        outcome == DecidedAs(task[t].decision, post[w])
    IN  /\ task[t].step = "decide"
        /\ post' = [post EXCEPT ![w] = outcome]
        /\ answers' = answers \cup
              {[ws |-> w, decision |-> task[t].decision, from |-> post[w], to |-> outcome,
                stranger |-> task[t].crossed]}
        /\ task' = [task EXCEPT ![t] = NoTask]
        /\ UNCHANGED <<belongs, links, portalSession, linkPage, portalOps>>

\* The team moves the post along an edge of the workflow.
TeamMoves(w, to) ==
    /\ PortalCall /\ CanTransition(post[w], to)
    /\ to \in {"pending_review", "pending_client", "approved", "changes_requested", "scheduled"}
    /\ post' = [post EXCEPT ![w] = to]
    /\ UNCHANGED <<belongs, links, portalSession, linkPage, task, answers>>

-------------------------------------------------------------------------------

PortalInit ==
    /\ belongs = Workspaces
    /\ links = <<>> /\ portalSession = Nowhere /\ linkPage = NoLink
    /\ post = [w \in Workspaces |-> "pending_client"]
    /\ task = [t \in PortalThreads |-> NoTask]
    /\ answers = {} /\ portalOps = 0

PortalNext ==
    \/ \E t \in PortalThreads :
          \/ ExpireOlder(t) \/ CreateLink(t) \/ DeleteMembership(t)
          \/ EnterPortal(t) \/ ConsumeMagicLink(t) \/ PortalDecides(t)
          \/ \E w \in Workspaces :
                \/ GenerateMagicLink(t, w) \/ RemoveClient(t, w)
                \/ \E decision \in Decisions : PortalDecide(t, w, decision)
    \/ \E w \in Workspaces : ClientJoins(w) \/ \E to \in Statuses : TeamMoves(w, to)
    \/ \E l \in DOMAIN links : LinkExpires(l) \/ PeekMagicLink(l)

PortalSpec == PortalInit /\ [][PortalNext]_portalVars

-------------------------------------------------------------------------------

PortalTypeOK ==
    /\ belongs \subseteq Workspaces
    /\ links \in Seq(Link) /\ Len(links) <= MaxLinks
    /\ portalSession \in Workspaces \cup {Nowhere}
    /\ linkPage \in 0..Len(links)
    /\ post \in [Workspaces -> Statuses]
    /\ \A t \in PortalThreads :
          task[t].step \in {"idle", "expire", "create", "delete", "consume", "decide"}
    /\ portalOps \in 0..MaxPortalOps

\* "Only the request that flips is_consumed wins": a link opens one session, though
\* its page is sent twice and its mail is fetched by scanners.
OpensOnce == \A l \in DOMAIN links : links[l].opened <= 1

\* Of the links of a workspace only the last one sent opens it, unless two
\* managers sent one at the same time.
LatestLinkOnly ==
    \A l, m \in DOMAIN links :
        l < m /\ links[l].ws = links[m].ws /\ Opens(l) /\ Opens(m) =>
            links[l].crossed \/ links[m].crossed

\* A client who was removed holds no link that opens the workspace, unless one
\* was being sent during the removal.
RemovedHoldsNoLink ==
    \A l \in DOMAIN links : Opens(l) /\ links[l].ws \notin belongs => links[l].crossed

\* A decision is made by a client who belonged to the workspace when asked, and
\* one that the team overtook moves nothing that has left review, or that a hold
\* can no longer stop.
DecidedByMember ==
    \A a \in answers :
        /\ ~a.stranger
        /\ a.to # a.from => a.from \in IF a.decision = "hold" THEN {"approved"}
                                      ELSE {"pending_review", "pending_client"}

PortalIsSound == OpensOnce /\ LatestLinkOnly /\ RemovedHoldsNoLink /\ DecidedByMember
===============================================================================
