---------------------------- MODULE Organization ----------------------------
(***************************************************************************)
(* One organization and its workspace: who belongs to them, by invitation,  *)
(* role change, assignment, removal and account deletion, and how the       *)
(* organization is deleted after a grace period, by a task it can outlive.  *)
(* Requests read and check first and write afterwards, without locks.       *)
(***************************************************************************)
EXTENDS Integers, FiniteSets

CONSTANTS
    Users, Owner,   \* people; who signed up and got the organization
    OrgThreads,     \* web threads
    Grace, LastDay, \* days until a deletion is carried out; bound on the clock
    MaxOrgOps, MaxOrgDeaths

ASSUME OrganizationConstants ==
    /\ Owner \in Users /\ IsFiniteSet(Users)
    /\ Grace \in Nat \ {0} /\ LastDay \in Nat /\ MaxOrgOps \in Nat /\ MaxOrgDeaths \in Nat

VARIABLES
    member,      \* OrgMembership of each user: role, and the row's key
    inWorkspace, \* users with a WorkspaceMembership
    invitation,  \* Invitation of each user: not expired, accepted
    orgReq,      \* thread -> the request it is in
    alive,       \* the organization exists
    deletion,    \* deletion_scheduled_for
    purges,      \* days on which a deletion task is scheduled
    purging,     \* the deletion task found the organization due
    day,
    strays,      \* history: users whose acceptance or assignment ran into their removal
    orgOps, orgDeaths

orgVars == <<member, inWorkspace, invitation, orgReq, alive, deletion, purges, purging, day,
             strays, orgOps, orgDeaths>>

Roles == {"none", "member", "admin", "owner"}
NoDay == -1
NoOrgRequest == [step |-> "none", user |-> Owner, key |-> 0, wants |-> "none"]

Belongs(u) == member[u].role # "none"
Owners == {u \in Users : member[u].role = "owner"}
InStep(s) == {t \in OrgThreads : orgReq[t].step = s}

\* A request that is about to put its user into the organization's workspaces.
Entering(r) == r.step \in {"join", "assign"} \/ (r.step = "reassign" /\ r.wants = "in")

BeginRequest(t, s, u, wants) ==
    /\ alive /\ orgReq[t] = NoOrgRequest
    /\ orgOps < MaxOrgOps /\ orgOps' = orgOps + 1
    /\ orgReq' = [orgReq EXCEPT ![t] = [step |-> s, user |-> u, key |-> member[u].key,
                                        wants |-> wants]]
    /\ strays' = IF Entering(orgReq'[t]) /\ \E x \in InStep("leave") : orgReq[x].user = u
                 THEN strays \cup {u} ELSE strays
    /\ UNCHANGED <<member, inWorkspace, invitation, alive, deletion, purges, purging, day,
                   orgDeaths>>

GoOn(t, s) == orgReq' = [orgReq EXCEPT ![t] = IF s = "none" THEN NoOrgRequest
                                              ELSE [@ EXCEPT !.step = s]]

-------------------------------------------------------------------------------
(* Invitations *)

\* create_invitation, or resend_invitation of one not accepted, revoked or not.
Invite(u) ==
    /\ alive /\ orgOps < MaxOrgOps /\ orgOps' = orgOps + 1
    /\ ~invitation[u].live
    /\ invitation[u].accepted => ~Belongs(u)
    /\ invitation' = [invitation EXCEPT ![u] = [live |-> TRUE, accepted |-> FALSE]]
    /\ UNCHANGED <<member, inWorkspace, orgReq, alive, deletion, purges, purging, day,
                   strays, orgDeaths>>

RevokeInvitation(u) ==
    /\ alive /\ invitation[u].live /\ ~invitation[u].accepted
    /\ invitation' = [invitation EXCEPT ![u].live = FALSE]
    /\ UNCHANGED <<member, inWorkspace, orgReq, alive, deletion, purges, purging, day,
                   strays, orgOps, orgDeaths>>

StartAccept(t, u) ==
    /\ invitation[u] = [live |-> TRUE, accepted |-> FALSE]
    /\ BeginRequest(t, "join", u, "in")

\* get_or_create: a member keeps the role there is.
JoinOrganization(t, role) ==
    LET u == orgReq[t].user
    IN  /\ alive /\ orgReq[t].step = "join" /\ role \in {"member", "admin"}
        /\ member' = IF Belongs(u) THEN member
                     ELSE [member EXCEPT ![u] = [role |-> role, key |-> @.key + 1]]
        /\ GoOn(t, "assign")
        /\ UNCHANGED <<inWorkspace, invitation, alive, deletion, purges, purging, day,
                       strays, orgOps, orgDeaths>>

\* Both accept_invitation and update_workspace_assignments end here.
WriteAssignment(t) ==
    LET r == orgReq[t]
    IN  /\ alive /\ r.step \in {"assign", "reassign"}
        /\ inWorkspace' = IF r.wants = "in" THEN inWorkspace \cup {r.user}
                          ELSE inWorkspace \ {r.user}
        /\ GoOn(t, IF r.step = "assign" THEN "accepted" ELSE "none")
        /\ UNCHANGED <<member, invitation, alive, deletion, purges, purging, day, strays,
                       orgOps, orgDeaths>>

MarkAccepted(t) ==
    /\ alive /\ orgReq[t].step = "accepted"
    /\ invitation' = [invitation EXCEPT ![orgReq[t].user] = [live |-> FALSE, accepted |-> TRUE]]
    /\ GoOn(t, "none")
    /\ UNCHANGED <<member, inWorkspace, alive, deletion, purges, purging, day, strays,
                   orgOps, orgDeaths>>

-------------------------------------------------------------------------------
(* Members *)

\* "Cannot remove the last organization owner", nor change the role, nor delete
\* the account.
SparesLastOwner(u) == u \in Owners => Cardinality(Owners) > 1

StartRemove(t, u) == Belongs(u) /\ SparesLastOwner(u) /\ BeginRequest(t, "removeWs", u, "out")

StartSetRole(t, u, role) ==
    /\ Belongs(u) /\ SparesLastOwner(u) /\ role \in {"member", "admin"}
    /\ BeginRequest(t, "role", u, role)

StartReassign(t, u, wants) ==
    Belongs(u) /\ wants \in {"in", "out"} /\ BeginRequest(t, "reassign", u, wants)

\* Mutant: the workspaces are forgotten.
LeaveNone(u) == inWorkspace

\* The user's memberships of the organization's workspaces go first ...
LeaveWorkspaces(u) == inWorkspace \ {u}

RemoveFromWorkspaces(t) ==
    LET u == orgReq[t].user
        crossed == \E x \in OrgThreads : orgReq[x].user = u /\ Entering(orgReq[x])
    IN  /\ alive /\ orgReq[t].step = "removeWs"
        /\ inWorkspace' = LeaveWorkspaces(u)
        /\ strays' = IF crossed THEN strays \cup {u} ELSE strays \ {u}
        /\ GoOn(t, "leave")
        /\ UNCHANGED <<member, invitation, alive, deletion, purges, purging, day, orgOps,
                       orgDeaths>>

\* ... and then the row that was read; one created since has another key.
SameRow(r) == member[r.user].key = r.key /\ Belongs(r.user)

LeaveOrganization(t) ==
    LET r == orgReq[t]
    IN  /\ alive /\ r.step = "leave"
        /\ member' = IF SameRow(r) THEN [member EXCEPT ![r.user].role = "none"] ELSE member
        /\ GoOn(t, "none")
        /\ UNCHANGED <<inWorkspace, invitation, alive, deletion, purges, purging, day,
                       strays, orgOps, orgDeaths>>

SaveRole(t) ==
    LET r == orgReq[t]
    IN  /\ alive /\ r.step = "role"
        /\ member' = IF SameRow(r) THEN [member EXCEPT ![r.user].role = r.wants] ELSE member
        /\ GoOn(t, "none")
        /\ UNCHANGED <<inWorkspace, invitation, alive, deletion, purges, purging, day,
                       strays, orgOps, orgDeaths>>

-------------------------------------------------------------------------------
(* Deletion of the organization *)

RequestDeletion(t) == BeginRequest(t, "date", Owner, "none")

SaveDeletion(t) ==
    /\ alive /\ orgReq[t].step = "date"
    /\ deletion' = day + Grace
    /\ GoOn(t, "task")
    /\ UNCHANGED <<member, inWorkspace, invitation, alive, purges, purging, day, strays,
                   orgOps, orgDeaths>>

TaskDay == day + Grace

QueueDeletion(t) ==
    /\ orgReq[t].step = "task"
    /\ purges' = purges \cup {TaskDay}
    /\ GoOn(t, "none")
    /\ UNCHANGED <<member, inWorkspace, invitation, alive, deletion, purging, day, strays,
                   orgOps, orgDeaths>>

\* Cancelling, and deleting at once, first drop the tasks.
StartDropTasks(t, wants) == wants \in {"cancel", "delete"} /\ BeginRequest(t, "drop", Owner, wants)

DropTasks(t) ==
    /\ alive /\ orgReq[t].step = "drop"
    /\ purges' = {}
    /\ GoOn(t, orgReq[t].wants)
    /\ UNCHANGED <<member, inWorkspace, invitation, alive, deletion, purging, day, strays,
                   orgOps, orgDeaths>>

CancelDeletion(t) ==
    /\ alive /\ orgReq[t].step = "cancel"
    /\ deletion' = NoDay
    /\ GoOn(t, "none")
    /\ UNCHANGED <<member, inWorkspace, invitation, alive, purges, purging, day, strays,
                   orgOps, orgDeaths>>

DeleteNow(t) ==
    /\ alive /\ orgReq[t].step = "delete"
    /\ alive' = FALSE
    /\ GoOn(t, "none")
    /\ UNCHANGED <<member, inWorkspace, invitation, deletion, purges, purging, day, strays,
                   orgOps, orgDeaths>>

\* execute_scheduled_org_deletion reads the state again; a date in the future, or
\* none, ends it.
RunPurge(d) ==
    /\ d \in purges /\ d <= day /\ ~purging
    /\ purges' = purges \ {d}
    /\ purging' = (alive /\ deletion # NoDay /\ deletion <= day)
    /\ UNCHANGED <<member, inWorkspace, invitation, orgReq, alive, deletion, day, strays,
                   orgOps, orgDeaths>>

Purge ==
    /\ purging /\ purging' = FALSE /\ alive' = FALSE
    /\ UNCHANGED <<member, inWorkspace, invitation, orgReq, deletion, purges, day, strays,
                   orgOps, orgDeaths>>

OrgRequestDies(t) ==
    /\ orgReq[t] # NoOrgRequest /\ orgDeaths < MaxOrgDeaths /\ orgDeaths' = orgDeaths + 1
    /\ GoOn(t, "none")
    /\ UNCHANGED <<member, inWorkspace, invitation, alive, deletion, purges, purging, day,
                   strays, orgOps>>

Dawn ==
    /\ day < LastDay /\ day' = day + 1
    /\ UNCHANGED <<member, inWorkspace, invitation, orgReq, alive, deletion, purges, purging,
                   strays, orgOps, orgDeaths>>

-------------------------------------------------------------------------------

OrgInit ==
    /\ member = [u \in Users |-> [role |-> IF u = Owner THEN "owner" ELSE "none", key |-> 0]]
    /\ inWorkspace = {Owner}
    /\ invitation = [u \in Users |-> [live |-> FALSE, accepted |-> FALSE]]
    /\ orgReq = [t \in OrgThreads |-> NoOrgRequest]
    /\ alive = TRUE /\ deletion = NoDay /\ purges = {} /\ purging = FALSE /\ day = 0
    /\ strays = {} /\ orgOps = 0 /\ orgDeaths = 0

OrgNext ==
    \/ \E u \in Users \ {Owner} : Invite(u) \/ RevokeInvitation(u)
    \/ \E t \in OrgThreads :
          \/ \E u \in Users : StartRemove(t, u)
          \/ \E u \in Users \ {Owner} : StartAccept(t, u)
          \/ \E u \in Users, wants \in {"in", "out"} : StartReassign(t, u, wants)
          \/ \E u \in Users, role \in {"member", "admin"} : StartSetRole(t, u, role)
          \/ \E role \in {"member", "admin"} : JoinOrganization(t, role)
          \/ WriteAssignment(t) \/ MarkAccepted(t)
          \/ RemoveFromWorkspaces(t) \/ LeaveOrganization(t) \/ SaveRole(t)
          \/ RequestDeletion(t) \/ SaveDeletion(t) \/ QueueDeletion(t)
          \/ \E wants \in {"cancel", "delete"} : StartDropTasks(t, wants)
          \/ DropTasks(t) \/ CancelDeletion(t) \/ DeleteNow(t) \/ OrgRequestDies(t)
    \/ \E d \in purges : RunPurge(d)
    \/ Purge \/ Dawn

OrgSpec == OrgInit /\ [][OrgNext]_orgVars

-------------------------------------------------------------------------------

OrgTypeOK ==
    /\ \A u \in Users : member[u].role \in Roles /\ member[u].key \in Nat
    /\ inWorkspace \subseteq Users /\ strays \subseteq Users
    /\ invitation \in [Users -> [live: BOOLEAN, accepted: BOOLEAN]]
    /\ \A t \in OrgThreads : orgReq[t].user \in Users
    /\ deletion \in -1..(LastDay + Grace) /\ purges \subseteq 0..(LastDay + Grace)
    /\ day \in 0..LastDay

\* The organization keeps its owner through every removal and role change, and who
\* is in a workspace belongs to its organization: a removal leaves nobody behind,
\* unless an acceptance or an assignment of the same user was under way between the
\* two deletes of the removal and put them back (no lock keeps the two apart).
MembershipHolds ==
    alive =>
        /\ Owners # {}
        /\ \A u \in inWorkspace \ strays : Belongs(u)

\* A deletion that is announced will be carried out: its task is scheduled for its
\* day or later, whatever was requested and cancelled before it, unless a process died.
DeletionComes ==
    alive /\ deletion # NoDay /\ orgDeaths = 0 =>
        \/ \E d \in purges : d >= deletion
        \/ purging
        \/ InStep("task") \cup InStep("cancel") \cup InStep("delete") # {}

\* Both of the two above: the organization keeps its owner, its workspaces are its
\* members' alone, and its announced deletion is carried out.
OrganizationHolds == MembershipHolds /\ DeletionComes
===============================================================================
