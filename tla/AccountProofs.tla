----------------------------- MODULE AccountProofs -----------------------------
(***************************************************************************)
(* Theorems about what an organization holds: its members and its deletion  *)
(* (Organization), and its social accounts: the token pair of a connection  *)
(* (Connections), what a platform granted and when it ends (Grants), how an *)
(* account comes to be connected (Connecting), how a post gets from a row   *)
(* to its platform (Providers), and what agents may do with a key of one of *)
(* its workspaces (AgentAccess, AgentCalls).                                *)
(***************************************************************************)
EXTENDS Organization, Connections, Grants, Connecting, Providers, AgentAccess, AgentCalls,
        FiniteSetTheorems, WellFoundedInduction, TLAPS

-------------------------------------------------------------------------------
(* Organization: what a request under way is about *)

OrgSteps == {"none", "join", "assign", "accepted", "reassign", "removeWs", "leave", "role",
             "date", "task", "drop", "cancel", "delete"}
Wishes == {"none", "in", "out", "member", "admin", "cancel", "delete"}

OrgTypes ==
    /\ member \in [Users -> [role: Roles, key: Nat]]
    /\ orgReq \in [OrgThreads -> [step: OrgSteps, user: Users, key: Nat, wants: Wishes]]
    /\ day \in Nat /\ deletion \in Int /\ deletion <= day + Grace
    /\ purges \subseteq Int /\ orgDeaths \in Nat
    /\ alive \in BOOLEAN /\ purging \in BOOLEAN

\* Nobody becomes an owner, and no request is under way that could end the owner's role.
OwnerStays ==
    /\ \A u \in Users : member[u].role = "owner" <=> u = Owner
    /\ \A t \in OrgThreads :
          orgReq[t].step \in {"removeWs", "leave", "role"} => orgReq[t].user # Owner

WishesFit ==
    \A t \in OrgThreads :
        /\ orgReq[t].step = "role" => orgReq[t].wants \in {"member", "admin"}
        /\ orgReq[t].step = "drop" => orgReq[t].wants \in {"cancel", "delete"}

Enters(u) == \E x \in OrgThreads : orgReq[x].user = u /\ Entering(orgReq[x])
Assigned(u) == \E x \in OrgThreads : /\ orgReq[x].user = u /\ Entering(orgReq[x])
                                     /\ orgReq[x].step # "join"

\* Who is in a workspace, or about to be written there, is a member; and who is past the
\* first delete of a removal is in none and about to enter none, but for the strays.
MembersOnly ==
    /\ \A u \in Users : (u \in inWorkspace \/ Assigned(u)) => (Belongs(u) \/ u \in strays)
    /\ \A t \in OrgThreads :
          orgReq[t].step = "leave" /\ (orgReq[t].user \in inWorkspace \/ Enters(orgReq[t].user))
             => orgReq[t].user \in strays

OrgInv == OrgTypes /\ OwnerStays /\ WishesFit /\ inWorkspace \subseteq Users
          /\ MembersOnly /\ DeletionComes

LEMMA NoOrgRequestType ==
    /\ NoOrgRequest \in [step: OrgSteps, user: Users, key: Nat, wants: Wishes]
    /\ NoOrgRequest.step = "none"
BY OrganizationConstants DEF NoOrgRequest, OrgSteps, Wishes

LEMMA OrgInvInit == OrgInit => OrgInv
<1> SUFFICES ASSUME OrgInit PROVE OrgInv
    OBVIOUS
<1>1. OrgTypes
    <2>1. member \in [Users -> [role: Roles, key: Nat]]
        BY DEF OrgInit, Roles
    <2>2. deletion = -1 /\ day = 0 /\ deletion <= day + Grace
        BY OrganizationConstants DEF OrgInit, NoDay
    <2>3. orgReq \in [OrgThreads -> [step: OrgSteps, user: Users, key: Nat, wants: Wishes]]
        BY NoOrgRequestType DEF OrgInit
    <2>4. purges \subseteq Int /\ orgDeaths \in Nat
        BY DEF OrgInit
    <2>5. alive \in BOOLEAN /\ purging \in BOOLEAN
        BY Zenon DEF OrgInit
    <2>6. day \in Nat /\ deletion \in Int
        BY <2>2
    <2> QED BY <2>1, <2>2, <2>3, <2>4, <2>5, <2>6 DEF OrgTypes
<1>2. OwnerStays /\ WishesFit
    BY NoOrgRequestType DEF OrgInit, OwnerStays, WishesFit
<1>3. inWorkspace \subseteq Users /\ MembersOnly
    BY OrganizationConstants, NoOrgRequestType
       DEF OrgInit, MembersOnly, Belongs, Assigned, Entering
<1>4. DeletionComes
    BY DEF OrgInit, DeletionComes, NoDay
<1> QED BY <1>1, <1>2, <1>3, <1>4 DEF OrgInv

\* A request goes on to step s, as it is, or ends.
LEMMA GoesOn ==
    ASSUME OrgInv, NEW t \in OrgThreads, NEW s \in OrgSteps, GoOn(t, s)
    PROVE  /\ orgReq' \in [OrgThreads -> [step: OrgSteps, user: Users, key: Nat, wants: Wishes]]
           /\ orgReq'[t].step = s
           /\ s # "none" => orgReq'[t].user = orgReq[t].user /\ orgReq'[t].wants = orgReq[t].wants
           /\ \A x \in OrgThreads \ {t} : orgReq'[x] = orgReq[x]
<1>1. CASE s = "none"
    <2>1. orgReq' = [orgReq EXCEPT ![t] = NoOrgRequest]
        BY <1>1 DEF GoOn
    <2> QED BY <1>1, <2>1, NoOrgRequestType DEF OrgInv, OrgTypes
<1>2. CASE s # "none"
    <2>1. orgReq' = [orgReq EXCEPT ![t] = [orgReq[t] EXCEPT !.step = s]]
        BY <1>2 DEF GoOn
    <2> QED BY <2>1 DEF OrgInv, OrgTypes
<1> QED BY <1>1, <1>2

\* The last owner is spared.
LEMMA OwnerSpared ==
    ASSUME OrgInv, NEW u \in Users, SparesLastOwner(u)
    PROVE  u # Owner
<1>1. Owners = {Owner}
    BY OrganizationConstants DEF Owners, OrgInv, OwnerStays
<1>2. Cardinality(Owners) = 1
    BY <1>1, FS_Singleton
<1> QED BY <1>1, <1>2 DEF SparesLastOwner

\* A request begins.
LEMMA BeginKeeps ==
    ASSUME OrgInv, NEW t \in OrgThreads, NEW s \in OrgSteps, NEW u \in Users,
           NEW wants \in Wishes, BeginRequest(t, s, u, wants),
           s \notin {"leave", "assign"}, s = "reassign" => Belongs(u),
           s \in {"removeWs", "role"} => u # Owner,
           s = "role" => wants \in {"member", "admin"},
           s = "drop" => wants \in {"cancel", "delete"}
    PROVE  OrgInv'
<1> DEFINE r == [step |-> s, user |-> u, key |-> member[u].key, wants |-> wants]
<1>1. /\ orgReq[t] = NoOrgRequest /\ orgReq' = [orgReq EXCEPT ![t] = r]
      /\ strays' = IF Entering(orgReq'[t]) /\ \E x \in InStep("leave") : orgReq[x].user = u
                   THEN strays \cup {u} ELSE strays
      /\ UNCHANGED <<member, inWorkspace, alive, deletion, purges, purging, day, orgDeaths>>
    BY DEF BeginRequest
<1>2. r \in [step: OrgSteps, user: Users, key: Nat, wants: Wishes]
    BY DEF OrgInv, OrgTypes
<1>3. /\ orgReq'[t].step = s /\ orgReq'[t].user = u /\ orgReq'[t].wants = wants
      /\ \A x \in OrgThreads \ {t} : orgReq'[x] = orgReq[x]
    BY <1>1 DEF OrgInv, OrgTypes
<1> HIDE DEF r
<1>4. OrgTypes'
    BY <1>1, <1>2 DEF OrgInv, OrgTypes
<1>5. OwnerStays' /\ WishesFit'
    BY <1>1, <1>3 DEF OrgInv, OwnerStays, WishesFit
<1>6. DeletionComes'
    BY <1>1, <1>3, NoOrgRequestType DEF OrgInv, DeletionComes, InStep
<1>7. strays \subseteq strays'
    BY <1>1
<1>8. ASSUME NEW x \in Users, (x \in inWorkspace \/ Assigned(x))'
      PROVE  (Belongs(x) \/ x \in strays)'
    <2>1. x \in inWorkspace \/ Assigned(x) \/ (s = "reassign" /\ x = u)
        BY <1>1, <1>3, <1>8 DEF Assigned, Entering
    <2> QED BY <1>1, <1>7, <2>1 DEF OrgInv, MembersOnly, Belongs
<1>9. ASSUME NEW x \in OrgThreads, orgReq'[x].step = "leave",
             (orgReq[x].user \in inWorkspace \/ Enters(orgReq[x].user))'
      PROVE  (orgReq[x].user \in strays)'
    <2>1. x # t /\ orgReq'[x] = orgReq[x]
        BY <1>3, <1>9
    <2>2. \/ orgReq[x].user \in inWorkspace \/ Enters(orgReq[x].user)
          \/ orgReq[x].user = u /\ Entering(orgReq'[t])
        BY <1>1, <1>3, <1>9, <2>1 DEF Enters
    <2>3. x \in InStep("leave")
        BY <1>9, <2>1 DEF InStep
    <2> QED BY <1>1, <1>7, <1>9, <2>1, <2>2, <2>3 DEF OrgInv, MembersOnly
<1>10. MembersOnly'
    BY <1>8, <1>9 DEF MembersOnly
<1> QED BY <1>1, <1>4, <1>5, <1>6, <1>10 DEF OrgInv

LEMMA BeginningsKeep ==
    ASSUME OrgInv, NEW t \in OrgThreads,
           \/ \E u \in Users : StartRemove(t, u)
           \/ \E u \in Users \ {Owner} : StartAccept(t, u)
           \/ \E u \in Users, wants \in {"in", "out"} : StartReassign(t, u, wants)
           \/ \E u \in Users, role \in {"member", "admin"} : StartSetRole(t, u, role)
           \/ RequestDeletion(t)
           \/ \E wants \in {"cancel", "delete"} : StartDropTasks(t, wants)
    PROVE  OrgInv'
<1>1. ASSUME NEW u \in Users, StartRemove(t, u) PROVE OrgInv'
    BY <1>1, OwnerSpared, BeginKeeps DEF StartRemove, OrgSteps, Wishes
<1>2. ASSUME NEW u \in Users, StartAccept(t, u) PROVE OrgInv'
    BY <1>2, BeginKeeps DEF StartAccept, OrgSteps, Wishes
<1>3. ASSUME NEW u \in Users, NEW wants \in {"in", "out"}, StartReassign(t, u, wants) PROVE OrgInv'
    BY <1>3, BeginKeeps DEF StartReassign, OrgSteps, Wishes
<1>4. ASSUME NEW u \in Users, NEW role \in {"member", "admin"}, StartSetRole(t, u, role)
      PROVE  OrgInv'
    BY <1>4, OwnerSpared, BeginKeeps DEF StartSetRole, OrgSteps, Wishes
<1>5. ASSUME RequestDeletion(t) PROVE OrgInv'
    BY <1>5, BeginKeeps, OrganizationConstants DEF RequestDeletion, OrgSteps, Wishes
<1>6. ASSUME NEW wants \in {"cancel", "delete"}, StartDropTasks(t, wants) PROVE OrgInv'
    BY <1>6, BeginKeeps, OrganizationConstants DEF StartDropTasks, OrgSteps, Wishes
<1> QED BY <1>1, <1>2, <1>3, <1>4, <1>5, <1>6

\* What a step of a request under way has to show: it goes on to s, the memberships stay
\* sound, and the deletion stays announced and due.
LEMMA StepKeeps ==
    ASSUME OrgInv, NEW t \in OrgThreads, NEW s \in OrgSteps, GoOn(t, s),
           s \in {"removeWs", "role", "drop"} => FALSE,
           s = "leave" => orgReq[t].user # Owner,
           member' \in [Users -> [role: Roles, key: Nat]],
           \A u \in Users : member'[u].role = "owner" <=> u = Owner,
           inWorkspace' \subseteq Users, MembersOnly',
           UNCHANGED <<day, orgDeaths, purging>>,
           alive' \in BOOLEAN, deletion' \in Int, deletion' <= day + Grace, purges' \subseteq Int,
           DeletionComes'
    PROVE  OrgInv'
<1>1. /\ orgReq' \in [OrgThreads -> [step: OrgSteps, user: Users, key: Nat, wants: Wishes]]
      /\ orgReq'[t].step = s
      /\ s # "none" => orgReq'[t].user = orgReq[t].user /\ orgReq'[t].wants = orgReq[t].wants
      /\ \A x \in OrgThreads \ {t} : orgReq'[x] = orgReq[x]
    BY GoesOn
<1>2. OrgTypes'
    BY <1>1 DEF OrgInv, OrgTypes
<1>3. OwnerStays' /\ WishesFit'
    BY <1>1 DEF OrgInv, OwnerStays, WishesFit
<1> QED BY <1>2, <1>3 DEF OrgInv

\* The announced deletion is not touched by a request about members.
LEMMA DeletionUntouched ==
    ASSUME OrgInv, NEW t \in OrgThreads, NEW s \in OrgSteps, GoOn(t, s),
           orgReq[t].step \notin {"task", "cancel", "delete"},
           UNCHANGED <<alive, deletion, purges, purging, orgDeaths>>
    PROVE  DeletionComes'
<1>1. \A x \in OrgThreads \ {t} : orgReq'[x] = orgReq[x]
    BY GoesOn
<1> QED BY <1>1 DEF OrgInv, DeletionComes, InStep

\* A request that goes on past the point where it enters or leaves: nobody is in a
\* workspace who was not, but for the one whose assignment is written, and no member is
\* lost who should have been out of them.
LEMMA EntriesEnd ==
    ASSUME OrgInv, NEW t \in OrgThreads, NEW s \in OrgSteps, GoOn(t, s),
           s \notin {"join", "assign", "reassign", "leave"}, UNCHANGED strays,
           \A u \in Users : u \in inWorkspace' =>
              \/ u \in inWorkspace
              \/ orgReq[t].user = u /\ Entering(orgReq[t]) /\ orgReq[t].step # "join",
           \A u \in Users : Belongs(u) =>
              \/ Belongs(u)'
              \/ orgReq[t].step = "leave" /\ orgReq[t].user = u
    PROVE  MembersOnly'
<1>1. /\ orgReq'[t].step = s
      /\ \A x \in OrgThreads \ {t} : orgReq'[x] = orgReq[x]
      /\ ~Entering(orgReq'[t])
    BY GoesOn DEF Entering
<1>2. \A u \in Users : (Assigned(u)' => Assigned(u)) /\ (Enters(u)' => Enters(u))
    BY <1>1 DEF Assigned, Enters
<1>3. \A u \in Users : u \in inWorkspace' => (u \in inWorkspace \/ Assigned(u))
    BY DEF Assigned
<1>4. \A u \in Users : Assigned(u) => Enters(u)
    BY DEF Assigned, Enters
<1>5. ASSUME NEW u \in Users, (u \in inWorkspace \/ Assigned(u))'
      PROVE  (Belongs(u) \/ u \in strays)'
    <2>1. u \in inWorkspace \/ Assigned(u)
        BY <1>2, <1>3, <1>5
    <2> QED BY <1>4, <2>1 DEF OrgInv, MembersOnly
<1>6. ASSUME NEW x \in OrgThreads, orgReq'[x].step = "leave",
             (orgReq[x].user \in inWorkspace \/ Enters(orgReq[x].user))'
      PROVE  (orgReq[x].user \in strays)'
    <2>1. x # t /\ orgReq'[x] = orgReq[x] /\ orgReq[x].user \in Users
        BY <1>1, <1>6 DEF OrgInv, OrgTypes
    <2>2. orgReq[x].user \in inWorkspace \/ Enters(orgReq[x].user)
        BY <1>2, <1>3, <1>4, <1>6, <2>1
    <2> QED BY <1>6, <2>1, <2>2 DEF OrgInv, MembersOnly
<1> QED BY <1>5, <1>6 DEF MembersOnly

LEMMA MemberStepsKeep ==
    ASSUME OrgInv, NEW t \in OrgThreads,
           \/ \E role \in {"member", "admin"} : JoinOrganization(t, role)
           \/ WriteAssignment(t) \/ MarkAccepted(t)
           \/ RemoveFromWorkspaces(t) \/ LeaveOrganization(t) \/ SaveRole(t)
    PROVE  OrgInv'
<1> DEFINE r == orgReq[t]
           Members == /\ member' \in [Users -> [role: Roles, key: Nat]]
                      /\ \A u \in Users : member'[u].role = "owner" <=> u = Owner
<1>0. /\ r \in [step: OrgSteps, user: Users, key: Nat, wants: Wishes]
      /\ member \in [Users -> [role: Roles, key: Nat]]
      /\ \A u \in Users : member[u].role = "owner" <=> u = Owner
      /\ inWorkspace \subseteq Users /\ MembersOnly
      /\ alive \in BOOLEAN /\ deletion \in Int /\ deletion <= day + Grace /\ purges \subseteq Int
    BY DEF OrgInv, OrgTypes, OwnerStays
<1>1. ASSUME NEW role \in {"member", "admin"}, JoinOrganization(t, role) PROVE OrgInv'
    <2>1. /\ r.step = "join" /\ GoOn(t, "assign")
          /\ UNCHANGED <<inWorkspace, alive, deletion, purges, purging, day, strays, orgDeaths>>
        BY <1>1 DEF JoinOrganization
    <2>2. /\ Members
          /\ \A u \in Users : Belongs(u)' <=> (Belongs(u) \/ u = r.user)
        <3>1. CASE Belongs(r.user)
            BY <1>0, <1>1, <2>1, <3>1 DEF JoinOrganization, Belongs
        <3>2. CASE ~Belongs(r.user)
            <4>1. member' = [member EXCEPT ![r.user] = [role |-> role,
                                                        key |-> member[r.user].key + 1]]
                BY <1>1, <3>2 DEF JoinOrganization
            <4>2. r.user # Owner
                BY <1>0, <3>2 DEF Belongs
            <4> QED BY <1>0, <2>1, <4>1, <4>2 DEF Belongs, Roles
        <3> QED BY <3>1, <3>2
    <2>3. /\ orgReq'[t].step = "assign" /\ orgReq'[t].user = r.user
          /\ \A x \in OrgThreads \ {t} : orgReq'[x] = orgReq[x]
        BY <2>1, GoesOn DEF OrgSteps
    <2>4. Entering(r) /\ Entering(orgReq'[t])
        BY <2>1, <2>3 DEF Entering
    <2>5. \A u \in Users : /\ Enters(u)' => Enters(u)
                           /\ Assigned(u)' => (Assigned(u) \/ u = r.user)
        BY <2>3, <2>4 DEF Enters, Assigned
    <2>6. MembersOnly'
        <3>1. \A x \in OrgThreads : orgReq'[x].step = "leave" => x # t /\ orgReq'[x] = orgReq[x]
            BY <2>3
        <3>2. \A x \in OrgThreads : orgReq[x].user \in Users
            BY DEF OrgInv, OrgTypes
        <3> QED BY <1>0, <2>1, <2>2, <2>5, <3>1, <3>2 DEF MembersOnly
    <2> QED BY <1>0, <2>1, <2>2, <2>6, StepKeeps, DeletionUntouched DEF OrgSteps
<1>2. ASSUME WriteAssignment(t) PROVE OrgInv'
    <2>1. PICK s \in {"accepted", "none"} :
              /\ r.step \in {"assign", "reassign"} /\ GoOn(t, s)
              /\ UNCHANGED <<member, alive, deletion, purges, purging, day, strays, orgDeaths>>
        BY <1>2 DEF WriteAssignment
    <2>2. /\ inWorkspace' \subseteq Users
          /\ r.step = "assign" \/ r.wants = "in" \/ inWorkspace' \subseteq inWorkspace
          /\ \A u \in Users : u \in inWorkspace' => u \in inWorkspace \/ u = r.user
        BY <1>0, <1>2 DEF WriteAssignment
    <2>3. MembersOnly'
        BY <2>1, <2>2, EntriesEnd DEF OrgSteps, Entering, Belongs
    <2>4. Members
        BY <1>0, <2>1
    <2> QED BY <1>0, <2>1, <2>2, <2>3, <2>4, StepKeeps, DeletionUntouched DEF OrgSteps
<1>3. ASSUME MarkAccepted(t) PROVE OrgInv'
    <2>1. /\ r.step = "accepted" /\ GoOn(t, "none")
          /\ UNCHANGED <<member, inWorkspace, alive, deletion, purges, purging, day, strays,
                         orgDeaths>>
        BY <1>3 DEF MarkAccepted
    <2>2. Members
        BY <1>0, <2>1
    <2>3. MembersOnly'
        BY <2>1, EntriesEnd DEF OrgSteps, Belongs
    <2> QED BY <1>0, <2>1, <2>2, <2>3, StepKeeps, DeletionUntouched DEF OrgSteps
<1>4. ASSUME RemoveFromWorkspaces(t) PROVE OrgInv'
    <2>1. /\ r.step = "removeWs" /\ GoOn(t, "leave")
          /\ inWorkspace' = inWorkspace \ {r.user}
          /\ strays' = IF Enters(r.user) THEN strays \cup {r.user} ELSE strays \ {r.user}
          /\ UNCHANGED <<member, alive, deletion, purges, purging, day, orgDeaths>>
        BY <1>4 DEF RemoveFromWorkspaces, LeaveWorkspaces, Enters
    <2>2. Members
        BY <1>0, <2>1
    <2>3. r.user # Owner
        BY <2>1 DEF OrgInv, OwnerStays
    <2>4. /\ orgReq'[t].step = "leave" /\ orgReq'[t].user = r.user
          /\ \A x \in OrgThreads \ {t} : orgReq'[x] = orgReq[x]
          /\ ~Entering(orgReq'[t])
        BY <2>1, GoesOn DEF OrgSteps, Entering
    <2>5. \A u \in Users : (Assigned(u)' => Assigned(u)) /\ (Enters(u)' => Enters(u))
        BY <2>4 DEF Assigned, Enters
    <2>6. \A u \in Users : Assigned(u) => Enters(u)
        BY DEF Assigned, Enters
    <2>7. ASSUME NEW u \in Users, (u \in inWorkspace \/ Assigned(u))'
          PROVE  (Belongs(u) \/ u \in strays)'
        <3>1. CASE u = r.user
            BY <2>1, <2>5, <2>6, <2>7, <3>1
        <3>2. CASE u # r.user
            BY <1>0, <2>1, <2>5, <2>7, <3>2 DEF MembersOnly, Belongs
        <3> QED BY <3>1, <3>2
    <2>8. ASSUME NEW x \in OrgThreads, orgReq'[x].step = "leave",
                 (orgReq[x].user \in inWorkspace \/ Enters(orgReq[x].user))'
          PROVE  (orgReq[x].user \in strays)'
        <3>1. orgReq'[x].user = orgReq[x].user /\ orgReq[x].user \in Users
            BY <2>4 DEF OrgInv, OrgTypes
        <3>2. orgReq[x].user \in inWorkspace' \/ Enters(orgReq[x].user)
            BY <2>5, <2>8, <3>1
        <3>3. CASE orgReq[x].user = r.user
            BY <2>1, <3>1, <3>2, <3>3
        <3>4. CASE orgReq[x].user # r.user
            <4>1. orgReq[x].step = "leave"
                BY <2>4, <2>8, <3>4
            <4>2. orgReq[x].user \in strays
                BY <1>0, <2>1, <3>2, <4>1 DEF MembersOnly
            <4> QED BY <2>1, <3>1, <3>4, <4>2
        <3> QED BY <3>3, <3>4
    <2>9. MembersOnly'
        BY <2>7, <2>8 DEF MembersOnly
    <2> QED BY <1>0, <2>1, <2>2, <2>3, <2>9, StepKeeps, DeletionUntouched DEF OrgSteps
<1>5. ASSUME LeaveOrganization(t) PROVE OrgInv'
    <2>1. /\ r.step = "leave" /\ GoOn(t, "none")
          /\ member' = IF SameRow(r) THEN [member EXCEPT ![r.user].role = "none"] ELSE member
          /\ UNCHANGED <<inWorkspace, alive, deletion, purges, purging, day, strays, orgDeaths>>
        BY <1>5 DEF LeaveOrganization
    <2>2. r.user # Owner
        BY <2>1 DEF OrgInv, OwnerStays
    <2>3. /\ member' \in [Users -> [role: Roles, key: Nat]]
          /\ member'[r.user].role \in {member[r.user].role, "none"}
          /\ \A u \in Users \ {r.user} : member'[u] = member[u]
        BY <1>0, <2>1 DEF Roles
    <2>4. Members
        BY <1>0, <2>2, <2>3
    <2>5. MembersOnly'
        BY <2>1, <2>3, EntriesEnd DEF OrgSteps, Belongs
    <2> QED BY <1>0, <2>1, <2>4, <2>5, StepKeeps, DeletionUntouched DEF OrgSteps
<1>6. ASSUME SaveRole(t) PROVE OrgInv'
    <2>1. /\ r.step = "role" /\ GoOn(t, "none")
          /\ member' = IF SameRow(r) THEN [member EXCEPT ![r.user].role = r.wants] ELSE member
          /\ UNCHANGED <<inWorkspace, alive, deletion, purges, purging, day, strays, orgDeaths>>
        BY <1>6 DEF SaveRole
    <2>2. r.user # Owner /\ r.wants \in {"member", "admin"}
        BY <2>1 DEF OrgInv, OwnerStays, WishesFit
    <2>3. Members /\ \A u \in Users : Belongs(u) => Belongs(u)'
        BY <1>0, <2>1, <2>2 DEF Belongs, Roles, SameRow
    <2>4. MembersOnly'
        BY <2>1, <2>3, EntriesEnd DEF OrgSteps
    <2> QED BY <1>0, <2>1, <2>3, <2>4, StepKeeps, DeletionUntouched DEF OrgSteps
<1> QED BY <1>1, <1>2, <1>3, <1>4, <1>5, <1>6

\* The steps about the deletion leave the members alone.
LEMMA DeletionStepsKeep ==
    ASSUME OrgInv, NEW t \in OrgThreads,
           SaveDeletion(t) \/ QueueDeletion(t) \/ DropTasks(t) \/ CancelDeletion(t)
             \/ DeleteNow(t) \/ OrgRequestDies(t)
    PROVE  OrgInv'
<1> DEFINE r == orgReq[t]
           Types == orgReq' \in [OrgThreads -> [step: OrgSteps, user: Users, key: Nat,
                                                wants: Wishes]]
           Goes(s) == /\ orgReq'[t].step = s
                      /\ s # "none" => /\ orgReq'[t].user = orgReq[t].user
                                       /\ orgReq'[t].wants = orgReq[t].wants
                      /\ \A x \in OrgThreads \ {t} : orgReq'[x] = orgReq[x]
<1>0. /\ day \in Nat /\ Grace \in Nat /\ deletion \in Int /\ deletion <= day + Grace
      /\ purges \subseteq Int
    BY OrganizationConstants DEF OrgInv, OrgTypes
<1>1. ASSUME NEW s \in {"none", "task", "cancel", "delete"}, GoOn(t, s),
             UNCHANGED <<member, inWorkspace, strays>>
      PROVE  MembersOnly' /\ inWorkspace' \subseteq Users
    <2>1. MembersOnly'
        BY <1>1, EntriesEnd DEF OrgSteps, Belongs
    <2> QED BY <1>1, <2>1 DEF OrgInv
<1>2. CASE SaveDeletion(t)
    <2>1. /\ r.step = "date" /\ deletion' = day + Grace /\ GoOn(t, "task")
          /\ UNCHANGED <<member, inWorkspace, strays, alive, purges, purging, day, orgDeaths>>
        BY <1>2 DEF SaveDeletion
    <2>2. Types /\ Goes("task")
        BY <2>1, GoesOn DEF OrgSteps
    <2>3. DeletionComes'
        BY <2>2 DEF DeletionComes, InStep
    <2>4. deletion' \in Int /\ deletion' <= day' + Grace
        BY <1>0, <2>1
    <2>5. OrgTypes'
        BY <2>1, <2>2, <2>4 DEF OrgInv, OrgTypes
    <2>6. OwnerStays' /\ WishesFit'
        BY <2>1, <2>2 DEF OrgInv, OwnerStays, WishesFit
    <2> QED BY <1>1, <2>1, <2>3, <2>5, <2>6 DEF OrgInv
<1>3. CASE QueueDeletion(t)
    <2>1. /\ r.step = "task" /\ purges' = purges \cup {day + Grace} /\ GoOn(t, "none")
          /\ UNCHANGED <<member, inWorkspace, strays, alive, deletion, purging, day, orgDeaths>>
        BY <1>3 DEF QueueDeletion, TaskDay
    <2>2. Types /\ Goes("none")
        BY <2>1, GoesOn DEF OrgSteps
    <2>3. DeletionComes'
        BY <1>0, <2>1 DEF DeletionComes
    <2>4. OrgTypes'
        BY <1>0, <2>1, <2>2 DEF OrgInv, OrgTypes
    <2>5. OwnerStays' /\ WishesFit'
        BY <2>1, <2>2 DEF OrgInv, OwnerStays, WishesFit
    <2> QED BY <1>1, <2>1, <2>3, <2>4, <2>5 DEF OrgInv
<1>4. CASE DropTasks(t)
    <2>1. /\ r.step = "drop" /\ purges' = {} /\ GoOn(t, r.wants)
          /\ UNCHANGED <<member, inWorkspace, strays, alive, deletion, purging, day, orgDeaths>>
        BY <1>4 DEF DropTasks
    <2>2. r.wants \in {"cancel", "delete"}
        BY <2>1 DEF OrgInv, WishesFit
    <2>3. Types /\ Goes(r.wants)
        BY <2>1, <2>2, GoesOn DEF OrgSteps
    <2>4. DeletionComes'
        BY <2>2, <2>3 DEF DeletionComes, InStep
    <2>5. OrgTypes'
        BY <1>0, <2>1, <2>3 DEF OrgInv, OrgTypes
    <2>6. OwnerStays' /\ WishesFit'
        BY <2>1, <2>2, <2>3 DEF OrgInv, OwnerStays, WishesFit
    <2> QED BY <1>1, <2>1, <2>2, <2>4, <2>5, <2>6 DEF OrgInv
<1>5. CASE CancelDeletion(t)
    <2>1. /\ r.step = "cancel" /\ deletion' = NoDay /\ GoOn(t, "none")
          /\ UNCHANGED <<member, inWorkspace, strays, alive, purges, purging, day, orgDeaths>>
        BY <1>5 DEF CancelDeletion
    <2>2. Types /\ Goes("none")
        BY <2>1, GoesOn DEF OrgSteps
    <2>3. deletion' \in Int /\ deletion' <= day' + Grace
        BY <1>0, <2>1 DEF NoDay
    <2>4. DeletionComes'
        BY <2>1 DEF DeletionComes
    <2>5. OrgTypes'
        BY <2>1, <2>2, <2>3 DEF OrgInv, OrgTypes
    <2>6. OwnerStays' /\ WishesFit'
        BY <2>1, <2>2 DEF OrgInv, OwnerStays, WishesFit
    <2> QED BY <1>1, <2>1, <2>4, <2>5, <2>6 DEF OrgInv
<1>6. CASE DeleteNow(t)
    <2>1. /\ alive' = FALSE /\ GoOn(t, "none")
          /\ UNCHANGED <<member, inWorkspace, strays, deletion, purges, purging, day, orgDeaths>>
        BY <1>6 DEF DeleteNow
    <2>2. Types /\ Goes("none")
        BY <2>1, GoesOn DEF OrgSteps
    <2>3. DeletionComes'
        BY <2>1 DEF DeletionComes
    <2>4. alive' \in BOOLEAN
        BY <2>1, Zenon
    <2>5. OrgTypes'
        BY <2>1, <2>2, <2>4 DEF OrgInv, OrgTypes
    <2>6. OwnerStays' /\ WishesFit'
        BY <2>1, <2>2 DEF OrgInv, OwnerStays, WishesFit
    <2> QED BY <1>1, <2>1, <2>3, <2>5, <2>6 DEF OrgInv
<1>7. CASE OrgRequestDies(t)
    <2>1. /\ orgDeaths' = orgDeaths + 1 /\ GoOn(t, "none")
          /\ UNCHANGED <<member, inWorkspace, strays, alive, deletion, purges, purging, day>>
        BY <1>7 DEF OrgRequestDies
    <2>2. Types /\ Goes("none")
        BY <2>1, GoesOn DEF OrgSteps
    <2>3. orgDeaths' \in Nat /\ orgDeaths' # 0
        BY <2>1 DEF OrgInv, OrgTypes
    <2>4. DeletionComes'
        BY <2>3 DEF DeletionComes
    <2>5. OrgTypes'
        BY <2>1, <2>2, <2>3 DEF OrgInv, OrgTypes
    <2>6. OwnerStays' /\ WishesFit'
        BY <2>1, <2>2 DEF OrgInv, OwnerStays, WishesFit
    <2> QED BY <1>1, <2>1, <2>4, <2>5, <2>6 DEF OrgInv
<1> QED BY <1>2, <1>3, <1>4, <1>5, <1>6, <1>7

LEMMA OrgRestKeeps ==
    ASSUME OrgInv,
           \/ \E u \in Users \ {Owner} : Invite(u) \/ RevokeInvitation(u)
           \/ \E d \in purges : RunPurge(d)
           \/ Purge \/ Dawn \/ UNCHANGED orgVars
    PROVE  OrgInv'
<1>0. /\ day \in Nat /\ Grace \in Nat /\ deletion \in Int /\ deletion <= day + Grace
      /\ purges \subseteq Int
    BY OrganizationConstants DEF OrgInv, OrgTypes
<1>1. UNCHANGED <<member, inWorkspace, strays, orgReq, deletion, orgDeaths>>
    BY DEF Invite, RevokeInvitation, RunPurge, Purge, Dawn, orgVars
<1>2. /\ MembersOnly' /\ inWorkspace' \subseteq Users /\ OwnerStays' /\ WishesFit'
    BY <1>1 DEF OrgInv, MembersOnly, Belongs, Assigned, Enters, Entering, OwnerStays, WishesFit
<1>3. CASE UNCHANGED <<alive, purges, purging, day>>
    <2>1. OrgTypes' /\ DeletionComes'
        BY <1>1, <1>3 DEF OrgInv, OrgTypes, DeletionComes, InStep
    <2> QED BY <1>2, <2>1 DEF OrgInv
<1>4. ASSUME NEW d \in purges, RunPurge(d) PROVE OrgInv'
    <2>1. /\ d <= day /\ ~purging /\ purges' = purges \ {d}
          /\ purging' = (alive /\ deletion # NoDay /\ deletion <= day)
          /\ UNCHANGED <<alive, day>>
        BY <1>4 DEF RunPurge
    <2>2. purging' \in BOOLEAN
        BY <2>1, Zenon
    <2>3. OrgTypes'
        BY <1>0, <1>1, <2>1, <2>2 DEF OrgInv, OrgTypes
    <2>4. DeletionComes'
        <3> SUFFICES ASSUME alive', deletion' # NoDay, orgDeaths' = 0, ~purging',
                            InStep("task") \cup InStep("cancel") \cup InStep("delete") = {}
                     PROVE  \E x \in purges' : x >= deletion'
            BY <1>1 DEF DeletionComes, InStep
        <3>1. PICK x \in purges : x >= deletion
            BY <1>1, <2>1 DEF OrgInv, DeletionComes
        <3>2. ~(deletion <= day)
            BY <1>1, <2>1
        <3>3. x # d
            BY <1>0, <2>1, <3>1, <3>2
        <3> QED BY <1>1, <2>1, <3>1, <3>3
    <2> QED BY <1>2, <2>3, <2>4 DEF OrgInv
<1>5. CASE Purge
    <2>1. purging' = FALSE /\ alive' = FALSE /\ UNCHANGED <<purges, day>>
        BY <1>5 DEF Purge
    <2>2. purging' \in BOOLEAN /\ alive' \in BOOLEAN
        BY <2>1, Zenon
    <2>3. OrgTypes' /\ DeletionComes'
        BY <1>1, <2>1, <2>2 DEF OrgInv, OrgTypes, DeletionComes
    <2> QED BY <1>2, <2>3 DEF OrgInv
<1>6. CASE Dawn
    <2>1. day' = day + 1 /\ UNCHANGED <<alive, purges, purging>>
        BY <1>6 DEF Dawn
    <2>2. day' \in Nat /\ deletion <= day' + Grace
        BY <1>0, <2>1
    <2>3. OrgTypes' /\ DeletionComes'
        BY <1>1, <2>1, <2>2 DEF OrgInv, OrgTypes, DeletionComes, InStep
    <2> QED BY <1>2, <2>3 DEF OrgInv
<1>7. ((\E u \in Users \ {Owner} : Invite(u) \/ RevokeInvitation(u)) \/ UNCHANGED orgVars)
         => UNCHANGED <<alive, purges, purging, day>>
    BY DEF Invite, RevokeInvitation, orgVars
<1> QED BY <1>3, <1>4, <1>5, <1>6, <1>7

LEMMA OrgNextKeeps == OrgInv /\ [OrgNext]_orgVars => OrgInv'
BY BeginningsKeep, MemberStepsKeep, DeletionStepsKeep, OrgRestKeeps DEF OrgNext

LEMMA OrgInvHolds == OrgInv => OrganizationHolds
BY OrganizationConstants DEF OrgInv, OwnerStays, MembersOnly, OrganizationHolds, MembershipHolds, Owners

\* However removals, role changes, invitations and assignments overlap, the organization
\* keeps its owner; a removal leaves nobody in a workspace whose acceptance or assignment
\* was not under way between its two deletes; and a deletion that stands announced has
\* its task.
THEOREM OrganizationKept == OrgSpec => []OrganizationHolds
BY OrgInvInit, OrgNextKeeps, OrgInvHolds, PTL DEF OrgSpec

-------------------------------------------------------------------------------
(* Connections: whose hand has the pair that the platform honours *)

ConnectionTypes ==
    /\ account \in [row: Nat, token: Nat, status: ConnectionStatuses]
    /\ granted \in Nat
    /\ hand \in [Holders -> [step: {"none", "refresh", "profile", "save"}, row: Nat, read: Nat,
                             token: Nat, status: ConnectionStatuses]]

\* A copy is no older than what was read; one that has the last pair is of the row there is.
CopyOf(w) ==
    /\ hand[w].step = "none" => hand[w] = EmptyCopy
    /\ hand[w].step = "refresh" => hand[w].token = hand[w].read
    /\ hand[w].read <= hand[w].token /\ hand[w].token <= granted
    /\ hand[w].step # "none" /\ hand[w].token = granted /\ account.row # NoRow
          => hand[w].row = account.row

\* A hand that has the pair, where the row does not, got it from the platform.
PairHeld ==
    account.row # NoRow /\ ~slipped =>
        \/ account.token = granted
        \/ \E w \in Holders : /\ hand[w].row = account.row /\ hand[w].token = granted
                              /\ hand[w].read # hand[w].token

ConnectionInv == ConnectionTypes /\ account.token <= granted /\ (\A w \in Holders : CopyOf(w)) /\ PairHeld

LEMMA ConnectionInvInit == ConnectionInit => ConnectionInv
BY DEF ConnectionInit, ConnectionInv, ConnectionTypes, CopyOf, PairHeld, Disconnected, EmptyCopy,
       NoRow, ConnectionStatuses, Holders

LEMMA ConnectionNextKeeps == ConnectionInv /\ [ConnectionNext]_connectionVars => ConnectionInv'
<1> SUFFICES ASSUME ConnectionInv, [ConnectionNext]_connectionVars PROVE ConnectionInv'
    OBVIOUS
<1>0. /\ ConnectionTypes /\ account.token <= granted /\ PairHeld
      /\ \A w \in Holders : CopyOf(w)
    BY DEF ConnectionInv
<1> USE <1>0 DEF ConnectionTypes, CopyOf, PairHeld, NoRow, ConnectionStatuses
<1>1. ASSUME Connect PROVE ConnectionInv'
    BY <1>1 DEF Connect, ConnectionInv, EmptyCopy
<1>2. ASSUME Disconnect PROVE ConnectionInv'
    BY <1>2 DEF Disconnect, Disconnected, ConnectionInv, EmptyCopy
<1>3. ASSUME ScheduleCheck PROVE ConnectionInv'
    BY <1>3 DEF ScheduleCheck, ConnectionInv
<1>4. ASSUME NEW w \in Holders, NEW expiring \in BOOLEAN, ReadAccount(w, expiring)
      PROVE  ConnectionInv'
    BY <1>4 DEF ReadAccount, ConnectionInv, EmptyCopy
<1>5. ASSUME NEW w \in Holders, Refresh(w) PROVE ConnectionInv'
    BY <1>5 DEF Refresh, AfterRefresh, ConnectionInv, EmptyCopy
<1>6. ASSUME NEW w \in Holders, RefreshFails(w) \/ AnswerLost(w) PROVE ConnectionInv'
    <2>1. PICK status \in ConnectionStatuses, step \in {"profile", "save"} :
              hand' = [hand EXCEPT ![w] = IF w = "user" THEN EmptyCopy
                                          ELSE [hand[w] EXCEPT !.step = step, !.status = status]]
        BY <1>6 DEF RefreshFails, AnswerLost, TokenFault
    <2>2. /\ hand[w].step = "refresh" /\ UNCHANGED account
          /\ granted' \in Nat /\ granted <= granted'
          /\ slipped' \/ (granted' = granted /\ slipped' = slipped)
        BY <1>6 DEF RefreshFails, AnswerLost, TokenFault
    <2>3. CASE w = "user"
        BY <2>1, <2>2, <2>3 DEF ConnectionInv, EmptyCopy
    <2>4. CASE w # "user"
        <3>1. /\ ConnectionTypes' /\ hand'[w].step \in {"profile", "save"}
              /\ \A v \in Holders : /\ hand'[v].row = hand[v].row /\ hand'[v].read = hand[v].read
                                    /\ hand'[v].token = hand[v].token
                                    /\ v # w => hand'[v] = hand[v]
            BY <2>1, <2>2, <2>4
        <3>2. \A v \in Holders : CopyOf(v)'
            BY <2>2, <3>1
        <3>3. PairHeld'
            BY <2>2, <3>1
        <3> QED BY <2>2, <3>1, <3>2, <3>3 DEF ConnectionInv
    <2> QED BY <2>3, <2>4
<1>7. ASSUME NEW w \in Holders, SaveAccount(w) PROVE ConnectionInv'
    <2>1. /\ hand[w].step = "save" /\ hand' = [hand EXCEPT ![w] = EmptyCopy]
          /\ UNCHANGED granted
        BY <1>7 DEF SaveAccount
    <2>2. CASE hand[w].row = account.row
        <3>1. /\ account' = [account EXCEPT !.token = hand[w].token, !.status = hand[w].status]
              /\ ~slipped' => ~slipped /\ account.token = hand[w].read
            BY <1>7, <2>2 DEF SaveAccount, TokensToSave
        <3>2. account' \in [row: Nat, token: Nat, status: ConnectionStatuses]
            BY <3>1
        <3>3. account'.row = account.row /\ account'.token = hand[w].token
            BY <3>1
        <3>4. \A v \in Holders : CopyOf(v)'
            BY <2>1, <3>3 DEF EmptyCopy
        <3>5. PairHeld'
            BY <2>1, <3>1, <3>3 DEF EmptyCopy
        <3> QED BY <2>1, <3>2, <3>3, <3>4, <3>5 DEF ConnectionInv, EmptyCopy
    <2>3. CASE hand[w].row # account.row
        <3>1. account' = account /\ (~slipped' => ~slipped)
            BY <1>7, <2>3 DEF SaveAccount
        <3> QED BY <2>1, <2>3, <3>1 DEF ConnectionInv, EmptyCopy
    <2> QED BY <2>2, <2>3
<1>8. ASSUME NEW w \in Holders, HolderDies(w) PROVE ConnectionInv'
    <2>1. /\ hand' = [hand EXCEPT ![w] = EmptyCopy] /\ UNCHANGED <<account, granted>>
          /\ ~slipped' => ~slipped /\ hand[w].token = hand[w].read
        BY <1>8 DEF HolderDies
    <2> QED BY <2>1 DEF ConnectionInv, EmptyCopy
<1>9. ASSUME NEW ok \in BOOLEAN, FetchProfile(ok) PROVE ConnectionInv'
    BY <1>9 DEF FetchProfile, ConnectionInv, EmptyCopy, Holders
<1>10. ASSUME UNCHANGED connectionVars PROVE ConnectionInv'
    BY <1>10 DEF connectionVars, ConnectionInv
<1> QED BY <1>1, <1>2, <1>3, <1>4, <1>5, <1>6, <1>7, <1>8, <1>9, <1>10 DEF ConnectionNext

LEMMA ConnectionInvKeepsGrant == ConnectionInv => GrantKept
BY DEF ConnectionInv, PairHeld, GrantKept

\* The last pair the platform gave is in the row or in a hand that will save it there,
\* whoever refreshed it and whoever connected the account anew meanwhile, unless it was
\* lost on the way or saved over from an older copy.
THEOREM GrantStaysKept == ConnectionSpec => []GrantKept
BY ConnectionInvInit, ConnectionNextKeeps, ConnectionInvKeepsGrant, PTL DEF ConnectionSpec

-------------------------------------------------------------------------------
(* Grants: what the platforms grant, and what is stored of it *)

PlatformNames ==
    {"facebook", "instagram", "instagram_login", "threads", "linkedin_personal",
     "linkedin_company", "tiktok", "youtube", "google_business", "pinterest", "x", "mastodon",
     "bluesky", "devto"}

Lives == {"hours", "months", "ever"}

\* What the platforms' answers have in common: the end is told wherever a refresh token
\* comes, and wherever there is an end; who gets no refresh token is one of these.
GrantsAlike(p, t) ==
    /\ t.lives \subseteq Lives /\ t.told \subseteq BOOLEAN /\ t.refresh \subseteq BOOLEAN
    /\ p # "bluesky" => FALSE \notin t.told \/ t.lives \subseteq {"ever"}
    /\ p # "bluesky" /\ TRUE \in t.refresh => FALSE \notin t.told
    /\ FALSE \in t.refresh =>
          \/ p \in {"facebook", "instagram", "threads", "linkedin_personal", "linkedin_company"}
          \/ t.lives \subseteq {"ever"}
    /\ t.owns = "pages" => p \in {"facebook", "instagram", "linkedin_company"}
    /\ p \in {"facebook", "instagram"} => TRUE \notin t.refresh

LEMMA PlatformsNamed == GrantPlatforms = PlatformNames
BY DEF GrantPlatforms, ExchangedFor, PlatformNames

LEMMA PlatformsAlike == ASSUME NEW p \in GrantPlatforms PROVE GrantsAlike(p, ExchangedFor[p])
<1> USE DEF GrantsAlike, TokensOf, LinkedInTokens, Lives
<1>1. GrantsAlike("facebook", ExchangedFor["facebook"])
    BY DEF ExchangedFor, FacebookTokens
<1>2. GrantsAlike("instagram", ExchangedFor["instagram"])
    BY DEF ExchangedFor, InstagramTokens
<1>3. GrantsAlike("instagram_login", ExchangedFor["instagram_login"])
    BY DEF ExchangedFor, InstagramLoginTokens
<1>4. GrantsAlike("threads", ExchangedFor["threads"])
    BY DEF ExchangedFor, ThreadsTokens
<1>5. GrantsAlike("linkedin_personal", ExchangedFor["linkedin_personal"])
    BY DEF ExchangedFor, LinkedInPersonalTokens
<1>6. GrantsAlike("linkedin_company", ExchangedFor["linkedin_company"])
    BY DEF ExchangedFor, LinkedInCompanyTokens
<1>7. GrantsAlike("tiktok", ExchangedFor["tiktok"])
    BY DEF ExchangedFor, TikTokTokens
<1>8. GrantsAlike("youtube", ExchangedFor["youtube"])
    BY DEF ExchangedFor, YouTubeTokens
<1>9. GrantsAlike("google_business", ExchangedFor["google_business"])
    BY DEF ExchangedFor, GoogleBusinessTokens
<1>10. GrantsAlike("pinterest", ExchangedFor["pinterest"])
    BY DEF ExchangedFor, PinterestTokens
<1>11. GrantsAlike("x", ExchangedFor["x"])
    BY DEF ExchangedFor, XTokens
<1>12. GrantsAlike("mastodon", ExchangedFor["mastodon"])
    BY DEF ExchangedFor, MastodonTokens
<1>13. GrantsAlike("bluesky", ExchangedFor["bluesky"])
    BY DEF ExchangedFor, BlueskyTokens
<1>14. GrantsAlike("devto", ExchangedFor["devto"])
    BY DEF ExchangedFor, DevtoTokens
<1> HIDE DEF GrantsAlike
<1> QED BY PlatformsNamed, <1>1, <1>2, <1>3, <1>4, <1>5, <1>6, <1>7, <1>8, <1>9, <1>10, <1>11, <1>12,
           <1>13, <1>14 DEF PlatformNames

StoredGrants ==
    [platform: GrantPlatforms, via: {"login", "link"}, owner: {"person", "page"},
     name: {"person", "page"}, lapses: Nat, expires: Int, lives: Lives, refresh: BOOLEAN,
     status: {"connected", "token_expiring", "error"}, refused: BOOLEAN,
     used: {"not", "live", "lapsed"}]

\* The end that is stored is never past the true one, and is missing only where the
\* platform or the page's choice did not tell it.
EndStored(g) ==
    /\ g.expires = Unknown \/ g.expires \in 0..g.lapses
    /\ g.lives = "ever" => g.lapses = NoEnd
    /\ g.platform # "bluesky" =>
          \/ g.expires = g.lapses
          \/ g.expires = Unknown /\ (g.lapses = NoEnd \/ (g.owner = "page" /\ g.via = "login"))
    /\ g.expires = Unknown /\ g.platform # "bluesky" /\ g.refresh =>
          g.platform = "linkedin_company" /\ g.owner = "page" /\ g.via = "login"

RefreshStored(g) ==
    /\ g.refresh => TRUE \in ExchangedFor[g.platform].refresh
    /\ ~g.refresh =>
          \/ g.platform \in {"facebook", "instagram", "threads", "linkedin_personal",
                             "linkedin_company"}
          \/ g.lives = "ever"
    /\ ExchangedFor[g.platform].owns = "pages" /\ g.owner = "person" => g.via = "link"
    /\ g.status = "token_expiring" => g.refused
    /\ g.name = g.owner \/ g.platform = "linkedin_company"

\* A token that had lapsed when it was used was refused, is one nobody renews, or had an
\* end that could not be read.
UseExplained(g) ==
    g.used = "lapsed" =>
        g.refused \/ NotRenewed(g) \/ (g.platform = "bluesky" /\ g.expires = Unknown)

GrantInv ==
    /\ grantClock \in 0..LastTick
    /\ held # NoGrant =>
          /\ held \in StoredGrants /\ EndStored(held) /\ RefreshStored(held)
          /\ UseExplained(held) /\ held.lapses <= End(held.lives)

LEMMA EndIsLater ==
    ASSUME GrantInv, NEW lives \in Lives
    PROVE  End(lives) \in Nat /\ End(lives) > grantClock /\ (lives = "ever" => End(lives) = NoEnd)
BY GrantsAssumption DEF GrantInv, End, NoEnd, Lives

\* A grant as it is first stored, whichever way it came.
LEMMA StoreKeeps ==
    ASSUME GrantInv, NEW p \in GrantPlatforms, NEW via \in {"login", "link"},
           NEW owner \in {"person", "page"}, NEW lives \in ExchangedFor[p].lives,
           NEW tells \in BOOLEAN, NEW refresh \in ExchangedFor[p].refresh,
           tells \in ExchangedFor[p].told \/ (~tells /\ owner = "page" /\ via = "login"),
           owner = "page" /\ via = "login" => ExchangedFor[p].owns = "pages",
           ExchangedFor[p].owns = "pages" /\ owner = "person" => via = "link",
           held' = StoreGrant(p, via, owner, lives, tells, refresh), UNCHANGED grantClock
    PROVE  GrantInv'
<1>1. GrantsAlike(p, ExchangedFor[p])
    BY PlatformsAlike
<1>2. lives \in Lives /\ refresh \in BOOLEAN
    BY <1>1 DEF GrantsAlike
<1>3. End(lives) \in Nat /\ (lives = "ever" => End(lives) = NoEnd)
    BY <1>2, EndIsLater
<1>4. /\ held'.platform = p /\ held'.via = via /\ held'.owner = owner /\ held'.name = owner
      /\ held'.lapses = End(lives) /\ held'.expires = IF tells THEN End(lives) ELSE Unknown
      /\ held'.lives = lives /\ held'.refresh = refresh /\ held'.status = "connected"
      /\ held'.refused = FALSE /\ held'.used = "not"
    BY DEF StoreGrant
<1>5. held' \in StoredGrants
    BY <1>2, <1>3 DEF StoreGrant, StoredGrants, Unknown
<1>6. EndStored(held')
    <2>1. CASE tells
        BY <1>3, <1>4, <2>1 DEF EndStored, Unknown
    <2>2. CASE ~tells
        <3>1. tells = FALSE /\ (refresh => TRUE \in ExchangedFor[p].refresh)
            BY <2>2
        <3>2. FALSE \in ExchangedFor[p].told \/ (owner = "page" /\ via = "login")
            BY <3>1
        <3>3. p = "bluesky" \/ lives = "ever" \/ (owner = "page" /\ via = "login")
            BY <1>1, <3>2 DEF GrantsAlike
        <3>4. refresh /\ p # "bluesky" => p = "linkedin_company" /\ owner = "page" /\ via = "login"
            BY <1>1, <3>1, <3>2 DEF GrantsAlike
        <3> QED BY <1>3, <1>4, <2>2, <3>3, <3>4 DEF EndStored, Unknown
    <2> QED BY <2>1, <2>2
<1>7. RefreshStored(held')
    <2>1. refresh => TRUE \in ExchangedFor[p].refresh
        BY <1>2
    <2>2. ~refresh => FALSE \in ExchangedFor[p].refresh
        BY <1>2
    <2> QED BY <1>1, <1>2, <1>4, <2>1, <2>2 DEF GrantsAlike, RefreshStored
<1>8. UseExplained(held')
    BY <1>4 DEF UseExplained
<1>9. (held.lapses <= End(held.lives))'
    BY <1>2, <1>3, <1>4 DEF End, NoEnd
<1> QED BY <1>5, <1>6, <1>7, <1>8, <1>9 DEF GrantInv, EndStored, RefreshStored, UseExplained, NotRenewed, NoEnd

\* What a renewal makes of a grant that could be renewed.
LEMMA RenewalKeeps ==
    ASSUME GrantInv, held # NoGrant, held.refresh,
           held.expires # Unknown \/ held.platform = "bluesky",
           NEW flag \in {held.status, "token_expiring"},
           NEW g \in RenewedNow(held) \cup NotRenewedNow(held, flag)
    PROVE  /\ g \in StoredGrants /\ EndStored(g) /\ RefreshStored(g) /\ UseExplained(g)
           /\ (g.refused \/ Live(g)) /\ g.lapses <= End(g.lives)
<1>1. /\ held \in StoredGrants /\ EndStored(held) /\ RefreshStored(held) /\ UseExplained(held)
      /\ GrantsAlike(held.platform, ExchangedFor[held.platform]) /\ held.lives \in Lives
      /\ held.lapses <= End(held.lives)
    BY PlatformsAlike DEF GrantInv, StoredGrants
<1>2. /\ End(held.lives) \in Nat /\ End(held.lives) > grantClock
      /\ held.lives = "ever" => End(held.lives) = NoEnd
    BY <1>1, EndIsLater
<1>3. CASE g \in NotRenewedNow(held, flag)
    <2>1. g = [held EXCEPT !.refused = TRUE, !.status = flag]
        BY <1>3 DEF NotRenewedNow
    <2>2. g \in StoredGrants
        BY <1>1, <2>1 DEF StoredGrants
    <2>3. /\ g.platform = held.platform /\ g.via = held.via /\ g.owner = held.owner
          /\ g.name = held.name /\ g.lives = held.lives /\ g.refresh = held.refresh
          /\ g.lapses = held.lapses /\ g.expires = held.expires /\ g.used = held.used
          /\ g.refused = TRUE
        BY <1>1, <2>1 DEF StoredGrants
    <2>4. EndStored(g) /\ UseExplained(g) /\ g.lapses <= End(g.lives) /\ g.refused
        BY <1>1, <2>3 DEF EndStored, UseExplained
    <2>5. RefreshStored(g)
        BY <1>1, <2>3 DEF RefreshStored
    <2> QED BY <2>2, <2>4, <2>5
<1>4. CASE g \in RenewedNow(held)
    <2>1. PICK tells \in ExchangedFor[held.platform].told :
              g = [held EXCEPT !.lapses = End(held.lives), !.refused = FALSE,
                               !.status = "connected", !.used = "not",
                               !.expires = IF tells THEN End(held.lives) ELSE held.expires]
        BY <1>4 DEF RenewedNow
    <2>2. g \in StoredGrants
        <3>1. (IF tells THEN End(held.lives) ELSE held.expires) \in Int
            BY <1>1, <1>2 DEF StoredGrants
        <3> QED BY <1>1, <1>2, <2>1, <3>1 DEF StoredGrants
    <2>3. /\ g.platform = held.platform /\ g.via = held.via /\ g.owner = held.owner
          /\ g.name = held.name /\ g.lives = held.lives /\ g.refresh = held.refresh
          /\ g.lapses = End(held.lives) /\ g.refused = FALSE /\ g.status = "connected"
          /\ g.used = "not" /\ g.expires = IF tells THEN End(held.lives) ELSE held.expires
        BY <1>1, <2>1 DEF StoredGrants
    <2>4. EndStored(g)
        <3>1. CASE tells
            BY <1>1, <1>2, <2>3, <3>1 DEF EndStored, Unknown
        <3>2. CASE ~tells
            <4>1. tells = FALSE
                BY <1>1, <3>2 DEF GrantsAlike
            <4>2. held.platform = "bluesky"
                BY <1>1, <4>1 DEF GrantsAlike, RefreshStored
            <4> QED BY <1>1, <1>2, <2>3, <3>2, <4>2 DEF EndStored, StoredGrants, Unknown
        <3> QED BY <3>1, <3>2
    <2>5. RefreshStored(g)
        BY <1>1, <2>3 DEF RefreshStored
    <2>6. UseExplained(g) /\ Live(g) /\ g.lapses <= End(g.lives)
        BY <1>2, <2>3 DEF UseExplained, Live
    <2> QED BY <2>2, <2>4, <2>5, <2>6
<1> QED BY <1>3, <1>4

LEMMA ConnectingKeeps ==
    ASSUME GrantInv, NEW p \in GrantPlatforms,
           \/ ConnectPerson(p) \/ ConnectPages(p) \/ ConnectByLink(p)
           \/ p = "bluesky" /\ BlueskyByLink
    PROVE  GrantInv'
<1>1. GrantsAlike(p, ExchangedFor[p])
    BY PlatformsAlike
<1>2. CASE ConnectPerson(p)
    <2>1. PICK lives \in ExchangedFor[p].lives, tells \in ExchangedFor[p].told,
               refresh \in ExchangedFor[p].refresh :
              held' = StoreGrant(p, "login", "person", lives, tells, refresh)
        BY <1>2 DEF ConnectPerson
    <2>2. tells \in BOOLEAN /\ ExchangedFor[p].owns = "person" /\ UNCHANGED grantClock
        BY <1>1, <1>2 DEF ConnectPerson, GrantsAlike
    <2> QED BY <2>1, <2>2, StoreKeeps
<1>3. CASE ConnectPages(p)
    <2>1. PICK lives \in ExchangedFor[p].lives, refresh \in ExchangedFor[p].refresh :
              held' = StoreGrant(p, "login", "page", lives, FALSE, refresh)
        BY <1>3 DEF ConnectPages
    <2>2. FALSE \in BOOLEAN /\ ExchangedFor[p].owns = "pages" /\ UNCHANGED grantClock
        BY <1>3 DEF ConnectPages
    <2> QED BY <2>1, <2>2, StoreKeeps
<1>4. CASE ConnectByLink(p)
    <2>1. PICK lives \in ExchangedFor[p].lives, tells \in ExchangedFor[p].told,
               refresh \in ExchangedFor[p].refresh, owner \in {"person", "page"} :
              held' = StoreGrant(p, "link", owner, lives, tells, refresh)
        BY <1>4 DEF ConnectByLink
    <2>2. tells \in BOOLEAN /\ UNCHANGED grantClock
        BY <1>1, <1>4 DEF ConnectByLink, GrantsAlike
    <2> QED BY <2>1, <2>2, StoreKeeps
<1>5. CASE p = "bluesky" /\ BlueskyByLink
    <2>1. ExchangedFor[p] = BlueskyTokens
        BY <1>5 DEF ExchangedFor
    <2>2. PICK tells \in BlueskyTokens.told :
              held' = StoreGrant("bluesky", "link", "person", "hours", tells, TRUE)
        BY <1>5 DEF BlueskyByLink
    <2>3. /\ "hours" \in ExchangedFor[p].lives /\ TRUE \in ExchangedFor[p].refresh
          /\ tells \in ExchangedFor[p].told /\ UNCHANGED grantClock
        BY <1>5, <2>1 DEF BlueskyTokens, TokensOf, BlueskyByLink
    <2>4. tells \in BOOLEAN
        BY <1>1, <2>3 DEF GrantsAlike
    <2> QED BY <1>5, <2>2, <2>3, <2>4, StoreKeeps
<1> QED BY <1>2, <1>3, <1>4, <1>5

\* Renewed or not, the grant the check and the engine go on with.
GoesOnWith(g) ==
    /\ g \in StoredGrants /\ EndStored(g) /\ RefreshStored(g) /\ UseExplained(g)
    /\ g.lapses <= End(g.lives)

LEMMA HealthCheckKeeps == ASSUME GrantInv, HealthCheck PROVE GrantInv'
<1>1. held # NoGrant /\ UNCHANGED grantClock /\ GoesOnWith(held)
    BY DEF HealthCheck, GrantInv, GoesOnWith
<1>2. PICK g \in IF CheckRenews(held)
                 THEN RenewedNow(held) \cup NotRenewedNow(held, "token_expiring") ELSE {held} :
          held' = [g EXCEPT !.name = ProfileName(g)] \/ held' = [g EXCEPT !.status = "error"]
    BY DEF HealthCheck
<1>3. GoesOnWith(g)
    <2>1. CASE CheckRenews(held)
        <3>1. held.refresh /\ (held.expires # Unknown \/ held.platform = "bluesky")
            BY <2>1 DEF CheckRenews, ExpiringSoon
        <3>2. g \in RenewedNow(held) \cup NotRenewedNow(held, "token_expiring")
            BY <2>1
        <3> QED BY <1>1, <3>1, <3>2, RenewalKeeps DEF GoesOnWith
    <2>2. CASE ~CheckRenews(held)
        BY <1>1, <2>2
    <2> QED BY <2>1, <2>2
<1>4. ProfileName(g) \in {"person", "page"}
      /\ (ProfileName(g) = g.owner \/ g.platform = "linkedin_company")
    BY <1>3 DEF ProfileName, GoesOnWith, StoredGrants
<1>5. held' \in StoredGrants
    BY <1>2, <1>3, <1>4 DEF GoesOnWith, StoredGrants
<1>6. /\ held'.platform = g.platform /\ held'.via = g.via /\ held'.owner = g.owner
      /\ held'.lives = g.lives /\ held'.refresh = g.refresh /\ held'.lapses = g.lapses
      /\ held'.expires = g.expires /\ held'.used = g.used /\ held'.refused = g.refused
      /\ held'.name = g.name \/ held'.name = ProfileName(g)
      /\ held'.status = g.status \/ held'.status = "error"
    BY <1>2, <1>3 DEF GoesOnWith, StoredGrants
<1>7. EndStored(held') /\ UseExplained(held')
    BY <1>3, <1>6 DEF GoesOnWith, EndStored, UseExplained, NotRenewed
<1>8. RefreshStored(held')
    BY <1>3, <1>4, <1>6 DEF GoesOnWith, RefreshStored
<1>9. (held.lapses <= End(held.lives))'
    BY <1>1, <1>3, <1>6 DEF GoesOnWith, End
<1> QED BY <1>1, <1>5, <1>7, <1>8, <1>9 DEF GrantInv, HealthCheck

LEMMA UseTokenKeeps == ASSUME GrantInv, UseToken PROVE GrantInv'
<1>1. held # NoGrant /\ UNCHANGED grantClock /\ GoesOnWith(held) /\ grantClock \in 0..LastTick
    BY DEF UseToken, GrantInv, GoesOnWith
<1>2. PICK g \in IF ExpiringSoon(held) /\ held.refresh
                 THEN RenewedNow(held) \cup NotRenewedNow(held, held.status) ELSE {held} :
          held' = [g EXCEPT !.used = IF Live(g) THEN "live" ELSE "lapsed"]
    BY DEF UseToken
<1>3. GoesOnWith(g) /\ (ExpiringSoon(held) /\ held.refresh => g.refused \/ Live(g))
      /\ (~(ExpiringSoon(held) /\ held.refresh) => g = held)
    <2>1. CASE ExpiringSoon(held) /\ held.refresh
        <3>1. held.expires # Unknown
            BY <2>1 DEF ExpiringSoon
        <3>2. g \in RenewedNow(held) \cup NotRenewedNow(held, held.status)
            BY <2>1
        <3> QED BY <1>1, <2>1, <3>1, <3>2, RenewalKeeps DEF GoesOnWith
    <2>2. CASE ~(ExpiringSoon(held) /\ held.refresh)
        BY <1>1, <1>2, <2>2
    <2> QED BY <2>1, <2>2
<1>4. held' \in StoredGrants
    BY <1>2, <1>3 DEF GoesOnWith, StoredGrants
<1>5. /\ held'.platform = g.platform /\ held'.via = g.via /\ held'.owner = g.owner
      /\ held'.lives = g.lives /\ held'.refresh = g.refresh /\ held'.lapses = g.lapses
      /\ held'.expires = g.expires /\ held'.refused = g.refused /\ held'.name = g.name
      /\ held'.status = g.status /\ (held'.used = "lapsed" <=> ~Live(g))
    BY <1>2, <1>3 DEF GoesOnWith, StoredGrants
\* Without a renewal the end is far, or there is no refresh token.
<1>6. ~Live(g) => g.refused \/ NotRenewed(g) \/ (g.platform = "bluesky" /\ g.expires = Unknown)
    <2>1. SUFFICES ASSUME ~Live(held), ~(ExpiringSoon(held) /\ held.refresh)
                   PROVE  NotRenewed(held) \/ (held.platform = "bluesky" /\ held.expires = Unknown)
        BY <1>3
    <2>2. held.lapses <= grantClock /\ held.lapses # NoEnd /\ held.lapses \in Nat
        BY <1>1, <2>1, GrantsAssumption DEF Live, NoEnd, GoesOnWith, StoredGrants
    <2>3. CASE ~held.refresh
        BY <1>1, <2>2, <2>3 DEF GoesOnWith, RefreshStored, EndStored, NotRenewed
    <2>4. CASE held.refresh
        <3>1. held.expires = Unknown \/ held.expires >= grantClock + Soon
            BY <1>1, <2>1, <2>4, GrantsAssumption DEF ExpiringSoon, GoesOnWith, StoredGrants
        <3>2. held.expires = Unknown
            BY <1>1, <2>2, <3>1, GrantsAssumption DEF GoesOnWith, EndStored, Unknown
        <3> QED BY <1>1, <2>4, <3>2 DEF GoesOnWith, EndStored, NotRenewed
    <2> QED BY <2>3, <2>4
<1>7. UseExplained(held')
    BY <1>5, <1>6 DEF UseExplained, NotRenewed
<1>8. EndStored(held') /\ RefreshStored(held')
    BY <1>3, <1>5 DEF GoesOnWith, EndStored, RefreshStored
<1>9. (held.lapses <= End(held.lives))'
    BY <1>1, <1>3, <1>5 DEF GoesOnWith, End
<1> QED BY <1>1, <1>4, <1>7, <1>8, <1>9 DEF GrantInv

LEMMA GrantInvInit == GrantInit => GrantInv
BY GrantsAssumption DEF GrantInit, GrantInv

LEMMA GrantNextKeeps == GrantInv /\ [GrantNext]_grantVars => GrantInv'
<1> SUFFICES ASSUME GrantInv, [GrantNext]_grantVars PROVE GrantInv'
    OBVIOUS
<1>1. CASE GrantTick
    <2>1. held # NoGrant => held.lapses \in Nat /\ held.lives \in Lives
        BY DEF GrantInv, StoredGrants
    <2>2. grantClock' = grantClock + 1 /\ grantClock < LastTick /\ held' = held
        BY <1>1 DEF GrantTick
    <2>3. held # NoGrant => held.lapses <= End(held.lives)'
        BY <2>1, <2>2, GrantsAssumption DEF GrantInv, End, Lives, NoEnd
    <2> QED BY <2>2, <2>3, GrantsAssumption DEF GrantInv
<1>2. CASE UNCHANGED grantVars
    BY <1>2 DEF grantVars, GrantInv, EndStored, RefreshStored, UseExplained, NotRenewed, End, NoEnd
<1> QED BY <1>1, <1>2, ConnectingKeeps, HealthCheckKeeps, UseTokenKeeps DEF GrantNext

LEMMA GrantInvHolds == GrantInv => GrantsHold
BY DEF GrantInv, EndStored, RefreshStored, UseExplained, GrantsHold, UsedWhileLive, EndIsKnown,
       ExpiringMeansRefused, NamedAfterItself, NoEnd

\* Whatever the platform and the way in: a post goes out with a token that is good, a
\* coming end is known, and the account stays what it was connected as, but for the
\* platforms and refusals that the four parts of GrantsHold name.
THEOREM GrantsStayGood == GrantSpec => []GrantsHold
BY GrantInvInit, GrantNextKeeps, GrantInvHolds, PTL DEF GrantSpec

-------------------------------------------------------------------------------
(* Connecting: what an authorization was begun for, and where it has got to *)

AuthRecords ==
    [ws: {p[1] : p \in Places}, kind: {p[2] : p \in Places}, browser: Browsers, client: Nat,
     at: {"open", "declined", "spent"}]
SessionRecords == [oauth: Nat, select: Nat]
TabRecords ==
    [step: CallSteps, auth: Nat, copy: SessionRecords,
     place: Places \cup {<<LinkWorkspace, "pages">>}, row: Nat]

ConnectTypes ==
    /\ browserOf \in [Tabs -> Browsers]
    /\ sessions \in [Browsers -> SessionRecords]
    /\ auths \in Seq(AuthRecords)
    /\ apps \in Nat
    /\ clients \in Seq(Browsers)
    /\ socialAccounts \in [Places -> [row: Nat, grant: Nat]]
    /\ mayConnect \in [Browsers -> BOOLEAN]
    /\ tabs \in [Tabs -> TabRecords]
    /\ tooLate \subseteq DOMAIN auths

\* A selection is of an authorization of that browser that was exchanged.
Selectable(b, n) ==
    n # NoAuth =>
        n \in DOMAIN auths \ tooLate /\ auths[n].browser = b /\ auths[n].at = "spent"

\* A request at work has the authorization it names, for the place it is about to store.
TabAt(t) ==
    /\ tabs[t].step = "idle" => tabs[t] = IdleTab
    /\ Selectable(browserOf[t], tabs[t].copy.select)
    /\ tabs[t].step \in {"register", "save app", "start"} =>
          tabs[t].place \in Places /\ tabs[t].auth = NoAuth
    /\ tabs[t].step = "save app" => tabs[t].row # NoAuth
    /\ tabs[t].step = "register" => tabs[t].place[2] = "instance"
    /\ tabs[t].step = "start" /\ tabs[t].place[2] = "instance" =>
          tabs[t].row = apps /\ apps # NoAuth
    /\ tabs[t].step \in {"exchange", "store", "queue", "usage"} =>
          /\ tabs[t].auth \in DOMAIN auths \ tooLate
          /\ auths[tabs[t].auth].browser = browserOf[t]
          /\ AskedFor(tabs[t].auth) = tabs[t].place
          /\ tabs[t].step # "exchange" => auths[tabs[t].auth].at = "spent"
    /\ tabs[t].step = "usage" => browserOf[t] = "client"

\* An instance has one client; who came back too late may not connect again.
AuthAt(n) ==
    /\ AskedFor(n) \in Places
    /\ auths[n].kind = "instance" => auths[n].client = apps /\ apps # NoAuth
    /\ n \in tooLate => ~mayConnect[auths[n].browser]

Finishing(row, b) ==
    \E t \in Tabs : /\ tabs[t].step \in {"queue", "usage"} /\ tabs[t].row = row
                    /\ browserOf[t] = b

\* An account was created, and is granted, by authorizations for its place.
AccountFor(p) ==
    LET a == socialAccounts[p] IN
    a # NoAccount =>
        /\ a.row \in DOMAIN auths /\ AskedFor(a.row) = p
        /\ a.grant \in DOMAIN auths \ tooLate /\ AskedFor(a.grant) = p
        /\ auths[a.grant].at = "spent"

\* It has its queue, and its count by the link, or a request has that yet to do.
InFullAt(p) ==
    LET a == socialAccounts[p] IN
    a # NoAccount =>
        /\ a.row \in defaultQueues \cup died \/ Unfinished(a.row, {"queue"})
        /\ auths[a.grant].browser = "client" =>
              a.row \in linkUsages \cup died \/ Finishing(a.row, "client")

AccountAt(p) == AccountFor(p) /\ InFullAt(p)

ConnectInv ==
    /\ ConnectTypes /\ ~appRefused
    /\ \A b \in Browsers : Selectable(b, sessions[b].select)
    /\ \A t \in Tabs : TabAt(t)
    /\ \A n \in DOMAIN auths : AuthAt(n)
    /\ \A p \in Places : AccountAt(p)

LEMMA IdleTabType == IdleTab \in TabRecords /\ IdleTab.step = "idle" /\ IdleTab.copy.select = NoAuth
                     /\ IdleTab.auth = NoAuth /\ IdleTab.row = 0
BY DEF IdleTab, Call, TabRecords, NoSession, SessionRecords, CallSteps, NoAuth

LEMMA ConnectInvInit == ConnectInit => ConnectInv
<1> SUFFICES ASSUME ConnectInit PROVE ConnectInv
    OBVIOUS
<1> USE ConnectingAssumption DEF ConnectInit, NoAuth
<1>1. ConnectTypes
    BY IdleTabType DEF ConnectTypes, Browsers, NoSession, SessionRecords, NoAccount
<1>2. \A b \in Browsers : Selectable(b, sessions[b].select)
    BY DEF Selectable, NoSession
<1>3. \A t \in Tabs : TabAt(t)
    BY IdleTabType DEF TabAt, Selectable
<1>4. \A n \in DOMAIN auths : AuthAt(n)
    OBVIOUS
<1>5. \A p \in Places : AccountAt(p)
    BY DEF AccountAt, AccountFor, InFullAt
<1> QED BY <1>1, <1>2, <1>3, <1>4, <1>5 DEF ConnectInv

\* An authorization stays what it was begun as, and spent once it is.
AuthsKept ==
    \A n \in DOMAIN auths :
        /\ n \in DOMAIN auths' /\ AskedFor(n)' = AskedFor(n)
        /\ auths'[n].kind = auths[n].kind /\ auths'[n].browser = auths[n].browser
        /\ auths'[n].client = auths[n].client
        /\ auths[n].at = "spent" => auths'[n].at = "spent"

\* Only what no request is finishing can come back too late.
LatecomersOnly ==
    \A n \in tooLate' \ tooLate :
        /\ n \in DOMAIN auths' /\ auths'[n].at = "open" /\ ~mayConnect[auths'[n].browser]
        /\ \A t \in Tabs : tabs[t].auth # n

LEMMA SelectableStays ==
    ASSUME AuthsKept, LatecomersOnly, NEW b, NEW n, Selectable(b, n)
    PROVE  Selectable(b, n)'
BY DEF AuthsKept, LatecomersOnly, Selectable

LEMMA TabStays ==
    ASSUME ConnectInv, AuthsKept, LatecomersOnly,
           UNCHANGED browserOf, apps # NoAuth => apps' = apps,
           NEW t \in Tabs, tabs'[t] = tabs[t]
    PROVE  TabAt(t)'
<1>1. TabAt(t)
    BY DEF ConnectInv
<1>2. Selectable(browserOf[t], tabs[t].copy.select)'
    <2>1. Selectable(browserOf[t], tabs[t].copy.select)
        BY <1>1 DEF TabAt
    <2>2. Selectable(browserOf[t], tabs[t].copy.select)
              => \/ tabs[t].copy.select = NoAuth
                 \/ /\ tabs[t].copy.select \in DOMAIN auths' \ tooLate'
                    /\ auths'[tabs[t].copy.select].browser = browserOf[t]
                    /\ auths'[tabs[t].copy.select].at = "spent"
        BY DEF Selectable, AuthsKept, LatecomersOnly
    <2> QED BY <2>1, <2>2 DEF Selectable
<1>3. tabs[t].auth \notin tooLate => tabs[t].auth \notin tooLate'
    BY DEF LatecomersOnly
<1> QED BY <1>1, <1>2, <1>3 DEF TabAt, AuthsKept

LEMMA AuthStays ==
    ASSUME ConnectInv, AuthsKept, LatecomersOnly,
           UNCHANGED mayConnect, apps # NoAuth => apps' = apps,
           NEW n \in DOMAIN auths
    PROVE  AuthAt(n)'
BY DEF ConnectInv, AuthAt, AuthsKept, LatecomersOnly

LEMMA AccountForStays ==
    ASSUME ConnectInv, AuthsKept, LatecomersOnly,
           NEW p \in Places, socialAccounts'[p] = socialAccounts[p]
    PROVE  AccountFor(p)'
BY DEF ConnectInv, AccountAt, AccountFor, AuthsKept, LatecomersOnly

LEMMA AccountStays ==
    ASSUME ConnectInv, AuthsKept, LatecomersOnly, UNCHANGED browserOf,
           NEW p \in Places, socialAccounts'[p] = socialAccounts[p],
           UNCHANGED <<defaultQueues, linkUsages, died>>,
           \A t \in Tabs : tabs[t].step \in {"queue", "usage"} => tabs'[t] = tabs[t]
    PROVE  AccountAt(p)'
<1>1. AccountFor(p)'
    BY AccountForStays
<1>2. InFullAt(p)'
    BY DEF ConnectInv, AccountAt, AccountFor, InFullAt, AuthsKept, Unfinished, Finishing
<1> QED BY <1>1, <1>2 DEF AccountAt

\* What a request leaves of the others: only its own tab, and its browser's session, change.
LEMMA AnswerKeeps ==
    ASSUME ConnectInv, AuthsKept, LatecomersOnly,
           UNCHANGED browserOf, apps # NoAuth => apps' = apps,
           NEW t \in Tabs, NEW copy \in SessionRecords, Selectable(browserOf[t], copy.select)',
           Respond(t, copy)
    PROVE  /\ sessions' \in [Browsers -> SessionRecords] /\ tabs' \in [Tabs -> TabRecords]
           /\ \A b \in Browsers : Selectable(b, sessions[b].select)'
           /\ \A u \in Tabs : TabAt(u)'
<1>1. /\ sessions \in [Browsers -> SessionRecords] /\ tabs \in [Tabs -> TabRecords]
      /\ browserOf[t] \in Browsers
    BY DEF ConnectInv, ConnectTypes
<1>2. sessions' \in [Browsers -> SessionRecords] /\ tabs' \in [Tabs -> TabRecords]
    BY <1>1, IdleTabType DEF Respond
<1>3. ASSUME NEW b \in Browsers PROVE Selectable(b, sessions[b].select)'
    <2>1. CASE b = browserOf[t]
        <3>1. sessions'[b].select = copy.select
            BY <1>1, <2>1 DEF Respond
        <3> QED BY <2>1, <3>1 DEF Selectable
    <2>2. CASE b # browserOf[t]
        <3>1. sessions'[b].select = sessions[b].select /\ Selectable(b, sessions[b].select)
            BY <1>1, <2>2 DEF Respond, ConnectInv
        <3> QED BY <3>1 DEF Selectable, AuthsKept, LatecomersOnly
    <2> QED BY <2>1, <2>2
<1>4. ASSUME NEW u \in Tabs PROVE TabAt(u)'
    <2>1. CASE u = t
        <3>1. tabs'[u] = IdleTab
            BY <1>1, <2>1 DEF Respond
        <3> QED BY <3>1, IdleTabType DEF TabAt, Selectable
    <2>2. CASE u # t
        <3>1. tabs'[u] = tabs[u]
            BY <1>1, <2>2 DEF Respond
        <3> QED BY <3>1, TabStays
    <2> QED BY <2>1, <2>2
<1> QED BY <1>2, <1>3, <1>4

LEMMA RespondKeeps ==
    ASSUME ConnectInv, AuthsKept, LatecomersOnly,
           UNCHANGED browserOf, apps # NoAuth => apps' = apps,
           NEW t \in Tabs, NEW copy \in SessionRecords, Selectable(browserOf[t], copy.select),
           Respond(t, copy)
    PROVE  /\ sessions' \in [Browsers -> SessionRecords] /\ tabs' \in [Tabs -> TabRecords]
           /\ \A b \in Browsers : Selectable(b, sessions[b].select)'
           /\ \A u \in Tabs : TabAt(u)'
<1>1. Selectable(browserOf[t], copy.select)'
    BY SelectableStays
<1> QED BY <1>1, AnswerKeeps

LEMMA TabMoves ==
    ASSUME ConnectInv, AuthsKept, LatecomersOnly,
           UNCHANGED browserOf, apps # NoAuth => apps' = apps,
           UNCHANGED sessions, NEW t \in Tabs, NEW new \in TabRecords,
           tabs' = [tabs EXCEPT ![t] = new], TabAt(t)'
    PROVE  /\ sessions' \in [Browsers -> SessionRecords] /\ tabs' \in [Tabs -> TabRecords]
           /\ \A b \in Browsers : Selectable(b, sessions[b].select)'
           /\ \A u \in Tabs : TabAt(u)'
<1>1. sessions \in [Browsers -> SessionRecords] /\ tabs \in [Tabs -> TabRecords]
    BY DEF ConnectInv, ConnectTypes
<1>2. ASSUME NEW b \in Browsers PROVE Selectable(b, sessions[b].select)'
    BY <1>1 DEF Selectable, AuthsKept, LatecomersOnly, ConnectInv
<1>3. ASSUME NEW u \in Tabs PROVE TabAt(u)'
    <2>1. CASE u # t
        <3>1. tabs'[u] = tabs[u]
            BY <1>1, <2>1
        <3> QED BY <3>1, TabStays
    <2> QED BY <2>1
<1> QED BY <1>1, <1>2, <1>3

LEMMA SessionOf ==
    ASSUME NEW oauth \in Nat, NEW select \in Nat
    PROVE  /\ [oauth |-> oauth, select |-> select] \in SessionRecords
           /\ [oauth |-> oauth, select |-> select].select = select
BY DEF SessionRecords

\* A session that a request has read is safe to write back.
LEMMA SessionSafe ==
    ASSUME ConnectInv, NEW t \in Tabs
    PROVE  /\ TabAt(t) /\ tabs[t] \in TabRecords /\ tabs[t].copy \in SessionRecords
           /\ Selectable(browserOf[t], tabs[t].copy.select)
           /\ browserOf[t] \in Browsers /\ Here(t) \in SessionRecords
           /\ Selectable(browserOf[t], Here(t).select)
           /\ tabs[t] = [step |-> tabs[t].step, auth |-> tabs[t].auth, copy |-> tabs[t].copy,
                         place |-> tabs[t].place, row |-> tabs[t].row]
           /\ tabs[t].copy.oauth \in Nat /\ tabs[t].copy.select \in Nat
           /\ Here(t).oauth \in Nat /\ Here(t).select \in Nat
<1>1. tabs[t] \in TabRecords /\ browserOf[t] \in Browsers /\ TabAt(t) /\ Here(t) \in SessionRecords
    BY DEF ConnectInv, ConnectTypes, Here
<1>2. tabs[t].copy \in SessionRecords
    BY <1>1 DEF TabRecords
<1>3. Selectable(browserOf[t], tabs[t].copy.select)
    BY <1>1 DEF TabAt
<1>4. Selectable(browserOf[t], Here(t).select)
    BY <1>1 DEF ConnectInv, Here
<1>5. tabs[t] = [step |-> tabs[t].step, auth |-> tabs[t].auth, copy |-> tabs[t].copy,
                 place |-> tabs[t].place, row |-> tabs[t].row]
    BY <1>1 DEF TabRecords
<1>6. /\ tabs[t].copy.oauth \in Nat /\ tabs[t].copy.select \in Nat
      /\ Here(t).oauth \in Nat /\ Here(t).select \in Nat
    BY <1>1, <1>2 DEF SessionRecords
<1> QED BY <1>1, <1>2, <1>3, <1>4, <1>5, <1>6

LEMMA NobodyLate == ASSUME UNCHANGED tooLate PROVE LatecomersOnly
BY DEF LatecomersOnly

LEMMA AuthsUnchanged == ASSUME UNCHANGED auths PROVE AuthsKept
BY DEF AuthsKept, AskedFor

LEMMA OpenStartKeeps ==
    ASSUME ConnectInv, NEW t \in Tabs, NEW p \in Places, OpenStart(t, p[1], p[2]) PROVE ConnectInv'
<1> USE DEF KeepRest, KeepRows, KeepHistory, KeepPlatform
<1>1. AuthsKept /\ UNCHANGED <<browserOf, tooLate, sessions, apps>>
    BY AuthsUnchanged DEF OpenStart
<1>2. PICK first \in {"register", "start"}, copy \in SessionRecords, app \in Nat :
            /\ tabs' = [tabs EXCEPT ![t] = Call(first, NoAuth, copy, p, app)]
            /\ first = (IF p[2] = "instance" /\ apps = NoAuth THEN "register" ELSE "start")
            /\ copy = Here(t) /\ app = apps
    <2>1. p = <<p[1], p[2]>> /\ Here(t) \in SessionRecords /\ apps \in Nat
        BY ConnectingAssumption, SessionSafe DEF ConnectInv, ConnectTypes
    <2> QED BY <2>1 DEF OpenStart
<1>3. Call(first, NoAuth, copy, p, app) \in TabRecords
    BY DEF TabRecords, CallSteps, NoAuth, Call
<1>4. tabs'[t] = Call(first, NoAuth, copy, p, app)
    BY <1>2 DEF ConnectInv, ConnectTypes
<1>5. Selectable(browserOf[t], copy.select)'
    BY SessionSafe, <1>1, <1>2 DEF Selectable, OpenStart
<1>6. TabAt(t)'
    <2>1. /\ tabs'[t].step = first /\ tabs'[t].auth = NoAuth /\ tabs'[t].copy = copy
          /\ tabs'[t].place = p /\ tabs'[t].row = app
        BY <1>4 DEF Call
    <2>2. Selectable(browserOf[t], tabs[t].copy.select)'
        BY <1>5, <2>1 DEF Selectable
    <2> QED BY <1>1, <1>2, <2>1, <2>2 DEF TabAt
<1>7. /\ sessions' \in [Browsers -> SessionRecords] /\ tabs' \in [Tabs -> TabRecords]
      /\ \A b \in Browsers : Selectable(b, sessions[b].select)'
      /\ \A u \in Tabs : TabAt(u)'
    BY <1>1, <1>2, <1>3, <1>6, NobodyLate, TabMoves
<1>8. \A n \in DOMAIN auths' : AuthAt(n)'
    BY <1>1, NobodyLate, AuthStays DEF OpenStart
<1>9. \A q \in Places : AccountAt(q)'
    <2>1. \A u \in Tabs : tabs[u].step \in {"queue", "usage"} => tabs'[u] = tabs[u]
        BY <1>2, IdleTabType DEF OpenStart, ConnectInv, ConnectTypes
    <2> QED BY <1>1, <2>1, NobodyLate, AccountStays DEF OpenStart
<1>10. ConnectTypes' /\ ~appRefused'
    BY <1>7 DEF ConnectInv, ConnectTypes, OpenStart
<1> QED BY <1>7, <1>8, <1>9, <1>10 DEF ConnectInv

\* A request that only goes on to its next step, its row perhaps set.
LEMMA StepAsCall ==
    ASSUME ConnectInv, NEW t \in Tabs, tabs[t].step # "idle",
           NEW step \in CallSteps, NEW row \in Nat
    PROVE  /\ [tabs[t] EXCEPT !.step = step, !.row = row]
                  = Call(step, tabs[t].auth, tabs[t].copy, tabs[t].place, row)
           /\ Call(step, tabs[t].auth, tabs[t].copy, tabs[t].place, row) \in TabRecords
<1>1. tabs[t] \in TabRecords
    BY SessionSafe
<1>2. /\ tabs[t].auth \in Nat /\ tabs[t].copy \in SessionRecords
      /\ tabs[t].place \in Places \cup {<<LinkWorkspace, "pages">>}
    BY <1>1 DEF TabRecords
<1>3. Call(step, tabs[t].auth, tabs[t].copy, tabs[t].place, row) \in TabRecords
    BY <1>2 DEF TabRecords, Call
<1>4. DOMAIN tabs[t] = {"step", "auth", "copy", "place", "row"}
    BY <1>1 DEF TabRecords
<1>5. [tabs[t] EXCEPT !.step = step, !.row = row]
          = [f \in {"step", "auth", "copy", "place", "row"} |->
                IF f = "row" THEN row ELSE IF f = "step" THEN step ELSE tabs[t][f]]
    BY <1>1, <1>4 DEF TabRecords
<1>6. Call(step, tabs[t].auth, tabs[t].copy, tabs[t].place, row)
          = [f \in {"step", "auth", "copy", "place", "row"} |->
                IF f = "row" THEN row ELSE IF f = "step" THEN step ELSE tabs[t][f]]
    BY <1>1 DEF Call
<1> QED BY <1>3, <1>5, <1>6

LEMMA CallGoesOn ==
    ASSUME ConnectInv, AuthsKept, LatecomersOnly, UNCHANGED <<browserOf, apps, sessions>>,
           NEW t \in Tabs, tabs[t].step \in {"exchange", "store", "queue", "usage"},
           tabs[t].step = "exchange" => auths'[tabs[t].auth].at = "spent",
           NEW step \in {"store", "queue", "usage"}, NEW row \in Nat,
           step = "usage" => browserOf[t] = "client",
           tabs' = [tabs EXCEPT ![t] = [tabs[t] EXCEPT !.step = step, !.row = row]]
    PROVE  /\ sessions' \in [Browsers -> SessionRecords] /\ tabs' \in [Tabs -> TabRecords]
           /\ \A b \in Browsers : Selectable(b, sessions[b].select)'
           /\ \A u \in Tabs : TabAt(u)'
           /\ tabs'[t].step = step /\ tabs'[t].row = row
           /\ \A u \in Tabs : u # t => tabs'[u] = tabs[u]
<1>1. PICK new : new = Call(step, tabs[t].auth, tabs[t].copy, tabs[t].place, row)
    OBVIOUS
<1>2. tabs' = [tabs EXCEPT ![t] = new] /\ new \in TabRecords
    <2>1. tabs[t].step # "idle" /\ step \in CallSteps
        BY DEF CallSteps
    <2>2. [tabs[t] EXCEPT !.step = step, !.row = row] = new /\ new \in TabRecords
        BY <1>1, <2>1, StepAsCall
    <2> QED BY <2>2
<1>3. /\ tabs'[t].step = step /\ tabs'[t].auth = tabs[t].auth /\ tabs'[t].row = row
      /\ tabs'[t].copy = tabs[t].copy /\ tabs'[t].place = tabs[t].place
    BY <1>1, <1>2 DEF Call, ConnectInv, ConnectTypes
<1>4. Selectable(browserOf[t], tabs[t].copy.select)'
    <2>1. Selectable(browserOf[t], tabs[t].copy.select)
        BY SessionSafe
    <2>2. Selectable(browserOf[t], tabs[t].copy.select)
              => \/ tabs[t].copy.select = NoAuth
                 \/ /\ tabs[t].copy.select \in DOMAIN auths' \ tooLate'
                    /\ auths'[tabs[t].copy.select].browser = browserOf[t]
                    /\ auths'[tabs[t].copy.select].at = "spent"
        BY DEF Selectable, AuthsKept, LatecomersOnly
    <2> QED BY <1>3, <2>1, <2>2 DEF Selectable
<1>5. tabs[t].auth \notin tooLate => tabs[t].auth \notin tooLate'
    BY DEF LatecomersOnly
<1>6. TabAt(t)'
    <2>1. /\ tabs[t].auth \in DOMAIN auths \ tooLate
          /\ auths[tabs[t].auth].browser = browserOf[t]
          /\ AskedFor(tabs[t].auth) = tabs[t].place
          /\ tabs[t].step # "exchange" => auths[tabs[t].auth].at = "spent"
        BY SessionSafe DEF TabAt
    <2>2. PICK n \in DOMAIN auths : n = tabs[t].auth
        BY <2>1
    <2>3. /\ n \in DOMAIN auths' \ tooLate' /\ auths'[n].browser = browserOf[t]
          /\ AskedFor(n)' = tabs[t].place /\ auths'[n].at = "spent"
        BY <1>5, <2>1, <2>2 DEF AuthsKept
    <2> QED BY <1>3, <1>4, <2>2, <2>3 DEF TabAt
<1>7. \A u \in Tabs : u # t => tabs'[u] = tabs[u]
    BY <1>2 DEF ConnectInv, ConnectTypes
<1> QED BY <1>2, <1>3, <1>6, <1>7, TabMoves

LEMMA RegisterAppKeeps ==
    ASSUME ConnectInv, NEW t \in Tabs, RegisterApp(t) PROVE ConnectInv'
<1> USE DEF KeepRest, KeepRows, KeepHistory, KeepPlatform
<1>1. AuthsKept /\ UNCHANGED <<browserOf, tooLate, apps>>
    BY AuthsUnchanged DEF RegisterApp
<1>2. clients' \in Seq(Browsers)
    <2>1. clients \in Seq(Browsers) /\ browserOf[t] \in Browsers
        BY DEF ConnectInv, ConnectTypes
    <2>2. clients' = Append(clients, browserOf[t]) \/ clients' = clients
        BY DEF RegisterApp
    <2> QED BY <2>1, <2>2
<1>3. /\ sessions' \in [Browsers -> SessionRecords] /\ tabs' \in [Tabs -> TabRecords]
      /\ \A b \in Browsers : Selectable(b, sessions[b].select)'
      /\ \A u \in Tabs : TabAt(u)'
    <2>1. CASE Respond(t, tabs[t].copy)
        BY <1>1, <2>1, SessionSafe, NobodyLate, RespondKeeps
    <2>2. CASE tabs' = [tabs EXCEPT ![t].step = "save app", ![t].row = Len(clients) + 1]
               /\ UNCHANGED sessions
        <3>1. PICK row \in Nat \ {0} : row = Len(clients) + 1
            BY DEF ConnectInv, ConnectTypes
        <3>2. PICK new : new = Call("save app", tabs[t].auth, tabs[t].copy, tabs[t].place, row)
            OBVIOUS
        <3>3. tabs' = [tabs EXCEPT ![t] = new] /\ new \in TabRecords
            <4>1. /\ [tabs[t] EXCEPT !.step = "save app", !.row = row] = new
                  /\ new \in TabRecords
                BY <3>1, <3>2, StepAsCall DEF RegisterApp, CallSteps
            <4> QED BY <2>2, <3>1, <4>1 DEF ConnectInv, ConnectTypes
        <3>4. /\ tabs'[t].step = "save app" /\ tabs'[t].auth = tabs[t].auth
              /\ tabs'[t].copy = tabs[t].copy /\ tabs'[t].place = tabs[t].place
              /\ tabs'[t].row = row
            BY <3>2, <3>3 DEF Call, ConnectInv, ConnectTypes
        <3>5. Selectable(browserOf[t], tabs[t].copy.select)'
            BY <1>1, <3>4, SessionSafe DEF Selectable, RegisterApp
        <3>6. TabAt(t)'
            BY <1>1, <3>1, <3>4, <3>5, SessionSafe, NoAuth = 0 DEF TabAt, RegisterApp, NoAuth
        <3> QED BY <1>1, <2>2, <3>3, <3>6, NobodyLate, TabMoves
    <2> QED BY <2>1, <2>2 DEF RegisterApp
<1>4. \A n \in DOMAIN auths' : AuthAt(n)'
    BY <1>1, NobodyLate, AuthStays DEF RegisterApp
<1>5. \A q \in Places : AccountAt(q)'
    <2>1. \A u \in Tabs : tabs[u].step \in {"queue", "usage"} => tabs'[u] = tabs[u]
        BY DEF RegisterApp, Respond, ConnectInv, ConnectTypes
    <2> QED BY <1>1, <2>1, NobodyLate, AccountStays DEF RegisterApp
<1>6. ConnectTypes' /\ ~appRefused'
    BY <1>2, <1>3 DEF ConnectInv, ConnectTypes, RegisterApp
<1> QED BY <1>3, <1>4, <1>5, <1>6 DEF ConnectInv

LEMMA SaveAppKeeps ==
    ASSUME ConnectInv, NEW t \in Tabs, SaveApp(t) PROVE ConnectInv'
<1> USE DEF KeepRest, KeepRows, KeepHistory, KeepPlatform
<1>1. AuthsKept /\ UNCHANGED <<browserOf, tooLate>> /\ (apps # NoAuth => apps' = apps)
    BY AuthsUnchanged DEF SaveApp, SavedApp
<1>2. tabs[t].row \in Nat \ {0} /\ apps' \in Nat \ {0}
    <2>1. tabs[t].row # NoAuth /\ tabs[t].row \in Nat /\ apps \in Nat
        BY SessionSafe DEF SaveApp, TabAt, TabRecords, ConnectInv, ConnectTypes
    <2> QED BY <2>1 DEF SaveApp, SavedApp, NoAuth
<1>3. /\ sessions' \in [Browsers -> SessionRecords] /\ tabs' \in [Tabs -> TabRecords]
      /\ \A b \in Browsers : Selectable(b, sessions[b].select)'
      /\ \A u \in Tabs : TabAt(u)'
    <2>1. CASE Respond(t, tabs[t].copy)
        BY <1>1, <2>1, SessionSafe, NobodyLate, RespondKeeps
    <2>2. CASE apps' = tabs[t].row /\ ToStep(t, "start") /\ UNCHANGED sessions
        <3>1. PICK new : new = Call("start", tabs[t].auth, tabs[t].copy, tabs[t].place, tabs[t].row)
            OBVIOUS
        <3>2. tabs' = [tabs EXCEPT ![t] = new] /\ new \in TabRecords
            <4>1. /\ [tabs[t] EXCEPT !.step = "start", !.row = tabs[t].row] = new
                  /\ new \in TabRecords
                BY <1>2, <3>1, StepAsCall DEF SaveApp, CallSteps
            <4>2. [tabs[t] EXCEPT !.step = "start"] = new
                BY <4>1, SessionSafe
            <4> QED BY <2>2, <4>1, <4>2 DEF ConnectInv, ConnectTypes, ToStep
        <3>3. /\ tabs'[t].step = "start" /\ tabs'[t].auth = tabs[t].auth
              /\ tabs'[t].copy = tabs[t].copy /\ tabs'[t].place = tabs[t].place
              /\ tabs'[t].row = tabs[t].row
            BY <3>1, <3>2 DEF Call, ConnectInv, ConnectTypes
        <3>4. Selectable(browserOf[t], tabs[t].copy.select)'
            BY <1>1, <3>3, SessionSafe DEF Selectable, SaveApp
        <3>5. TabAt(t)'
            BY <1>1, <1>2, <2>2, <3>3, <3>4, SessionSafe DEF TabAt, SaveApp, NoAuth
        <3> QED BY <1>1, <2>2, <3>2, <3>5, NobodyLate, TabMoves
    <2> QED BY <2>1, <2>2 DEF SaveApp
<1>4. \A n \in DOMAIN auths' : AuthAt(n)'
    BY <1>1, NobodyLate, AuthStays DEF SaveApp
<1>5. \A q \in Places : AccountAt(q)'
    <2>1. \A u \in Tabs : tabs[u].step \in {"queue", "usage"} => tabs'[u] = tabs[u]
        BY DEF SaveApp, Respond, ToStep, ConnectInv, ConnectTypes
    <2> QED BY <1>1, <2>1, NobodyLate, AccountStays DEF SaveApp
<1>6. ConnectTypes' /\ ~appRefused'
    BY <1>2, <1>3 DEF ConnectInv, ConnectTypes, SaveApp
<1> QED BY <1>3, <1>4, <1>5, <1>6 DEF ConnectInv

LEMMA EndStartKeeps ==
    ASSUME ConnectInv, NEW t \in Tabs, EndStart(t) PROVE ConnectInv'
<1> USE DEF KeepRest, KeepRows, KeepHistory, KeepPlatform
<1>1. /\ auths \in Seq(AuthRecords) /\ Begun \in Nat /\ DOMAIN auths = 1..Begun
      /\ browserOf[t] \in Browsers /\ tabs[t] \in TabRecords /\ TabAt(t)
      /\ tabs[t].step = "start" /\ tabs[t].place \in Places
    <2>1. auths \in Seq(AuthRecords) /\ Begun \in Nat /\ DOMAIN auths = 1..Begun
        BY DEF ConnectInv, ConnectTypes, Begun
    <2>2. browserOf[t] \in Browsers /\ tabs[t] \in TabRecords /\ TabAt(t)
        BY SessionSafe
    <2> QED BY <2>1, <2>2 DEF EndStart, TabAt
<1>2. PICK a \in AuthRecords :
            /\ a.ws = tabs[t].place[1] /\ a.kind = tabs[t].place[2] /\ a.browser = browserOf[t]
            /\ a.client = tabs[t].row /\ a.at = "open" /\ auths' = Append(auths, a)
    <2>1. tabs[t].row \in Nat
        BY <1>1 DEF TabRecords
    <2>2. tabs[t].place[1] \in {p[1] : p \in Places} /\ tabs[t].place[2] \in {p[2] : p \in Places}
        BY <1>1
    <2> QED BY <1>1, <2>1, <2>2 DEF EndStart, AuthRecords
<1>3. /\ auths' \in Seq(AuthRecords) /\ DOMAIN auths' = DOMAIN auths \cup {Begun + 1}
      /\ auths'[Begun + 1] = a /\ \A n \in DOMAIN auths : auths'[n] = auths[n]
    BY <1>1, <1>2 DEF Begun
<1>4. AuthsKept /\ UNCHANGED <<browserOf, tooLate, apps>>
    BY <1>3 DEF EndStart, AuthsKept, AskedFor
<1>5. /\ sessions' \in [Browsers -> SessionRecords] /\ tabs' \in [Tabs -> TabRecords]
      /\ \A b \in Browsers : Selectable(b, sessions[b].select)'
      /\ \A u \in Tabs : TabAt(u)'
    <2>1. PICK copy \in SessionRecords :
                copy.select = tabs[t].copy.select /\ Respond(t, copy)
        <3>1. tabs[t].copy.select \in Nat
            BY SessionSafe
        <3>2. Begun + 1 \in Nat
            BY <1>1
        <3>3. Respond(t, [oauth |-> Begun + 1, select |-> tabs[t].copy.select])
            BY DEF EndStart
        <3> QED BY <3>1, <3>2, <3>3, SessionOf
    <2> QED BY <1>4, <2>1, SessionSafe, NobodyLate, RespondKeeps
<1>6. ASSUME NEW n \in DOMAIN auths' PROVE AuthAt(n)'
    <2>1. CASE n \in DOMAIN auths
        BY <1>4, <2>1, NobodyLate, AuthStays DEF EndStart
    <2>2. CASE n = Begun + 1 /\ n \notin DOMAIN auths
        <3>1. auths'[n] = a
            BY <1>3, <2>2
        <3>2. AskedFor(n)' = tabs[t].place
            BY <1>1, <1>2, <3>1, ConnectingAssumption DEF AskedFor
        <3>3. n \notin tooLate'
            <4>1. tooLate \subseteq DOMAIN auths
                BY DEF ConnectInv, ConnectTypes
            <4> QED BY <1>4, <2>2, <4>1
        <3>4. a.kind = "instance" => a.client = apps' /\ apps' # NoAuth
            BY <1>1, <1>2, <1>4 DEF TabAt
        <3> QED BY <1>1, <3>1, <3>2, <3>3, <3>4 DEF AuthAt
    <2> QED BY <1>3, <2>1, <2>2
<1>7. \A q \in Places : AccountAt(q)'
    <2>1. \A u \in Tabs : tabs[u].step \in {"queue", "usage"} => tabs'[u] = tabs[u]
        BY DEF EndStart, Respond, ConnectInv, ConnectTypes
    <2> QED BY <1>4, <2>1, NobodyLate, AccountStays DEF EndStart
<1>8. ConnectTypes' /\ ~appRefused'
    BY <1>3, <1>4, <1>5 DEF ConnectInv, ConnectTypes, EndStart
<1> QED BY <1>5, <1>6, <1>7, <1>8 DEF ConnectInv

\* An authorization declined, or spent.
LEMMA MarkKeeps ==
    ASSUME ConnectInv, NEW n \in DOMAIN auths, NEW at \in {"open", "declined", "spent"},
           auths[n].at = "spent" => at = "spent", auths' = [auths EXCEPT ![n].at = at]
    PROVE  /\ AuthsKept /\ auths' \in Seq(AuthRecords) /\ DOMAIN auths' = DOMAIN auths
           /\ auths'[n].at = at
<1>1. auths \in Seq(AuthRecords) /\ auths[n] \in AuthRecords
    BY DEF ConnectInv, ConnectTypes
<1>2. DOMAIN auths' = DOMAIN auths /\ auths'[n].at = at
    BY <1>1 DEF AuthRecords
<1>3. auths' \in Seq(AuthRecords)
    <2>1. [auths[n] EXCEPT !.at = at] \in AuthRecords
        BY <1>1 DEF AuthRecords
    <2> QED BY <1>1, <2>1
<1>4. ASSUME NEW m \in DOMAIN auths
      PROVE  /\ auths'[m].ws = auths[m].ws /\ auths'[m].kind = auths[m].kind
             /\ auths'[m].browser = auths[m].browser /\ auths'[m].client = auths[m].client
             /\ auths'[m].at = IF m = n THEN at ELSE auths[m].at
    <2>1. CASE m = n
        BY <1>1, <2>1 DEF AuthRecords
    <2>2. CASE m # n
        BY <2>2
    <2> QED BY <2>1, <2>2
<1> QED BY <1>2, <1>3, <1>4 DEF AuthsKept, AskedFor

LEMMA UserDeclinesKeeps ==
    ASSUME ConnectInv, NEW t \in Tabs, NEW n \in DOMAIN auths, UserDeclines(t, n)
    PROVE  ConnectInv'
<1> USE DEF KeepRest, KeepRows, KeepHistory, KeepPlatform
<1>1. UNCHANGED <<browserOf, tooLate, apps>>
    BY DEF UserDeclines
<1>2. AuthsKept /\ auths' \in Seq(AuthRecords) /\ DOMAIN auths' = DOMAIN auths
    BY MarkKeeps DEF UserDeclines
<1>3. /\ sessions' \in [Browsers -> SessionRecords] /\ tabs' \in [Tabs -> TabRecords]
      /\ \A b \in Browsers : Selectable(b, sessions[b].select)'
      /\ \A u \in Tabs : TabAt(u)'
    <2>1. PICK copy \in SessionRecords : copy.select = Here(t).select /\ Respond(t, copy)
        BY SessionSafe, SessionOf DEF UserDeclines, NoAuth
    <2> QED BY <1>1, <1>2, <2>1, SessionSafe, NobodyLate, RespondKeeps
<1>4. \A m \in DOMAIN auths' : AuthAt(m)'
    BY <1>1, <1>2, NobodyLate, AuthStays DEF UserDeclines
<1>5. \A q \in Places : AccountAt(q)'
    <2>1. \A u \in Tabs : tabs[u].step \in {"queue", "usage"} => tabs'[u] = tabs[u]
        BY IdleTabType DEF UserDeclines, Respond, ConnectInv, ConnectTypes
    <2> QED BY <1>1, <1>2, <2>1, NobodyLate, AccountStays DEF UserDeclines
<1>6. ConnectTypes' /\ ~appRefused'
    BY <1>2, <1>3 DEF ConnectInv, ConnectTypes, UserDeclines
<1> QED BY <1>3, <1>4, <1>5, <1>6 DEF ConnectInv

LEMMA OpenCallbackKeeps ==
    ASSUME ConnectInv, NEW t \in Tabs, NEW n \in DOMAIN auths, OpenCallback(t, n)
    PROVE  ConnectInv'
<1> USE DEF KeepRest, KeepRows, KeepPlatform
<1>1. AuthsKept /\ UNCHANGED <<browserOf, apps, auths>>
    BY AuthsUnchanged DEF OpenCallback
<1>2. LatecomersOnly /\ tooLate' \subseteq DOMAIN auths
    BY DEF LatecomersOnly, OpenCallback, ConnectInv, ConnectTypes
<1>3. PICK copy \in SessionRecords :
            /\ copy.select = Here(t).select
            /\ \/ Respond(t, copy)
               \/ /\ Here(t).oauth = n /\ StillAllowed(t, n) /\ UNCHANGED sessions
                  /\ tabs' = [tabs EXCEPT ![t] = Call("exchange", n, copy, AskedFor(n), 0)]
    <2>1. Here(t).select \in Nat /\ NoAuth \in Nat
        BY SessionSafe DEF NoAuth
    <2> QED BY <2>1, SessionOf DEF OpenCallback
<1>4. /\ sessions' \in [Browsers -> SessionRecords] /\ tabs' \in [Tabs -> TabRecords]
      /\ \A b \in Browsers : Selectable(b, sessions[b].select)'
      /\ \A u \in Tabs : TabAt(u)'
    <2>1. CASE Respond(t, copy)
        BY <1>1, <1>2, <1>3, <2>1, SessionSafe, RespondKeeps
    <2>2. CASE /\ Here(t).oauth = n /\ StillAllowed(t, n) /\ UNCHANGED sessions
               /\ tabs' = [tabs EXCEPT ![t] = Call("exchange", n, copy, AskedFor(n), 0)]
        <3>1. PICK place \in Places : place = AskedFor(n)
            BY DEF ConnectInv, AuthAt
        <3>2. n \in Nat
            BY DEF ConnectInv, ConnectTypes
        <3>3. n \notin tooLate'
            BY <2>2 DEF OpenCallback, StillAllowed, ConnectInv, ConnectTypes, AuthAt
        <3>4. Call("exchange", n, copy, place, 0) \in TabRecords
            BY <3>2 DEF TabRecords, CallSteps, Call
        <3>5. /\ tabs'[t].step = "exchange" /\ tabs'[t].auth = n /\ tabs'[t].copy = copy
              /\ tabs'[t].place = place
            BY <2>2, <3>1 DEF Call, ConnectInv, ConnectTypes
        <3>6. Selectable(browserOf[t], tabs[t].copy.select)'
            <4>1. Selectable(browserOf[t], copy.select)
                BY <1>3, SessionSafe
            <4>2. Selectable(browserOf[t], copy.select)'
                BY <1>1, <1>2, <4>1, SelectableStays
            <4> QED BY <3>5, <4>2 DEF Selectable
        <3>7. TabAt(t)'
            BY <1>1, <3>1, <3>3, <3>5, <3>6 DEF TabAt, OpenCallback, AskedFor
        <3> QED BY <1>1, <1>2, <2>2, <3>1, <3>4, <3>7, TabMoves
    <2> QED BY <1>3, <2>1, <2>2
<1>5. \A m \in DOMAIN auths' : AuthAt(m)'
    BY <1>1, <1>2, AuthStays DEF OpenCallback
<1>6. \A q \in Places : AccountAt(q)'
    <2>1. \A u \in Tabs : tabs[u].step \in {"queue", "usage"} => tabs'[u] = tabs[u]
        BY <1>3, IdleTabType DEF OpenCallback, Respond, ConnectInv, ConnectTypes
    <2> QED BY <1>1, <1>2, <2>1, AccountStays DEF OpenCallback
<1>7. ConnectTypes' /\ ~appRefused'
    BY <1>1, <1>2, <1>4 DEF ConnectInv, ConnectTypes, OpenCallback
<1> QED BY <1>4, <1>5, <1>6, <1>7 DEF ConnectInv

LEMMA ExchangeKeeps ==
    ASSUME ConnectInv, NEW t \in Tabs, Exchange(t) PROVE ConnectInv'
<1> USE DEF KeepRest, KeepRows, KeepPlatform
<1>1. PICK n \in DOMAIN auths : n = tabs[t].auth /\ n \notin tooLate
    BY SessionSafe DEF Exchange, TabAt
<1>2. UNCHANGED <<browserOf, tooLate, apps>>
    BY DEF Exchange
<1>3. /\ AuthsKept /\ auths' \in Seq(AuthRecords) /\ DOMAIN auths' = DOMAIN auths
      /\ auths'[n].at = "spent"
    BY <1>1, MarkKeeps DEF Exchange
<1>4. ~appRefused'
    <2>1. SameClient(n) /\ ~appRefused
        BY <1>1 DEF SameClient, ConnectInv, AuthAt
    <2> QED BY <1>1, <2>1 DEF Exchange
<1>5. auths'[n].browser = browserOf[t] /\ AskedFor(n)' = tabs[t].place
    <2>1. auths[n].browser = browserOf[t] /\ AskedFor(n) = tabs[t].place
        BY <1>1, SessionSafe DEF Exchange, TabAt
    <2> QED BY <1>3, <2>1 DEF AuthsKept
<1>6. /\ sessions' \in [Browsers -> SessionRecords] /\ tabs' \in [Tabs -> TabRecords]
      /\ \A b \in Browsers : Selectable(b, sessions[b].select)'
      /\ \A u \in Tabs : TabAt(u)'
    <2>1. CASE Respond(t, tabs[t].copy)
        BY <1>2, <1>3, <2>1, SessionSafe, NobodyLate, RespondKeeps
    <2>2. CASE Respond(t, [oauth |-> tabs[t].copy.oauth, select |-> n])
        <3>1. tabs[t].copy.oauth \in Nat /\ n \in Nat
            BY SessionSafe, <1>1 DEF ConnectInv, ConnectTypes
        <3>2. PICK copy \in SessionRecords : copy.select = n /\ Respond(t, copy)
            BY <2>2, <3>1, SessionOf
        <3>3. Selectable(browserOf[t], copy.select)'
            BY <1>1, <1>2, <1>3, <1>5, <3>2 DEF Selectable
        <3> QED BY <1>2, <1>3, <3>2, <3>3, NobodyLate, AnswerKeeps
    <2>3. CASE ToStep(t, "store") /\ UNCHANGED sessions
        <3>1. PICK row \in Nat : row = tabs[t].row
            BY SessionSafe DEF TabRecords
        <3>2. tabs' = [tabs EXCEPT ![t] = [tabs[t] EXCEPT !.step = "store", !.row = row]]
            <4>1. [tabs[t] EXCEPT !.step = "store", !.row = row] = [tabs[t] EXCEPT !.step = "store"]
                BY <3>1, SessionSafe
            <4> QED BY <2>3, <4>1 DEF ToStep, ConnectInv, ConnectTypes
        <3>3. LatecomersOnly /\ tabs[t].step = "exchange"
            BY <1>2, NobodyLate DEF Exchange
        <3> QED BY <1>1, <1>2, <1>3, <2>3, <3>2, <3>3, CallGoesOn
    <2> QED BY <1>1, <2>1, <2>2, <2>3 DEF Exchange
<1>7. \A m \in DOMAIN auths' : AuthAt(m)'
    BY <1>2, <1>3, NobodyLate, AuthStays DEF Exchange
<1>8. \A q \in Places : AccountAt(q)'
    <2>1. \A u \in Tabs : tabs[u].step \in {"queue", "usage"} => tabs'[u] = tabs[u]
        BY DEF Exchange, Respond, ToStep, ConnectInv, ConnectTypes
    <2> QED BY <1>2, <1>3, <2>1, NobodyLate, AccountStays DEF Exchange
<1>9. ConnectTypes' /\ ~appRefused'
    BY <1>2, <1>3, <1>4, <1>6 DEF ConnectInv, ConnectTypes, Exchange
<1> QED BY <1>6, <1>7, <1>8, <1>9 DEF ConnectInv

LEMMA CallFailsKeeps ==
    ASSUME ConnectInv, NEW t \in Tabs, CallFails(t) PROVE ConnectInv'
<1> USE DEF KeepRest, KeepRows, KeepPlatform, KeepHistory
<1>1. tabs[t].auth \in DOMAIN auths
    BY SessionSafe DEF CallFails, TabAt
<1>2. UNCHANGED <<browserOf, tooLate, apps>>
    BY DEF CallFails
<1>3. AuthsKept /\ auths' \in Seq(AuthRecords) /\ DOMAIN auths' = DOMAIN auths
    BY <1>1, MarkKeeps DEF CallFails
<1>4. /\ sessions' \in [Browsers -> SessionRecords] /\ tabs' \in [Tabs -> TabRecords]
      /\ \A b \in Browsers : Selectable(b, sessions[b].select)'
      /\ \A u \in Tabs : TabAt(u)'
    <2>1. Respond(t, tabs[t].copy)
        BY DEF CallFails
    <2> QED BY <1>2, <1>3, <2>1, SessionSafe, NobodyLate, RespondKeeps
<1>5. \A m \in DOMAIN auths' : AuthAt(m)'
    BY <1>2, <1>3, NobodyLate, AuthStays DEF CallFails
<1>6. \A q \in Places : AccountAt(q)'
    <2>1. \A u \in Tabs : tabs[u].step \in {"queue", "usage"} => tabs'[u] = tabs[u]
        BY DEF CallFails, Respond, ConnectInv, ConnectTypes
    <2> QED BY <1>2, <1>3, <2>1, NobodyLate, AccountStays DEF CallFails
<1>7. ConnectTypes' /\ ~appRefused'
    BY <1>2, <1>3, <1>4 DEF ConnectInv, ConnectTypes, CallFails
<1> QED BY <1>4, <1>5, <1>6, <1>7 DEF ConnectInv

LEMMA OpenSelectKeeps ==
    ASSUME ConnectInv, NEW t \in Tabs, OpenSelect(t) PROVE ConnectInv'
<1> USE DEF KeepRest, KeepRows, KeepPlatform, KeepHistory
<1>1. AuthsKept /\ UNCHANGED <<browserOf, apps, auths, tooLate, sessions>>
    BY AuthsUnchanged DEF OpenSelect
<1>2. PICK n \in DOMAIN auths :
            /\ n = Here(t).select /\ n \notin tooLate
            /\ auths[n].browser = browserOf[t] /\ auths[n].at = "spent"
    BY SessionSafe DEF OpenSelect, Selectable
<1>3. PICK copy \in SessionRecords :
            /\ copy.select = NoAuth
            /\ tabs' = [tabs EXCEPT ![t] = Call("store", n, copy, AskedFor(n), 0)]
    <2>1. Here(t).oauth \in Nat /\ NoAuth \in Nat
        BY SessionSafe DEF NoAuth
    <2> QED BY <1>2, <2>1, SessionOf DEF OpenSelect, SelectionTarget
<1>4. PICK place \in Places : place = AskedFor(n)
    BY DEF ConnectInv, AuthAt
<1>5. n \in Nat
    BY DEF ConnectInv, ConnectTypes
<1>6. Call("store", n, copy, place, 0) \in TabRecords
    BY <1>5 DEF TabRecords, CallSteps, Call
<1>7. /\ tabs'[t].step = "store" /\ tabs'[t].auth = n /\ tabs'[t].copy = copy
      /\ tabs'[t].place = place
    BY <1>3, <1>4 DEF Call, ConnectInv, ConnectTypes
<1>8. TabAt(t)'
    <2>1. Selectable(browserOf[t], tabs[t].copy.select)'
        BY <1>3, <1>7 DEF Selectable
    <2> QED BY <1>1, <1>2, <1>4, <1>7, <2>1 DEF TabAt, AskedFor
<1>9. /\ sessions' \in [Browsers -> SessionRecords] /\ tabs' \in [Tabs -> TabRecords]
      /\ \A b \in Browsers : Selectable(b, sessions[b].select)'
      /\ \A u \in Tabs : TabAt(u)'
    BY <1>1, <1>3, <1>4, <1>6, <1>8, NobodyLate, TabMoves
<1>10. \A m \in DOMAIN auths' : AuthAt(m)'
    BY <1>1, NobodyLate, AuthStays DEF OpenSelect
<1>11. \A q \in Places : AccountAt(q)'
    <2>1. \A u \in Tabs : tabs[u].step \in {"queue", "usage"} => tabs'[u] = tabs[u]
        BY IdleTabType DEF OpenSelect, ConnectInv, ConnectTypes
    <2> QED BY <1>1, <2>1, NobodyLate, AccountStays DEF OpenSelect
<1>12. ConnectTypes' /\ ~appRefused'
    BY <1>1, <1>9 DEF ConnectInv, ConnectTypes, OpenSelect
<1> QED BY <1>9, <1>10, <1>11, <1>12 DEF ConnectInv

LEMMA StoreAccountKeeps ==
    ASSUME ConnectInv, NEW t \in Tabs, StoreAccount(t) PROVE ConnectInv'
<1> USE DEF KeepRest, KeepPlatform, KeepHistory
<1>1. AuthsKept /\ LatecomersOnly /\ UNCHANGED <<browserOf, apps, auths, tooLate>>
    BY AuthsUnchanged, NobodyLate DEF StoreAccount
<1>2. PICK n \in DOMAIN auths, p \in Places :
            /\ n = tabs[t].auth /\ n \notin tooLate /\ auths[n].at = "spent"
            /\ auths[n].browser = browserOf[t]
            /\ p = tabs[t].place /\ AskedFor(n) = p
    <2>1. /\ tabs[t].auth \in DOMAIN auths \ tooLate /\ auths[tabs[t].auth].at = "spent"
          /\ auths[tabs[t].auth].browser = browserOf[t]
          /\ AskedFor(tabs[t].auth) = tabs[t].place
        BY SessionSafe DEF StoreAccount, TabAt
    <2>2. AskedFor(tabs[t].auth) \in Places
        BY <2>1 DEF ConnectInv, AuthAt
    <2> QED BY <2>1, <2>2
<1>3. PICK row \in Nat :
            /\ row = (IF socialAccounts[p] = NoAccount THEN n ELSE socialAccounts[p].row)
            /\ socialAccounts' = [socialAccounts EXCEPT ![p] = [row |-> row, grant |-> n]]
    <2>1. n \in Nat /\ socialAccounts[p].row \in Nat
        BY DEF ConnectInv, ConnectTypes
    <2> QED BY <1>2, <2>1 DEF StoreAccount
<1>4. /\ socialAccounts' \in [Places -> [row: Nat, grant: Nat]]
      /\ socialAccounts'[p] = [row |-> row, grant |-> n]
      /\ \A q \in Places : q # p => socialAccounts'[q] = socialAccounts[q]
    BY <1>3 DEF ConnectInv, ConnectTypes
<1>5. \/ Respond(t, tabs[t].copy) /\ socialAccounts[p] # NoAccount /\ browserOf[t] # "client"
      \/ /\ tabs' = [tabs EXCEPT ![t] = [tabs[t] EXCEPT !.step = "queue", !.row = row]]
         /\ socialAccounts[p] = NoAccount /\ UNCHANGED sessions
      \/ /\ tabs' = [tabs EXCEPT ![t] = [tabs[t] EXCEPT !.step = "usage", !.row = row]]
         /\ socialAccounts[p] # NoAccount /\ browserOf[t] = "client" /\ UNCHANGED sessions
    <2>1. tabs[t].place = p /\ tabs[t].auth = n /\ tabs \in [Tabs -> TabRecords]
        BY <1>2 DEF ConnectInv, ConnectTypes
    <2>2. /\ [tabs EXCEPT ![t].row = row, ![t].step = "queue"]
                 = [tabs EXCEPT ![t] = [tabs[t] EXCEPT !.step = "queue", !.row = row]]
          /\ [tabs EXCEPT ![t].row = row, ![t].step = "usage"]
                 = [tabs EXCEPT ![t] = [tabs[t] EXCEPT !.step = "usage", !.row = row]]
        BY <2>1 DEF TabRecords
    <2>3. CASE socialAccounts[p] = NoAccount
        BY <1>3, <2>1, <2>2, <2>3 DEF StoreAccount
    <2>4. CASE socialAccounts[p] # NoAccount
        BY <1>3, <2>1, <2>2, <2>4 DEF StoreAccount
    <2> QED BY <2>3, <2>4
<1>6. /\ sessions' \in [Browsers -> SessionRecords] /\ tabs' \in [Tabs -> TabRecords]
      /\ \A b \in Browsers : Selectable(b, sessions[b].select)'
      /\ \A u \in Tabs : TabAt(u)'
      /\ \A u \in Tabs : u # t => tabs'[u] = tabs[u]
      /\ socialAccounts[p] = NoAccount => tabs'[t].step = "queue" /\ tabs'[t].row = row
      /\ socialAccounts[p] # NoAccount /\ browserOf[t] = "client" =>
            tabs'[t].step = "usage" /\ tabs'[t].row = row
    <2>1. CASE Respond(t, tabs[t].copy) /\ socialAccounts[p] # NoAccount /\ browserOf[t] # "client"
        <3>1. \A u \in Tabs : u # t => tabs'[u] = tabs[u]
            BY <2>1 DEF Respond, ConnectInv, ConnectTypes
        <3> QED BY <1>1, <2>1, <3>1, SessionSafe, RespondKeeps
    <2>2. tabs[t].step = "store"
        BY DEF StoreAccount
    <2>3. CASE /\ tabs' = [tabs EXCEPT ![t] = [tabs[t] EXCEPT !.step = "queue", !.row = row]]
               /\ socialAccounts[p] = NoAccount /\ UNCHANGED sessions
        BY <1>1, <2>2, <2>3, CallGoesOn
    <2>4. CASE /\ tabs' = [tabs EXCEPT ![t] = [tabs[t] EXCEPT !.step = "usage", !.row = row]]
               /\ socialAccounts[p] # NoAccount /\ browserOf[t] = "client" /\ UNCHANGED sessions
        BY <1>1, <2>2, <2>4, CallGoesOn
    <2> QED BY <1>5, <2>1, <2>3, <2>4
<1>7. \A m \in DOMAIN auths' : AuthAt(m)'
    BY <1>1, AuthStays DEF StoreAccount
<1>8. ASSUME NEW q \in Places PROVE AccountFor(q)'
    <2>1. CASE q # p
        BY <1>1, <1>4, <2>1, AccountForStays
    <2>2. CASE q = p
        <3>1. row \in DOMAIN auths /\ AskedFor(row) = p
            BY <1>2, <1>3 DEF ConnectInv, AccountAt, AccountFor
        <3> QED BY <1>1, <1>2, <1>4, <2>2, <3>1 DEF AccountFor, AskedFor
    <2> QED BY <2>1, <2>2
<1>9. ASSUME NEW q \in Places PROVE InFullAt(q)'
    <2>1. UNCHANGED <<defaultQueues, linkUsages, died, auths, browserOf>>
        BY DEF StoreAccount
    <2>2. ASSUME NEW r PROVE Unfinished(r, {"queue"}) => Unfinished(r, {"queue"})'
        BY <1>6 DEF Unfinished, StoreAccount
    <2>3. ASSUME NEW r PROVE Finishing(r, "client") => Finishing(r, "client")'
        BY <1>6, <2>1 DEF Finishing, StoreAccount
    <2>4. CASE q # p
        BY <1>4, <2>1, <2>2, <2>3, <2>4 DEF InFullAt, ConnectInv, AccountAt
    <2>5. CASE q = p /\ socialAccounts[p] = NoAccount
        BY <1>2, <1>4, <1>6, <2>1, <2>5 DEF InFullAt, Unfinished, Finishing
    <2>6. CASE q = p /\ socialAccounts[p] # NoAccount
        <3>1. row = socialAccounts[p].row /\ InFullAt(p)
            BY <1>3, <2>6 DEF ConnectInv, AccountAt
        <3>2. auths[n].browser = "client" => Finishing(row, "client")'
            BY <1>2, <1>6, <2>1, <2>6 DEF Finishing
        <3> QED BY <1>4, <2>1, <2>2, <2>6, <3>1, <3>2 DEF InFullAt
    <2> QED BY <2>4, <2>5, <2>6
<1>10. ConnectTypes' /\ ~appRefused'
    BY <1>1, <1>4, <1>6 DEF ConnectInv, ConnectTypes, StoreAccount
<1> QED BY <1>6, <1>7, <1>8, <1>9, <1>10 DEF ConnectInv, AccountAt

LEMMA CreateQueueKeeps ==
    ASSUME ConnectInv, NEW t \in Tabs, CreateQueue(t) PROVE ConnectInv'
<1> USE DEF KeepRest, KeepPlatform, KeepHistory
<1>1. AuthsKept /\ LatecomersOnly /\ UNCHANGED <<browserOf, apps, auths, tooLate, died, linkUsages,
                                                  socialAccounts>>
    BY AuthsUnchanged, NobodyLate DEF CreateQueue
<1>2. PICK row \in Nat : row = tabs[t].row
    BY SessionSafe DEF TabRecords
<1>3. \/ Respond(t, tabs[t].copy) /\ (row \notin RowsThere \/ browserOf[t] # "client")
      \/ /\ tabs' = [tabs EXCEPT ![t] = [tabs[t] EXCEPT !.step = "usage", !.row = row]]
         /\ browserOf[t] = "client" /\ UNCHANGED sessions
    <2>1. [tabs[t] EXCEPT !.step = "usage", !.row = row] = [tabs[t] EXCEPT !.step = "usage"]
        BY <1>2, SessionSafe
    <2>2. tabs \in [Tabs -> TabRecords]
        BY DEF ConnectInv, ConnectTypes
    <2>3. ToStep(t, "usage")
              => tabs' = [tabs EXCEPT ![t] = [tabs[t] EXCEPT !.step = "usage", !.row = row]]
        BY <2>1, <2>2 DEF ToStep
    <2> QED BY <1>2, <2>3 DEF CreateQueue
<1>4. /\ sessions' \in [Browsers -> SessionRecords] /\ tabs' \in [Tabs -> TabRecords]
      /\ \A b \in Browsers : Selectable(b, sessions[b].select)'
      /\ \A u \in Tabs : TabAt(u)'
      /\ \A u \in Tabs : u # t => tabs'[u] = tabs[u]
      /\ row \in RowsThere /\ browserOf[t] = "client" =>
            tabs'[t].step = "usage" /\ tabs'[t].row = row
    <2>1. CASE Respond(t, tabs[t].copy) /\ (row \notin RowsThere \/ browserOf[t] # "client")
        <3>1. \A u \in Tabs : u # t => tabs'[u] = tabs[u]
            BY <2>1 DEF Respond, ConnectInv, ConnectTypes
        <3> QED BY <1>1, <2>1, <3>1, SessionSafe, RespondKeeps
    <2>2. tabs[t].step = "queue"
        BY DEF CreateQueue
    <2>3. CASE /\ tabs' = [tabs EXCEPT ![t] = [tabs[t] EXCEPT !.step = "usage", !.row = row]]
               /\ browserOf[t] = "client" /\ UNCHANGED sessions
        BY <1>1, <2>2, <2>3, CallGoesOn
    <2> QED BY <1>3, <2>1, <2>3
<1>5. \A m \in DOMAIN auths' : AuthAt(m)'
    BY <1>1, AuthStays DEF CreateQueue
<1>6. ASSUME NEW q \in Places PROVE AccountFor(q)'
    BY <1>1, AccountForStays
<1>7. ASSUME NEW q \in Places PROVE InFullAt(q)'
    <2>1. InFullAt(q) /\ q \in DOMAIN socialAccounts
        BY DEF ConnectInv, ConnectTypes, AccountAt
    <2>2. socialAccounts[q].row \in RowsThere
        BY <2>1 DEF RowsThere
    <2>3. defaultQueues' = defaultQueues \cup ({row} \cap RowsThere)
        BY <1>2 DEF CreateQueue
    <2>4. Unfinished(socialAccounts[q].row, {"queue"})
              => socialAccounts[q].row \in defaultQueues'
                 \/ Unfinished(socialAccounts[q].row, {"queue"})'
        BY <1>1, <1>2, <1>4, <2>2, <2>3 DEF Unfinished
    <2>5. Finishing(socialAccounts[q].row, "client")
              => Finishing(socialAccounts[q].row, "client")'
        BY <1>1, <1>2, <1>4, <2>2 DEF Finishing
    <2> QED BY <1>1, <2>1, <2>3, <2>4, <2>5 DEF InFullAt
<1>8. ConnectTypes' /\ ~appRefused'
    BY <1>1, <1>4 DEF ConnectInv, ConnectTypes, CreateQueue
<1> QED BY <1>4, <1>5, <1>6, <1>7, <1>8 DEF ConnectInv, AccountAt

LEMMA RecordLinkUsageKeeps ==
    ASSUME ConnectInv, NEW t \in Tabs, RecordLinkUsage(t) PROVE ConnectInv'
<1> USE DEF KeepRest, KeepPlatform, KeepHistory
<1>1. AuthsKept /\ LatecomersOnly /\ UNCHANGED <<browserOf, apps, auths, tooLate, died,
                                                  defaultQueues, socialAccounts>>
    BY AuthsUnchanged, NobodyLate DEF RecordLinkUsage
<1>2. Respond(t, tabs[t].copy) /\ tabs[t].step = "usage"
    BY DEF RecordLinkUsage
<1>3. /\ sessions' \in [Browsers -> SessionRecords] /\ tabs' \in [Tabs -> TabRecords]
      /\ \A b \in Browsers : Selectable(b, sessions[b].select)'
      /\ \A u \in Tabs : TabAt(u)'
      /\ \A u \in Tabs : u # t => tabs'[u] = tabs[u]
    <2>1. \A u \in Tabs : u # t => tabs'[u] = tabs[u]
        BY <1>2 DEF Respond, ConnectInv, ConnectTypes
    <2> QED BY <1>1, <1>2, <2>1, SessionSafe, RespondKeeps
<1>4. \A m \in DOMAIN auths' : AuthAt(m)'
    BY <1>1, AuthStays DEF RecordLinkUsage
<1>5. ASSUME NEW q \in Places PROVE AccountFor(q)'
    BY <1>1, AccountForStays
<1>6. ASSUME NEW q \in Places PROVE InFullAt(q)'
    <2>1. InFullAt(q) /\ q \in DOMAIN socialAccounts
        BY DEF ConnectInv, ConnectTypes, AccountAt
    <2>2. socialAccounts[q].row \in RowsThere
        BY <2>1 DEF RowsThere
    <2>3. linkUsages' = linkUsages \cup ({tabs[t].row} \cap RowsThere)
        BY DEF RecordLinkUsage
    <2>4. Unfinished(socialAccounts[q].row, {"queue"})
              => Unfinished(socialAccounts[q].row, {"queue"})'
        <3>1. \A u \in Tabs : u # t => tabs'[u] = tabs[u]
            BY <1>3
        <3>2. tabs[t].step \notin {"queue"}
            BY <1>2
        <3> QED BY <1>1, <3>1, <3>2 DEF Unfinished
    <2>5. Finishing(socialAccounts[q].row, "client")
              => socialAccounts[q].row \in linkUsages'
                 \/ Finishing(socialAccounts[q].row, "client")'
        BY <1>1, <1>3, <2>2, <2>3 DEF Finishing
    <2> QED BY <1>1, <2>1, <2>3, <2>4, <2>5 DEF InFullAt
<1>7. ConnectTypes' /\ ~appRefused'
    BY <1>1, <1>3 DEF ConnectInv, ConnectTypes, RecordLinkUsage
<1> QED BY <1>3, <1>4, <1>5, <1>6, <1>7 DEF ConnectInv, AccountAt

LEMMA CallDiesKeeps ==
    ASSUME ConnectInv, NEW t \in Tabs, CallDies(t) PROVE ConnectInv'
<1> USE DEF KeepRows, KeepPlatform, AnEnd
<1>1. AuthsKept /\ LatecomersOnly
      /\ UNCHANGED <<browserOf, apps, auths, tooLate, defaultQueues, linkUsages, socialAccounts,
                     sessions, mayConnect>>
    BY AuthsUnchanged, NobodyLate DEF CallDies
<1>2. /\ tabs' = [tabs EXCEPT ![t] = IdleTab] /\ tabs'[t] = IdleTab
      /\ \A u \in Tabs : u # t => tabs'[u] = tabs[u]
    BY DEF CallDies, ConnectInv, ConnectTypes
<1>3. TabAt(t)'
    BY <1>2, IdleTabType DEF TabAt, Selectable
<1>4. /\ sessions' \in [Browsers -> SessionRecords] /\ tabs' \in [Tabs -> TabRecords]
      /\ \A b \in Browsers : Selectable(b, sessions[b].select)'
      /\ \A u \in Tabs : TabAt(u)'
    BY <1>1, <1>2, <1>3, IdleTabType, TabMoves
<1>5. \A m \in DOMAIN auths' : AuthAt(m)'
    BY <1>1, AuthStays DEF CallDies
<1>6. ASSUME NEW q \in Places PROVE AccountFor(q)'
    BY <1>1, AccountForStays
<1>7. ASSUME NEW q \in Places PROVE InFullAt(q)'
    <2>1. InFullAt(q)
        BY DEF ConnectInv, AccountAt
    <2>2. died \subseteq died' /\ (tabs[t].step \in {"queue", "usage"} => tabs[t].row \in died')
        BY DEF CallDies
    <2>3. ASSUME NEW r PROVE Unfinished(r, {"queue"}) => r \in died' \/ Unfinished(r, {"queue"})'
        BY <1>2, <2>2 DEF Unfinished
    <2>4. ASSUME NEW r PROVE Finishing(r, "client") => r \in died' \/ Finishing(r, "client")'
        BY <1>1, <1>2, <2>2 DEF Finishing
    <2> QED BY <1>1, <2>1, <2>2, <2>3, <2>4 DEF InFullAt
<1>8. ConnectTypes' /\ ~appRefused'
    BY <1>1, <1>4 DEF ConnectInv, ConnectTypes, CallDies
<1> QED BY <1>4, <1>5, <1>6, <1>7, <1>8 DEF ConnectInv, AccountAt

LEMMA EndAccessKeeps ==
    ASSUME ConnectInv, NEW b \in Browsers, EndAccess(b) PROVE ConnectInv'
<1> USE DEF KeepRows, KeepPlatform, KeepHistory, AnEnd
<1>1. AuthsKept /\ LatecomersOnly
      /\ UNCHANGED <<browserOf, apps, auths, tooLate, defaultQueues, linkUsages, socialAccounts,
                     sessions, tabs, died>>
    BY AuthsUnchanged, NobodyLate DEF EndAccess
<1>2. \A c \in Browsers : ~mayConnect[c] => ~mayConnect'[c]
    BY DEF EndAccess, ConnectInv, ConnectTypes
<1>3. \A c \in Browsers : Selectable(c, sessions[c].select)'
    BY <1>1 DEF ConnectInv, Selectable
<1>4. \A u \in Tabs : TabAt(u)'
    BY <1>1, TabStays
<1>5. ASSUME NEW m \in DOMAIN auths' PROVE AuthAt(m)'
    <2>1. auths[m].browser \in Browsers /\ AuthAt(m)
        <3>1. auths \in Seq(AuthRecords) /\ m \in DOMAIN auths /\ AuthAt(m)
            BY <1>1 DEF ConnectInv, ConnectTypes
        <3>2. auths[m] \in AuthRecords
            BY <3>1
        <3> QED BY <3>1, <3>2 DEF AuthRecords
    <2> QED BY <1>1, <1>2, <2>1 DEF AuthAt, AskedFor
<1>6. \A q \in Places : AccountAt(q)'
    BY <1>1, AccountStays
<1>7. ConnectTypes' /\ ~appRefused'
    BY <1>1 DEF ConnectInv, ConnectTypes, EndAccess
<1> QED BY <1>3, <1>4, <1>5, <1>6, <1>7 DEF ConnectInv

LEMMA RemoveAccountKeeps ==
    ASSUME ConnectInv, NEW p \in Places, RemoveAccount(p) PROVE ConnectInv'
<1> USE DEF KeepPlatform, KeepHistory, AnEnd
<1>1. AuthsKept /\ LatecomersOnly
      /\ UNCHANGED <<browserOf, apps, auths, tooLate, sessions, tabs, died, mayConnect, appRefused>>
    BY AuthsUnchanged, NobodyLate DEF RemoveAccount
<1>2. /\ socialAccounts' \in [Places -> [row: Nat, grant: Nat]] /\ socialAccounts'[p] = NoAccount
      /\ \A q \in Places : q # p => socialAccounts'[q] = socialAccounts[q]
    BY DEF RemoveAccount, ConnectInv, ConnectTypes, NoAccount, NoAuth
<1>3. \A c \in Browsers : Selectable(c, sessions[c].select)'
    BY <1>1 DEF ConnectInv, Selectable
<1>4. \A u \in Tabs : TabAt(u)'
    BY <1>1, TabStays
<1>5. \A m \in DOMAIN auths' : AuthAt(m)'
    BY <1>1, AuthStays
<1>6. ASSUME NEW q \in Places PROVE AccountAt(q)'
    <2>1. CASE q = p
        BY <1>2, <2>1 DEF AccountAt, AccountFor, InFullAt
    <2>2. CASE q # p
        <3>1. AccountFor(q)'
            BY <1>1, <1>2, <2>2, AccountForStays
        <3>2. CASE socialAccounts[q] = NoAccount
            BY <1>2, <2>2, <3>1, <3>2 DEF AccountAt, InFullAt
        <3>3. CASE socialAccounts[q] # NoAccount
            <4>1. socialAccounts[q].row # socialAccounts[p].row
                BY <2>2, <3>3 DEF ConnectInv, AccountAt, AccountFor, RemoveAccount
            <4>2. /\ defaultQueues' = defaultQueues \ {socialAccounts[p].row}
                  /\ linkUsages' = linkUsages \ {socialAccounts[p].row}
                BY DEF RemoveAccount
            <4>3. InFullAt(q)'
                BY <1>1, <1>2, <2>2, <4>1, <4>2
                DEF ConnectInv, AccountAt, InFullAt, Unfinished, Finishing
            <4> QED BY <3>1, <4>3 DEF AccountAt
        <3> QED BY <3>2, <3>3
    <2> QED BY <2>1, <2>2
<1>7. ConnectTypes' /\ ~appRefused'
    <2>1. UNCHANGED clients
        BY DEF RemoveAccount
    <2>2. ConnectTypes /\ ~appRefused
        BY DEF ConnectInv
    <2> QED BY <1>1, <1>2, <2>1, <2>2 DEF ConnectTypes
<1> QED BY <1>3, <1>4, <1>5, <1>6, <1>7 DEF ConnectInv

LEMMA ConnectNextKeeps == ConnectInv /\ [ConnectNext]_connectVars => ConnectInv'
<1> SUFFICES ASSUME ConnectInv, [ConnectNext]_connectVars PROVE ConnectInv'
    OBVIOUS
<1>1. ASSUME NEW t \in Tabs, NEW p \in Places, OpenStart(t, p[1], p[2]) PROVE ConnectInv'
    BY <1>1, OpenStartKeeps
<1>2. ASSUME NEW t \in Tabs, RegisterApp(t) \/ SaveApp(t) \/ EndStart(t) PROVE ConnectInv'
    BY <1>2, RegisterAppKeeps, SaveAppKeeps, EndStartKeeps
<1>3. ASSUME NEW t \in Tabs, NEW n \in DOMAIN auths, OpenCallback(t, n) \/ UserDeclines(t, n)
      PROVE  ConnectInv'
    BY <1>3, OpenCallbackKeeps, UserDeclinesKeeps
<1>4. ASSUME NEW t \in Tabs, Exchange(t) \/ CallFails(t) \/ OpenSelect(t) PROVE ConnectInv'
    BY <1>4, ExchangeKeeps, CallFailsKeeps, OpenSelectKeeps
<1>5. ASSUME NEW t \in Tabs,
             StoreAccount(t) \/ CreateQueue(t) \/ RecordLinkUsage(t) \/ CallDies(t)
      PROVE  ConnectInv'
    BY <1>5, StoreAccountKeeps, CreateQueueKeeps, RecordLinkUsageKeeps, CallDiesKeeps
<1>6. ASSUME NEW b \in Browsers, EndAccess(b) PROVE ConnectInv'
    BY <1>6, EndAccessKeeps
<1>7. ASSUME NEW p \in DOMAIN socialAccounts, RemoveAccount(p) PROVE ConnectInv'
    BY <1>7, RemoveAccountKeeps DEF ConnectInv, ConnectTypes
<1>8. CASE UNCHANGED connectVars
    <2> USE <1>8 DEF connectVars
    <2>1. AuthsKept /\ LatecomersOnly
        BY AuthsUnchanged, NobodyLate
    <2>2. \A c \in Browsers : Selectable(c, sessions[c].select)'
        BY DEF ConnectInv, Selectable
    <2>3. (\A u \in Tabs : TabAt(u)') /\ (\A m \in DOMAIN auths' : AuthAt(m)')
          /\ \A q \in Places : AccountAt(q)'
        BY <2>1, TabStays, AuthStays, AccountStays
    <2> QED BY <2>2, <2>3 DEF ConnectInv, ConnectTypes
<1> QED BY <1>1, <1>2, <1>3, <1>4, <1>5, <1>6, <1>7, <1>8 DEF ConnectNext

LEMMA ConnectInvHolds == ConnectInv => ConnectionsAreSound
<1> SUFFICES ASSUME ConnectInv PROVE ConnectionsAreSound
    OBVIOUS
<1>1. \A p \in ConnectedPlaces : p \in Places /\ AccountFor(p) /\ InFullAt(p)
                                 /\ socialAccounts[p] # NoAccount
    BY DEF ConnectInv, ConnectTypes, ConnectedPlaces, AccountAt
<1>2. ConnectedWhereAsked /\ FinishedAsBegun /\ AccessRechecked
    BY <1>1 DEF ConnectedWhereAsked, FinishedAsBegun, AccessRechecked, AccountFor, ConnectInv
<1>3. ConnectedInFull
    <2>1. ASSUME NEW r, Finishing(r, "client") PROVE Unfinished(r, {"queue", "usage"})
        BY <2>1 DEF Finishing, Unfinished
    <2> QED BY <1>1, <2>1 DEF ConnectedInFull, InFullAt
<1> QED BY <1>2, <1>3 DEF ConnectionsAreSound

\* However the requests of a member and of a client interleave on their sessions: what is
\* connected was authorized for that place and that platform, an authorization is finished
\* with the client it was begun with, nobody connects after losing access, and an account
\* has its default queue, and its count by the link, once its request is through.
THEOREM ConnectionsStaySound == ConnectSpec => []ConnectionsAreSound
<1>1. ConnectSpec => []ConnectInv
    BY ConnectInvInit, ConnectNextKeeps, PTL DEF ConnectSpec
<1> QED BY <1>1, ConnectInvHolds, PTL

-------------------------------------------------------------------------------
(* Providers: the least natural number of a set, for plans that are flattened *)

LEMMA LeastOfNaturals ==
    ASSUME NEW S \in SUBSET Nat, S # {}
    PROVE  \E i \in S : \A j \in S : i <= j
<1>1. PICK i \in S : \A j \in S : ~(<<j, i>> \in OpToRel(<, Nat))
    BY NatLessThanWellFounded, WFMin
<1>2. \A j \in S : ~(j < i)
    BY <1>1 DEF OpToRel
<1> QED BY <1>2

(* Plans: one request makes the post *)

MediaKinds == {"image", "video"}
QuietSteps == {"check", "ask", "stage", "wait", "extra"}
AnyStep == QuietSteps \cup {"publish"}

\* One step makes the post, and nothing that may raise comes after it.
MakesOnePost(plan) ==
    /\ plan \in Seq(AnyStep)
    /\ \E k \in DOMAIN plan :
          /\ plan[k] = "publish" /\ \A i \in DOMAIN plan : i < k => plan[i] # "publish"
          /\ \A i \in DOMAIN plan : i > k => plan[i] = "extra"

\* A solution of the recursion of FlattenSeq up to m.
FlattenedTo(seqs, m, flat) ==
    flat = [i \in 1..m |-> IF i = 1 THEN seqs[i] ELSE flat[i - 1] \o seqs[i]]

LEMMA FlattenedExists ==
    ASSUME NEW seqs, NEW m \in Nat
    PROVE  \E flat : FlattenedTo(seqs, m, flat)
<1> DEFINE Lacking == {n \in Nat : ~\E flat : FlattenedTo(seqs, n, flat)}
<1> SUFFICES Lacking = {}
    OBVIOUS
<1> SUFFICES ASSUME Lacking # {} PROVE FALSE
    OBVIOUS
<1>1. PICK n \in Lacking : \A k \in Lacking : n <= k
    <2>1. Lacking \in SUBSET Nat
        OBVIOUS
    <2> HIDE DEF Lacking
    <2> QED BY <2>1, LeastOfNaturals
<1>2. n \in Nat /\ ~\E flat : FlattenedTo(seqs, n, flat)
    BY <1>1
<1>3. n # 0
    <2>1. FlattenedTo(seqs, 0, [i \in 1..0 |-> {}])
        <3> DEFINE flat == [i \in 1..0 |-> {}]
        <3>1. flat = [i \in 1..0 |-> IF i = 1 THEN seqs[i] ELSE flat[i - 1] \o seqs[i]]
            OBVIOUS
        <3> QED BY <3>1 DEF FlattenedTo
    <2> QED BY <1>2, <2>1
<1>4. n - 1 \in Nat /\ n - 1 \notin Lacking
    BY <1>1, <1>2, <1>3
<1>5. PICK flat : FlattenedTo(seqs, n - 1, flat)
    BY <1>4
<1> DEFINE more == [i \in 1..n |-> IF i = n THEN (IF n = 1 THEN seqs[n] ELSE flat[n - 1] \o seqs[n])
                                   ELSE flat[i]]
<1>6. \A i \in 1..(n - 1) : flat[i] = IF i = 1 THEN seqs[i] ELSE flat[i - 1] \o seqs[i]
    BY <1>5 DEF FlattenedTo
<1>7. \A i \in 1..n : more[i] = IF i = 1 THEN seqs[i] ELSE more[i - 1] \o seqs[i]
    <2> SUFFICES ASSUME NEW i \in 1..n
                 PROVE  more[i] = IF i = 1 THEN seqs[i] ELSE more[i - 1] \o seqs[i]
        OBVIOUS
    <2>1. i # 1 => i - 1 \in 1..n /\ i - 1 # n /\ more[i - 1] = flat[i - 1]
        BY <1>2
    <2>2. CASE i = n
        BY <2>1, <2>2
    <2>3. CASE i # n
        <3>1. i \in 1..(n - 1) /\ more[i] = flat[i]
            BY <1>2, <2>3
        <3> QED BY <1>6, <2>1, <3>1
    <2> QED BY <2>2, <2>3
<1>8. more = [i \in 1..n |-> more[i]]
    OBVIOUS
<1> HIDE DEF more
<1>9. FlattenedTo(seqs, n, more)
    BY <1>7, <1>8 DEF FlattenedTo
<1> QED BY <1>2, <1>9

LEMMA FlattenIsQuiet ==
    ASSUME NEW T, NEW seqs, NEW m \in Nat, Len(seqs) = m, m = 0 => seqs = <<>>,
           \A i \in 1..m : seqs[i] \in Seq(T)
    PROVE  FlattenSeq(seqs) \in Seq(T)
<1> DEFINE chosen == CHOOSE flat : FlattenedTo(seqs, m, flat)
<1>1. CASE m = 0
    BY <1>1 DEF FlattenSeq
<1>2. CASE m # 0
    <2>1. FlattenedTo(seqs, m, chosen)
        BY FlattenedExists
    <2>2. FlattenSeq(seqs) = chosen[m]
        BY <1>2 DEF FlattenSeq, FlattenedTo
    <2>3. \A i \in 1..m : chosen[i] = IF i = 1 THEN seqs[i] ELSE chosen[i - 1] \o seqs[i]
        BY <2>1 DEF FlattenedTo
    <2> HIDE DEF chosen
    <2> DEFINE Wrong == {i \in Nat : i \in 1..m /\ chosen[i] \notin Seq(T)}
    <2>4. Wrong = {}
        <3> SUFFICES ASSUME Wrong # {} PROVE FALSE
            OBVIOUS
        <3>1. PICK i \in Wrong : \A j \in Wrong : i <= j
            <4>1. Wrong \in SUBSET Nat
                OBVIOUS
            <4> HIDE DEF Wrong
            <4> QED BY <4>1, LeastOfNaturals
        <3>2. i \in 1..m /\ chosen[i] \notin Seq(T) /\ i \in Nat
            BY <3>1
        <3>3. i # 1
            BY <2>3, <3>2
        <3>4. i - 1 \in 1..m /\ i - 1 \notin Wrong
            BY <3>1, <3>2, <3>3
        <3>5. chosen[i - 1] \in Seq(T) /\ seqs[i] \in Seq(T)
            BY <3>2, <3>4
        <3>6. chosen[i] = chosen[i - 1] \o seqs[i]
            BY <2>3, <3>2, <3>3
        <3> QED BY <3>2, <3>5, <3>6
    <2>5. m \in 1..m
        BY <1>2
    <2> QED BY <2>2, <2>4, <2>5
<1> QED BY <1>1, <1>2

LEMMA ForEachIsQuiet ==
    ASSUME NEW media \in Seq(MediaKinds), NEW steps, \A k \in MediaKinds : steps[k] \in Seq(QuietSteps)
    PROVE  ForEach(media, steps) \in Seq(QuietSteps)
<1> DEFINE seqs == [i \in 1..Len(media) |-> steps[media[i]]]
<1>1. Len(media) \in Nat /\ Len(seqs) = Len(media)
    OBVIOUS
<1>2. Len(media) = 0 => seqs = <<>>
    OBVIOUS
<1>3. \A i \in 1..Len(media) : seqs[i] \in Seq(QuietSteps)
    OBVIOUS
<1>4. ForEach(media, steps) = FlattenSeq(seqs)
    BY DEF ForEach
<1> HIDE DEF seqs
<1> QED BY <1>1, <1>2, <1>3, <1>4, FlattenIsQuiet

LEMMA QuietBefore ==
    ASSUME NEW q \in Seq(QuietSteps), NEW plan, MakesOnePost(plan)
    PROVE  MakesOnePost(q \o plan)
<1>1. plan \in Seq(AnyStep) /\ q \in Seq(AnyStep) /\ \A i \in 1..Len(q) : q[i] # "publish"
    <2>1. \A i \in 1..Len(q) : q[i] \in QuietSteps
        OBVIOUS
    <2>2. QuietSteps \subseteq AnyStep /\ "publish" \notin QuietSteps
        BY DEF AnyStep, QuietSteps
    <2> QED BY <2>1, <2>2 DEF MakesOnePost
<1>2. /\ Len(q) \in Nat /\ Len(plan) \in Nat /\ DOMAIN plan = 1..Len(plan)
      /\ q \o plan \in Seq(AnyStep) /\ DOMAIN (q \o plan) = 1..(Len(q) + Len(plan))
    BY <1>1
<1>3. \A i \in 1..(Len(q) + Len(plan)) :
         \/ i \in 1..Len(q) /\ (q \o plan)[i] = q[i]
         \/ i > Len(q) /\ i - Len(q) \in 1..Len(plan) /\ (q \o plan)[i] = plan[i - Len(q)]
    BY <1>1, <1>2
<1>4. PICK k \in 1..Len(plan) :
         /\ plan[k] = "publish" /\ \A i \in 1..Len(plan) : i < k => plan[i] # "publish"
         /\ \A i \in 1..Len(plan) : i > k => plan[i] = "extra"
    BY <1>2 DEF MakesOnePost
<1>5. Len(q) + k \in 1..(Len(q) + Len(plan))
    BY <1>2
<1>6. (q \o plan)[Len(q) + k] = "publish"
    <2>1. (Len(q) + k) - Len(q) = k /\ ~(Len(q) + k \in 1..Len(q))
        BY <1>2
    <2> QED BY <1>3, <1>4, <1>5, <2>1
<1>7. ASSUME NEW i \in 1..(Len(q) + Len(plan)), i < Len(q) + k PROVE (q \o plan)[i] # "publish"
    <2>1. i - Len(q) < k
        BY <1>2, <1>7
    <2> QED BY <1>1, <1>3, <1>4, <2>1
<1>8. ASSUME NEW i \in 1..(Len(q) + Len(plan)), i > Len(q) + k PROVE (q \o plan)[i] = "extra"
    <2>1. i - Len(q) > k /\ ~(i \in 1..Len(q))
        BY <1>2, <1>8
    <2> QED BY <1>1, <1>3, <1>4, <2>1
<1> QED BY <1>2, <1>5, <1>6, <1>7, <1>8 DEF MakesOnePost

\* The plans that do not depend on how many media there are.
LEMMA ShortPlans ==
    /\ MakesOnePost(<<"publish">>)
    /\ MakesOnePost(<<"check", "publish">>)
    /\ MakesOnePost(<<"check", "publish", "extra">>)
    /\ MakesOnePost(<<"check", "ask", "ask", "publish">>)
    /\ MakesOnePost(<<"stage", "wait", "publish">>)
    /\ MakesOnePost(<<"stage", "publish">>)
    /\ MakesOnePost(<<"ask", "stage", "publish">>)
    /\ MakesOnePost(<<"ask", "stage", "ask", "wait", "publish">>)
    /\ MakesOnePost(<<"check", "extra", "check", "stage", "publish">>)
    /\ MakesOnePost(<<"check", "ask", "publish", "extra">>)
<1> USE DEF MakesOnePost, AnyStep, QuietSteps
<1>1. MakesOnePost(<<"publish">>)
    OBVIOUS
<1>2. MakesOnePost(<<"check", "publish">>)
    OBVIOUS
<1>3. MakesOnePost(<<"check", "publish", "extra">>)
    OBVIOUS
<1>4. MakesOnePost(<<"check", "ask", "ask", "publish">>)
    OBVIOUS
<1>5. MakesOnePost(<<"stage", "wait", "publish">>)
    OBVIOUS
<1>6. MakesOnePost(<<"stage", "publish">>)
    OBVIOUS
<1>7. MakesOnePost(<<"ask", "stage", "publish">>)
    OBVIOUS
<1>8. MakesOnePost(<<"ask", "stage", "ask", "wait", "publish">>)
    OBVIOUS
<1>9. MakesOnePost(<<"check", "extra", "check", "stage", "publish">>)
    OBVIOUS
<1>10. MakesOnePost(<<"check", "ask", "publish", "extra">>)
    OBVIOUS
<1> HIDE DEF MakesOnePost
<1> QED BY <1>1, <1>2, <1>3, <1>4, <1>5, <1>6, <1>7, <1>8, <1>9, <1>10

LEMMA QuietBeginnings ==
    /\ <<>> \in Seq(QuietSteps) /\ <<"ask">> \in Seq(QuietSteps) /\ <<"check">> \in Seq(QuietSteps)
    /\ <<"check", "ask", "extra">> \in Seq(QuietSteps)
BY DEF QuietSteps

LEMMA QuietUploads ==
    \A k \in MediaKinds : /\ Upload[k] \in Seq(QuietSteps) /\ Container[k] \in Seq(QuietSteps)
                     /\ ThreadsItem[k] \in Seq(QuietSteps) /\ XUpload[k] \in Seq(QuietSteps)
<1>1. /\ <<"stage">> \in Seq(QuietSteps) /\ <<"stage", "wait">> \in Seq(QuietSteps)
      /\ <<"stage", "stage", "ask", "wait">> \in Seq(QuietSteps)
    BY DEF QuietSteps
<1>2. \A k \in MediaKinds : Upload[k] = <<"stage">> /\ Container[k] = <<"stage", "wait">>
    BY DEF MediaKinds, Upload, Container
<1>3. ThreadsItem["image"] = <<"stage">> /\ ThreadsItem["video"] = <<"stage", "wait">>
    BY DEF ThreadsItem
<1>4. XUpload["image"] = <<"stage">> /\ XUpload["video"] = <<"stage", "stage", "ask", "wait">>
    BY DEF XUpload
<1>5. \A k \in MediaKinds : k = "image" \/ k = "video"
    BY DEF MediaKinds
<1> QED BY <1>1, <1>2, <1>3, <1>4, <1>5

\* What a platform takes, whatever it is given.
LEMMA MediaTaken ==
    ASSUME NEW media \in Seq(MediaKinds)
    PROVE  AtMostFour(media) \in Seq(MediaKinds) /\ <<"video">> \in Seq(MediaKinds)
           /\ \A platform : Attached(platform, media) \in Seq(MediaKinds)
<1>1. Len(media) \in Nat /\ DOMAIN media = 1..Len(media)
    OBVIOUS
<1>2. AtMostFour(media) \in Seq(MediaKinds)
    BY <1>1 DEF AtMostFour
<1>3. <<"video">> \in Seq(MediaKinds)
    BY DEF MediaKinds
<1>4. ASSUME NEW platform PROVE Attached(platform, media) \in Seq(MediaKinds)
    <2> DEFINE videos == {j \in DOMAIN media : media[j] = "video"}
               n == Cardinality(videos)
    <2>1. videos \in SUBSET (1..Len(media)) /\ IsFiniteSet(1..Len(media))
        BY <1>1, FS_Interval
    <2>2. n \in Nat
        <3> HIDE DEF videos
        <3> QED BY <2>1, FS_Subset, FS_CardinalityType
    <2>3. Attached(platform, media) = media
             \/ Attached(platform, media) = [i \in 1..n |-> "video"]
        BY DEF Attached
    <2> HIDE DEF n
    <2>4. [i \in 1..n |-> "video"] \in Seq(MediaKinds)
        BY <2>2 DEF MediaKinds
    <2> QED BY <2>3, <2>4
<1> QED BY <1>2, <1>3, <1>4

LEMMA LinkedInMakesOne ==
    ASSUME NEW media
    PROVE  MakesOnePost(LinkedInPlan(media))
BY ShortPlans DEF LinkedInPlan

\* Each platform's plan, for any media.
LEMMA PlanMakesOnePost ==
    ASSUME NEW platform \in Platforms, NEW media \in Seq(MediaKinds)
    PROVE  MakesOnePost(Plan(platform, media))
<1> USE ShortPlans, QuietBeginnings, QuietUploads, MediaTaken
<1>1. MakesOnePost(BlueskyPlan(media))
    <2> DEFINE taken == IF PostType("bluesky", media) = "video" THEN <<"video">> ELSE AtMostFour(media)
    <2>1. taken \in Seq(MediaKinds)
        OBVIOUS
    <2>2. BlueskyPlan(media) = (<<"check", "ask", "extra">> \o ForEach(taken, Upload)) \o <<"publish">>
        BY DEF BlueskyPlan
    <2> HIDE DEF taken
    <2>3. ForEach(taken, Upload) \in Seq(QuietSteps)
        BY <2>1, ForEachIsQuiet
    <2>4. <<"check", "ask", "extra">> \o ForEach(taken, Upload) \in Seq(QuietSteps)
        BY <2>3
    <2> QED BY <2>2, <2>4, QuietBefore
<1>2. MakesOnePost(DevtoPlan(media)) /\ MakesOnePost(PinterestPlan(media))
    BY DEF DevtoPlan, PinterestPlan
<1>3. MakesOnePost(FacebookPlan(media))
    <2>1. ForEach(media, Upload) \in Seq(QuietSteps)
        BY ForEachIsQuiet
    <2>2. <<"check">> \o ForEach(media, Upload) \in Seq(QuietSteps)
        BY <2>1
    <2>3. MakesOnePost((<<"check">> \o ForEach(media, Upload)) \o <<"publish">>)
        BY <2>2, QuietBefore
    <2> QED BY <2>3 DEF FacebookPlan
<1>4. MakesOnePost(GoogleBusinessPlan(media)) /\ MakesOnePost(TikTokPlan(media))
      /\ MakesOnePost(YouTubePlan(media))
    BY DEF GoogleBusinessPlan, TikTokPlan, YouTubePlan
<1>5. MakesOnePost(InstagramPlan(media))
    <2> DEFINE items == IF Len(media) > 1 THEN ForEach(media, Container) ELSE <<>>
    <2>1. items \in Seq(QuietSteps)
        BY ForEachIsQuiet
    <2>2. InstagramPlan(media) = (<<"check">> \o items) \o <<"stage", "wait", "publish">>
        BY DEF InstagramPlan
    <2> HIDE DEF items
    <2>3. <<"check">> \o items \in Seq(QuietSteps)
        BY <2>1
    <2> QED BY <2>2, <2>3, QuietBefore
<1>6. MakesOnePost(LinkedInPlan(media)) /\ MakesOnePost(LinkedInPersonalPlan(media))
    BY LinkedInMakesOne, QuietBefore DEF LinkedInPersonalPlan
<1>7. MakesOnePost(MastodonPlan(media))
    <2>1. ForEach(media, Upload) \in Seq(QuietSteps)
        BY ForEachIsQuiet
    <2> QED BY <2>1, QuietBefore DEF MastodonPlan
<1>8. MakesOnePost(ThreadsPlan(media))
    <2> DEFINE items == IF Len(media) > 1 THEN ForEach(media, ThreadsItem) ELSE <<>>
               end == IF media = <<>> THEN <<"stage", "publish">> ELSE <<"stage", "wait", "publish">>
    <2>1. items \in Seq(QuietSteps)
        BY ForEachIsQuiet
    <2>2. ThreadsPlan(media) = (<<"ask">> \o items) \o end
        BY DEF ThreadsPlan
    <2>3. MakesOnePost(end)
        OBVIOUS
    <2> HIDE DEF items, end
    <2>4. <<"ask">> \o items \in Seq(QuietSteps)
        BY <2>1
    <2> QED BY <2>2, <2>3, <2>4, QuietBefore
<1>9. MakesOnePost(XPlan(media))
    <2>1. ForEach(AtMostFour(media), XUpload) \in Seq(QuietSteps)
        BY ForEachIsQuiet
    <2>2. <<"check">> \o ForEach(AtMostFour(media), XUpload) \in Seq(QuietSteps)
        BY <2>1
    <2> QED BY <2>2, QuietBefore DEF XPlan
<1> QED BY <1>1, <1>2, <1>3, <1>4, <1>5, <1>6, <1>7, <1>8, <1>9 DEF Plan, Platforms

-------------------------------------------------------------------------------
(* The attempt *)

PublishAttempts ==
    [platform : Platforms, media : Seq(MediaKinds), plan : Seq(AnyStep), outcome : Outcomes,
     retries : Nat, at : Nat \ {0}, polls : Nat, staged : Nat]

\* The request that makes the post is still to come.
ToPublish == \E i \in DOMAIN publish.plan : publish.at <= i /\ publish.plan[i] = "publish"

PublishInv ==
    /\ publish \in PublishAttempts /\ MakesOnePost(publish.plan)
    /\ postsMade \in Nat /\ unheard \in Nat /\ onPage \in Int /\ leftOver \in Nat
    /\ publish.outcome \in {"waiting", "failed"} => postsMade <= unheard
    /\ publish.outcome = "running" /\ ToPublish => postsMade <= unheard
    /\ publish.outcome = "published" \/ (publish.outcome = "running" /\ ~ToPublish)
          => 1 <= postsMade /\ postsMade <= 1 + unheard
    /\ publish.outcome = "running" /\ ToPublish => onPage <= leftOver + Photos
    /\ ~(publish.outcome = "running" /\ ToPublish) => onPage <= leftOver

\* What each kind of step makes of an attempt.
LEMMA AttemptChanges ==
    ASSUME NEW p \in PublishAttempts
    PROVE  /\ [p EXCEPT !.outcome = "running", !.at = 1, !.polls = 0, !.staged = 0] \in PublishAttempts
           /\ \A n \in Nat \ {0} : [p EXCEPT !.at = n, !.polls = 0] \in PublishAttempts
           /\ \A n \in Nat \ {0}, m \in Nat : [p EXCEPT !.at = n, !.staged = m] \in PublishAttempts
           /\ \A m \in Nat : [p EXCEPT !.polls = m] \in PublishAttempts
           /\ [p EXCEPT !.outcome = "failed"] \in PublishAttempts
           /\ \A m \in Nat : [p EXCEPT !.outcome = "waiting", !.retries = m] \in PublishAttempts
<1>1. 0 \in Nat /\ 1 \in Nat \ {0} /\ "running" \in Outcomes /\ "failed" \in Outcomes
      /\ "waiting" \in Outcomes
    BY DEF Outcomes
<1>2. [p EXCEPT !.outcome = "running", !.at = 1, !.polls = 0, !.staged = 0] \in PublishAttempts
    BY <1>1 DEF PublishAttempts
<1>3. ASSUME NEW n \in Nat \ {0} PROVE [p EXCEPT !.at = n, !.polls = 0] \in PublishAttempts
    BY <1>1 DEF PublishAttempts
<1>4. ASSUME NEW n \in Nat \ {0}, NEW m \in Nat PROVE [p EXCEPT !.at = n, !.staged = m] \in PublishAttempts
    BY DEF PublishAttempts
<1>5. ASSUME NEW m \in Nat PROVE [p EXCEPT !.polls = m] \in PublishAttempts
    BY DEF PublishAttempts
<1>6. [p EXCEPT !.outcome = "failed"] \in PublishAttempts
    BY <1>1 DEF PublishAttempts
<1>7. ASSUME NEW m \in Nat PROVE [p EXCEPT !.outcome = "waiting", !.retries = m] \in PublishAttempts
    BY <1>1 DEF PublishAttempts
<1> QED BY <1>2, <1>3, <1>4, <1>5, <1>6, <1>7

LEMMA PublishInvInit == PublishInit => PublishInv
<1> SUFFICES ASSUME PublishInit PROVE PublishInv
    OBVIOUS
<1>1. PICK platform \in Platforms, n \in 0..MaxMedia : \E given \in [1..n -> MediaKinds] :
         publish = [platform |-> platform, media |-> Attached(platform, given),
                    plan |-> Plan(platform, Attached(platform, given)), outcome |-> "waiting",
                    retries |-> 0, at |-> 1, polls |-> 0, staged |-> 0]
    BY DEF PublishInit, MediaKinds
<1>2. PICK given \in [1..n -> MediaKinds] :
         publish = [platform |-> platform, media |-> Attached(platform, given),
                    plan |-> Plan(platform, Attached(platform, given)), outcome |-> "waiting",
                    retries |-> 0, at |-> 1, polls |-> 0, staged |-> 0]
    BY <1>1
<1>3. n \in Nat
    BY ProvidersAssumption
<1>4. given \in Seq(MediaKinds)
    BY <1>3
<1>5. Attached(platform, given) \in Seq(MediaKinds)
    BY <1>4, MediaTaken
<1>6. MakesOnePost(Plan(platform, Attached(platform, given)))
    BY <1>5, PlanMakesOnePost
<1>7. Plan(platform, Attached(platform, given)) \in Seq(AnyStep)
    BY <1>6 DEF MakesOnePost
<1>8. publish \in PublishAttempts /\ MakesOnePost(publish.plan) /\ publish.outcome = "waiting"
    BY <1>2, <1>5, <1>6, <1>7 DEF PublishAttempts, Outcomes
<1>9. postsMade = 0 /\ unheard = 0 /\ onPage = 0 /\ leftOver = 0
    BY DEF PublishInit
<1> QED BY <1>8, <1>9 DEF PublishInv

\* At a step that may raise, or that makes the post, the post is still to come.
LEMMA StillToCome ==
    ASSUME PublishInv, NEW step \in AnyStep \ {"extra"}, At(step)
    PROVE  ToPublish
<1>1. publish.plan \in Seq(AnyStep) /\ publish.at \in Nat \ {0} /\ publish.at <= Len(publish.plan)
    BY DEF PublishInv, PublishAttempts, At
<1>2. publish.at \in DOMAIN publish.plan /\ publish.plan[publish.at] # "extra"
    BY <1>1 DEF At, Step
<1>3. PICK k \in DOMAIN publish.plan : /\ publish.plan[k] = "publish"
                                       /\ \A i \in DOMAIN publish.plan : i > k => publish.plan[i] = "extra"
    BY DEF PublishInv, MakesOnePost
<1>4. publish.at <= k
    BY <1>1, <1>2, <1>3
<1> QED BY <1>3, <1>4 DEF ToPublish

\* A step on, what was to come is to come, but for what this step was.
LEMMA StepsOn ==
    ASSUME PublishInv, publish.at <= Len(publish.plan),
           publish'.plan = publish.plan, publish'.at = publish.at + 1
    PROVE  /\ Step # "publish" => (ToPublish' <=> ToPublish)
           /\ Step = "publish" => ~ToPublish'
<1>1. /\ publish.plan \in Seq(AnyStep) /\ publish.at \in DOMAIN publish.plan
      /\ DOMAIN publish.plan \subseteq Nat /\ publish.at \in Nat
    BY DEF PublishInv, PublishAttempts
<1>2. ToPublish' <=> \E i \in DOMAIN publish.plan : publish.at + 1 <= i /\ publish.plan[i] = "publish"
    BY DEF ToPublish
<1>3. ASSUME Step # "publish" PROVE ToPublish' <=> ToPublish
    <2>1. \A i \in DOMAIN publish.plan : publish.plan[i] = "publish" /\ publish.at <= i
                                           => publish.at + 1 <= i
        BY <1>1, <1>3 DEF Step
    <2>2. \A i \in DOMAIN publish.plan : publish.at + 1 <= i => publish.at <= i
        BY <1>1
    <2> QED BY <1>2, <2>1, <2>2 DEF ToPublish
<1>4. ASSUME Step = "publish" PROVE ~ToPublish'
    <2>1. PICK k \in DOMAIN publish.plan :
             /\ \A i \in DOMAIN publish.plan : i < k => publish.plan[i] # "publish"
             /\ \A i \in DOMAIN publish.plan : i > k => publish.plan[i] = "extra"
        BY DEF PublishInv, MakesOnePost
    <2>2. publish.at >= k
        BY <1>1, <1>4, <2>1 DEF Step
    <2>3. \A i \in DOMAIN publish.plan : publish.at + 1 <= i => publish.plan[i] = "extra"
        BY <1>1, <2>1, <2>2
    <2> QED BY <1>2, <2>3
<1> QED BY <1>3, <1>4

LEMMA AdvanceMoves ==
    ASSUME PublishInv, Advance
    PROVE  /\ publish' \in PublishAttempts /\ publish'.plan = publish.plan /\ publish'.at = publish.at + 1
           /\ publish'.outcome = publish.outcome /\ Photos' = Photos
<1>1. publish \in PublishAttempts
    BY DEF PublishInv
<1>2. publish.at + 1 \in Nat \ {0}
    BY <1>1 DEF PublishAttempts
<1>3. publish' = [publish EXCEPT !.at = publish.at + 1, !.polls = 0]
    BY DEF Advance
<1>4. publish' \in PublishAttempts
    BY <1>1, <1>2, <1>3, AttemptChanges
<1>5. /\ publish'.plan = publish.plan /\ publish'.at = publish.at + 1
      /\ publish'.outcome = publish.outcome /\ publish'.platform = publish.platform
      /\ publish'.staged = publish.staged
    BY <1>1, <1>3 DEF PublishAttempts
<1> QED BY <1>4, <1>5 DEF Photos

LEMMA FailedAttemptEnds ==
    ASSUME PublishInv, NEW permanent \in BOOLEAN, Failed(permanent)
    PROVE  /\ publish' \in PublishAttempts /\ publish'.plan = publish.plan
           /\ publish'.outcome \in {"waiting", "failed"}
<1>1. publish \in PublishAttempts
    BY DEF PublishInv
<1>2. publish.retries + 1 \in Nat
    BY <1>1 DEF PublishAttempts
<1>3. ASSUME publish' = [publish EXCEPT !.outcome = "failed"]
      PROVE  /\ publish' \in PublishAttempts /\ publish'.plan = publish.plan
             /\ publish'.outcome = "failed"
    <2>1. publish' \in PublishAttempts
        BY <1>1, <1>3, AttemptChanges
    <2> QED BY <1>1, <1>3, <2>1 DEF PublishAttempts
<1>4. ASSUME publish' = [publish EXCEPT !.outcome = "waiting", !.retries = publish.retries + 1]
      PROVE  /\ publish' \in PublishAttempts /\ publish'.plan = publish.plan
             /\ publish'.outcome = "waiting"
    <2>1. publish' \in PublishAttempts
        BY <1>1, <1>2, <1>4, AttemptChanges
    <2> QED BY <1>1, <1>4, <2>1 DEF PublishAttempts
<1> QED BY <1>3, <1>4 DEF Failed

\* An attempt that fails before the post leaves none, and no photo that is not counted.
LEMMA RaiseKeepsPublish ==
    ASSUME PublishInv, NEW permanent \in BOOLEAN, Failed(permanent), NEW page \in Int,
           NEW lost \in Nat, DeleteStaged(page, lost), postsMade' = postsMade, unheard' = unheard,
           postsMade <= unheard, page <= leftOver + Photos + lost
    PROVE  PublishInv'
<1>1. /\ publish' \in PublishAttempts /\ publish'.plan = publish.plan
      /\ publish'.outcome \in {"waiting", "failed"}
    BY FailedAttemptEnds
<1>2. Photos \in Nat
    BY DEF PublishInv, PublishAttempts, Photos
<1>3. PICK kept \in 0..Photos : onPage' = page - (Photos - kept) /\ leftOver' = leftOver + kept + lost
    BY DEF DeleteStaged
<1>4. postsMade \in Nat /\ unheard \in Nat /\ leftOver \in Nat /\ MakesOnePost(publish.plan)
    BY DEF PublishInv
<1>5. onPage' \in Int /\ leftOver' \in Nat /\ onPage' <= leftOver'
    BY <1>2, <1>3, <1>4
<1>6. postsMade' <= unheard' /\ postsMade' \in Nat /\ unheard' \in Nat
    BY <1>4
<1>7. publish'.outcome # "running" /\ publish'.outcome # "published"
    BY <1>1
<1>8. MakesOnePost(publish'.plan)
    BY <1>1, <1>4
<1> QED BY <1>1, <1>5, <1>6, <1>7, <1>8 DEF PublishInv

LEMMA QuietAdvanceKeeps ==
    ASSUME PublishInv, NEW step \in QuietSteps, At(step), Advance,
           UNCHANGED <<postsMade, unheard, onPage, leftOver>>
    PROVE  PublishInv'
<1>1. publish.outcome = "running" /\ publish.at <= Len(publish.plan) /\ Step # "publish"
    BY DEF At, QuietSteps
<1>2. /\ publish' \in PublishAttempts /\ publish'.plan = publish.plan /\ publish'.outcome = "running"
      /\ Photos' = Photos /\ publish'.at = publish.at + 1
    BY <1>1, AdvanceMoves
<1>3. ToPublish' <=> ToPublish
    BY <1>1, <1>2, StepsOn
<1> QED BY <1>1, <1>2, <1>3 DEF PublishInv

\* One more post, and its answer was bad.
LEMMA PostUnheard ==
    ASSUME postsMade \in Nat, unheard \in Nat, postsMade <= unheard,
           postsMade' = postsMade + 1, unheard' = unheard + 1
    PROVE  /\ unheard' \in Nat /\ 1 <= postsMade' /\ postsMade' <= 1 + unheard'
           /\ postsMade' <= unheard'
OBVIOUS

LEMMA PublishNextKeeps == PublishInv /\ [PublishNext]_publishVars => PublishInv'
<1> SUFFICES ASSUME PublishInv, [PublishNext]_publishVars PROVE PublishInv'
    OBVIOUS
<1>0. /\ postsMade \in Nat /\ unheard \in Nat /\ onPage \in Int /\ leftOver \in Nat
      /\ Photos \in Nat /\ publish \in PublishAttempts
    BY DEF PublishInv, PublishAttempts, Photos
<1>1. CASE UNCHANGED publishVars
    BY <1>1 DEF publishVars, PublishInv, ToPublish, Photos
<1>2. CASE Dispatch
    <2>1. publish.outcome = "waiting" /\ UNCHANGED <<postsMade, unheard, onPage, leftOver>>
        BY <1>2 DEF Dispatch
    <2>2. postsMade <= unheard /\ onPage <= leftOver
        BY <1>0, <2>1 DEF PublishInv
    <2>3. ASSUME publish' = [publish EXCEPT !.outcome = "running", !.at = 1, !.polls = 0, !.staged = 0]
          PROVE  PublishInv'
        <3>1. /\ publish' \in PublishAttempts /\ publish'.plan = publish.plan /\ publish'.at = 1
              /\ publish'.outcome = "running" /\ publish'.staged = 0
            <4>1. publish' \in PublishAttempts
                BY <1>0, <2>3, AttemptChanges
            <4> QED BY <1>0, <2>3, <4>1 DEF PublishAttempts
        <3>2. ToPublish'
            <4>1. PICK k \in DOMAIN publish.plan : publish.plan[k] = "publish"
                BY DEF PublishInv, MakesOnePost
            <4>2. k \in Nat /\ 1 <= k
                BY <1>0, <4>1 DEF PublishAttempts
            <4> QED BY <3>1, <4>1, <4>2 DEF ToPublish
        <3>3. Photos' = 0
            BY <3>1 DEF Photos
        <3> QED BY <1>0, <2>1, <2>2, <3>1, <3>2, <3>3 DEF PublishInv
    <2>4. ASSUME Failed(FALSE) PROVE PublishInv'
        <3>1. /\ publish' \in PublishAttempts /\ publish'.plan = publish.plan
              /\ publish'.outcome \in {"waiting", "failed"}
            BY <2>4, FailedAttemptEnds
        <3> QED BY <1>0, <2>1, <2>2, <3>1 DEF PublishInv
    <2> QED BY <1>2, <2>3, <2>4 DEF Dispatch
<1>3. CASE CheckPasses \/ ExtraDone
    BY <1>3, QuietAdvanceKeeps DEF CheckPasses, ExtraDone, QuietSteps
<1>4. CASE RequestSucceeds
    <2>1. ASSUME At("ask"), Advance, UNCHANGED <<onPage, postsMade, unheard, leftOver>>
          PROVE  PublishInv'
        BY <2>1, QuietAdvanceKeeps DEF QuietSteps
    <2>2. ASSUME At("stage"), publish' = [publish EXCEPT !.at = @ + 1, !.staged = @ + 1],
                 onPage' = onPage + (IF publish.platform = "facebook" THEN 1 ELSE 0),
                 UNCHANGED <<postsMade, unheard, leftOver>>
          PROVE  PublishInv'
        <3>1. /\ publish' \in PublishAttempts /\ publish'.plan = publish.plan /\ publish'.at = publish.at + 1
              /\ publish'.outcome = publish.outcome /\ publish'.platform = publish.platform
              /\ publish'.staged = publish.staged + 1 /\ publish.staged \in Nat
            <4>1. publish.staged \in Nat /\ publish.at + 1 \in Nat \ {0}
                BY <1>0 DEF PublishAttempts
            <4>2. publish' = [publish EXCEPT !.at = publish.at + 1, !.staged = publish.staged + 1]
                BY <2>2
            <4>3. publish.staged + 1 \in Nat
                BY <4>1
            <4>4. publish' \in PublishAttempts
                BY <1>0, <4>1, <4>2, <4>3, AttemptChanges
            <4> QED BY <1>0, <4>1, <4>2, <4>4 DEF PublishAttempts
        <3>2. publish.outcome = "running" /\ publish.at <= Len(publish.plan) /\ Step # "publish"
            BY <2>2 DEF At
        <3>3. ToPublish /\ (ToPublish' <=> ToPublish)
            BY <2>2, <3>1, <3>2, StillToCome, StepsOn DEF AnyStep, QuietSteps
        <3>4. Photos' = Photos + (IF publish.platform = "facebook" THEN 1 ELSE 0)
            BY <3>1 DEF Photos
        <3>5. onPage' <= leftOver' + Photos' /\ onPage' \in Int
            BY <1>0, <2>2, <3>2, <3>3, <3>4 DEF PublishInv
        <3> QED BY <1>0, <2>2, <3>1, <3>2, <3>3, <3>5 DEF PublishInv
    <2> QED BY <1>4, <2>1, <2>2 DEF RequestSucceeds
<1>5. ASSUME NEW step \in AnyStep \ {"extra"}, At(step), Raise, postsMade' = postsMade,
             unheard' = unheard
      PROVE  PublishInv'
    <2>1. ToPublish /\ publish.outcome = "running"
        BY <1>5, StillToCome DEF At
    <2>2. postsMade <= unheard /\ onPage <= leftOver + Photos + 0
        BY <1>0, <2>1 DEF PublishInv
    <2>3. PICK permanent \in BOOLEAN : Failed(permanent)
        BY <1>5 DEF Raise
    <2>4. DeleteStaged(onPage, 0)
        BY <1>5 DEF Raise
    <2> QED BY <1>0, <1>5, <2>2, <2>3, <2>4, RaiseKeepsPublish
<1>6. CASE StepRaises
    BY <1>5, <1>6 DEF StepRaises, Swallowed, AnyStep, QuietSteps
<1>7. CASE StagedUnheard
    <2>1. ToPublish /\ publish.outcome = "running"
        BY <1>7, StillToCome DEF StagedUnheard, At, AnyStep, QuietSteps
    <2>2. postsMade <= unheard /\ onPage + 1 <= leftOver + Photos + 1 /\ onPage + 1 \in Int
        BY <1>0, <2>1 DEF PublishInv
    <2>3. /\ Failed(FALSE) /\ DeleteStaged(onPage + 1, 1)
          /\ postsMade' = postsMade /\ unheard' = unheard
        BY <1>7 DEF StagedUnheard
    <2> QED BY <2>2, <2>3, RaiseKeepsPublish
<1>8. CASE PollContainer
    <2>1. At("wait") /\ postsMade' = postsMade /\ unheard' = unheard
        BY <1>8 DEF PollContainer
    <2>2. ASSUME Advance, UNCHANGED <<onPage, leftOver>> PROVE PublishInv'
        BY <2>1, <2>2, QuietAdvanceKeeps DEF QuietSteps
    <2>3. ASSUME publish' = [publish EXCEPT !.polls = @ + 1], UNCHANGED <<onPage, leftOver>>
          PROVE  PublishInv'
        <3>1. /\ publish' \in PublishAttempts /\ publish'.plan = publish.plan /\ publish'.at = publish.at
              /\ publish'.outcome = publish.outcome /\ Photos' = Photos
            BY SMTT(30), <1>0, <2>3 DEF PublishAttempts, Photos
        <3>2. ToPublish' <=> ToPublish
            BY <3>1 DEF ToPublish
        <3> QED BY <2>1, <2>3, <3>1, <3>2 DEF PublishInv
    <2>4. ASSUME Raise PROVE PublishInv'
        BY <1>5, <2>1, <2>4 DEF AnyStep, QuietSteps
    <2> QED BY <1>8, <2>2, <2>3, <2>4 DEF PollContainer
<1>9. CASE PlatformPublishes
    <2>1. /\ At("publish") /\ postsMade' = postsMade + 1 /\ onPage' = onPage - Photos
          /\ leftOver' = leftOver
        BY <1>9 DEF PlatformPublishes
    <2>2. ToPublish /\ publish.outcome = "running" /\ Step = "publish"
          /\ publish.at <= Len(publish.plan)
        BY <2>1, StillToCome DEF At, AnyStep
    <2>3. /\ postsMade <= unheard /\ onPage' <= leftOver' /\ onPage' \in Int /\ leftOver' \in Nat
          /\ postsMade' \in Nat
        BY <1>0, <2>1, <2>2 DEF PublishInv
    <2>4. PICK answer \in {"good", "lost", "garbled", "no id"} :
             /\ unheard' = unheard + (IF answer = "good" THEN 0 ELSE 1)
             /\ IF Readable(publish.platform, answer) THEN Advance ELSE Failed(FALSE)
        BY <1>9 DEF PlatformPublishes
    <2>5. ASSUME answer = "good" PROVE unheard' = unheard
        BY <1>0, <2>4, <2>5
    <2>6. ASSUME answer # "good" PROVE unheard' = unheard + 1
        BY <1>0, <2>4, <2>6
    <2>7. postsMade' = postsMade + 1 /\ postsMade \in Nat /\ unheard \in Nat /\ postsMade <= unheard
        BY <1>0, <2>1, <2>3
    <2>8. CASE Readable(publish.platform, answer)
        <3>1. /\ publish' \in PublishAttempts /\ publish'.plan = publish.plan /\ publish'.outcome = "running"
              /\ publish'.at = publish.at + 1
            BY <2>2, <2>4, <2>8, AdvanceMoves
        <3>2. ~ToPublish'
            BY <2>2, <3>1, StepsOn
        <3>3. unheard' \in Nat /\ 1 <= postsMade' /\ postsMade' <= 1 + unheard'
            <4>1. CASE answer = "good"
                BY <2>5, <2>7, <4>1
            <4>2. CASE answer # "good"
                <5>1. unheard' = unheard + 1
                    BY <2>6, <4>2
                <5> QED BY <2>7, <5>1, PostUnheard
            <4> QED BY <4>1, <4>2
        <3>4. MakesOnePost(publish'.plan)
            BY <3>1 DEF PublishInv
        <3> QED BY <2>3, <3>1, <3>2, <3>3, <3>4 DEF PublishInv
    <2>9. CASE ~Readable(publish.platform, answer)
        <3>1. answer # "good"
            BY <2>9 DEF Readable
        <3>2. /\ publish' \in PublishAttempts /\ publish'.plan = publish.plan
              /\ publish'.outcome \in {"waiting", "failed"}
            BY <2>4, <2>9, FailedAttemptEnds
        <3>3. unheard' \in Nat /\ postsMade' <= unheard'
            <4>1. unheard' = unheard + 1
                BY <2>6, <3>1
            <4> QED BY <2>7, <4>1, PostUnheard
        <3>4. MakesOnePost(publish'.plan) /\ publish'.outcome # "running"
            BY <3>2 DEF PublishInv
        <3> QED BY <2>3, <3>2, <3>3, <3>4 DEF PublishInv
    <2> QED BY <2>8, <2>9
<1>10. CASE PublishReturns
    <2>1. /\ publish.outcome = "running" /\ publish.at > Len(publish.plan)
          /\ publish' = [publish EXCEPT !.outcome = "published"]
          /\ UNCHANGED <<postsMade, unheard, onPage, leftOver>>
        BY <1>10 DEF PublishReturns
    <2>2. ~ToPublish
        <3>1. publish.plan \in Seq(AnyStep) /\ publish.at \in Nat
            BY <1>0 DEF PublishAttempts
        <3> QED BY <2>1, <3>1 DEF ToPublish
    <2>3. /\ publish' \in PublishAttempts /\ publish'.plan = publish.plan /\ publish'.outcome = "published"
        BY <1>0, <2>1 DEF PublishAttempts, Outcomes
    <2> QED BY <2>1, <2>2, <2>3 DEF PublishInv
<1> QED BY <1>1, <1>2, <1>3, <1>4, <1>6, <1>7, <1>8, <1>9, <1>10 DEF PublishNext

LEMMA PublishInvHolds == PublishInv => OutcomeIsTold
<1> SUFFICES ASSUME PublishInv PROVE OutcomeIsTold
    OBVIOUS
<1>1. /\ postsMade \in Nat /\ unheard \in Nat /\ onPage \in Int /\ leftOver \in Nat
    BY DEF PublishInv
<1> QED BY <1>1 DEF PublishInv, OutcomeIsTold, FailureMeansNoPost, NothingAccumulates

-------------------------------------------------------------------------------
(* AgentAccess: what the state is made of *)

HeldPerms == SUBSET (KeyPerms \cup Gone)
KeyRows == [perms : SUBSET KeyPerms, accounts : SUBSET KeyAccounts, expires : Nat, revoked : BOOLEAN]
CacheEntries == [kind : {"row"}, row : KeyRows, until : Nat]
Lookups == [step : {"read"}, process : Processes, hit : BOOLEAN, row : {NoKey}, since : Nat]
Verifications == [step : {"verify", "store"}, process : Processes, hit : BOOLEAN,
                  row : KeyRows, since : Nat]
Admissions == [step : {"resolve", "act"}, perms : SUBSET KeyPerms, lost : HeldPerms]
OpenEdits == [step : {"edit", "revoke", "bust"}, process : Processes, since : Nat,
              read : SUBSET KeyPerms]
Requests == Lookups \cup Verifications \cup Admissions \cup {NoAgent}
Commits == [step : {"commit"}, process : Processes, since : Nat, read : SUBSET KeyPerms,
            decides : HeldPerms, new : KeyRows]
Edits == OpenEdits \cup Commits \cup {NoEdit}
KeyPasts == [at : Nat, by : Processes \cup {"nobody"}, late : SUBSET Processes,
             revoked : BOOLEAN, chosen : HeldPerms, crossed : HeldPerms]

KeyTypes ==
    /\ key \in KeyRows /\ holds \in [KeyEditors -> HeldPerms]
    /\ cached \in [Processes -> CacheEntries \cup {NoKey}]
    /\ agent \in [Agents -> Requests]
    /\ keyEdits \in [KeyEditors -> Edits]
    /\ hours \in Nat /\ keyPast \in KeyPasts

\* What each step of a request or an edit has in hand.
LEMMA KeyHands ==
    ASSUME KeyTypes
    PROVE  /\ \A a \in Agents :
                 /\ agent[a].step = "read" => agent[a] \in Lookups
                 /\ agent[a].step \in {"verify", "store"} => agent[a] \in Verifications
                 /\ agent[a].step \in {"resolve", "act"} => agent[a] \in Admissions
           /\ \A e \in KeyEditors :
                 /\ keyEdits[e].step \in {"edit", "revoke", "bust"} => keyEdits[e] \in OpenEdits
                 /\ keyEdits[e].step = "commit" => keyEdits[e] \in Commits
           /\ \A p \in Processes : cached[p] # NoKey => cached[p] \in CacheEntries
           /\ \A u \in KeyEditors : holds[u] \in HeldPerms
<1>1. \A a \in Agents : agent[a] \in Requests
    BY DEF KeyTypes
<1>2. /\ \A r \in Verifications : r.step \in {"verify", "store"}
      /\ \A r \in Lookups : r.step = "read"
      /\ \A r \in Admissions : r.step \in {"resolve", "act"}
      /\ NoAgent.step = "idle"
    BY DEF Lookups, Verifications, Admissions, NoAgent
<1>3. \A e \in KeyEditors : keyEdits[e] \in Edits
    BY DEF KeyTypes
<1>4. /\ \A r \in OpenEdits : r.step \in {"edit", "revoke", "bust"}
      /\ \A r \in Commits : r.step = "commit"
      /\ NoEdit.step = "idle"
    BY DEF OpenEdits, Commits, NoEdit
<1>5. /\ \A p \in Processes : cached[p] # NoKey => cached[p] \in CacheEntries
      /\ \A u \in KeyEditors : holds[u] \in HeldPerms
    BY DEF KeyTypes
<1>6. \A a \in Agents :
         /\ agent[a].step = "read" => agent[a] \in Lookups
         /\ agent[a].step \in {"verify", "store"} => agent[a] \in Verifications
         /\ agent[a].step \in {"resolve", "act"} => agent[a] \in Admissions
    BY <1>1, <1>2 DEF Requests
<1>7. \A e \in KeyEditors :
         /\ keyEdits[e].step \in {"edit", "revoke", "bust"} => keyEdits[e] \in OpenEdits
         /\ keyEdits[e].step = "commit" => keyEdits[e] \in Commits
    BY <1>3, <1>4 DEF Edits
<1> QED BY <1>5, <1>6, <1>7

LEMMA KeyTypesKept == KeyTypes /\ [AccessNext]_accessVars => KeyTypes'
<1> SUFFICES ASSUME KeyTypes, [AccessNext]_accessVars PROVE KeyTypes'
    OBVIOUS
<1>0. /\ key \in KeyRows /\ holds \in [KeyEditors -> HeldPerms]
      /\ cached \in [Processes -> CacheEntries \cup {NoKey}]
      /\ agent \in [Agents -> Requests]
      /\ keyEdits \in [KeyEditors -> Edits]
      /\ hours \in Nat /\ keyPast \in KeyPasts
    BY DEF KeyTypes
<1>1. CASE UNCHANGED accessVars
    BY <1>1 DEF accessVars, KeyTypes
<1>2. ASSUME NEW a \in Agents, NEW r \in Requests, Agent(a, r)
      PROVE  agent' \in [Agents -> Requests]
    BY <1>0, <1>2 DEF Agent
<1>3. ASSUME NEW e \in KeyEditors, NEW r \in Edits, Edit(e, r)
      PROVE  keyEdits' \in [KeyEditors -> Edits]
    BY <1>0, <1>3 DEF Edit
<1>4. ASSUME NEW a \in Agents, NEW p \in Processes, Present(a, p) PROVE KeyTypes'
    <2> DEFINE hit == cached[p] # NoKey
               r == [step |-> IF hit THEN "verify" ELSE "read", process |-> p, hit |-> hit,
                     row |-> IF hit THEN cached[p].row ELSE NoKey, since |-> 0]
    <2>1. Agent(a, r) /\ UNCHANGED <<key, holds, cached, keyEdits, hours, keyChanges, keyPast>>
        BY <1>4 DEF Present
    <2>2. hit => cached[p].row \in KeyRows
        BY KeyHands DEF CacheEntries
    <2>3. r \in Requests
        BY <2>2 DEF Requests, Lookups, Verifications
    <2> HIDE DEF r
    <2> QED BY <1>0, <1>2, <2>1, <2>3 DEF KeyTypes
<1>5. ASSUME NEW a \in Agents, ReadRow(a) PROVE KeyTypes'
    <2> DEFINE r == [agent[a] EXCEPT !.step = "store", !.row = key, !.since = hours]
    <2>1. agent[a].step = "read" /\ Agent(a, r)
          /\ UNCHANGED <<key, holds, cached, keyEdits, hours, keyChanges, keyPast>>
        BY <1>5 DEF ReadRow
    <2>2. agent[a] \in Lookups
        BY <2>1, KeyHands
    <2>3. r \in Verifications
        BY <1>0, <2>2 DEF Lookups, Verifications
    <2> HIDE DEF r
    <2> QED BY <1>0, <1>2, <2>1, <2>3 DEF KeyTypes, Requests
<1>6. ASSUME NEW a \in Agents, StoreRow(a) PROVE KeyTypes'
    <2> DEFINE p == agent[a].process
               overtaken == agent[a].row # key \/ \E e \in KeyEditors : keyEdits[e].step = "commit"
               r == [agent[a] EXCEPT !.step = "verify", !.since = 0]
               entry == [kind |-> "row", row |-> agent[a].row, until |-> hours + KeyTTL]
               late == IF overtaken THEN keyPast.late \cup {p} ELSE keyPast.late \ {p}
    <2>1. /\ agent[a].step = "store" /\ Agent(a, r)
          /\ UNCHANGED <<key, holds, keyEdits, hours, keyChanges>>
          /\ \/ cached' = [cached EXCEPT ![p] = entry] /\ keyPast' = [keyPast EXCEPT !.late = late]
             \/ cached' = cached /\ keyPast' = keyPast
        BY <1>6 DEF StoreRow
    <2>2. agent[a] \in Verifications
        BY <2>1, KeyHands
    <2>3. r \in Verifications /\ p \in Processes /\ agent[a].row \in KeyRows
        BY <2>2 DEF Verifications
    <2>4. late \in SUBSET Processes
        <3> HIDE DEF overtaken
        <3> QED BY <1>0, <2>3 DEF KeyPasts
    <2>5. entry \in CacheEntries
        <3>1. hours + KeyTTL \in Nat
            BY <1>0, AccessAssumption
        <3> QED BY <2>3, <3>1 DEF CacheEntries
    <2> HIDE DEF r, late, entry, overtaken
    <2>6. agent' \in [Agents -> Requests]
        BY <1>2, <2>1, <2>3 DEF Requests
    <2>7. cached' \in [Processes -> CacheEntries \cup {NoKey}]
        BY <1>0, <2>1, <2>5
    <2>8. keyPast' \in KeyPasts
        BY <1>0, <2>1, <2>4 DEF KeyPasts
    <2> QED BY <1>0, <2>1, <2>6, <2>7, <2>8 DEF KeyTypes
<1>7. ASSUME NEW a \in Agents, Authorize(a) PROVE KeyTypes'
    <2> DEFINE r == [step |-> "resolve", perms |-> agent[a].row.perms, lost |-> {}]
    <2>1. agent[a].step = "verify" /\ Agent(a, r)
          /\ UNCHANGED <<key, holds, cached, keyEdits, hours, keyChanges, keyPast>>
        BY <1>7 DEF Authorize
    <2>2. agent[a].row \in KeyRows
        BY <2>1, KeyHands DEF Verifications
    <2>3. r \in Admissions
        BY <2>2 DEF Admissions, KeyRows, HeldPerms
    <2> HIDE DEF r
    <2> QED BY <1>0, <1>2, <2>1, <2>3 DEF KeyTypes, Requests
<1>8. ASSUME NEW a \in Agents, Admit(a) PROVE KeyTypes'
    <2> DEFINE r == [agent[a] EXCEPT !.step = "act", !.perms = @ \cap Granting(Issuer)]
    <2>1. agent[a].step = "resolve" /\ Agent(a, r)
          /\ UNCHANGED <<key, holds, cached, keyEdits, hours, keyChanges, keyPast>>
        BY <1>8 DEF Admit
    <2>2. agent[a] \in Admissions
        BY <2>1, KeyHands
    <2>3. r \in Admissions
        BY <2>2 DEF Admissions
    <2> HIDE DEF r
    <2> QED BY <1>0, <1>2, <2>1, <2>3 DEF KeyTypes, Requests
<1>9. ASSUME NEW a \in Agents, RefuseKey(a) \/ Answer(a) PROVE KeyTypes'
    <2>1. /\ Agent(a, NoAgent) /\ UNCHANGED <<key, holds, keyEdits, hours, keyChanges, keyPast>>
          /\ cached' = cached \/ cached' = [cached EXCEPT ![agent[a].process] = NoKey]
        BY <1>9 DEF RefuseKey, Answer
    <2>2. cached' \in [Processes -> CacheEntries \cup {NoKey}]
        BY <1>0, <2>1
    <2> QED BY <1>0, <1>2, <2>1, <2>2 DEF KeyTypes, Requests
<1>10. ASSUME NEW e \in KeyEditors, NEW p \in Processes, NEW kind \in {"edit", "revoke"},
              OpenKey(e, p, kind)
       PROVE  KeyTypes'
    <2> DEFINE r == [step |-> kind, process |-> p, since |-> 0,
                     read |-> IF kind = "edit" THEN key.perms ELSE {}]
    <2>1. Edit(e, r) /\ UNCHANGED <<key, holds, cached, agent, hours, keyPast>>
        BY <1>10 DEF OpenKey
    <2>2. r \in OpenEdits
        BY <1>0 DEF OpenEdits, KeyRows
    <2> HIDE DEF r
    <2> QED BY <1>0, <1>3, <2>1, <2>2 DEF KeyTypes, Edits
<1>11. ASSUME NEW e \in KeyEditors, NEW posted \in SUBSET KeyPerms, NEW accounts \in SUBSET KeyAccounts,
              NEW expires \in {NoExpiry, LastAccess}, SaveEdit(e, posted, accounts, expires)
       PROVE  KeyTypes'
    <2> DEFINE new == NewPerms(posted, Granting(e), keyEdits[e].read)
               row == [perms |-> new, accounts |-> accounts, expires |-> expires, revoked |-> FALSE]
               r == [step |-> "commit", process |-> keyEdits[e].process, since |-> hours,
                     read |-> keyEdits[e].read, decides |-> Granting(e), new |-> row]
    <2>1. /\ keyEdits[e].step = "edit" /\ Edit(e, r)
          /\ cached' = [cached EXCEPT ![keyEdits[e].process] = NoKey]
          /\ UNCHANGED <<key, holds, agent, hours, keyChanges, keyPast>>
        BY <1>11 DEF SaveEdit
    <2>2. keyEdits[e] \in OpenEdits /\ holds[e] \in HeldPerms
        BY <2>1, KeyHands
    <2>3. row \in KeyRows
        <3>1. expires \in Nat
            BY AccessAssumption DEF NoExpiry
        <3>2. new \in SUBSET KeyPerms
            BY <2>2 DEF NewPerms, OpenEdits
        <3> QED BY <3>1, <3>2 DEF KeyRows
    <2>4. Granting(e) \in HeldPerms
        BY <2>2 DEF Granting, HeldPerms
    <2> HIDE DEF row
    <2>5. r \in Commits
        BY <1>0, <2>2, <2>3, <2>4 DEF Commits, OpenEdits
    <2> HIDE DEF r
    <2>6. cached' \in [Processes -> CacheEntries \cup {NoKey}]
        BY <1>0, <2>1
    <2> QED BY <1>0, <1>3, <2>1, <2>5, <2>6 DEF KeyTypes, Edits
<1>12. ASSUME NEW e \in KeyEditors, EditRefused(e) PROVE KeyTypes'
    <2>1. Edit(e, NoEdit) /\ UNCHANGED <<key, holds, cached, agent, hours, keyPast>>
        BY <1>12 DEF EditRefused
    <2> QED BY <1>0, <1>3, <2>1 DEF KeyTypes, Edits
<1>13. ASSUME NEW e \in KeyEditors, CommitKey(e) PROVE KeyTypes'
    <2> DEFINE row == Saved(key, keyEdits[e].new)
               decided == keyEdits[e].decides
               chosen == (keyEdits[e].new.perms \cap decided) \cup (keyPast.chosen \ decided)
               crossed == keyPast.crossed \cup (key.perms \ keyEdits[e].read)
                                          \cup (keyEdits[e].read \ key.perms)
               past == [[keyPast EXCEPT !.at = hours, !.by = keyEdits[e].process]
                           EXCEPT !.chosen = chosen, !.crossed = crossed]
    <2>1. /\ keyEdits[e].step = "commit" /\ key' = row /\ Edit(e, NoEdit)
          /\ UNCHANGED <<holds, cached, agent, hours, keyChanges>>
        BY <1>13 DEF CommitKey
    <2>2. keyPast' = past
        BY <1>13 DEF CommitKey, Changed
    <2>3. keyEdits[e] \in Commits
        BY <2>1, KeyHands
    <2>4. row \in KeyRows
        BY <1>0, <2>3 DEF Commits, KeyRows, Saved
    <2>5. chosen \in HeldPerms /\ crossed \in HeldPerms
        BY <1>0, <2>3 DEF Commits, KeyRows, KeyPasts, HeldPerms
    <2> HIDE DEF chosen, crossed
    <2>6. past \in KeyPasts
        BY <1>0, <2>3, <2>5 DEF Commits, KeyPasts
    <2> HIDE DEF past, row
    <2> QED BY <1>0, <1>3, <2>1, <2>2, <2>4, <2>6 DEF KeyTypes, Edits
<1>14. ASSUME NEW e \in KeyEditors, Revoke(e) PROVE KeyTypes'
    <2> DEFINE r == [keyEdits[e] EXCEPT !.step = "bust", !.since = hours]
               past == [[keyPast EXCEPT !.at = hours, !.by = keyEdits[e].process]
                           EXCEPT !.revoked = TRUE]
    <2>1. /\ keyEdits[e].step = "revoke" /\ key' = [key EXCEPT !.revoked = TRUE] /\ Edit(e, r)
          /\ keyPast' = past /\ UNCHANGED <<holds, cached, agent, hours, keyChanges>>
        BY <1>14 DEF Revoke, Changed
    <2>2. keyEdits[e] \in OpenEdits
        BY <2>1, KeyHands
    <2>3. r \in OpenEdits /\ past \in KeyPasts
        BY <1>0, <2>2 DEF OpenEdits, KeyPasts
    <2> HIDE DEF r, past
    <2>4. key' \in KeyRows
        BY <1>0, <2>1 DEF KeyRows
    <2> QED BY <1>0, <1>3, <2>1, <2>3, <2>4 DEF KeyTypes, Edits
<1>15. ASSUME NEW e \in KeyEditors, Bust(e) PROVE KeyTypes'
    <2>1. /\ Edit(e, NoEdit) /\ cached' = [cached EXCEPT ![keyEdits[e].process] = NoKey]
          /\ keyPast' = [keyPast EXCEPT !.late = keyPast.late \ {keyEdits[e].process}]
          /\ UNCHANGED <<key, holds, agent, hours, keyChanges>>
        BY <1>15 DEF Bust
    <2>2. cached' \in [Processes -> CacheEntries \cup {NoKey}]
        BY <1>0, <2>1
    <2>3. keyPast' \in KeyPasts
        BY <1>0, <2>1 DEF KeyPasts
    <2> QED BY <1>0, <1>3, <2>1, <2>2, <2>3 DEF KeyTypes, Edits
<1>16. ASSUME NEW u \in KeyEditors, NEW perms \in KeyRoles, SetRole(u, perms) PROVE KeyTypes'
    <2>1. /\ holds' = [holds EXCEPT ![u] = perms]
          /\ agent' = [a \in Agents |->
                         IF u = Issuer /\ agent[a].step \in {"resolve", "act"}
                         THEN [agent[a] EXCEPT !.lost = agent[a].lost \cup (holds[u] \ perms)
                                                          \cup (perms \cap Gone)]
                         ELSE agent[a]]
          /\ UNCHANGED <<key, cached, keyEdits, hours, keyPast>>
        BY <1>16 DEF SetRole
    <2>2. perms \in HeldPerms
        BY DEF KeyRoles, HeldPerms
    <2>3. holds' \in [KeyEditors -> HeldPerms]
        BY <1>0, <2>1, <2>2
    <2>4. ASSUME NEW a \in Agents PROVE agent'[a] \in Requests
        <3>1. CASE u = Issuer /\ agent[a].step \in {"resolve", "act"}
            <4>1. agent[a] \in Admissions /\ holds[u] \in HeldPerms
                BY <3>1, KeyHands
            <4>2. agent[a].lost \cup (holds[u] \ perms) \cup (perms \cap Gone) \in HeldPerms
                BY <2>2, <4>1 DEF Admissions, HeldPerms
            <4>3. agent'[a] = [agent[a] EXCEPT !.lost = agent[a].lost \cup (holds[u] \ perms)
                                                          \cup (perms \cap Gone)]
                BY <2>1, <3>1
            <4>4. agent'[a] \in Admissions
                BY <4>1, <4>2, <4>3 DEF Admissions
            <4> QED BY <4>4 DEF Requests
        <3>2. CASE ~(u = Issuer /\ agent[a].step \in {"resolve", "act"})
            <4>1. agent'[a] = agent[a]
                BY <2>1, <3>2
            <4> QED BY <1>0, <4>1
        <3> QED BY <3>1, <3>2
    <2>5. agent' \in [Agents -> Requests]
        BY <2>1, <2>4
    <2> QED BY <1>0, <2>1, <2>3, <2>5 DEF KeyTypes
<1>17. CASE AccessHour
    <2>1. /\ hours' = hours + 1
          /\ cached' = [p \in Processes |->
                          IF cached[p] # NoKey /\ cached[p].until <= hours + 1 THEN NoKey ELSE cached[p]]
          /\ UNCHANGED <<key, holds, agent, keyEdits, keyChanges, keyPast>>
        BY <1>17 DEF AccessHour
    <2>2. \A p \in Processes : cached'[p] = NoKey \/ cached'[p] = cached[p]
        BY <2>1
    <2>3. cached' \in [Processes -> CacheEntries \cup {NoKey}]
        BY <1>0, <2>1, <2>2
    <2>4. hours' \in Nat
        BY <1>0, <2>1
    <2> QED BY <1>0, <2>1, <2>3, <2>4 DEF KeyTypes
<1> QED BY <1>1, <1>4, <1>5, <1>6, <1>7, <1>8, <1>9, <1>10, <1>11, <1>12, <1>13, <1>14, <1>15,
           <1>16, <1>17 DEF AccessNext

-------------------------------------------------------------------------------
(* AgentAccess: what the edits decide, and what the issuer bounds *)

\* An edit on its way to the row leaves what its editor cannot grant as it was read.
DecisionsKept ==
    /\ RevocationStands /\ PermsAreChosen
    /\ \A e \in KeyEditors : keyEdits[e].step = "commit" =>
          keyEdits[e].new.perms \ keyEdits[e].decides = keyEdits[e].read \ keyEdits[e].decides

\* Whoever was let in was let in for a member, from the look-up on.
IssuerFits ==
    /\ \A a \in Agents : agent[a].step = "resolve" =>
          IsMember(Issuer) \/ Gone \subseteq agent[a].lost
    /\ IssuerBoundsKey

LEMMA DecisionsStillKept == KeyTypes /\ DecisionsKept /\ [AccessNext]_accessVars => DecisionsKept'
<1> SUFFICES ASSUME KeyTypes, DecisionsKept, [AccessNext]_accessVars PROVE DecisionsKept'
    OBVIOUS
<1>0. /\ key \in KeyRows /\ keyEdits \in [KeyEditors -> Edits] /\ keyPast \in KeyPasts
    BY DEF KeyTypes
<1>1. ASSUME UNCHANGED <<key, keyPast>>,
             \A e \in KeyEditors : keyEdits'[e].step = "commit" => keyEdits'[e] = keyEdits[e]
      PROVE  DecisionsKept'
    BY <1>1 DEF DecisionsKept, RevocationStands, PermsAreChosen
<1>2. CASE \/ UNCHANGED accessVars \/ AccessHour
           \/ \E a \in Agents : \/ \E p \in Processes : Present(a, p)
                                \/ ReadRow(a) \/ Authorize(a) \/ Admit(a) \/ RefuseKey(a) \/ Answer(a)
           \/ \E e \in KeyEditors, perms \in KeyRoles : SetRole(e, perms)
    <2>1. UNCHANGED <<key, keyEdits, keyPast>>
        BY <1>2 DEF accessVars, AccessHour, Present, ReadRow, Authorize, Admit, RefuseKey, Answer, SetRole
    <2> QED BY <1>1, <2>1
<1>3. ASSUME NEW a \in Agents, StoreRow(a) PROVE DecisionsKept'
    <2> DEFINE overtaken == agent[a].row # key \/ \E e \in KeyEditors : keyEdits[e].step = "commit"
               late == IF overtaken THEN keyPast.late \cup {agent[a].process}
                       ELSE keyPast.late \ {agent[a].process}
    <2>1. /\ UNCHANGED <<key, keyEdits>>
          /\ keyPast' = [keyPast EXCEPT !.late = late] \/ keyPast' = keyPast
        BY <1>3 DEF StoreRow
    <2> HIDE DEF late
    <2>2. /\ keyPast'.revoked = keyPast.revoked /\ keyPast'.chosen = keyPast.chosen
          /\ keyPast'.crossed = keyPast.crossed
        BY <1>0, <2>1 DEF KeyPasts
    <2> QED BY <2>1, <2>2 DEF DecisionsKept, RevocationStands, PermsAreChosen
<1>4. ASSUME NEW e \in KeyEditors, NEW p \in Processes, NEW kind \in {"edit", "revoke"},
             OpenKey(e, p, kind)
      PROVE  DecisionsKept'
    <2> DEFINE r == [step |-> kind, process |-> p, since |-> 0,
                     read |-> IF kind = "edit" THEN key.perms ELSE {}]
    <2>1. keyEdits' = [keyEdits EXCEPT ![e] = r] /\ UNCHANGED <<key, keyPast>>
        BY <1>4 DEF OpenKey, Edit
    <2>2. r.step # "commit"
        OBVIOUS
    <2> HIDE DEF r
    <2> QED BY <1>0, <1>1, <2>1, <2>2
<1>5. ASSUME NEW e \in KeyEditors, NEW posted \in SUBSET KeyPerms, NEW accounts \in SUBSET KeyAccounts,
             NEW expires \in {NoExpiry, LastAccess}, SaveEdit(e, posted, accounts, expires)
      PROVE  DecisionsKept'
    <2> DEFINE new == NewPerms(posted, Granting(e), keyEdits[e].read)
               row == [perms |-> new, accounts |-> accounts, expires |-> expires, revoked |-> FALSE]
               r == [step |-> "commit", process |-> keyEdits[e].process, since |-> hours,
                     read |-> keyEdits[e].read, decides |-> Granting(e), new |-> row]
    <2>1. keyEdits' = [keyEdits EXCEPT ![e] = r] /\ UNCHANGED <<key, keyPast>>
        BY <1>5 DEF SaveEdit, Edit
    <2>2. new \ Granting(e) = keyEdits[e].read \ Granting(e)
        BY DEF NewPerms
    <2>3. r.new.perms = new /\ r.decides = Granting(e) /\ r.read = keyEdits[e].read
        OBVIOUS
    <2> HIDE DEF r, new
    <2>4. \A o \in KeyEditors : keyEdits'[o] = IF o = e THEN r ELSE keyEdits[o]
        BY <1>0, <2>1
    <2> QED BY <2>1, <2>2, <2>3, <2>4 DEF DecisionsKept, RevocationStands, PermsAreChosen
<1>6. ASSUME NEW e \in KeyEditors, EditRefused(e) PROVE DecisionsKept'
    <2>1. keyEdits' = [keyEdits EXCEPT ![e] = NoEdit] /\ UNCHANGED <<key, keyPast>>
        BY <1>6 DEF EditRefused, Edit
    <2> QED BY <1>0, <1>1, <2>1 DEF NoEdit
<1>7. ASSUME NEW e \in KeyEditors, CommitKey(e) PROVE DecisionsKept'
    <2> DEFINE new == keyEdits[e].new
               decided == keyEdits[e].decides
               chosen == (new.perms \cap decided) \cup (keyPast.chosen \ decided)
               crossed == keyPast.crossed \cup ((key.perms \ keyEdits[e].read)
                                                  \cup (keyEdits[e].read \ key.perms))
    <2>1. /\ keyEdits[e].step = "commit" /\ key' = [new EXCEPT !.revoked = key.revoked]
          /\ keyEdits' = [keyEdits EXCEPT ![e] = NoEdit]
        BY <1>7 DEF CommitKey, Edit, Saved
    <2>2. keyPast' = [[keyPast EXCEPT !.at = hours, !.by = keyEdits[e].process]
                        EXCEPT !.chosen = chosen, !.crossed = crossed]
        BY <1>7 DEF CommitKey, Changed
    <2>3. keyEdits[e] \in Commits
        BY <2>1, KeyHands
    <2>4. key'.perms = new.perms /\ key'.revoked = key.revoked
        BY <2>1, <2>3 DEF Commits, KeyRows
    <2>5. new.perms \ decided = keyEdits[e].read \ decided
        BY <2>1 DEF DecisionsKept
    <2>6. key.perms \ keyPast.crossed = keyPast.chosen \ keyPast.crossed
        BY DEF DecisionsKept, PermsAreChosen
    <2>7. ASSUME NEW x, x \notin crossed PROVE x \in new.perms <=> x \in chosen
        BY <2>5, <2>6, <2>7
    <2>8. new.perms \ crossed = chosen \ crossed
        BY <2>7
    <2> HIDE DEF new, chosen, crossed
    <2>9. /\ keyPast'.revoked = keyPast.revoked /\ keyPast'.chosen = chosen
          /\ keyPast'.crossed = crossed
        BY <1>0, <2>2 DEF KeyPasts
    <2>10. \A o \in KeyEditors : keyEdits'[o] = IF o = e THEN NoEdit ELSE keyEdits[o]
        BY <1>0, <2>1
    <2> QED BY <2>4, <2>8, <2>9, <2>10 DEF DecisionsKept, RevocationStands, PermsAreChosen, NoEdit
<1>8. ASSUME NEW e \in KeyEditors, Revoke(e) PROVE DecisionsKept'
    <2> DEFINE r == [keyEdits[e] EXCEPT !.step = "bust", !.since = hours]
    <2>1. /\ keyEdits[e].step = "revoke" /\ key' = [key EXCEPT !.revoked = TRUE]
          /\ keyEdits' = [keyEdits EXCEPT ![e] = r]
          /\ keyPast' = [[keyPast EXCEPT !.at = hours, !.by = keyEdits[e].process]
                           EXCEPT !.revoked = TRUE]
        BY <1>8 DEF Revoke, Changed, Edit
    <2>2. keyEdits[e] \in OpenEdits
        BY <2>1, KeyHands
    <2>3. r.step = "bust"
        BY <2>2 DEF OpenEdits
    <2> HIDE DEF r
    <2>4. /\ keyPast'.chosen = keyPast.chosen /\ keyPast'.crossed = keyPast.crossed
          /\ key'.perms = key.perms /\ key'.revoked = TRUE
        BY <1>0, <2>1 DEF KeyPasts, KeyRows
    <2>5. \A o \in KeyEditors : keyEdits'[o] = IF o = e THEN r ELSE keyEdits[o]
        BY <1>0, <2>1
    <2> QED BY <2>3, <2>4, <2>5 DEF DecisionsKept, RevocationStands, PermsAreChosen
<1>9. ASSUME NEW e \in KeyEditors, Bust(e) PROVE DecisionsKept'
    <2>1. /\ keyEdits' = [keyEdits EXCEPT ![e] = NoEdit]
          /\ keyPast' = [keyPast EXCEPT !.late = keyPast.late \ {keyEdits[e].process}]
          /\ UNCHANGED <<key>>
        BY <1>9 DEF Bust, Edit
    <2>2. /\ keyPast'.revoked = keyPast.revoked /\ keyPast'.chosen = keyPast.chosen
          /\ keyPast'.crossed = keyPast.crossed
        BY <1>0, <2>1 DEF KeyPasts
    <2>3. \A o \in KeyEditors : keyEdits'[o] = IF o = e THEN NoEdit ELSE keyEdits[o]
        BY <1>0, <2>1
    <2> QED BY <2>1, <2>2, <2>3 DEF DecisionsKept, RevocationStands, PermsAreChosen, NoEdit
<1> QED BY <1>2, <1>3, <1>4, <1>5, <1>6, <1>7, <1>8, <1>9 DEF AccessNext

LEMMA IssuerStillFits == KeyTypes /\ IssuerFits /\ [AccessNext]_accessVars => IssuerFits'
<1> SUFFICES ASSUME KeyTypes, IssuerFits, [AccessNext]_accessVars PROVE IssuerFits'
    OBVIOUS
<1>0. holds \in [KeyEditors -> HeldPerms] /\ agent \in [Agents -> Requests]
    BY DEF KeyTypes
<1>1. ASSUME holds' = holds,
             \A a \in Agents : agent'[a].step \in {"resolve", "act"} => agent'[a] = agent[a]
      PROVE  IssuerFits'
    BY <1>1 DEF IssuerFits, IssuerBoundsKey, IsMember, Granting
<1>2. CASE \/ UNCHANGED accessVars \/ AccessHour
           \/ \E e \in KeyEditors :
                 \/ \E p \in Processes, kind \in {"edit", "revoke"} : OpenKey(e, p, kind)
                 \/ \E posted \in SUBSET KeyPerms, accounts \in SUBSET KeyAccounts,
                       expires \in {NoExpiry, LastAccess} : SaveEdit(e, posted, accounts, expires)
                 \/ EditRefused(e) \/ CommitKey(e) \/ Revoke(e) \/ Bust(e)
    <2>1. UNCHANGED <<holds, agent>>
        BY <1>2 DEF accessVars, AccessHour, OpenKey, SaveEdit, EditRefused, CommitKey, Revoke, Bust
    <2> QED BY <1>1, <2>1
<1>3. ASSUME NEW a \in Agents, NEW r, agent' = [agent EXCEPT ![a] = r], holds' = holds,
             r.step \notin {"resolve", "act"}
      PROVE  IssuerFits'
    BY <1>0, <1>1, <1>3
<1>4. ASSUME NEW a \in Agents, NEW p \in Processes, Present(a, p) PROVE IssuerFits'
    <2> DEFINE hit == cached[p] # NoKey
               r == [step |-> IF hit THEN "verify" ELSE "read", process |-> p, hit |-> hit,
                     row |-> IF hit THEN cached[p].row ELSE NoKey, since |-> 0]
    <2>1. agent' = [agent EXCEPT ![a] = r] /\ holds' = holds
        BY <1>4 DEF Present, Agent
    <2>2. r.step \notin {"resolve", "act"}
        OBVIOUS
    <2> HIDE DEF r
    <2> QED BY <1>3, <2>1, <2>2
<1>5. ASSUME NEW a \in Agents, ReadRow(a) \/ StoreRow(a) PROVE IssuerFits'
    <2>1. \E r : /\ agent' = [agent EXCEPT ![a] = r] /\ holds' = holds
                 /\ r.step \notin {"resolve", "act"}
        <3>1. CASE ReadRow(a)
            <4> DEFINE r == [agent[a] EXCEPT !.step = "store", !.row = key, !.since = hours]
            <4>1. agent[a].step = "read" /\ agent' = [agent EXCEPT ![a] = r] /\ holds' = holds
                BY <3>1 DEF ReadRow, Agent
            <4>2. r.step = "store"
                BY <4>1, KeyHands DEF Lookups
            <4> HIDE DEF r
            <4> QED BY <4>1, <4>2
        <3>2. CASE StoreRow(a)
            <4> DEFINE r == [agent[a] EXCEPT !.step = "verify", !.since = 0]
            <4>1. agent[a].step = "store" /\ agent' = [agent EXCEPT ![a] = r] /\ holds' = holds
                BY <3>2 DEF StoreRow, Agent
            <4>2. r.step = "verify"
                BY <4>1, KeyHands DEF Verifications
            <4> HIDE DEF r
            <4> QED BY <4>1, <4>2
        <3> QED BY <1>5, <3>1, <3>2
    <2> QED BY <1>3, <2>1
<1>6. ASSUME NEW a \in Agents, RefuseKey(a) \/ Answer(a) PROVE IssuerFits'
    <2>1. agent' = [agent EXCEPT ![a] = NoAgent] /\ holds' = holds
        BY <1>6 DEF RefuseKey, Answer, Agent
    <2> QED BY <1>3, <2>1 DEF NoAgent
<1>7. ASSUME NEW a \in Agents, Authorize(a) PROVE IssuerFits'
    <2> DEFINE r == [step |-> "resolve", perms |-> agent[a].row.perms, lost |-> {}]
    <2>1. agent' = [agent EXCEPT ![a] = r] /\ holds' = holds /\ IsMember(Issuer)
        BY <1>7 DEF Authorize, Agent, IssuerAuthorized
    <2>2. r.step = "resolve"
        OBVIOUS
    <2> HIDE DEF r
    <2>3. \A b \in Agents : agent'[b] = IF b = a THEN r ELSE agent[b]
        BY <1>0, <2>1
    <2> QED BY <2>1, <2>2, <2>3 DEF IssuerFits, IssuerBoundsKey, IsMember, Granting
<1>8. ASSUME NEW a \in Agents, Admit(a) PROVE IssuerFits'
    <2> DEFINE r == [agent[a] EXCEPT !.step = "act", !.perms = @ \cap Granting(Issuer)]
    <2>1. agent[a].step = "resolve" /\ agent' = [agent EXCEPT ![a] = r] /\ holds' = holds
        BY <1>8 DEF Admit, Agent
    <2>2. /\ r.step = "act" /\ r.lost = agent[a].lost
          /\ r.perms = agent[a].perms \cap Granting(Issuer)
        BY <2>1, KeyHands DEF Admissions
    <2> HIDE DEF r
    <2>3. \A b \in Agents : agent'[b] = IF b = a THEN r ELSE agent[b]
        BY <1>0, <2>1
    <2> QED BY <2>1, <2>2, <2>3 DEF IssuerFits, IssuerBoundsKey, IsMember, Granting
<1>9. ASSUME NEW u \in KeyEditors, NEW perms \in KeyRoles, SetRole(u, perms) PROVE IssuerFits'
    <2>1. /\ holds' = [holds EXCEPT ![u] = perms]
          /\ agent' = [a \in Agents |->
                         IF u = Issuer /\ agent[a].step \in {"resolve", "act"}
                         THEN [agent[a] EXCEPT !.lost = agent[a].lost \cup (holds[u] \ perms)
                                                          \cup (perms \cap Gone)]
                         ELSE agent[a]]
        BY <1>9 DEF SetRole
    <2>2. CASE u # Issuer
        <3>1. agent' = [a \in Agents |-> agent[a]] /\ holds'[Issuer] = holds[Issuer]
            BY <1>0, <2>1, <2>2, AccessAssumption
        <3>2. \A a \in Agents : agent'[a] = agent[a]
            BY <3>1
        <3> QED BY <3>1, <3>2 DEF IssuerFits, IssuerBoundsKey, IsMember, Granting
    <2>3. CASE u = Issuer
        <3>1. holds'[Issuer] = perms
            BY <1>0, <2>1, <2>3
        <3>2. ASSUME NEW a \in Agents
              PROVE  /\ agent'[a].step = agent[a].step
                     /\ agent[a].step \in {"resolve", "act"} =>
                          /\ agent'[a].perms = agent[a].perms
                          /\ agent'[a].lost = agent[a].lost \cup (holds[Issuer] \ perms)
                                                            \cup (perms \cap Gone)
            <4>1. CASE agent[a].step \in {"resolve", "act"}
                <5>1. agent[a] \in Admissions
                    BY <4>1, KeyHands
                <5>2. agent'[a] = [agent[a] EXCEPT !.lost = agent[a].lost \cup (holds[u] \ perms)
                                                              \cup (perms \cap Gone)]
                    BY <2>1, <2>3, <4>1
                <5> QED BY <2>3, <5>1, <5>2 DEF Admissions
            <4>2. CASE agent[a].step \notin {"resolve", "act"}
                BY <2>1, <4>2
            <4> QED BY <4>1, <4>2
        <3>3. ASSUME NEW a \in Agents, agent[a].step \in {"resolve", "act"}
              PROVE  perms # Gone \/ Gone \subseteq agent'[a].lost
            BY <3>2, <3>3
        <3>4. ASSUME NEW a \in Agents, agent[a].step = "act"
              PROVE  agent'[a].perms \ agent'[a].lost \subseteq perms \ Gone
            <4>1. agent[a].perms \ agent[a].lost \subseteq holds[Issuer] \ Gone
                BY <3>4 DEF IssuerFits, IssuerBoundsKey, Granting
            <4> QED BY <3>2, <3>4, <4>1
        <3> QED BY <3>1, <3>2, <3>3, <3>4 DEF IssuerFits, IssuerBoundsKey, IsMember, Granting
    <2> QED BY <2>2, <2>3
<1> QED BY <1>2, <1>4, <1>5, <1>6, <1>7, <1>8, <1>9 DEF AccessNext

-------------------------------------------------------------------------------
(* AgentAccess: what the caches hold *)

\* Process p has an edit that will still empty its cache.
WillBust(p) == \E e \in KeyEditors : keyEdits[e].step = "bust" /\ keyEdits[e].process = p

\* An entry is younger than the time to live, a former row as old as the change, or
\* a verification raced the change; so is a row that waits to be cached.
EntryFits(p) ==
    /\ cached[p].until <= hours + KeyTTL
    /\ cached[p].row # key =>
         /\ cached[p].until <= keyPast.at + KeyTTL + SlowStep
         /\ p # keyPast.by \/ p \in keyPast.late \/ WillBust(p)
CacheFits(p) ==
    cached[p] # NoKey =>
      /\ EntryFits(p)
      /\ (\E e \in KeyEditors : keyEdits[e].step = "commit" /\ keyEdits[e].process = p)
           => p \in keyPast.late
StoreFits(a) ==
    agent[a].step = "store" =>
      /\ agent[a].since <= hours /\ hours - agent[a].since <= SlowStep
      /\ agent[a].row # key => agent[a].since <= keyPast.at
CachesFit ==
    /\ keyPast.at <= hours
    /\ \A p \in Processes : CacheFits(p)
    /\ \A a \in Agents : StoreFits(a)

LEMMA CachesStillFit == KeyTypes /\ CachesFit /\ [AccessNext]_accessVars => CachesFit'
<1> SUFFICES ASSUME KeyTypes, CachesFit, [AccessNext]_accessVars PROVE CachesFit'
    OBVIOUS
<1>0. /\ key \in KeyRows /\ keyEdits \in [KeyEditors -> Edits] /\ keyPast \in KeyPasts
      /\ cached \in [Processes -> CacheEntries \cup {NoKey}] /\ agent \in [Agents -> Requests]
      /\ hours \in Nat /\ KeyTTL \in Nat /\ SlowStep \in Nat
    BY AccessAssumption DEF KeyTypes
<1>a. /\ keyPast.at \in Nat /\ keyPast.at <= hours
      /\ \A p \in Processes : cached[p] # NoKey => cached[p].until \in Nat
      /\ \A a \in Agents : agent[a].step = "store" => agent[a].since \in Nat
    BY <1>0, KeyHands DEF KeyPasts, CacheEntries, Verifications, CachesFit
\* Nothing but a request that stores nothing, and caches that are emptied.
<1>1. ASSUME UNCHANGED <<key, keyEdits, keyPast, hours>>,
             \A p \in Processes : cached'[p] = cached[p] \/ cached'[p] = NoKey,
             \A a \in Agents : agent'[a].step = "store" => agent'[a] = agent[a]
      PROVE  CachesFit'
    BY <1>1 DEF CachesFit, CacheFits, EntryFits, StoreFits, WillBust
<1>2. CASE UNCHANGED accessVars
    BY <1>1, <1>2 DEF accessVars
<1>3. ASSUME NEW a \in Agents, NEW r, agent' = [agent EXCEPT ![a] = r], r.step # "store"
      PROVE  \A b \in Agents : agent'[b].step = "store" => agent'[b] = agent[b]
    BY <1>0, <1>3
<1>4. ASSUME NEW a \in Agents, NEW p \in Processes, Present(a, p) PROVE CachesFit'
    <2> DEFINE hit == cached[p] # NoKey
               r == [step |-> IF hit THEN "verify" ELSE "read", process |-> p, hit |-> hit,
                     row |-> IF hit THEN cached[p].row ELSE NoKey, since |-> 0]
    <2>1. agent' = [agent EXCEPT ![a] = r] /\ UNCHANGED <<key, keyEdits, keyPast, hours, cached>>
        BY <1>4 DEF Present, Agent
    <2>2. r.step # "store"
        OBVIOUS
    <2> HIDE DEF r
    <2> QED BY <1>1, <1>3, <2>1, <2>2
<1>5. ASSUME NEW a \in Agents, ReadRow(a) PROVE CachesFit'
    <2> DEFINE r == [agent[a] EXCEPT !.step = "store", !.row = key, !.since = hours]
    <2>1. /\ agent[a].step = "read" /\ agent' = [agent EXCEPT ![a] = r]
          /\ UNCHANGED <<key, cached, keyEdits, hours, keyPast>>
        BY <1>5 DEF ReadRow, Agent
    <2>2. r.row = key /\ r.since = hours
        BY <2>1, KeyHands DEF Lookups
    <2> HIDE DEF r
    <2>3. \A b \in Agents : agent'[b] = IF b = a THEN r ELSE agent[b]
        BY <1>0, <2>1
    <2>4. \A b \in Agents : StoreFits(b)'
        <3>1. hours <= hours /\ hours - hours <= SlowStep
            BY <1>0
        <3> QED BY <2>1, <2>2, <2>3, <3>1 DEF CachesFit, StoreFits
    <2> QED BY <2>1, <2>4 DEF CachesFit, CacheFits, EntryFits, WillBust
<1>6. ASSUME NEW a \in Agents, StoreRow(a) PROVE CachesFit'
    <2>p. PICK p \in Processes : p = agent[a].process
        BY <1>6, KeyHands DEF StoreRow, Verifications
    <2> DEFINE committing == \E e \in KeyEditors : keyEdits[e].step = "commit"
               overtaken == agent[a].row # key \/ committing
               r == [agent[a] EXCEPT !.step = "verify", !.since = 0]
               entry == [kind |-> "row", row |-> agent[a].row, until |-> hours + KeyTTL]
               late == IF overtaken THEN keyPast.late \cup {p} ELSE keyPast.late \ {p}
    <2>1. /\ agent[a].step = "store" /\ agent' = [agent EXCEPT ![a] = r]
          /\ UNCHANGED <<key, keyEdits, hours>>
          /\ \/ cached' = [cached EXCEPT ![p] = entry] /\ keyPast' = [keyPast EXCEPT !.late = late]
             \/ cached' = cached /\ keyPast' = keyPast
        BY <1>6, <2>p DEF StoreRow, Agent
    <2>2. agent[a] \in Verifications
        BY <2>1, KeyHands
    <2>3. r.step # "store"
        BY <2>2 DEF Verifications
    <2>4. \A b \in Agents : agent'[b].step = "store" => agent'[b] = agent[b]
        <3> HIDE DEF r
        <3> QED BY <1>3, <2>1, <2>3
    <2>5. CASE cached' = cached /\ keyPast' = keyPast
        BY <1>1, <2>1, <2>4, <2>5
    <2>6. CASE cached' = [cached EXCEPT ![p] = entry] /\ keyPast' = [keyPast EXCEPT !.late = late]
        <3>1. entry.row = agent[a].row /\ entry.until = hours + KeyTTL
            OBVIOUS
        <3>2. agent[a].row # key => p \in late
            OBVIOUS
        <3>3. committing => p \in late
            OBVIOUS
        <3>4. \A q \in Processes : q # p => (q \in late <=> q \in keyPast.late)
            OBVIOUS
        <3>5. StoreFits(a)
            BY DEF CachesFit
        <3> HIDE DEF r, entry, late, overtaken
        <3>6. /\ keyPast'.at = keyPast.at /\ keyPast'.by = keyPast.by /\ keyPast'.late = late
            BY <1>0, <2>6 DEF KeyPasts
        <3>7. \A q \in Processes : cached'[q] = IF q = p THEN entry ELSE cached[q]
            BY <1>0, <2>6
        <3>8. agent[a].row # key => hours + KeyTTL <= keyPast.at + KeyTTL + SlowStep
            BY <1>0, <1>a, <2>1, <3>5 DEF StoreFits
        <3>9. CacheFits(p)'
            <4>1. cached'[p] = entry
                BY <2>3, <3>7
            <4>2. EntryFits(p)'
                <5>1. hours + KeyTTL <= hours + KeyTTL
                    BY <1>0
                <5> QED BY <2>1, <3>1, <3>2, <3>6, <3>8, <4>1, <5>1 DEF EntryFits
            <4>3. (\E e \in KeyEditors : keyEdits'[e].step = "commit") => p \in late
                BY <2>1, <3>3
            <4> QED BY <3>6, <4>2, <4>3 DEF CacheFits
        <3>10. ASSUME NEW q \in Processes, q # p PROVE CacheFits(q)'
            <4>1. CacheFits(q) /\ cached'[q] = cached[q] /\ (q \in late <=> q \in keyPast.late)
                BY <3>4, <3>7, <3>10 DEF CachesFit
            <4> QED BY <2>1, <3>6, <4>1 DEF CacheFits, EntryFits, WillBust
        <3>11. \A b \in Agents : StoreFits(b)'
            BY <2>1, <2>4, <3>6 DEF CachesFit, StoreFits
        <3> QED BY <1>a, <2>1, <3>6, <3>9, <3>10, <3>11 DEF CachesFit
    <2> QED BY <2>1, <2>5, <2>6
<1>7. ASSUME NEW a \in Agents, Authorize(a) PROVE CachesFit'
    <2> DEFINE r == [step |-> "resolve", perms |-> agent[a].row.perms, lost |-> {}]
    <2>1. agent' = [agent EXCEPT ![a] = r] /\ UNCHANGED <<key, keyEdits, keyPast, hours, cached>>
        BY <1>7 DEF Authorize, Agent
    <2>2. r.step # "store"
        OBVIOUS
    <2> HIDE DEF r
    <2> QED BY <1>1, <1>3, <2>1, <2>2
<1>8. ASSUME NEW a \in Agents, Admit(a) PROVE CachesFit'
    <2> DEFINE r == [agent[a] EXCEPT !.step = "act", !.perms = @ \cap Granting(Issuer)]
    <2>1. /\ agent[a].step = "resolve" /\ agent' = [agent EXCEPT ![a] = r]
          /\ UNCHANGED <<key, keyEdits, keyPast, hours, cached>>
        BY <1>8 DEF Admit, Agent
    <2>2. r.step # "store"
        BY <2>1, KeyHands DEF Admissions
    <2> HIDE DEF r
    <2> QED BY <1>1, <1>3, <2>1, <2>2
<1>9. ASSUME NEW a \in Agents, RefuseKey(a) \/ Answer(a) PROVE CachesFit'
    <2>1. /\ agent' = [agent EXCEPT ![a] = NoAgent] /\ UNCHANGED <<key, keyEdits, keyPast, hours>>
          /\ cached' = cached \/ cached' = [cached EXCEPT ![agent[a].process] = NoKey]
        BY <1>9 DEF RefuseKey, Answer, Agent
    <2>2. \A p \in Processes : cached'[p] = cached[p] \/ cached'[p] = NoKey
        BY <1>0, <2>1
    <2>3. NoAgent.step # "store"
        BY DEF NoAgent
    <2> QED BY <1>1, <1>3, <2>1, <2>2, <2>3
\* An edit that neither commits nor waits to empty a cache changes hands.
<1>10. ASSUME NEW e \in KeyEditors, NEW r, keyEdits' = [keyEdits EXCEPT ![e] = r],
              UNCHANGED <<key, cached, agent, hours, keyPast>>,
              keyEdits[e].step # "bust", r.step # "commit"
       PROVE  CachesFit'
    <2>1. \A o \in KeyEditors : keyEdits'[o] = IF o = e THEN r ELSE keyEdits[o]
        BY <1>0, <1>10
    <2>2. \A p \in Processes : WillBust(p) => WillBust(p)'
        BY <1>10, <2>1 DEF WillBust
    <2>3. \A p \in Processes :
             (\E o \in KeyEditors : keyEdits'[o].step = "commit" /\ keyEdits'[o].process = p)
             => \E o \in KeyEditors : keyEdits[o].step = "commit" /\ keyEdits[o].process = p
        BY <1>10, <2>1
    <2>4. \A p \in Processes : CacheFits(p)'
        BY <1>10, <2>2, <2>3 DEF CachesFit, CacheFits, EntryFits
    <2> QED BY <1>10, <2>4 DEF CachesFit, StoreFits
<1>11. ASSUME NEW e \in KeyEditors, NEW p \in Processes, NEW kind \in {"edit", "revoke"},
              OpenKey(e, p, kind)
       PROVE  CachesFit'
    <2> DEFINE r == [step |-> kind, process |-> p, since |-> 0,
                     read |-> IF kind = "edit" THEN key.perms ELSE {}]
    <2>1. /\ keyEdits[e] = NoEdit /\ keyEdits' = [keyEdits EXCEPT ![e] = r]
          /\ UNCHANGED <<key, cached, agent, hours, keyPast>>
        BY <1>11 DEF OpenKey, Edit
    <2>2. r.step # "commit" /\ keyEdits[e].step # "bust"
        BY <2>1 DEF NoEdit
    <2> HIDE DEF r
    <2> QED BY <1>10, <2>1, <2>2
<1>12. ASSUME NEW e \in KeyEditors, NEW posted \in SUBSET KeyPerms, NEW accounts \in SUBSET KeyAccounts,
              NEW expires \in {NoExpiry, LastAccess}, SaveEdit(e, posted, accounts, expires)
       PROVE  CachesFit'
    <2> DEFINE p == keyEdits[e].process
               new == NewPerms(posted, Granting(e), keyEdits[e].read)
               row == [perms |-> new, accounts |-> accounts, expires |-> expires, revoked |-> FALSE]
               r == [step |-> "commit", process |-> p, since |-> hours,
                     read |-> keyEdits[e].read, decides |-> Granting(e), new |-> row]
    <2>1. /\ keyEdits[e].step = "edit" /\ keyEdits' = [keyEdits EXCEPT ![e] = r]
          /\ cached' = [cached EXCEPT ![p] = NoKey]
          /\ UNCHANGED <<key, agent, hours, keyPast>>
        BY <1>12 DEF SaveEdit, Edit
    <2>2. r.step = "commit" /\ r.process = p
        OBVIOUS
    <2> HIDE DEF r, p
    <2>3. \A o \in KeyEditors : keyEdits'[o] = IF o = e THEN r ELSE keyEdits[o]
        BY <1>0, <2>1
    <2>4. \A q \in Processes : cached'[q] = IF q = p THEN NoKey ELSE cached[q]
        BY <1>0, <2>1
    <2>5. \A q \in Processes : WillBust(q) => WillBust(q)'
        BY <2>1, <2>3 DEF WillBust
    <2>6. ASSUME NEW q \in Processes PROVE CacheFits(q)'
        <3>1. CASE q = p
            BY <2>4, <3>1 DEF CacheFits
        <3>2. CASE q # p
            <4>1. cached'[q] = cached[q] /\ CacheFits(q)
                BY <2>4, <3>2 DEF CachesFit
            <4>2. (\E o \in KeyEditors : keyEdits'[o].step = "commit" /\ keyEdits'[o].process = q)
                  => \E o \in KeyEditors : keyEdits[o].step = "commit" /\ keyEdits[o].process = q
                BY <2>2, <2>3, <3>2
            <4> QED BY <2>1, <2>5, <4>1, <4>2 DEF CacheFits, EntryFits
        <3> QED BY <3>1, <3>2
    <2> QED BY <2>1, <2>6 DEF CachesFit, StoreFits
<1>13. ASSUME NEW e \in KeyEditors, EditRefused(e) PROVE CachesFit'
    <2>1. /\ keyEdits[e].step = "edit" /\ keyEdits' = [keyEdits EXCEPT ![e] = NoEdit]
          /\ UNCHANGED <<key, cached, agent, hours, keyPast>>
        BY <1>13 DEF EditRefused, Edit
    <2>2. keyEdits[e].step # "bust" /\ NoEdit.step # "commit"
        BY <2>1 DEF NoEdit
    <2> QED BY <1>10, <2>1, <2>2
\* The row changes, at this hour, by an edit made in process by.
<1>14. ASSUME NEW e \in KeyEditors, NEW r, keyEdits' = [keyEdits EXCEPT ![e] = r],
              UNCHANGED <<cached, agent, hours>>,
              keyPast'.at = hours, keyPast'.by = keyEdits[e].process, keyPast'.late = keyPast.late,
              keyEdits[e].step # "bust", r.step # "commit",
              \/ keyEdits[e].step = "commit"
              \/ r.step = "bust" /\ r.process = keyEdits[e].process
       PROVE  CachesFit'
    <2>1. \A o \in KeyEditors : keyEdits'[o] = IF o = e THEN r ELSE keyEdits[o]
        BY <1>0, <1>14
    <2>2. ASSUME NEW p \in Processes, cached[p] # NoKey PROVE CacheFits(p)'
        <3>1. CacheFits(p) /\ cached[p].until \in Nat
            BY <1>a, <2>2 DEF CachesFit
        <3>2. cached[p].until <= hours + KeyTTL
            BY <2>2, <3>1 DEF CacheFits, EntryFits
        <3>3. cached[p].until <= hours + KeyTTL + SlowStep
            BY <1>0, <3>1, <3>2
        <3>4. p = keyEdits[e].process => p \in keyPast.late \/ WillBust(p)'
            <4>1. CASE keyEdits[e].step = "commit"
                BY <2>2, <3>1, <4>1 DEF CacheFits
            <4>2. CASE r.step = "bust" /\ r.process = keyEdits[e].process
                BY <2>1, <4>2 DEF WillBust
            <4> QED BY <1>14, <4>1, <4>2
        <3>5. EntryFits(p)'
            BY <1>14, <3>2, <3>3, <3>4 DEF EntryFits
        <3>6. (\E o \in KeyEditors : keyEdits'[o].step = "commit" /\ keyEdits'[o].process = p)
              => p \in keyPast.late
            BY <1>14, <2>1, <2>2, <3>1 DEF CacheFits
        <3> QED BY <1>14, <3>5, <3>6 DEF CacheFits
    <2>3. \A p \in Processes : CacheFits(p)'
        BY <1>14, <2>2 DEF CacheFits
    <2>4. ASSUME NEW a \in Agents PROVE StoreFits(a)'
        BY <1>14 DEF CachesFit, StoreFits
    <2>5. hours <= hours
        BY <1>0
    <2> QED BY <1>14, <2>3, <2>4, <2>5 DEF CachesFit
<1>15. ASSUME NEW e \in KeyEditors, CommitKey(e) PROVE CachesFit'
    <2>1. /\ keyEdits[e].step = "commit" /\ keyEdits' = [keyEdits EXCEPT ![e] = NoEdit]
          /\ UNCHANGED <<cached, agent, hours>>
        BY <1>15 DEF CommitKey, Edit
    <2>2. /\ keyPast'.at = hours /\ keyPast'.by = keyEdits[e].process
          /\ keyPast'.late = keyPast.late
        BY <1>0, <1>15 DEF CommitKey, Changed, KeyPasts
    <2>3. keyEdits[e].step # "bust" /\ NoEdit.step # "commit"
        BY <2>1 DEF NoEdit
    <2> QED BY <1>14, <2>1, <2>2, <2>3
<1>16. ASSUME NEW e \in KeyEditors, Revoke(e) PROVE CachesFit'
    <2> DEFINE r == [keyEdits[e] EXCEPT !.step = "bust", !.since = hours]
    <2>1. /\ keyEdits[e].step = "revoke" /\ keyEdits' = [keyEdits EXCEPT ![e] = r]
          /\ UNCHANGED <<cached, agent, hours>>
        BY <1>16 DEF Revoke, Edit
    <2>2. /\ keyPast'.at = hours /\ keyPast'.by = keyEdits[e].process
          /\ keyPast'.late = keyPast.late
        BY <1>0, <1>16 DEF Revoke, Changed, KeyPasts
    <2>3. r.step = "bust" /\ r.process = keyEdits[e].process
        BY <2>1, KeyHands DEF OpenEdits
    <2> HIDE DEF r
    <2> QED BY <1>14, <2>1, <2>2, <2>3
<1>17. ASSUME NEW e \in KeyEditors, Bust(e) PROVE CachesFit'
    <2> DEFINE p == keyEdits[e].process
    <2>1. /\ keyEdits[e].step = "bust" /\ keyEdits' = [keyEdits EXCEPT ![e] = NoEdit]
          /\ cached' = [cached EXCEPT ![p] = NoKey]
          /\ keyPast' = [keyPast EXCEPT !.late = keyPast.late \ {p}]
          /\ UNCHANGED <<key, agent, hours>>
        BY <1>17 DEF Bust, Edit
    <2> HIDE DEF p
    <2>2. /\ keyPast'.at = keyPast.at /\ keyPast'.by = keyPast.by
          /\ keyPast'.late = keyPast.late \ {p}
        BY <1>0, <2>1 DEF KeyPasts
    <2>3. \A o \in KeyEditors : keyEdits'[o] = IF o = e THEN NoEdit ELSE keyEdits[o]
        BY <1>0, <2>1
    <2>4. \A q \in Processes : cached'[q] = IF q = p THEN NoKey ELSE cached[q]
        BY <1>0, <2>1
    <2>5. ASSUME NEW q \in Processes PROVE CacheFits(q)'
        <3>1. CASE q = p
            BY <2>4, <3>1 DEF CacheFits
        <3>2. CASE q # p
            <4>1. cached'[q] = cached[q] /\ CacheFits(q)
                BY <2>4, <3>2 DEF CachesFit
            <4>2. WillBust(q) => WillBust(q)'
                BY <2>3, <3>2 DEF WillBust, p
            <4>3. (\E o \in KeyEditors : keyEdits'[o].step = "commit" /\ keyEdits'[o].process = q)
                  => \E o \in KeyEditors : keyEdits[o].step = "commit" /\ keyEdits[o].process = q
                BY <2>3 DEF NoEdit
            <4> QED BY <2>1, <2>2, <3>2, <4>1, <4>2, <4>3 DEF CacheFits, EntryFits
        <3> QED BY <3>1, <3>2
    <2> QED BY <2>1, <2>2, <2>5 DEF CachesFit, StoreFits
<1>18. ASSUME NEW u \in KeyEditors, NEW perms \in KeyRoles, SetRole(u, perms) PROVE CachesFit'
    <2>1. /\ agent' = [a \in Agents |->
                         IF u = Issuer /\ agent[a].step \in {"resolve", "act"}
                         THEN [agent[a] EXCEPT !.lost = agent[a].lost \cup (holds[u] \ perms)
                                                          \cup (perms \cap Gone)]
                         ELSE agent[a]]
          /\ UNCHANGED <<key, cached, keyEdits, hours, keyPast>>
        BY <1>18 DEF SetRole
    <2>2. ASSUME NEW a \in Agents PROVE agent'[a].step = "store" => agent'[a] = agent[a]
        <3>1. CASE agent[a].step \in {"resolve", "act"}
            <4>1. \A lost : [agent[a] EXCEPT !.lost = lost].step = agent[a].step
                BY <3>1, KeyHands DEF Admissions
            <4> QED BY <2>1, <3>1, <4>1
        <3>2. CASE agent[a].step \notin {"resolve", "act"}
            BY <2>1, <3>2
        <3> QED BY <3>1, <3>2
    <2> QED BY <1>1, <2>1, <2>2
<1>19. CASE AccessHour
    <2>1. /\ hours' = hours + 1
          /\ \A a \in Agents : agent[a].step = "store" => hours - agent[a].since < SlowStep
          /\ cached' = [p \in Processes |->
                          IF cached[p] # NoKey /\ cached[p].until <= hours + 1 THEN NoKey ELSE cached[p]]
          /\ UNCHANGED <<key, agent, keyEdits, keyPast>>
        BY <1>19 DEF AccessHour
    <2>2. \A p \in Processes : cached'[p] = NoKey \/ cached'[p] = cached[p]
        BY <2>1
    <2>3. ASSUME NEW p \in Processes PROVE CacheFits(p)'
        <3>1. CASE cached'[p] = NoKey
            BY <3>1 DEF CacheFits
        <3>2. CASE cached'[p] # NoKey
            <4>1. cached'[p] = cached[p] /\ CacheFits(p) /\ cached[p].until \in Nat
                BY <1>a, <2>2, <3>2 DEF CachesFit
            <4>2. cached[p].until <= hours + KeyTTL
                BY <3>2, <4>1 DEF CacheFits, EntryFits
            <4>3. cached[p].until <= hours + 1 + KeyTTL
                BY <1>0, <4>1, <4>2
            <4> QED BY <2>1, <4>1, <4>3 DEF CacheFits, EntryFits, WillBust
        <3> QED BY <3>1, <3>2
    <2>4. ASSUME NEW a \in Agents, agent[a].step = "store" PROVE StoreFits(a)'
        <3>1. StoreFits(a) /\ agent[a].since \in Nat /\ hours - agent[a].since < SlowStep
            BY <1>a, <2>1, <2>4 DEF CachesFit
        <3>2. hours' \in Nat /\ hours' = hours + 1
            BY <1>0, <2>1
        <3>3. agent[a].since <= hours /\ (agent[a].row # key => agent[a].since <= keyPast.at)
            BY <2>4, <3>1 DEF StoreFits
        <3>4. agent[a].since <= hours' /\ hours' - agent[a].since <= SlowStep
            BY <1>0, <3>1, <3>2, <3>3
        <3>5. agent' = agent /\ key' = key /\ keyPast' = keyPast
            BY <2>1
        <3> QED BY <3>3, <3>4, <3>5 DEF StoreFits
    <2>5. \A a \in Agents : StoreFits(a)'
        BY <2>1, <2>4 DEF StoreFits
    <2>6. keyPast.at <= hours + 1
        BY <1>0, <1>a
    <2> QED BY <2>1, <2>3, <2>5, <2>6 DEF CachesFit
<1> QED BY <1>2, <1>4, <1>5, <1>6, <1>7, <1>8, <1>9, <1>11, <1>12, <1>13, <1>15, <1>16, <1>17,
           <1>18, <1>19 DEF AccessNext

-------------------------------------------------------------------------------

\* The inductive invariant of one key.
KeyInv == KeyTypes /\ DecisionsKept /\ IssuerFits /\ CachesFit

LEMMA KeyInvInit == AccessInit => KeyInv
<1> SUFFICES ASSUME AccessInit PROVE KeyInv
    OBVIOUS
<1>1. /\ key = [perms |-> KeyPerms, accounts |-> KeyAccounts, expires |-> NoExpiry, revoked |-> FALSE]
      /\ holds = [u \in KeyEditors |-> KeyPerms]
      /\ cached = [p \in Processes |-> NoKey]
      /\ agent = [a \in Agents |-> NoAgent] /\ keyEdits = [e \in KeyEditors |-> NoEdit]
      /\ hours = 0
      /\ keyPast = [at |-> 0, by |-> "nobody", late |-> {}, revoked |-> FALSE,
                    chosen |-> KeyPerms, crossed |-> {}]
    BY DEF AccessInit, KeyHistory
<1>2. KeyTypes
    <2>1. key \in KeyRows
        BY <1>1 DEF KeyRows, NoExpiry
    <2>2. keyPast \in KeyPasts
        BY <1>1 DEF KeyPasts, HeldPerms
    <2>3. holds \in [KeyEditors -> HeldPerms]
        BY <1>1 DEF HeldPerms
    <2>4. agent \in [Agents -> Requests] /\ keyEdits \in [KeyEditors -> Edits]
        BY <1>1 DEF Requests, Edits
    <2> QED BY <1>1, <2>1, <2>2, <2>3, <2>4 DEF KeyTypes
<1>3. DecisionsKept
    BY <1>1 DEF DecisionsKept, RevocationStands, PermsAreChosen, NoEdit
<1>4. \A a \in Agents : agent[a].step = "idle"
    BY <1>1 DEF NoAgent
<1>5. IssuerFits
    BY <1>4 DEF IssuerFits, IssuerBoundsKey
<1>6. CachesFit
    BY <1>1, <1>4 DEF CachesFit, CacheFits, StoreFits
<1> QED BY <1>2, <1>3, <1>5, <1>6 DEF KeyInv

LEMMA AccessNextKeeps == KeyInv /\ [AccessNext]_accessVars => KeyInv'
BY KeyTypesKept, DecisionsStillKept, IssuerStillFits, CachesStillFit DEF KeyInv

\* Nobody revives a revoked key, a stale cache catches up within its time to live, an
\* edit decides what its editor may grant, and a request acts within what the issuer may.
LEMMA KeyInvHolds == KeyInv => KeysAreSound
<1> SUFFICES ASSUME KeyInv PROVE KeysAreSound
    OBVIOUS
<1>1. ScopeCatchesUp
    BY DEF KeyInv, CachesFit, CacheFits, EntryFits, WillBust, ScopeCatchesUp
<1> QED BY <1>1 DEF KeyInv, DecisionsKept, IssuerFits, KeysAreSound

-------------------------------------------------------------------------------
(* AgentCalls: the throttle on failed logins *)

\* Who has seen a failure and has not counted it yet.
Trying == {t \in CallThreads : login[t] # "idle"}

\* The counter and those about to raise it stay below the limit and one per thread.
ThrottleInv ==
    /\ fails \in Nat /\ tried = fails
    /\ login \in [CallThreads -> {"idle", "refused", "raise"}]
    /\ fails + Cardinality(Trying) <= AuthFailLimit - 1 + Cardinality(CallThreads)

LEMMA TryingCounted ==
    /\ IsFiniteSet(CallThreads) /\ IsFiniteSet(Trying)
    /\ Cardinality(Trying) \in Nat /\ Cardinality(CallThreads) \in Nat
    /\ Cardinality(Trying) <= Cardinality(CallThreads)
<1>1. IsFiniteSet(CallThreads) /\ Trying \subseteq CallThreads
    BY AgentCallsAssumption DEF Trying
<1> QED BY <1>1, FS_Subset, FS_CardinalityType

LEMMA ThrottleInvInit == ThrottleInit => ThrottleInv
<1> SUFFICES ASSUME ThrottleInit PROVE ThrottleInv
    OBVIOUS
<1>1. Trying = {} /\ login \in [CallThreads -> {"idle", "refused", "raise"}]
    BY DEF ThrottleInit, Trying
<1>2. Cardinality(Trying) = 0
    BY <1>1, FS_EmptySet
<1>3. AuthFailLimit \in Nat \ {0}
    BY AgentCallsAssumption
<1>4. fails = 0 /\ tried = 0
    BY DEF ThrottleInit
<1> QED BY <1>1, <1>2, <1>3, <1>4, TryingCounted DEF ThrottleInv

LEMMA BelowLimit ==
    ASSUME NEW f \in Nat, NEW m \in Nat, NEW a \in Nat, NEW limit \in Nat \ {0}, f < limit, m <= a
    PROVE  f + m <= limit - 1 + a
OBVIOUS

LEMMA ThrottleNextKeeps == ThrottleInv /\ [ThrottleNext]_throttleVars => ThrottleInv'
<1> SUFFICES ASSUME ThrottleInv, [ThrottleNext]_throttleVars PROVE ThrottleInv'
    OBVIOUS
<1> DEFINE n == Cardinality(Trying)
           all == Cardinality(CallThreads)
<1>0. fails \in Nat /\ tried = fails /\ fails + n <= AuthFailLimit - 1 + all
      /\ login \in [CallThreads -> {"idle", "refused", "raise"}]
    BY DEF ThrottleInv
<1>1. n \in Nat /\ all \in Nat /\ n <= all /\ IsFiniteSet(Trying) /\ AuthFailLimit \in Nat \ {0}
    BY TryingCounted, AgentCallsAssumption
<1>2. IsFiniteSet(CallThreads) /\ Trying' \subseteq CallThreads
    BY TryingCounted DEF Trying
<1>3. IsFiniteSet(Trying') /\ n' \in Nat /\ n' <= all
    BY <1>2, FS_Subset, FS_CardinalityType
<1>4. CASE UNCHANGED throttleVars
    BY <1>4, <1>0 DEF throttleVars, ThrottleInv, Trying
<1>5. CASE \E t \in CallThreads : BadLogin(t)
    <2>1. PICK t \in CallThreads : BadLogin(t)
        BY <1>5
    <2>2. fails < AuthFailLimit /\ fails' = fails /\ tried' = tried
          /\ login' \in [CallThreads -> {"idle", "refused", "raise"}]
        BY <1>0, <2>1 DEF BadLogin
    <2> HIDE DEF n, all
    <2>3. fails' + n' <= AuthFailLimit - 1 + all
        <3>1. fails' \in Nat /\ fails' < AuthFailLimit
            BY <1>0, <2>2
        <3> QED BY <1>1, <1>3, <3>1, BelowLimit
    <2> QED BY <1>0, <2>2, <2>3 DEF ThrottleInv, n, all
<1>6. CASE \E t \in CallThreads : AddFailure(t)
    <2>1. PICK t \in CallThreads : AddFailure(t)
        BY <1>6
    <2>2. login' \in [CallThreads -> {"idle", "refused", "raise"}] /\ t \in Trying
        BY <1>0, <2>1 DEF AddFailure, Trying
    <2>3. CASE fails = 0
        <3>1. fails' = 1 /\ tried' = 1 /\ Trying' = Trying \ {t}
            BY <1>0, <2>1, <2>3 DEF AddFailure, Trying
        <3>2. n' = n - 1
            BY <1>1, <2>2, <3>1, FS_RemoveElement
        <3> HIDE DEF n, all
        <3>3. fails' + n' <= AuthFailLimit - 1 + all
            BY <1>0, <1>1, <1>3, <2>3, <3>1, <3>2
        <3> QED BY <2>2, <3>1, <3>3 DEF ThrottleInv, n, all
    <2>4. CASE fails # 0
        <3>1. fails' = fails /\ tried' = tried /\ Trying' = Trying
            BY <1>0, <2>1, <2>4 DEF AddFailure, Trying
        <3> QED BY <1>0, <2>2, <3>1 DEF ThrottleInv
    <2> QED BY <2>3, <2>4
<1>7. CASE \E t \in CallThreads : RaiseFailures(t)
    <2>1. PICK t \in CallThreads : RaiseFailures(t)
        BY <1>7
    <2>2. login' \in [CallThreads -> {"idle", "refused", "raise"}] /\ t \in Trying
          /\ fails' = fails + 1 /\ tried' = tried + 1 /\ Trying' = Trying \ {t}
        BY <1>0, <2>1 DEF RaiseFailures, Trying
    <2>3. n' = n - 1
        BY <1>1, <2>2, FS_RemoveElement
    <2> HIDE DEF n, all
    <2>4. fails' \in Nat /\ tried' = fails' /\ fails' + n' <= AuthFailLimit - 1 + all
        BY <1>0, <1>1, <1>3, <2>2, <2>3
    <2> QED BY <2>2, <2>4 DEF ThrottleInv, n, all
<1>8. CASE WindowEnds
    <2>1. fails' = 0 /\ tried' = 0 /\ login' = login
        BY <1>8 DEF WindowEnds
    <2>2. n' = n
        BY <2>1 DEF Trying
    <2> HIDE DEF n, all
    <2>3. fails' + n' <= AuthFailLimit - 1 + all
        <3>1. fails' \in Nat /\ fails' < AuthFailLimit
            BY <1>1, <2>1
        <3> QED BY <1>1, <1>3, <3>1, BelowLimit
    <2> QED BY <1>0, <2>1, <2>3 DEF ThrottleInv, n, all
<1> QED BY <1>4, <1>5, <1>6, <1>7, <1>8 DEF ThrottleNext

LEMMA ThrottleInvHolds == ThrottleInv => ThrottleHolds
<1> SUFFICES ASSUME ThrottleInv PROVE ThrottleHolds
    OBVIOUS
<1>1. /\ Cardinality(Trying) \in Nat /\ Cardinality(CallThreads) \in Nat
      /\ AuthFailLimit \in Nat \ {0}
    BY TryingCounted, AgentCallsAssumption
<1>2. fails \in Nat /\ tried = fails
      /\ fails + Cardinality(Trying) <= AuthFailLimit - 1 + Cardinality(CallThreads)
    BY DEF ThrottleInv
<1>3. tried <= AuthFailLimit - 1 + Cardinality(CallThreads)
    BY <1>1, <1>2
<1> QED BY <1>3 DEF ThrottleHolds

-------------------------------------------------------------------------------
(* AgentCalls: what a call is charged, admitted and logged *)

AgentCallSteps == {"idle", "first", "next", "write", "audit"}
AgentRowTypes ==
    [status : {"none", "draft", "scheduled", "published"}, made : Nat, touched : Nat,
     admitted : Int]
CallTypes ==
    [step : AgentCallSteps, caller : Callers \cup {"nobody"}, todo : Seq(Messages), crossed : BOOLEAN]

AdmittedRows == {p \in AgentPosts : Consuming(p) /\ agentRows[p].admitted > capDay - CapWindow}

\* A call that is to make a row count has looked at the quota, and while nobody came
\* between it still has room for it.
RoomKept(t) ==
    call[t].step = "write" /\ Schedules(Now(t)) /\ ~call[t].crossed
        => Cardinality(AdmittedRows) < DailyCap

CallFits(t) ==
    /\ call[t] \in CallTypes
    /\ call[t].step # "idle" => call[t].caller \in Callers /\ call[t].todo # <<>>
    /\ call[t].step = "idle" => call[t] = NoRequestYet

\* No more is let through than is charged, nor than the rate.
CountsFit ==
    \A c \in Callers \cup {"workspace"} :
        /\ handled[c] <= charged[c]
        /\ handled[c] <= IF c = "workspace" THEN WorkspaceRate ELSE CallRate[c]

AgentRowsFit ==
    /\ agentRows \in [AgentPosts -> AgentRowTypes]
    /\ \A p \in AgentPosts : agentRows[p].touched <= capDay /\ agentRows[p].admitted <= agentRows[p].touched

\* The inductive invariant of the agents' calls.
CallInv ==
    /\ capDay \in Nat /\ AgentRowsFit
    /\ DOMAIN call = CallThreads /\ (\A t \in CallThreads : CallFits(t) /\ RoomKept(t))
    /\ charged \in [Callers \cup {"workspace"} -> Nat]
    /\ handled \in [Callers \cup {"workspace"} -> Nat]
    /\ CountsFit
    /\ CapKept
    /\ owed \subseteq CallThreads /\ EffectsAreLogged

LEMMA AdmittedCounted == IsFiniteSet(AdmittedRows) /\ Cardinality(AdmittedRows) \in Nat
<1>1. IsFiniteSet(AgentPosts) /\ AdmittedRows \subseteq AgentPosts
    BY AgentCallsAssumption DEF AdmittedRows
<1> QED BY <1>1, FS_Subset, FS_CardinalityType

LEMMA FewerAdmitted ==
    ASSUME AdmittedRows' \subseteq AdmittedRows
    PROVE  /\ Cardinality(AdmittedRows') \in Nat
           /\ Cardinality(AdmittedRows') <= Cardinality(AdmittedRows)
BY AdmittedCounted, FS_Subset, FS_CardinalityType

LEMMA OneMoreAdmitted ==
    ASSUME NEW p, AdmittedRows' \subseteq AdmittedRows \cup {p}
    PROVE  /\ Cardinality(AdmittedRows') \in Nat
           /\ Cardinality(AdmittedRows') <= Cardinality(AdmittedRows) + 1
<1>1. /\ IsFiniteSet(AdmittedRows \cup {p})
      /\ Cardinality(AdmittedRows \cup {p}) \in Nat
      /\ Cardinality(AdmittedRows \cup {p}) <= Cardinality(AdmittedRows) + 1
    <2>1. \/ Cardinality(AdmittedRows \cup {p}) = Cardinality(AdmittedRows)
          \/ Cardinality(AdmittedRows \cup {p}) = Cardinality(AdmittedRows) + 1
        BY AdmittedCounted, FS_AddElement
    <2>2. IsFiniteSet(AdmittedRows \cup {p})
        BY AdmittedCounted, FS_AddElement
    <2> QED BY <2>1, <2>2, AdmittedCounted
<1>2. /\ Cardinality(AdmittedRows') \in Nat
      /\ Cardinality(AdmittedRows') <= Cardinality(AdmittedRows \cup {p})
    BY <1>1, FS_Subset, FS_CardinalityType
<1> QED BY <1>1, <1>2, AdmittedCounted

\* Who finds room in the quota finds room beside the rows that were admitted.
LEMMA QuotaCountsAdmitted ==
    ASSUME CallInv, QuotaLeft
    PROVE  Cardinality(AdmittedRows) < DailyCap
<1> DEFINE counted == {p \in AgentPosts : Counted(p)}
<1>1. AdmittedRows \subseteq counted
    <2> SUFFICES ASSUME NEW p \in AdmittedRows PROVE p \in counted
        OBVIOUS
    <2>1. /\ p \in AgentPosts /\ Consuming(p) /\ agentRows[p].admitted > capDay - CapWindow
          /\ agentRows[p].admitted <= agentRows[p].touched
          /\ agentRows[p].admitted \in Int /\ agentRows[p].touched \in Int
          /\ capDay \in Int /\ CapWindow \in Int
        BY AgentCallsAssumption DEF AdmittedRows, CallInv, AgentRowsFit, AgentRowTypes
    <2>2. agentRows[p].touched > capDay - CapWindow
        BY <2>1
    <2> QED BY <2>1, <2>2 DEF Counted
<1>2. IsFiniteSet(counted)
    BY AgentCallsAssumption, FS_Subset
<1>3. /\ Cardinality(AdmittedRows) \in Nat /\ Cardinality(counted) \in Nat
      /\ Cardinality(AdmittedRows) <= Cardinality(counted)
    <2> HIDE DEF counted
    <2> QED BY <1>1, <1>2, FS_Subset, FS_CardinalityType
<1>4. Cardinality(counted) < DailyCap /\ DailyCap \in Nat
    BY AgentCallsAssumption DEF QuotaLeft
<1> HIDE DEF counted
<1> QED BY <1>3, <1>4

LEMMA RowsStand ==
    ASSUME CallInv, agentRows' = agentRows, capDay' = capDay
    PROVE  capDay' \in Nat /\ AgentRowsFit' /\ AdmittedRows' = AdmittedRows /\ CapKept'
BY DEF CallInv, AgentRowsFit, AdmittedRows, Consuming, CapKept

\* A thread that does not move, while no row is admitted, has what it had.
LEMMA OthersKeep ==
    ASSUME CallInv, NEW u \in CallThreads, call'[u] = call[u], AdmittedRows' \subseteq AdmittedRows
    PROVE  CallFits(u)' /\ RoomKept(u)'
<1>1. CallFits(u) /\ RoomKept(u)
    BY DEF CallInv
<1>2. CallFits(u)'
    BY <1>1 DEF CallFits
<1>3. ASSUME Cardinality(AdmittedRows) < DailyCap PROVE Cardinality(AdmittedRows') < DailyCap
    <2>1. DailyCap \in Nat
        BY AgentCallsAssumption
    <2> QED BY <1>3, <2>1, AdmittedCounted, FewerAdmitted
<1>4. Now(u)' = Now(u)
    BY DEF Now
<1> QED BY <1>1, <1>2, <1>3, <1>4 DEF RoomKept

LEMMA CapStays ==
    ASSUME CallInv, AdmittedRows' \subseteq AdmittedRows
    PROVE  CapKept'
<1>1. Cardinality(AdmittedRows) <= DailyCap /\ DailyCap \in Nat
    BY AgentCallsAssumption DEF CallInv, CapKept, AdmittedRows
<1>2. Cardinality(AdmittedRows') <= DailyCap
    BY <1>1, AdmittedCounted, FewerAdmitted
<1> QED BY <1>2 DEF CapKept, AdmittedRows

LEMMA NoRequestFits ==
    /\ NoRequestYet \in CallTypes /\ NoRequestYet.step = "idle"
BY DEF NoRequestYet, CallTypes, AgentCallSteps

LEMMA CallInvInit == CallInit => CallInv
<1> SUFFICES ASSUME CallInit PROVE CallInv
    OBVIOUS
<1>1. /\ capDay = 0 /\ owed = {} /\ charged = [c \in Callers \cup {"workspace"} |-> 0]
      /\ handled = [c \in Callers \cup {"workspace"} |-> 0]
      /\ call = [t \in CallThreads |-> NoRequestYet]
    BY DEF CallInit
<1>2. AgentRowsFit
    <2>1. CapWindow \in Nat
        BY AgentCallsAssumption
    <2>2. NotAdmitted \in Int /\ NotAdmitted <= 0
        BY <2>1 DEF NotAdmitted
    <2>3. \A p \in AgentPosts : agentRows[p].touched = 0 /\ agentRows[p].admitted = NotAdmitted
        BY DEF CallInit
    <2>4. agentRows \in [AgentPosts -> AgentRowTypes]
        BY <2>2 DEF CallInit, AgentRowTypes
    <2> QED BY <1>1, <2>2, <2>3, <2>4 DEF AgentRowsFit
<1>3. CapKept
    <2>1. AdmittedRows = {}
        BY DEF CallInit, AdmittedRows, Consuming
    <2>2. Cardinality(AdmittedRows) = 0 /\ DailyCap \in Nat
        BY <2>1, FS_EmptySet, AgentCallsAssumption
    <2>3. Cardinality(AdmittedRows) <= DailyCap
        BY <2>2
    <2> QED BY <2>3 DEF CapKept, AdmittedRows
<1>4. \A t \in CallThreads : CallFits(t) /\ RoomKept(t)
    BY <1>1, NoRequestFits DEF CallFits, RoomKept
<1>5. CountsFit
    <2>1. \A c \in Callers : CallRate[c] \in Nat
        BY AgentCallsAssumption
    <2>2. WorkspaceRate \in Nat
        BY AgentCallsAssumption
    <2> QED BY <1>1, <2>1, <2>2 DEF CountsFit
<1>6. /\ charged \in [Callers \cup {"workspace"} -> Nat]
      /\ handled \in [Callers \cup {"workspace"} -> Nat] /\ DOMAIN call = CallThreads
    BY <1>1
<1>7. capDay \in Nat /\ owed \subseteq CallThreads /\ EffectsAreLogged
    BY <1>1 DEF EffectsAreLogged
<1> QED BY <1>2, <1>3, <1>4, <1>5, <1>6, <1>7 DEF CallInv

\* What the other conjuncts need of a step on which no row moves.
LEMMA CallStepKeeps ==
    ASSUME CallInv, NEW t \in CallThreads, NEW r, call' = [call EXCEPT ![t] = r],
           agentRows' = agentRows, capDay' = capDay, CallFits(t)', RoomKept(t)'
    PROVE  /\ capDay' \in Nat /\ AgentRowsFit' /\ CapKept'
           /\ DOMAIN call' = CallThreads
           /\ \A u \in CallThreads : CallFits(u)' /\ RoomKept(u)'
<1>1. capDay' \in Nat /\ AgentRowsFit' /\ AdmittedRows' = AdmittedRows /\ CapKept'
    BY RowsStand
<1>2. DOMAIN call' = CallThreads
    BY DEF CallInv
<1>3. ASSUME NEW u \in CallThreads PROVE CallFits(u)' /\ RoomKept(u)'
    <2>1. CASE u = t
        BY <2>1
    <2>2. CASE u # t
        <3>1. call'[u] = call[u]
            BY <2>2 DEF CallInv
        <3> QED BY <1>1, <3>1, OthersKeep
    <2> QED BY <2>1, <2>2
<1> QED BY <1>1, <1>2, <1>3

LEMMA EndpointKeeps ==
    ASSUME CallInv, NEW t \in CallThreads, NEW caller \in Callers, NEW batch \in Batches,
           McpEndpoint(t, caller, batch)
    PROVE  CallInv'
<1> DEFINE r == [NoRequestYet EXCEPT !.step = "first", !.caller = caller, !.todo = batch]
<1>1. call[t] = NoRequestYet /\ call' = [call EXCEPT ![t] = r]
      /\ UNCHANGED <<agentRows, charged, handled, owed, capDay, callFaults>>
    BY DEF McpEndpoint
<1>2. batch \in Seq(Messages) /\ batch # <<>>
    BY AgentCallsAssumption
<1>3. r \in CallTypes /\ r.step = "first" /\ r.caller = caller /\ r.todo = batch
    BY <1>2 DEF NoRequestYet, CallTypes, AgentCallSteps
<1> HIDE DEF r
<1>4. call'[t] = r
    BY <1>1 DEF CallInv
<1>5. CallFits(t)' /\ RoomKept(t)'
    BY <1>2, <1>3, <1>4 DEF CallFits, RoomKept
<1>6. /\ capDay' \in Nat /\ AgentRowsFit' /\ CapKept' /\ DOMAIN call' = CallThreads
      /\ \A u \in CallThreads : CallFits(u)' /\ RoomKept(u)'
    BY <1>1, <1>5, CallStepKeeps
<1>7. t \notin owed
    BY <1>1, NoRequestFits DEF CallInv, EffectsAreLogged
<1>8. EffectsAreLogged' /\ owed' \subseteq CallThreads
    BY <1>1, <1>7 DEF CallInv, EffectsAreLogged
<1>9. CountsFit' /\ charged' = charged /\ handled' = handled
    BY <1>1 DEF CallInv, CountsFit
<1> QED BY <1>6, <1>8, <1>9 DEF CallInv

\* A counter is raised with what it lets through, or alone.
LEMMA Raised ==
    ASSUME NEW h \in Nat, NEW c \in Nat, NEW rate \in Nat, h <= c, h <= rate
    PROVE  /\ c + 0 = c /\ c + 1 \in Nat /\ h <= c + 1
           /\ c + 1 <= rate => h + 1 \in Nat /\ h + 1 <= c + 1 /\ h + 1 <= rate
OBVIOUS

LEMMA LimitsKeepCounts ==
    ASSUME CallInv, NEW t \in CallThreads, EnforceRateLimits(t)
    PROVE  /\ charged' \in [Callers \cup {"workspace"} -> Nat]
           /\ handled' \in [Callers \cup {"workspace"} -> Nat]
           /\ CountsFit'
<1> DEFINE c == call[t].caller
           own == charged[c] + 1
           shared == charged["workspace"] + (IF own > CallRate[c] THEN 0 ELSE 1)
           over == own > CallRate[c] \/ shared > WorkspaceRate
<1>1. /\ call[t].step \in {"first", "next"}
      /\ charged' = [charged EXCEPT ![c] = own, !["workspace"] = shared]
      /\ handled' = IF over THEN handled ELSE [handled EXCEPT ![c] = @ + 1, !["workspace"] = @ + 1]
    BY DEF EnforceRateLimits, Charge
<1>2. c \in Callers /\ c # "workspace" /\ c \in Callers \cup {"workspace"}
    <2>1. "workspace" \notin Callers
        BY AgentCallsAssumption
    <2>2. CallFits(t)
        BY DEF CallInv
    <2> QED BY <1>1, <2>1, <2>2 DEF CallFits
<1>3. CallRate[c] \in Nat /\ WorkspaceRate \in Nat
    <2>1. \A d \in Callers : CallRate[d] \in Nat
        BY AgentCallsAssumption
    <2>2. WorkspaceRate \in Nat
        BY AgentCallsAssumption
    <2> QED BY <1>2, <2>1, <2>2
<1>4. /\ charged \in [Callers \cup {"workspace"} -> Nat]
      /\ handled \in [Callers \cup {"workspace"} -> Nat]
    BY DEF CallInv
<1>5. /\ charged[c] \in Nat /\ handled[c] \in Nat
      /\ charged["workspace"] \in Nat /\ handled["workspace"] \in Nat
      /\ handled[c] <= charged[c] /\ handled[c] <= CallRate[c]
      /\ handled["workspace"] <= charged["workspace"] /\ handled["workspace"] <= WorkspaceRate
    BY <1>2, <1>4 DEF CallInv, CountsFit
<1> DEFINE a == charged[c]
           b == charged["workspace"]
<1>6. own \in Nat /\ shared \in Nat /\ handled[c] <= own /\ handled["workspace"] <= shared
    <2>1. own \in Nat /\ handled[c] <= own
        BY <1>3, <1>5, Raised
    <2>2. CASE own > CallRate[c]
        <3>1. shared = b + 0
            BY <2>2
        <3> QED BY <1>3, <1>5, <2>1, <3>1, Raised
    <2>3. CASE ~(own > CallRate[c])
        <3>1. shared = b + 1
            BY <2>3
        <3> QED BY <1>3, <1>5, <2>1, <3>1, Raised
    <2> QED BY <2>2, <2>3
<1>7. CASE over
    <2>1. handled' = handled
        BY <1>1, <1>7
    <2> HIDE DEF c, own, shared, over
    <2>2. charged' \in [Callers \cup {"workspace"} -> Nat]
        BY <1>1, <1>4, <1>6
    <2>3. \A d \in Callers \cup {"workspace"} :
             \/ d = c /\ charged'[d] = own
             \/ d = "workspace" /\ charged'[d] = shared
             \/ d # c /\ d # "workspace" /\ charged'[d] = charged[d]
        BY <1>1, <1>2, <1>4
    <2>4. CountsFit'
        BY <1>6, <2>1, <2>3 DEF CallInv, CountsFit
    <2> QED BY <1>4, <2>1, <2>2, <2>4
<1>8. CASE ~over
    <2>1. handled' = [handled EXCEPT ![c] = handled[c] + 1, !["workspace"] = handled["workspace"] + 1]
        <3> HIDE DEF c, own, shared, over
        <3> QED BY <1>1, <1>2, <1>8
    <2>2. ~(own > CallRate[c]) /\ ~(shared > WorkspaceRate)
        BY <1>8
    <2>3. shared = b + 1
        BY <2>2
    <2>4. own <= CallRate[c] /\ shared <= WorkspaceRate
        <3> HIDE DEF c, own, shared, over, a, b
        <3> QED BY <1>3, <1>6, <2>2
    <2>5. /\ handled[c] + 1 \in Nat /\ handled[c] + 1 <= own /\ handled[c] + 1 <= CallRate[c]
        BY <1>3, <1>5, <2>4, Raised
    <2>6. /\ handled["workspace"] + 1 \in Nat /\ handled["workspace"] + 1 <= shared
          /\ handled["workspace"] + 1 <= WorkspaceRate
        <3>1. b + 1 <= WorkspaceRate
            BY <2>3, <2>4
        <3>2. handled["workspace"] + 1 <= b + 1 /\ handled["workspace"] + 1 \in Nat
              /\ handled["workspace"] + 1 <= WorkspaceRate
            BY <1>3, <1>5, <3>1, Raised
        <3> QED BY <2>3, <3>2
    <2> HIDE DEF c, own, shared, over
    <2>7. /\ charged' \in [Callers \cup {"workspace"} -> Nat]
          /\ handled' \in [Callers \cup {"workspace"} -> Nat]
        BY <1>1, <1>4, <1>6, <2>1, <2>5, <2>6
    <2>8. \A d \in Callers \cup {"workspace"} :
             \/ d = c /\ charged'[d] = own /\ handled'[d] = handled[c] + 1
             \/ d = "workspace" /\ charged'[d] = shared /\ handled'[d] = handled["workspace"] + 1
             \/ /\ d # c /\ d # "workspace" /\ charged'[d] = charged[d]
                /\ handled'[d] = handled[d]
        BY <1>1, <1>2, <1>4, <2>1
    <2>9. CountsFit'
        BY <1>2, <2>5, <2>6, <2>8 DEF CallInv, CountsFit
    <2> QED BY <2>7, <2>9
<1> QED BY <1>7, <1>8

LEMMA LimitsKeep ==
    ASSUME CallInv, NEW t \in CallThreads, EnforceRateLimits(t)
    PROVE  CallInv'
<1>1. /\ call[t].step \in {"first", "next"}
      /\ agentRows' = agentRows /\ owed' = owed /\ capDay' = capDay
      /\ (call' = [call EXCEPT ![t] = NoRequestYet] \/ CheckMessage(t))
    BY DEF EnforceRateLimits
<1>2. CallFits(t) /\ RoomKept(t) /\ DOMAIN call = CallThreads
    BY DEF CallInv
<1>3. t \notin owed
    BY <1>1 DEF CallInv, EffectsAreLogged
<1> DEFINE Rest == /\ capDay' \in Nat /\ AgentRowsFit' /\ CapKept' /\ DOMAIN call' = CallThreads
                   /\ \A u \in CallThreads : CallFits(u)' /\ RoomKept(u)'
<1>4. ASSUME NEW r, call' = [call EXCEPT ![t] = r], CallFits(t)', RoomKept(t)'
      PROVE  CallInv'
    <2>1. Rest
        BY <1>1, <1>4, CallStepKeeps
    <2>2. EffectsAreLogged' /\ owed' \subseteq CallThreads
        BY <1>1, <1>3, <1>4 DEF CallInv, EffectsAreLogged
    <2> QED BY <2>1, <2>2, LimitsKeepCounts DEF CallInv
<1>5. CASE call' = [call EXCEPT ![t] = NoRequestYet]
    <2>1. call'[t] = NoRequestYet
        BY <1>2, <1>5
    <2>2. CallFits(t)' /\ RoomKept(t)'
        BY <2>1, NoRequestFits DEF CallFits, RoomKept
    <2> QED BY <1>4, <1>5, <2>2
<1>6. CASE CheckMessage(t)
    <2> DEFINE at == IF Accepted(Now(t)) THEN "write" ELSE "audit"
               r == [call[t] EXCEPT !.step = at, !.crossed = FALSE]
    <2>1. call' = [call EXCEPT ![t] = r]
        BY <1>2, <1>6 DEF CheckMessage
    <2>2. at \in {"write", "audit"}
        OBVIOUS
    <2>3. call[t] \in CallTypes /\ call[t].caller \in Callers /\ call[t].todo # <<>>
        BY <1>1, <1>2 DEF CallFits
    <2>4. /\ r \in CallTypes /\ r.step = at /\ r.caller = call[t].caller /\ r.todo = call[t].todo
          /\ r.crossed = FALSE
        <3> HIDE DEF at
        <3> QED BY <2>2, <2>3 DEF CallTypes, AgentCallSteps
    <2>5. call'[t] = r
        BY <1>2, <2>1
    <2>6. at = "write" => Accepted(Now(t))
        OBVIOUS
    <2> HIDE DEF at, r
    <2>7. CallFits(t)'
        BY <2>2, <2>3, <2>4, <2>5 DEF CallFits
    <2>8. Now(t)' = Now(t)
        BY <2>4, <2>5 DEF Now
    <2>9. ASSUME Schedules(Now(t)), Accepted(Now(t)) PROVE Cardinality(AdmittedRows) < DailyCap
        <3>1. QuotaLeft
            BY <2>9 DEF Schedules, Accepted, MaySchedulePost, MayScheduleDraft
        <3> QED BY <3>1, QuotaCountsAdmitted
    <2>10. AdmittedRows' = AdmittedRows
        BY <1>1, RowsStand
    <2>11. RoomKept(t)'
        BY <2>4, <2>5, <2>6, <2>8, <2>9, <2>10 DEF RoomKept, Schedules
    <2> QED BY <1>4, <2>1, <2>7, <2>11
<1> QED BY <1>1, <1>5, <1>6

LEMMA WriteKeeps ==
    ASSUME CallInv, NEW t \in CallThreads, WriteMessage(t)
    PROVE  CallInv'
<1> DEFINE m == Now(t)
           row(p) == [status |-> IF Schedules(m) THEN "scheduled" ELSE "draft",
                      made |-> IF m.post = "new" THEN capDay ELSE agentRows[p].made,
                      touched |-> capDay,
                      admitted |-> IF Schedules(m) /\ ~call[t].crossed THEN capDay ELSE NotAdmitted]
           others == IF Schedules(m) THEN Overtaking(t) ELSE call
<1>1. PICK p \in AgentPosts : agentRows' = [agentRows EXCEPT ![p] = row(p)]
    BY DEF WriteMessage
<1>2. /\ call[t].step = "write" /\ call' = [others EXCEPT ![t].step = "audit"]
      /\ owed' = owed \cup {t} /\ UNCHANGED <<charged, handled, capDay, callNo, callFaults>>
    BY DEF WriteMessage
<1>3. /\ capDay \in Nat /\ CapWindow \in Nat /\ NotAdmitted \in Int /\ NotAdmitted <= capDay
      /\ ~(NotAdmitted > capDay - CapWindow)
    <2>1. capDay \in Nat /\ CapWindow \in Nat
        BY AgentCallsAssumption DEF CallInv
    <2> QED BY <2>1 DEF NotAdmitted
<1>4. /\ agentRows \in [AgentPosts -> AgentRowTypes] /\ row(p) \in AgentRowTypes
      /\ row(p).touched = capDay /\ row(p).admitted <= capDay
      /\ row(p).status \in {"scheduled", "draft"}
      /\ row(p).status = "scheduled" => Schedules(m)
      /\ (~Schedules(m) \/ call[t].crossed) => row(p).admitted = NotAdmitted
    BY <1>3 DEF CallInv, AgentRowsFit, AgentRowTypes
<1>5. CallFits(t) /\ RoomKept(t) /\ DOMAIN call = CallThreads
    BY DEF CallInv
<1> HIDE DEF row
<1>6. \A q \in AgentPosts : q # p => agentRows'[q] = agentRows[q]
    BY <1>1, <1>4
<1>7. agentRows'[p] = row(p) /\ capDay' = capDay
    BY <1>1, <1>2, <1>4
<1>8. AgentRowsFit'
    <2>1. agentRows' \in [AgentPosts -> AgentRowTypes]
        BY <1>1, <1>4
    <2>2. \A q \in AgentPosts : agentRows[q].touched <= capDay /\ agentRows[q].admitted <= agentRows[q].touched
        BY DEF CallInv, AgentRowsFit
    <2>3. ASSUME NEW q \in AgentPosts
          PROVE  agentRows'[q].touched <= capDay' /\ agentRows'[q].admitted <= agentRows'[q].touched
        <3>1. CASE q = p
            <4>1. agentRows'[q].touched = capDay /\ agentRows'[q].admitted <= capDay
                BY <1>4, <1>7, <3>1
            <4> QED BY <1>3, <1>7, <4>1
        <3>2. CASE q # p
            BY <1>6, <1>7, <2>2, <3>2
        <3> QED BY <3>1, <3>2
    <2> QED BY <2>1, <2>3 DEF AgentRowsFit
<1>9. /\ AdmittedRows' \subseteq AdmittedRows \cup {p}
      /\ (~Schedules(m) \/ call[t].crossed) => AdmittedRows' \subseteq AdmittedRows
    <2>1. \A q \in AgentPosts : q # p /\ q \in AdmittedRows' => q \in AdmittedRows
        BY <1>6, <1>7 DEF AdmittedRows, Consuming
    <2>2. (~Schedules(m) \/ call[t].crossed) => p \notin AdmittedRows'
        BY <1>3, <1>4, <1>7 DEF AdmittedRows
    <2>3. AdmittedRows' \subseteq AgentPosts
        BY DEF AdmittedRows
    <2> QED BY <2>1, <2>2, <2>3
<1>10. CapKept'
    <2>1. CASE AdmittedRows' \subseteq AdmittedRows
        BY <2>1, CapStays
    <2>2. CASE Schedules(m) /\ ~call[t].crossed
        <3>1. Cardinality(AdmittedRows) < DailyCap /\ DailyCap \in Nat
            BY <1>2, <1>5, <2>2, AgentCallsAssumption DEF RoomKept
        <3>2. Cardinality(AdmittedRows') <= DailyCap
            BY <1>9, <3>1, AdmittedCounted, OneMoreAdmitted
        <3> QED BY <3>2 DEF CapKept, AdmittedRows
    <2> QED BY <1>9, <2>1, <2>2
<1>11. DOMAIN others = CallThreads /\ others[t] = call[t]
    BY <1>5 DEF Overtaking
<1>12. DOMAIN call' = CallThreads /\ call'[t] = [call[t] EXCEPT !.step = "audit"]
    <2> HIDE DEF others
    <2> QED BY <1>2, <1>11
<1>13. CallFits(t)' /\ RoomKept(t)'
    <2>1. call[t] \in CallTypes /\ call[t].caller \in Callers /\ call[t].todo # <<>>
        BY <1>2, <1>5 DEF CallFits
    <2>2. /\ call'[t] \in CallTypes /\ call'[t].step = "audit" /\ call'[t].caller \in Callers
          /\ call'[t].todo # <<>>
        BY <1>12, <2>1 DEF CallTypes, AgentCallSteps
    <2> QED BY <2>2 DEF CallFits, RoomKept
<1>14. ASSUME NEW u \in CallThreads, u # t PROVE CallFits(u)' /\ RoomKept(u)'
    <2>1. call'[u] = others[u]
        <3> HIDE DEF others
        <3> QED BY <1>2, <1>11, <1>14
    <2>2. CASE ~Schedules(m) \/ call[u].step # "write"
        <3>1. call'[u] = call[u]
            BY <1>14, <2>1, <2>2 DEF Overtaking
        <3>2. CASE call[u].step # "write"
            <4>1. CallFits(u)
                BY DEF CallInv
            <4> QED BY <3>1, <3>2, <4>1 DEF CallFits, RoomKept
        <3>3. CASE ~Schedules(m)
            BY <1>9, <3>1, <3>3, OthersKeep
        <3> QED BY <2>2, <3>2, <3>3
    <2>3. CASE Schedules(m) /\ call[u].step = "write"
        <3>1. call'[u] = [call[u] EXCEPT !.crossed = TRUE]
            BY <1>14, <2>1, <2>3 DEF Overtaking
        <3>2. CallFits(u)
            BY DEF CallInv
        <3>3. /\ call'[u] \in CallTypes /\ call'[u].crossed = TRUE /\ call'[u].step = "write"
              /\ call'[u].caller = call[u].caller /\ call'[u].todo = call[u].todo
            BY <2>3, <3>1, <3>2 DEF CallFits, CallTypes
        <3> QED BY <2>3, <3>2, <3>3 DEF CallFits, RoomKept
    <2> QED BY <2>2, <2>3
<1>15. EffectsAreLogged' /\ owed' \subseteq CallThreads
    <2>1. ASSUME NEW u \in owed, u # t PROVE call'[u].step = "audit"
        <3>1. call[u].step = "audit" /\ u \in CallThreads
            BY <2>1 DEF CallInv, EffectsAreLogged
        <3>2. others[u] = call[u]
            BY <3>1 DEF Overtaking
        <3> HIDE DEF others
        <3> QED BY <1>2, <1>11, <2>1, <3>1, <3>2
    <2>2. call'[t].step = "audit"
        <3>1. call[t] \in CallTypes
            BY <1>5 DEF CallFits
        <3> QED BY <1>12, <3>1 DEF CallTypes
    <2> QED BY <1>2, <2>1, <2>2 DEF CallInv, EffectsAreLogged
<1>16. CountsFit' /\ charged' = charged /\ handled' = handled
    BY <1>2 DEF CallInv, CountsFit
<1>17. \A u \in CallThreads : CallFits(u)' /\ RoomKept(u)'
    BY <1>13, <1>14
<1> QED BY <1>3, <1>7, <1>8, <1>10, <1>12, <1>15, <1>16, <1>17 DEF CallInv

LEMMA TailOfMore ==
    ASSUME NEW S, NEW s \in Seq(S), s # <<>>, Len(s) # 1
    PROVE  Tail(s) \in Seq(S) /\ Tail(s) # <<>>
<1>1. Len(s) \in Nat /\ Len(s) # 0
    OBVIOUS
<1>2. Tail(s) \in Seq(S) /\ Len(Tail(s)) = Len(s) - 1
    BY <1>1
<1>3. Len(Tail(s)) # 0
    BY <1>1, <1>2
<1> QED BY <1>2, <1>3

\* The end of a message, logged or not, and the end of its request.
LEMMA MessageEndKeeps ==
    ASSUME CallInv, NEW t \in CallThreads, call[t] # NoRequestYet,
           NextMessage(t) \/ call' = [call EXCEPT ![t] = NoRequestYet],
           owed' = owed \ {t}, UNCHANGED <<agentRows, charged, handled, capDay>>
    PROVE  CallInv'
<1>1. CallFits(t) /\ DOMAIN call = CallThreads
    BY DEF CallInv
<1>2. call[t] \in CallTypes /\ call[t].caller \in Callers /\ call[t].todo # <<>>
      /\ call[t].step # "idle"
    BY <1>1 DEF CallFits
<1> DEFINE r == [call[t] EXCEPT !.step = "next", !.todo = Tail(@)]
<1>3. \/ call' = [call EXCEPT ![t] = NoRequestYet]
      \/ Len(call[t].todo) # 1 /\ call' = [call EXCEPT ![t] = r]
    <2>1. CASE Len(call[t].todo) = 1
        BY <2>1 DEF NextMessage
    <2>2. CASE Len(call[t].todo) # 1
        BY <1>1, <2>2 DEF NextMessage
    <2> QED BY <2>1, <2>2
<1>4. ASSUME NEW x, call' = [call EXCEPT ![t] = x], CallFits(t)', RoomKept(t)'
      PROVE  CallInv'
    <2>1. /\ capDay' \in Nat /\ AgentRowsFit' /\ CapKept' /\ DOMAIN call' = CallThreads
          /\ \A u \in CallThreads : CallFits(u)' /\ RoomKept(u)'
        BY <1>4, CallStepKeeps
    <2>2. EffectsAreLogged' /\ owed' \subseteq CallThreads
        BY <1>1, <1>4 DEF CallInv, EffectsAreLogged
    <2>3. CountsFit' /\ charged' = charged /\ handled' = handled
        BY DEF CallInv, CountsFit
    <2> QED BY <2>1, <2>2, <2>3 DEF CallInv
<1>5. CASE call' = [call EXCEPT ![t] = NoRequestYet]
    <2>1. call'[t] = NoRequestYet
        BY <1>1, <1>5
    <2>2. CallFits(t)' /\ RoomKept(t)'
        BY <2>1, NoRequestFits DEF CallFits, RoomKept
    <2> QED BY <1>4, <1>5, <2>2
<1>6. CASE Len(call[t].todo) # 1 /\ call' = [call EXCEPT ![t] = r]
    <2>1. call[t].todo \in Seq(Messages)
        BY <1>2 DEF CallTypes
    <2>2. Tail(call[t].todo) \in Seq(Messages) /\ Tail(call[t].todo) # <<>>
        BY <1>2, <1>6, <2>1, TailOfMore
    <2>3. /\ r \in CallTypes /\ r.step = "next" /\ r.caller \in Callers /\ r.todo # <<>>
        BY <1>2, <2>2 DEF CallTypes, AgentCallSteps
    <2> HIDE DEF r
    <2>4. call'[t] = r
        BY <1>1, <1>6
    <2>5. CallFits(t)' /\ RoomKept(t)'
        BY <2>3, <2>4 DEF CallFits, RoomKept
    <2> QED BY <1>4, <1>6, <2>5
<1> QED BY <1>3, <1>5, <1>6

LEMMA TeamKeeps ==
    ASSUME CallInv, NEW p \in AgentPosts, NEW from, NEW to,
           <<from, to>> \in {<<"scheduled", "published">>, <<"draft", "scheduled">>},
           TeamTouches(p, from, to)
    PROVE  CallInv'
<1> DEFINE row == [agentRows[p] EXCEPT !.status = to, !.touched = capDay,
                     !.admitted = IF to = "scheduled" THEN NotAdmitted ELSE agentRows[p].admitted]
<1>1. /\ agentRows[p].status = from
      /\ UNCHANGED <<charged, handled, owed, capDay, callNo, callFaults>>
      /\ call' = [t \in CallThreads |-> IF to = "scheduled" /\ call[t].step = "write"
                                        THEN [call[t] EXCEPT !.crossed = TRUE] ELSE call[t]]
    BY DEF TeamTouches
<1>2. /\ capDay \in Nat /\ CapWindow \in Nat /\ NotAdmitted \in Int /\ NotAdmitted <= capDay
      /\ ~(NotAdmitted > capDay - CapWindow)
    <2>1. capDay \in Nat /\ CapWindow \in Nat
        BY AgentCallsAssumption DEF CallInv
    <2> QED BY <2>1 DEF NotAdmitted
<1>3. /\ agentRows \in [AgentPosts -> AgentRowTypes] /\ agentRows[p] \in AgentRowTypes
      /\ agentRows[p].touched <= capDay /\ agentRows[p].admitted <= agentRows[p].touched
      /\ to \in {"scheduled", "published"} /\ from = "draft" <=> to = "scheduled"
    BY DEF CallInv, AgentRowsFit
<1>4. agentRows' = [agentRows EXCEPT ![p] = row]
    BY <1>3 DEF TeamTouches
<1>5. /\ row \in AgentRowTypes /\ row.touched = capDay /\ row.status = to
      /\ row.admitted = IF to = "scheduled" THEN NotAdmitted ELSE agentRows[p].admitted
    BY <1>2, <1>3 DEF AgentRowTypes
<1> HIDE DEF row
<1>6. row.admitted <= capDay
    <2>1. agentRows[p].admitted \in Int /\ agentRows[p].touched \in Int
        BY <1>3 DEF AgentRowTypes
    <2>2. agentRows[p].admitted <= capDay
        BY <1>2, <1>3, <2>1
    <2> QED BY <1>2, <1>5, <2>2
<1>7. /\ \A q \in AgentPosts : q # p => agentRows'[q] = agentRows[q]
      /\ agentRows'[p] = row /\ capDay' = capDay
    BY <1>1, <1>3, <1>4
<1>8. AgentRowsFit'
    <2>1. agentRows' \in [AgentPosts -> AgentRowTypes]
        BY <1>3, <1>4, <1>5
    <2>2. \A q \in AgentPosts : agentRows[q].touched <= capDay /\ agentRows[q].admitted <= agentRows[q].touched
        BY DEF CallInv, AgentRowsFit
    <2>3. ASSUME NEW q \in AgentPosts
          PROVE  agentRows'[q].touched <= capDay' /\ agentRows'[q].admitted <= agentRows'[q].touched
        <3>1. CASE q = p
            <4>1. agentRows'[q].touched = capDay /\ agentRows'[q].admitted <= capDay
                BY <1>5, <1>6, <1>7, <3>1
            <4> QED BY <1>2, <1>7, <4>1
        <3>2. CASE q # p
            BY <1>7, <2>2, <3>2
        <3> QED BY <3>1, <3>2
    <2> QED BY <2>1, <2>3 DEF AgentRowsFit
<1>9. AdmittedRows' \subseteq AdmittedRows
    <2>1. \A q \in AgentPosts : q # p /\ q \in AdmittedRows' => q \in AdmittedRows
        BY <1>7 DEF AdmittedRows, Consuming
    <2>2. ASSUME p \in AdmittedRows' PROVE p \in AdmittedRows
        <3>1. row.admitted > capDay - CapWindow
            BY <1>7, <2>2 DEF AdmittedRows
        <3>2. to # "scheduled"
            BY <1>2, <1>5, <3>1
        <3>3. from = "scheduled" /\ row.admitted = agentRows[p].admitted
            BY <1>5, <3>2
        <3> QED BY <1>1, <3>1, <3>3 DEF AdmittedRows, Consuming
    <2>3. AdmittedRows' \subseteq AgentPosts
        BY DEF AdmittedRows
    <2> QED BY <2>1, <2>2, <2>3
<1>10. CapKept'
    BY <1>9, CapStays
<1>11. ASSUME NEW u \in CallThreads PROVE CallFits(u)' /\ RoomKept(u)'
    <2>1. CallFits(u)
        BY DEF CallInv
    <2>2. CASE to = "scheduled" /\ call[u].step = "write"
        <3>1. call'[u] = [call[u] EXCEPT !.crossed = TRUE]
            BY <1>1, <2>2
        <3>2. /\ call'[u] \in CallTypes /\ call'[u].crossed = TRUE /\ call'[u].step = "write"
              /\ call'[u].caller = call[u].caller /\ call'[u].todo = call[u].todo
            BY <2>1, <2>2, <3>1 DEF CallFits, CallTypes
        <3> QED BY <2>1, <2>2, <3>2 DEF CallFits, RoomKept
    <2>3. CASE ~(to = "scheduled" /\ call[u].step = "write")
        <3>1. call'[u] = call[u]
            BY <1>1, <2>3
        <3> QED BY <1>9, <3>1, OthersKeep
    <2> QED BY <2>2, <2>3
<1>12. EffectsAreLogged' /\ owed' \subseteq CallThreads
    <2>1. ASSUME NEW u \in owed PROVE call'[u].step = "audit"
        <3>1. call[u].step = "audit" /\ u \in CallThreads
            BY DEF CallInv, EffectsAreLogged
        <3> QED BY <1>1, <3>1
    <2> QED BY <1>1, <2>1 DEF CallInv, EffectsAreLogged
<1>13. CountsFit' /\ charged' = charged /\ handled' = handled /\ DOMAIN call' = CallThreads
    BY <1>1 DEF CallInv, CountsFit
<1> QED BY <1>2, <1>7, <1>8, <1>10, <1>11, <1>12, <1>13 DEF CallInv

LEMMA MinuteKeeps == CallInv /\ NextMinute => CallInv'
<1> SUFFICES ASSUME CallInv, NextMinute PROVE CallInv'
    OBVIOUS
<1>1. /\ agentRows' = agentRows /\ call' = call /\ owed' = owed /\ capDay' = capDay
      /\ charged' = [c \in DOMAIN charged |-> 0] /\ handled' = [c \in DOMAIN handled |-> 0]
    BY DEF NextMinute
<1>2. /\ charged' = [c \in Callers \cup {"workspace"} |-> 0]
      /\ handled' = [c \in Callers \cup {"workspace"} |-> 0]
    BY <1>1 DEF CallInv
<1>3. CountsFit'
    <2>1. \A c \in Callers : CallRate[c] \in Nat
        BY AgentCallsAssumption
    <2>2. WorkspaceRate \in Nat
        BY AgentCallsAssumption
    <2> QED BY <1>2, <2>1, <2>2 DEF CountsFit
<1>4. capDay' \in Nat /\ AgentRowsFit' /\ AdmittedRows' = AdmittedRows /\ CapKept'
    BY <1>1, RowsStand
<1>5. \A u \in CallThreads : CallFits(u)' /\ RoomKept(u)'
    BY <1>1, <1>4, OthersKeep
<1>6. EffectsAreLogged' /\ owed' \subseteq CallThreads /\ DOMAIN call' = CallThreads
    BY <1>1 DEF CallInv, EffectsAreLogged
<1> QED BY <1>2, <1>3, <1>4, <1>5, <1>6 DEF CallInv

LEMMA CapDayKeeps == CallInv /\ NextCapDay => CallInv'
<1> SUFFICES ASSUME CallInv, NextCapDay PROVE CallInv'
    OBVIOUS
<1>1. /\ agentRows' = agentRows /\ call' = call /\ owed' = owed /\ capDay' = capDay + 1
      /\ charged' = charged /\ handled' = handled
    BY DEF NextCapDay
<1>2. capDay \in Nat /\ CapWindow \in Nat /\ AgentRowsFit /\ capDay' \in Nat
    BY <1>1, AgentCallsAssumption DEF CallInv
<1>3. ASSUME NEW q \in AgentPosts
      PROVE  /\ agentRows[q].touched <= capDay + 1
             /\ agentRows[q].admitted > (capDay + 1) - CapWindow
                   => agentRows[q].admitted > capDay - CapWindow
    <2>1. agentRows[q].touched \in Int /\ agentRows[q].admitted \in Int /\ agentRows[q].touched <= capDay
        BY <1>2 DEF AgentRowsFit, AgentRowTypes
    <2> QED BY <1>2, <2>1
<1>4. AgentRowsFit'
    BY <1>1, <1>2, <1>3 DEF AgentRowsFit
<1>5. AdmittedRows' \subseteq AdmittedRows
    BY <1>1, <1>3 DEF AdmittedRows, Consuming
<1>6. CapKept' /\ \A u \in CallThreads : CallFits(u)' /\ RoomKept(u)'
    BY <1>1, <1>5, CapStays, OthersKeep
<1>7. /\ EffectsAreLogged' /\ owed' \subseteq CallThreads /\ DOMAIN call' = CallThreads
      /\ CountsFit' /\ charged' \in [Callers \cup {"workspace"} -> Nat]
      /\ handled' \in [Callers \cup {"workspace"} -> Nat]
    BY <1>1 DEF CallInv, EffectsAreLogged, CountsFit
<1> QED BY <1>2, <1>4, <1>6, <1>7 DEF CallInv

LEMMA CallNextKeeps == CallInv /\ [CallNext]_callVars => CallInv'
<1> SUFFICES ASSUME CallInv, [CallNext]_callVars PROVE CallInv'
    OBVIOUS
<1>1. CASE UNCHANGED callVars
    <2>1. /\ agentRows' = agentRows /\ call' = call /\ owed' = owed /\ capDay' = capDay
          /\ charged' = charged /\ handled' = handled
        BY <1>1 DEF callVars
    <2>2. capDay' \in Nat /\ AgentRowsFit' /\ AdmittedRows' = AdmittedRows /\ CapKept'
        BY <2>1, RowsStand
    <2>3. \A u \in CallThreads : CallFits(u)' /\ RoomKept(u)'
        BY <2>1, <2>2, OthersKeep
    <2>4. /\ EffectsAreLogged' /\ owed' \subseteq CallThreads /\ DOMAIN call' = CallThreads
          /\ CountsFit' /\ charged' \in [Callers \cup {"workspace"} -> Nat]
          /\ handled' \in [Callers \cup {"workspace"} -> Nat]
        BY <2>1 DEF CallInv, EffectsAreLogged, CountsFit
    <2> QED BY <2>2, <2>3, <2>4 DEF CallInv
<1>2. ASSUME NEW t \in CallThreads, AuditMessage(t) \/ AuditFails(t) \/ AgentCallDies(t)
      PROVE  CallInv'
    <2>1. /\ NextMessage(t) \/ call' = [call EXCEPT ![t] = NoRequestYet]
          /\ owed' = owed \ {t} /\ UNCHANGED <<agentRows, charged, handled, capDay>>
        BY <1>2 DEF AuditMessage, AuditFails, AgentCallDies
    <2>2. call[t] # NoRequestYet
        BY <1>2, NoRequestFits DEF AuditMessage, AuditFails, AgentCallDies
    <2> QED BY <2>1, <2>2, MessageEndKeeps
<1>3. ASSUME NEW t \in CallThreads, NEW caller \in Callers, NEW batch \in Batches,
             McpEndpoint(t, caller, batch)
      PROVE  CallInv'
    BY <1>3, EndpointKeeps
<1>4. ASSUME NEW t \in CallThreads, EnforceRateLimits(t) \/ WriteMessage(t) PROVE CallInv'
    BY <1>4, LimitsKeep, WriteKeeps
<1>5. ASSUME NEW p \in AgentPosts,
             TeamTouches(p, "scheduled", "published") \/ TeamTouches(p, "draft", "scheduled")
      PROVE  CallInv'
    BY <1>5, TeamKeeps
<1> QED BY <1>1, <1>2, <1>3, <1>4, <1>5, MinuteKeeps, CapDayKeeps DEF CallNext

LEMMA CallInvHolds == CallInv => AgentCallsAreSound
<1> SUFFICES ASSUME CallInv PROVE RatesKept
    BY DEF CallInv, AgentCallsAreSound
<1>1. \A c \in Callers : handled[c] <= CallRate[c]
    <2>1. "workspace" \notin Callers
        BY AgentCallsAssumption
    <2> QED BY <2>1 DEF CallInv, CountsFit
<1>2. handled["workspace"] <= WorkspaceRate
    BY DEF CallInv, CountsFit
<1> QED BY <1>1, <1>2 DEF RatesKept

-------------------------------------------------------------------------------
(* Connections and organizations: rows and days have their types *)

LEMMA EmptyCopyTyped ==
    EmptyCopy \in [step: {"none", "refresh", "profile", "save"}, row: 0..MaxGrants, read: 0..MaxGrants,
                   token: 0..MaxGrants, status: ConnectionStatuses]
BY ConnectionConstants DEF EmptyCopy, NoRow, ConnectionStatuses

LEMMA ConnectionShapesInit == ConnectionInit => ConnectionTypeOK
<1> SUFFICES ASSUME ConnectionInit PROVE ConnectionTypeOK
    OBVIOUS
<1>1. 0 \in 0..MaxGrants /\ 0 \in 0..MaxTokenFaults
    BY ConnectionConstants
<1>2. account \in [row: 0..MaxGrants, token: 0..MaxGrants, status: ConnectionStatuses]
    BY <1>1 DEF ConnectionInit, Disconnected, NoRow, ConnectionStatuses
<1> QED BY <1>1, <1>2, EmptyCopyTyped DEF ConnectionInit, ConnectionTypeOK

LEMMA ConnectionShapesKept == ConnectionTypeOK /\ [ConnectionNext]_connectionVars => ConnectionTypeOK'
<1> SUFFICES ASSUME ConnectionTypeOK, [ConnectionNext]_connectionVars PROVE ConnectionTypeOK'
    OBVIOUS
<1> DEFINE Copy == [step: {"none", "refresh", "profile", "save"}, row: 0..MaxGrants, read: 0..MaxGrants,
                    token: 0..MaxGrants, status: ConnectionStatuses]
           Account == [row: 0..MaxGrants, token: 0..MaxGrants, status: ConnectionStatuses]
<1>1. /\ account \in Account /\ granted \in 0..MaxGrants /\ queued \in BOOLEAN
      /\ hand \in [Holders -> Copy]
      /\ slipped \in BOOLEAN /\ tokenFaults \in 0..MaxTokenFaults
      /\ MaxGrants \in Nat /\ MaxTokenFaults \in Nat /\ "check" \in Holders
      /\ EmptyCopy \in Copy
    BY EmptyCopyTyped, ConnectionConstants DEF ConnectionTypeOK, Holders
<1>2. granted' \in 0..MaxGrants
    <2>1. granted' = granted \/ (granted < MaxGrants /\ granted' = granted + 1)
        BY DEF ConnectionNext, Connect, Disconnect, ScheduleCheck, ReadAccount, Refresh, RefreshFails,
               AnswerLost, FetchProfile, SaveAccount, HolderDies, connectionVars
    <2> QED BY <1>1, <2>1
<1>3. tokenFaults' \in 0..MaxTokenFaults
    <2>1. tokenFaults' = tokenFaults \/ (tokenFaults < MaxTokenFaults /\ tokenFaults' = tokenFaults + 1)
        BY DEF ConnectionNext, Connect, Disconnect, ScheduleCheck, ReadAccount, Refresh, RefreshFails,
               AnswerLost, FetchProfile, SaveAccount, HolderDies, TokenFault, connectionVars
    <2> QED BY <1>1, <2>1
<1>4. queued' \in BOOLEAN
    BY <1>1 DEF ConnectionNext, Connect, Disconnect, ScheduleCheck, ReadAccount, Refresh, RefreshFails,
               AnswerLost, FetchProfile, SaveAccount, HolderDies, connectionVars
<1>5. slipped' \in BOOLEAN
    BY <1>1 DEF ConnectionNext, Connect, Disconnect, ScheduleCheck, ReadAccount, Refresh, RefreshFails,
               AnswerLost, FetchProfile, SaveAccount, HolderDies, connectionVars
<1>6. account' \in Account
    <2>1. CASE UNCHANGED account BY <2>1, <1>1
    <2>2. CASE Connect
        BY <2>2, <1>1, <1>2 DEF Connect, ConnectionStatuses
    <2>3. CASE Disconnect
        BY <2>3, <1>1 DEF Disconnect, Disconnected, NoRow, ConnectionStatuses
    <2>4. ASSUME NEW w \in Holders, SaveAccount(w) PROVE account' \in Account
        BY <2>4, <1>1 DEF SaveAccount, TokensToSave
    <2> QED BY <2>1, <2>2, <2>3, <2>4 DEF ConnectionNext, ScheduleCheck, ReadAccount, Refresh, RefreshFails,
               AnswerLost, FetchProfile, HolderDies, connectionVars
<1>7. hand' \in [Holders -> Copy]
    <2>1. CASE UNCHANGED hand BY <2>1, <1>1
    <2>2. CASE \E w \in Holders, c \in Copy : hand' = [hand EXCEPT ![w] = c] BY <2>2, <1>1
    <2>3. ASSUME NEW w \in Holders, NEW expiring \in BOOLEAN, ReadAccount(w, expiring)
          PROVE  hand' \in [Holders -> Copy]
        <3> DEFINE c == [step |-> IF expiring THEN "refresh" ELSE "profile",
                         row |-> account.row, read |-> account.token,
                         token |-> account.token, status |-> account.status]
        <3>1. c \in Copy BY <1>1
        <3>2. hand' = [hand EXCEPT ![w] = c] BY <2>3 DEF ReadAccount
        <3> HIDE DEF c, Copy
        <3> QED BY <3>1, <3>2, <1>1
    <2>4. ASSUME NEW w \in Holders, Refresh(w)
          PROVE  hand' \in [Holders -> Copy]
        <3>1. hand' = [hand EXCEPT ![w].step = AfterRefresh(w), ![w].token = granted',
                                   ![w].status = "connected"]
            BY <2>4 DEF Refresh
        <3>2. AfterRefresh(w) \in {"none", "refresh", "profile", "save"} BY DEF AfterRefresh
        <3> QED BY <3>1, <3>2, <1>1, <1>2 DEF ConnectionStatuses
    <2>5. ASSUME NEW w \in Holders, RefreshFails(w) \/ AnswerLost(w)
          PROVE  hand' \in [Holders -> Copy]
        <3>1. [hand[w] EXCEPT !.step = "profile", !.status = "token_expiring"] \in Copy
            BY <1>1 DEF ConnectionStatuses
        <3> QED BY <2>2, <2>5, <3>1, <1>1 DEF RefreshFails, AnswerLost
    <2>6. ASSUME NEW ok \in BOOLEAN, FetchProfile(ok)
          PROVE  hand' \in [Holders -> Copy]
        <3>1. \A s \in ConnectionStatuses : [hand["check"] EXCEPT !.step = "save", !.status = s] \in Copy
            BY <1>1
        <3>2. \E s \in ConnectionStatuses :
                  hand' = [hand EXCEPT !["check"] = [hand["check"] EXCEPT !.step = "save", !.status = s]]
            <4>1. hand["check"].status \in ConnectionStatuses BY <1>1
            <4> QED BY <2>6, <4>1 DEF FetchProfile, ConnectionStatuses
        <3> QED BY <2>2, <3>1, <3>2, <1>1
    <2>7. ASSUME NEW w \in Holders, SaveAccount(w) \/ HolderDies(w)
          PROVE  hand' \in [Holders -> Copy]
        BY <2>7, <1>1 DEF SaveAccount, HolderDies
    <2> QED BY <2>1, <2>3, <2>4, <2>5, <2>6, <2>7
            DEF ConnectionNext, Connect, Disconnect, ScheduleCheck, connectionVars
<1> QED BY <1>2, <1>3, <1>4, <1>5, <1>6, <1>7 DEF ConnectionTypeOK


\* What the invitations and the calendar may be.
OrgBounds ==
    /\ strays \subseteq Users
    /\ invitation \in [Users -> [live: BOOLEAN, accepted: BOOLEAN]]
    /\ day <= LastDay /\ deletion >= -1 /\ purges \subseteq 0..(LastDay + Grace)

OrgShapes == OrgInv /\ OrgBounds

LEMMA OrgShapesInit == OrgInit => OrgShapes
<1> SUFFICES ASSUME OrgInit PROVE OrgShapes
    OBVIOUS
<1>1. OrgInv BY OrgInvInit
<1>2. OrgBounds BY OrganizationConstants DEF OrgInit, OrgBounds, NoDay
<1> QED BY <1>1, <1>2 DEF OrgShapes

LEMMA OrgShapesKept == OrgShapes /\ [OrgNext]_orgVars => OrgShapes'
<1> SUFFICES ASSUME OrgShapes, [OrgNext]_orgVars PROVE OrgShapes'
    OBVIOUS
<1>1. OrgInv /\ OrgInv' BY OrgNextKeeps DEF OrgShapes
<1>2. /\ strays \subseteq Users /\ invitation \in [Users -> [live: BOOLEAN, accepted: BOOLEAN]]
      /\ day \in Nat /\ day <= LastDay /\ deletion \in Int /\ deletion >= -1
      /\ purges \subseteq 0..(LastDay + Grace)
      /\ LastDay \in Nat /\ Grace \in Nat
      /\ orgReq \in [OrgThreads -> [step: OrgSteps, user: Users, key: Nat, wants: Wishes]]
    BY <1>1, OrganizationConstants DEF OrgShapes, OrgBounds, OrgInv, OrgTypes
<1>0. ASSUME NEW t, NEW s, NEW u, NEW wants, BeginRequest(t, s, u, wants)
      PROVE  /\ UNCHANGED <<day, deletion, purges, invitation>>
             /\ strays' \subseteq strays \cup {u}
    BY <1>0 DEF BeginRequest
<1>3. day' <= LastDay
    <2>1. day' = day \/ (day < LastDay /\ day' = day + 1)
        BY <1>0 DEF OrgNext, Invite, RevokeInvitation, StartRemove, StartAccept, StartReassign, StartSetRole,
               JoinOrganization, WriteAssignment, MarkAccepted, RemoveFromWorkspaces, LeaveOrganization,
               SaveRole, RequestDeletion, SaveDeletion, QueueDeletion, StartDropTasks, DropTasks,
               CancelDeletion, DeleteNow, OrgRequestDies, RunPurge, Purge, Dawn, orgVars
    <2> QED BY <1>2, <2>1
<1>4. deletion' >= -1
    <2>1. deletion' = deletion \/ deletion' = day + Grace \/ deletion' = NoDay
        BY <1>0 DEF OrgNext, Invite, RevokeInvitation, StartRemove, StartAccept, StartReassign, StartSetRole,
               JoinOrganization, WriteAssignment, MarkAccepted, RemoveFromWorkspaces, LeaveOrganization,
               SaveRole, RequestDeletion, SaveDeletion, QueueDeletion, StartDropTasks, DropTasks,
               CancelDeletion, DeleteNow, OrgRequestDies, RunPurge, Purge, Dawn, orgVars
    <2> QED BY <1>2, <2>1 DEF NoDay
<1>5. purges' \subseteq 0..(LastDay + Grace)
    <2>0. \/ purges' = purges \/ purges' = purges \cup {day + Grace} \/ purges' = {}
          \/ \E d \in purges : purges' = purges \ {d}
        BY <1>0 DEF OrgNext, Invite, RevokeInvitation, StartRemove, StartAccept, StartReassign, StartSetRole,
               JoinOrganization, WriteAssignment, MarkAccepted, RemoveFromWorkspaces, LeaveOrganization,
               SaveRole, RequestDeletion, SaveDeletion, QueueDeletion, StartDropTasks, DropTasks, TaskDay,
               CancelDeletion, DeleteNow, OrgRequestDies, RunPurge, Purge, Dawn, orgVars
    <2>1. purges' \subseteq purges \cup {day + Grace}
        BY <2>0
    <2>2. day + Grace \in 0..(LastDay + Grace) BY <1>2
    <2> QED BY <1>2, <2>1, <2>2
<1>6. strays' \subseteq Users
    <2>1. \A t \in OrgThreads : orgReq[t].user \in Users BY <1>2
    <2>2. \E u \in Users : strays' \subseteq strays \cup {u}
        BY <1>0, <2>1, OrganizationConstants
           DEF OrgNext, Invite, RevokeInvitation, StartRemove, StartAccept, StartReassign, StartSetRole,
               JoinOrganization, WriteAssignment, MarkAccepted, RemoveFromWorkspaces, LeaveOrganization,
               SaveRole, RequestDeletion, SaveDeletion, QueueDeletion, StartDropTasks, DropTasks,
               CancelDeletion, DeleteNow, OrgRequestDies, RunPurge, Purge, Dawn, orgVars
    <2> QED BY <1>2, <2>1, <2>2
<1>7. invitation' \in [Users -> [live: BOOLEAN, accepted: BOOLEAN]]
    <2>1. CASE UNCHANGED invitation BY <2>1, <1>2
    <2>2. ASSUME NEW u \in Users, Invite(u) \/ RevokeInvitation(u)
          PROVE  invitation' \in [Users -> [live: BOOLEAN, accepted: BOOLEAN]]
        <3>1. CASE Invite(u)
            <4>1. invitation' = [invitation EXCEPT ![u] = [live |-> TRUE, accepted |-> FALSE]]
                BY <3>1 DEF Invite
            <4>2. [live |-> TRUE, accepted |-> FALSE] \in [live: BOOLEAN, accepted: BOOLEAN]
                OBVIOUS
            <4> QED BY <4>1, <4>2, <1>2
        <3>2. CASE RevokeInvitation(u)
            <4>1. invitation' = [invitation EXCEPT ![u].live = FALSE]
                BY <3>2 DEF RevokeInvitation
            <4> QED BY <4>1, <1>2
        <3> QED BY <2>2, <3>1, <3>2
    <2>3. ASSUME NEW t \in OrgThreads, MarkAccepted(t)
          PROVE  invitation' \in [Users -> [live: BOOLEAN, accepted: BOOLEAN]]
        BY <2>3, <1>2 DEF MarkAccepted
    <2> QED BY <1>0, <2>1, <2>2, <2>3
        DEF OrgNext, StartRemove, StartAccept, StartReassign, StartSetRole,
               JoinOrganization, WriteAssignment, RemoveFromWorkspaces, LeaveOrganization,
               SaveRole, RequestDeletion, SaveDeletion, QueueDeletion, StartDropTasks, DropTasks,
               CancelDeletion, DeleteNow, OrgRequestDies, RunPurge, Purge, Dawn, orgVars
<1>8. OrgBounds' BY <1>3, <1>4, <1>5, <1>6, <1>7 DEF OrgBounds
<1> QED BY <1>1, <1>8 DEF OrgShapes

LEMMA OrgShapesHold == OrgShapes => OrgTypeOK
<1> SUFFICES ASSUME OrgShapes PROVE OrgTypeOK
    OBVIOUS
<1>1. OrgTypes /\ OrgBounds /\ inWorkspace \subseteq Users BY DEF OrgShapes, OrgInv
<1>2. LastDay \in Nat /\ Grace \in Nat BY OrganizationConstants
<1>3. deletion \in -1..(LastDay + Grace) /\ day \in 0..LastDay
    BY <1>1, <1>2 DEF OrgTypes, OrgBounds
<1> QED BY <1>1, <1>3 DEF OrgTypes, OrgBounds, OrgTypeOK

-------------------------------------------------------------------------------
(* Logins and agent calls are counted *)

\* No more failures are recorded than there are failed logins.
ThrottleShapes == ThrottleInv /\ fails <= MaxLogins

LEMMA ThrottleShapesInit == ThrottleInit => ThrottleShapes
<1> SUFFICES ASSUME ThrottleInit PROVE ThrottleShapes
    OBVIOUS
<1>1. ThrottleInv BY ThrottleInvInit
<1>2. fails <= MaxLogins BY AgentCallsAssumption DEF ThrottleInit
<1> QED BY <1>1, <1>2 DEF ThrottleShapes

LEMMA ThrottleShapesKept == ThrottleShapes /\ [ThrottleNext]_throttleVars => ThrottleShapes'
<1> SUFFICES ASSUME ThrottleShapes, [ThrottleNext]_throttleVars PROVE ThrottleShapes'
    OBVIOUS
<1>1. ThrottleInv /\ ThrottleInv' BY ThrottleNextKeeps DEF ThrottleShapes
<1>2. fails \in Nat /\ tried = fails /\ fails <= MaxLogins /\ MaxLogins \in Nat
    BY <1>1, AgentCallsAssumption DEF ThrottleInv, ThrottleShapes
<1>3. \/ fails' = fails \/ fails' = 0
      \/ tried < MaxLogins /\ fails' \in {1, fails + 1}
    BY DEF ThrottleNext, BadLogin, AddFailure, RaiseFailures, WindowEnds, throttleVars
<1>4. fails' <= MaxLogins BY <1>2, <1>3
<1> QED BY <1>1, <1>4 DEF ThrottleShapes

LEMMA ThrottleShapesHold == ThrottleShapes => ThrottleTypeOK
<1> SUFFICES ASSUME ThrottleShapes PROVE ThrottleTypeOK
    OBVIOUS
<1>1. /\ fails \in Nat /\ tried = fails /\ fails <= MaxLogins /\ MaxLogins \in Nat
      /\ login \in [CallThreads -> {"idle", "refused", "raise"}]
    BY AgentCallsAssumption DEF ThrottleInv, ThrottleShapes
<1>2. fails \in 0..MaxLogins /\ tried \in 0..MaxLogins BY <1>1
<1> QED BY <1>1, <1>2 DEF ThrottleTypeOK


\* Days are the days there are, and an admission is of one of them or of none.
CallBounds ==
    /\ agentRows \in [AgentPosts -> AgentRow]
    /\ capDay \in 0..LastCallDay /\ callNo \in 0..MaxCalls /\ callFaults \in 0..MaxCallFaults

CallShapes == CallInv /\ CallBounds

LEMMA CallShapesInit == CallInit => CallShapes
<1> SUFFICES ASSUME CallInit PROVE CallShapes
    OBVIOUS
<1>1. CallInv BY CallInvInit
<1>2. 0 \in 0..LastCallDay /\ 0 \in 0..MaxCalls /\ 0 \in 0..MaxCallFaults
    BY AgentCallsAssumption
<1>3. [status |-> "none", made |-> 0, touched |-> 0, admitted |-> NotAdmitted] \in AgentRow
    BY <1>2 DEF AgentRow
<1>4. CallBounds BY <1>2, <1>3 DEF CallInit, CallBounds
<1> QED BY <1>1, <1>4 DEF CallShapes

LEMMA CallShapesKept == CallShapes /\ [CallNext]_callVars => CallShapes'
<1> SUFFICES ASSUME CallShapes, [CallNext]_callVars PROVE CallShapes'
    OBVIOUS
<1>1. CallInv /\ CallInv' BY CallNextKeeps DEF CallShapes
<1>2. /\ agentRows \in [AgentPosts -> AgentRow]
      /\ capDay \in 0..LastCallDay /\ callNo \in 0..MaxCalls /\ callFaults \in 0..MaxCallFaults
      /\ LastCallDay \in Nat /\ MaxCalls \in Nat /\ MaxCallFaults \in Nat
    BY AgentCallsAssumption DEF CallShapes, CallBounds
<1>3. /\ capDay' = capDay \/ (capDay < LastCallDay /\ capDay' = capDay + 1)
      /\ callNo' = callNo \/ (callNo < MaxCalls /\ callNo' = callNo + 1)
      /\ callFaults' = callFaults \/ (callFaults < MaxCallFaults /\ callFaults' = callFaults + 1)
    BY DEF CallNext, McpEndpoint, EnforceRateLimits, NextMinute, WriteMessage, AuditMessage, AuditFails,
           AgentCallDies, TeamTouches, NextCapDay, CallFault, callVars
<1>4. capDay' \in 0..LastCallDay /\ callNo' \in 0..MaxCalls /\ callFaults' \in 0..MaxCallFaults
    BY <1>2, <1>3
<1>5. agentRows' \in [AgentPosts -> AgentRow]
    <2>1. CASE UNCHANGED agentRows BY <2>1, <1>2
    <2>2. ASSUME NEW t \in CallThreads, WriteMessage(t) PROVE agentRows' \in [AgentPosts -> AgentRow]
        <3>1. PICK p \in AgentPosts : agentRows' = [agentRows EXCEPT ![p] =
                    [status |-> IF Schedules(Now(t)) THEN "scheduled" ELSE "draft",
                     made |-> IF Now(t).post = "new" THEN capDay ELSE agentRows[p].made,
                     touched |-> capDay,
                     admitted |-> IF Schedules(Now(t)) /\ ~call[t].crossed THEN capDay ELSE NotAdmitted]]
            BY <2>2 DEF WriteMessage
        <3>2. agentRows[p].made \in 0..LastCallDay BY <1>2 DEF AgentRow
        <3>3. [status |-> IF Schedules(Now(t)) THEN "scheduled" ELSE "draft",
               made |-> IF Now(t).post = "new" THEN capDay ELSE agentRows[p].made,
               touched |-> capDay,
               admitted |-> IF Schedules(Now(t)) /\ ~call[t].crossed THEN capDay ELSE NotAdmitted]
              \in AgentRow
            BY <1>2, <3>2 DEF AgentRow
        <3> QED BY <3>1, <3>3, <1>2
    <2>3. ASSUME NEW p \in AgentPosts, NEW from, NEW to \in {"published", "scheduled"},
                 TeamTouches(p, from, to)
          PROVE  agentRows' \in [AgentPosts -> AgentRow]
        <3>1. agentRows' = [agentRows EXCEPT ![p] = [agentRows[p] EXCEPT !.status = to, !.touched = capDay,
                               !.admitted = IF to = "scheduled" THEN NotAdmitted ELSE agentRows[p].admitted]]
            BY <2>3, <1>2 DEF TeamTouches
        <3>2. agentRows[p] \in AgentRow BY <1>2
        <3>3. [agentRows[p] EXCEPT !.status = to, !.touched = capDay,
                 !.admitted = IF to = "scheduled" THEN NotAdmitted ELSE agentRows[p].admitted] \in AgentRow
            BY <1>2, <3>2 DEF AgentRow
        <3> QED BY <3>1, <3>3, <1>2
    <2> QED BY <2>1, <2>2, <2>3
        DEF CallNext, McpEndpoint, EnforceRateLimits, NextMinute, AuditMessage, AuditFails,
            AgentCallDies, NextCapDay, callVars
<1> QED BY <1>1, <1>4, <1>5 DEF CallShapes, CallBounds

LEMMA CallShapesHold == CallShapes => CallTypeOK
<1> SUFFICES ASSUME CallShapes PROVE CallTypeOK
    OBVIOUS
<1>1. CallInv /\ CallBounds BY DEF CallShapes
<1>2. ASSUME NEW t \in CallThreads
      PROVE  call[t].step \in {"idle", "first", "next", "write", "audit"} /\ call[t].todo \in Seq(Messages)
    BY <1>1 DEF CallInv, CallFits, CallTypes, AgentCallSteps
<1> QED BY <1>1, <1>2 DEF CallBounds, CallInv, CallTypeOK

-------------------------------------------------------------------------------
(* An attempt stays within its plan, its photos within the page *)

\* How far an attempt can have come.
AttemptFits ==
    /\ publish.retries <= MaxPublishRetries /\ publish.polls <= MaxPolls
    /\ publish.at <= Len(publish.plan) + 1

\* Until the post is made, its photos are on the page.
PhotosThere == 0 <= onPage /\ (publish.outcome = "running" /\ ToPublish => Photos <= onPage)

\* An answer that was not heard was of a post that was made.
UnheardCounted == unheard <= postsMade

PublishBounds == AttemptFits /\ PhotosThere /\ UnheardCounted

PublishShapes == PublishInv /\ PublishBounds

LEMMA PublishShapesInit == PublishInit => PublishShapes
<1> SUFFICES ASSUME PublishInit PROVE PublishShapes
    OBVIOUS
<1>1. PublishInv BY PublishInvInit
<1>2. publish.outcome = "waiting" /\ publish.retries = 0 /\ publish.polls = 0 /\ publish.at = 1
    BY DEF PublishInit
<1>3. Len(publish.plan) \in Nat BY <1>1 DEF PublishInv, PublishAttempts
<1>4. postsMade = 0 /\ unheard = 0 /\ onPage = 0 BY DEF PublishInit
<1>5. AttemptFits BY <1>2, <1>3, ProvidersAssumption DEF AttemptFits
<1>6. PhotosThere /\ UnheardCounted BY <1>2, <1>4 DEF PhotosThere, UnheardCounted
<1> QED BY <1>1, <1>5, <1>6 DEF PublishShapes, PublishBounds

\* An attempt that fails is retried no more often than is allowed.
LEMMA FailedIsCounted ==
    ASSUME PublishShapes, NEW permanent \in BOOLEAN, Failed(permanent)
    PROVE  AttemptFits' /\ publish'.outcome \in {"waiting", "failed"}
<1>1. publish \in PublishAttempts /\ AttemptFits BY DEF PublishShapes, PublishBounds, PublishInv
<1>2. publish.retries \in Nat /\ MaxPublishRetries \in Nat
    BY <1>1, ProvidersAssumption DEF PublishAttempts
<1>3. CASE publish' = [publish EXCEPT !.outcome = "failed"]
    BY <1>1, <1>3 DEF PublishAttempts, AttemptFits
<1>4. CASE publish' = [publish EXCEPT !.outcome = "waiting", !.retries = publish.retries + 1]
               /\ ~(publish.retries >= MaxPublishRetries)
    <2>1. /\ publish'.retries = publish.retries + 1 /\ publish'.polls = publish.polls
          /\ publish'.at = publish.at /\ publish'.plan = publish.plan /\ publish'.outcome = "waiting"
        BY <1>1, <1>4 DEF PublishAttempts
    <2>2. publish'.retries <= MaxPublishRetries BY <2>1, <1>2, <1>4
    <2> QED BY <1>1, <2>1, <2>2 DEF AttemptFits
<1> QED BY <1>3, <1>4 DEF Failed

\* No more photos are deleted than are there.
LEMMA DeletedWereThere ==
    ASSUME NEW page \in Int, NEW lost \in Nat, DeleteStaged(page, lost), Photos \in Nat, Photos <= page
    PROVE  0 <= onPage'
<1>1. PICK kept \in 0..Photos : onPage' = page - (Photos - kept)
    BY DEF DeleteStaged
<1> QED BY <1>1

\* One more of what is more.
LEMMA OneMoreIsMore == \A m \in Nat, n \in Nat : m <= n => m <= n + 1 /\ m + 1 <= n + 1
OBVIOUS

LEMMA PublishShapesKept == PublishShapes /\ [PublishNext]_publishVars => PublishShapes'
<1> SUFFICES ASSUME PublishShapes, [PublishNext]_publishVars PROVE PublishShapes'
    OBVIOUS
<1>1. PublishInv /\ PublishInv' /\ AttemptFits /\ PhotosThere /\ UnheardCounted
    BY PublishNextKeeps DEF PublishShapes, PublishBounds
<1> SUFFICES PublishBounds'
    BY <1>1 DEF PublishShapes
<1>2. /\ publish \in PublishAttempts /\ Photos \in Nat /\ onPage \in Int /\ 0 <= onPage
      /\ publish.at \in Nat \ {0} /\ Len(publish.plan) \in Nat /\ publish.polls \in Nat
      /\ publish.retries \in Nat /\ publish.staged \in Nat
      /\ MaxPolls \in Nat \ {0} /\ MaxPublishRetries \in Nat
    BY <1>1, ProvidersAssumption DEF PublishInv, PhotosThere, PublishAttempts, Photos
<1>3. publish.outcome = "running" /\ ToPublish => Photos <= onPage BY <1>1 DEF PhotosThere
<1>19. postsMade \in Nat /\ unheard \in Nat /\ unheard <= postsMade
    BY <1>1 DEF PublishInv, UnheardCounted
<1>20. ASSUME postsMade' = postsMade, unheard' = unheard PROVE UnheardCounted'
    BY <1>19, <1>20 DEF UnheardCounted
<1>4. ASSUME At(Step), Advance PROVE AttemptFits'
    <2>1. publish.at <= Len(publish.plan) BY <1>4 DEF At
    <2>2. publish'.plan = publish.plan /\ publish'.at = publish.at + 1 BY <1>1, <1>4, AdvanceMoves
    <2>3. publish'.polls = 0 /\ publish'.retries = publish.retries
        BY <1>2, <1>4 DEF Advance, PublishAttempts
    <2>4. publish'.at <= Len(publish'.plan) + 1 BY <1>2, <2>1, <2>2
    <2>5. publish'.polls <= MaxPolls BY <1>2, <2>3
    <2> QED BY <1>1, <2>3, <2>4, <2>5 DEF AttemptFits
<1>5. ASSUME At(Step), Advance, UNCHANGED onPage, Step # "publish" PROVE PhotosThere'
    <2>1. publish.outcome = "running" /\ publish.at <= Len(publish.plan) BY <1>5 DEF At
    <2>2. /\ publish'.plan = publish.plan /\ publish'.at = publish.at + 1
          /\ publish'.outcome = publish.outcome /\ Photos' = Photos
        BY <1>1, <1>5, AdvanceMoves
    <2>3. ToPublish' <=> ToPublish BY <1>1, <1>5, <2>1, <2>2, StepsOn
    <2> QED BY <1>2, <1>3, <1>5, <2>2, <2>3 DEF PhotosThere
<1>6. ASSUME At(Step), Advance, UNCHANGED <<postsMade, unheard, onPage>>, Step # "publish" PROVE PublishBounds'
    BY <1>20, <1>4, <1>5, <1>6 DEF PublishBounds
<1>7. ASSUME NEW permanent \in BOOLEAN, Failed(permanent), NEW page \in Int, NEW lost \in Nat,
             DeleteStaged(page, lost), Photos <= page, UNCHANGED <<postsMade, unheard>>
      PROVE  PublishBounds'
    <2>1. 0 <= onPage' BY <1>2, <1>7, DeletedWereThere
    <2>2. AttemptFits' /\ publish'.outcome \in {"waiting", "failed"} BY <1>7, FailedIsCounted
    <2>3. PhotosThere' BY <2>1, <2>2 DEF PhotosThere
    <2> QED BY <1>20, <1>7, <2>2, <2>3 DEF PublishBounds
<1>8. ASSUME NEW step \in AnyStep \ {"extra"}, At(step), Raise, UNCHANGED <<postsMade, unheard>>
      PROVE  PublishBounds'
    <2>1. ToPublish /\ publish.outcome = "running" BY <1>1, <1>8, StillToCome DEF At
    <2>2. PICK permanent \in BOOLEAN : Failed(permanent) BY <1>8 DEF Raise
    <2>3. DeleteStaged(onPage, 0) BY <1>8 DEF Raise
    <2>4. Photos <= onPage BY <1>3, <2>1
    <2> QED BY <1>2, <1>7, <1>8, <2>2, <2>3, <2>4
<1>9. CASE UNCHANGED publishVars
    <2>1. publish' = publish /\ onPage' = onPage /\ postsMade' = postsMade /\ unheard' = unheard
        BY <1>9 DEF publishVars
    <2>2. AttemptFits' BY <1>1, <2>1 DEF AttemptFits
    <2>3. (ToPublish' <=> ToPublish) /\ Photos' = Photos BY <2>1 DEF ToPublish, Photos
    <2>4. PhotosThere' BY <1>2, <1>3, <2>1, <2>3 DEF PhotosThere
    <2> QED BY <1>20, <2>1, <2>2, <2>4 DEF PublishBounds
<1>10. CASE Dispatch
    <2>1. UNCHANGED <<postsMade, unheard, onPage>> BY <1>10 DEF Dispatch
    <2>2. CASE publish' = [publish EXCEPT !.outcome = "running", !.at = 1, !.polls = 0, !.staged = 0]
        <3>1. /\ publish'.at = 1 /\ publish'.polls = 0 /\ publish'.staged = 0
              /\ publish'.plan = publish.plan /\ publish'.retries = publish.retries
            BY <1>2, <2>2 DEF PublishAttempts
        <3>2. Photos' = 0 BY <3>1 DEF Photos
        <3>3. PhotosThere' BY <1>2, <2>1, <3>2 DEF PhotosThere
        <3>4. publish'.polls <= MaxPolls /\ publish'.at <= Len(publish'.plan) + 1 BY <1>2, <3>1
        <3>5. AttemptFits' BY <1>1, <3>1, <3>4 DEF AttemptFits
        <3> QED BY <1>20, <2>1, <3>3, <3>5 DEF PublishBounds
    <2>3. CASE Failed(FALSE)
        <3>1. AttemptFits' /\ publish'.outcome \in {"waiting", "failed"} BY <2>3, FailedIsCounted
        <3>2. PhotosThere' BY <1>2, <2>1, <3>1 DEF PhotosThere
        <3> QED BY <1>20, <2>1, <3>1, <3>2 DEF PublishBounds
    <2> QED BY <1>10, <2>2, <2>3 DEF Dispatch
<1>11. CASE CheckPasses \/ ExtraDone
    <2>1. /\ At("check") \/ At("extra")
          /\ Advance /\ UNCHANGED <<postsMade, unheard, onPage>>
        BY <1>11 DEF CheckPasses, ExtraDone
    <2>2. At(Step) /\ Step # "publish" BY <2>1 DEF At
    <2> QED BY <1>6, <2>1, <2>2
<1>12. CASE RequestSucceeds
    <2>1. CASE At("ask") /\ Advance /\ UNCHANGED onPage
        <3>1. UNCHANGED <<postsMade, unheard>> BY <1>12 DEF RequestSucceeds
        <3>2. At(Step) /\ Step # "publish" BY <2>1 DEF At
        <3> QED BY <1>6, <2>1, <3>1, <3>2
    <2>2. CASE /\ At("stage") /\ publish' = [publish EXCEPT !.at = @ + 1, !.staged = @ + 1]
               /\ onPage' = onPage + (IF publish.platform = "facebook" THEN 1 ELSE 0)
        <3>1. UNCHANGED <<postsMade, unheard>> BY <1>12 DEF RequestSucceeds
        <3>2. /\ publish'.at = publish.at + 1 /\ publish'.staged = publish.staged + 1
              /\ publish'.plan = publish.plan /\ publish'.retries = publish.retries
              /\ publish'.polls = publish.polls /\ publish'.platform = publish.platform
            BY <1>2, <2>2 DEF PublishAttempts
        <3>3. publish.outcome = "running" /\ publish.at <= Len(publish.plan) BY <2>2 DEF At
        <3>4. ToPublish BY <1>1, <2>2, StillToCome DEF AnyStep, QuietSteps
        <3>5. Photos <= onPage BY <1>3, <3>3, <3>4
        <3>6. publish'.at <= Len(publish'.plan) + 1 BY <1>2, <3>2, <3>3
        <3>7. AttemptFits' BY <1>1, <3>2, <3>6 DEF AttemptFits
        <3>8. CASE publish.platform = "facebook"
            <4>1. onPage' = onPage + 1 /\ Photos' = Photos + 1 BY <2>2, <3>2, <3>8 DEF Photos
            <4>2. Photos' <= onPage' /\ 0 <= onPage' BY <1>2, <3>5, <4>1
            <4>3. PhotosThere' BY <4>2 DEF PhotosThere
            <4> QED BY <1>20, <3>1, <3>7, <4>3 DEF PublishBounds
        <3>9. CASE publish.platform # "facebook"
            <4>1. onPage' = onPage /\ Photos' = 0 BY <1>2, <2>2, <3>2, <3>9 DEF Photos
            <4>2. PhotosThere' BY <1>2, <4>1 DEF PhotosThere
            <4> QED BY <1>20, <3>1, <3>7, <4>2 DEF PublishBounds
        <3> QED BY <3>8, <3>9
    <2> QED BY <1>12, <2>1, <2>2 DEF RequestSucceeds
<1>13. CASE StepRaises
    <2>1. PICK step \in {"check", "ask", "stage", "wait", "publish", "extra"} \ Swallowed : At(step)
        BY <1>13 DEF StepRaises
    <2>2. step \in AnyStep \ {"extra"} BY DEF Swallowed, AnyStep, QuietSteps
    <2>3. Raise /\ UNCHANGED <<postsMade, unheard>> BY <1>13 DEF StepRaises
    <2> QED BY <1>8, <2>1, <2>2, <2>3
<1>14. CASE StagedUnheard
    <2>1. ToPublish /\ publish.outcome = "running"
        BY <1>1, <1>14, StillToCome DEF StagedUnheard, At, AnyStep, QuietSteps
    <2>2. Photos <= onPage + 1 /\ onPage + 1 \in Int BY <1>2, <1>3, <2>1
    <2>3. /\ Failed(FALSE) /\ DeleteStaged(onPage + 1, 1) /\ UNCHANGED <<postsMade, unheard>>
        BY <1>14 DEF StagedUnheard
    <2>4. FALSE \in BOOLEAN /\ 1 \in Nat OBVIOUS
    <2> QED BY <1>7, <2>2, <2>3, <2>4
<1>15. CASE PollContainer
    <2>1. At("wait") /\ UNCHANGED <<postsMade, unheard>> BY <1>15 DEF PollContainer
    <2>2. CASE Advance /\ UNCHANGED <<onPage, leftOver>>
        <3>1. At(Step) /\ Step # "publish" BY <2>1 DEF At
        <3> QED BY <1>6, <2>1, <2>2, <3>1
    <2>3. CASE /\ publish.polls + 1 < MaxPolls
               /\ publish' = [publish EXCEPT !.polls = @ + 1] /\ UNCHANGED <<onPage, leftOver>>
        <3>1. /\ publish'.polls = publish.polls + 1 /\ publish'.at = publish.at
              /\ publish'.plan = publish.plan /\ publish'.retries = publish.retries
              /\ publish'.outcome = publish.outcome /\ Photos' = Photos
            BY <1>2, <2>3 DEF PublishAttempts, Photos
        <3>2. ToPublish' <=> ToPublish BY <3>1 DEF ToPublish
        <3>3. publish'.polls <= MaxPolls BY <1>2, <2>3, <3>1
        <3>4. AttemptFits' BY <1>1, <3>1, <3>3 DEF AttemptFits
        <3>5. PhotosThere' BY <1>2, <1>3, <2>3, <3>1, <3>2 DEF PhotosThere
        <3> QED BY <1>20, <2>1, <3>4, <3>5 DEF PublishBounds
    <2>4. CASE Raise
        <3>1. "wait" \in AnyStep \ {"extra"} BY DEF AnyStep, QuietSteps
        <3> QED BY <1>8, <2>1, <2>4, <3>1
    <2> QED BY <1>15, <2>2, <2>3, <2>4 DEF PollContainer
<1>16. CASE PlatformPublishes
    <2>1. At("publish") /\ postsMade' = postsMade + 1 /\ onPage' = onPage - Photos
        BY <1>16 DEF PlatformPublishes
    <2>2. ToPublish /\ publish.outcome = "running" /\ Step = "publish" /\ publish.at <= Len(publish.plan)
        BY <1>1, <2>1, StillToCome DEF At, AnyStep
    <2>3. 0 <= onPage' BY <1>2, <1>3, <2>1, <2>2
    <2>4. PICK answer \in {"good", "lost", "garbled", "no id"} :
             /\ unheard' = unheard + (IF answer = "good" THEN 0 ELSE 1)
             /\ IF Readable(publish.platform, answer) THEN Advance ELSE Failed(FALSE)
        BY <1>16 DEF PlatformPublishes
    <2>5. unheard' = unheard \/ unheard' = unheard + 1
        <3>1. CASE answer = "good" BY <1>19, <2>4, <3>1
        <3>2. CASE answer # "good" BY <1>19, <2>4, <3>2
        <3> QED BY <3>1, <3>2
    <2>6. UnheardCounted'
        <3>1. postsMade' = postsMade + 1 BY <2>1
        <3>2. unheard <= postsMade + 1 /\ unheard + 1 <= postsMade + 1 BY <1>19, OneMoreIsMore
        <3>3. unheard' <= postsMade + 1 BY <2>5, <3>2
        <3> QED BY <3>1, <3>3 DEF UnheardCounted
    <2>7. CASE Failed(FALSE)
        <3>1. AttemptFits' /\ publish'.outcome \in {"waiting", "failed"} BY <2>7, FailedIsCounted
        <3>2. PhotosThere' BY <2>3, <3>1 DEF PhotosThere
        <3> QED BY <2>6, <3>1, <3>2 DEF PublishBounds
    <2>8. CASE Advance
        <3>1. publish'.plan = publish.plan /\ publish'.at = publish.at + 1 BY <1>1, <2>8, AdvanceMoves
        <3>2. ~ToPublish' BY <1>1, <2>2, <3>1, StepsOn
        <3>3. PhotosThere' BY <2>3, <3>2 DEF PhotosThere
        <3>4. At(Step) BY <2>2 DEF At
        <3> QED BY <1>4, <2>6, <2>8, <3>3, <3>4 DEF PublishBounds
    <2> QED BY <2>4, <2>7, <2>8
<1>17. CASE PublishReturns
    <2>1. /\ publish'.polls = publish.polls /\ publish'.at = publish.at
          /\ publish'.plan = publish.plan /\ publish'.retries = publish.retries
          /\ publish'.outcome = "published" /\ UNCHANGED <<postsMade, unheard, onPage>>
        BY <1>2, <1>17 DEF PublishAttempts, PublishReturns
    <2>2. AttemptFits' BY <1>1, <2>1 DEF AttemptFits
    <2>3. PhotosThere' BY <1>2, <2>1 DEF PhotosThere
    <2> QED BY <1>20, <2>1, <2>2, <2>3 DEF PublishBounds
<1> QED BY <1>9, <1>10, <1>11, <1>12, <1>13, <1>14, <1>15, <1>16, <1>17 DEF PublishNext

LEMMA PublishShapesHold == PublishShapes => PublishTypeOK
<1> SUFFICES ASSUME PublishShapes PROVE PublishTypeOK
    OBVIOUS
<1>1. PublishInv /\ AttemptFits /\ PhotosThere /\ UnheardCounted BY DEF PublishShapes, PublishBounds
<1>2. /\ publish.platform \in Platforms /\ publish.outcome \in Outcomes /\ publish.staged \in Nat
      /\ publish.at \in Nat \ {0} /\ Len(publish.plan) \in Nat /\ publish.polls \in Nat
      /\ publish.retries \in Nat /\ MaxPolls \in Nat /\ MaxPublishRetries \in Nat
      /\ postsMade \in Nat /\ unheard \in Nat /\ onPage \in Int /\ leftOver \in Nat
    BY <1>1, ProvidersAssumption DEF PublishInv, PublishAttempts
<1>3. /\ publish.retries \in 0..MaxPublishRetries /\ publish.polls \in 0..MaxPolls
      /\ publish.at \in 1..(Len(publish.plan) + 1)
    BY <1>1, <1>2 DEF AttemptFits
<1>4. unheard \in 0..postsMade /\ onPage \in Nat BY <1>1, <1>2 DEF PhotosThere, UnheardCounted
<1> QED BY <1>2, <1>3, <1>4 DEF PublishTypeOK

-------------------------------------------------------------------------------
(* Connecting: what sessions, tabs and requests name is there *)

\* What sessions and requests name is there: authorizations, and the client to be saved.
TabsBounded ==
    /\ \A b \in Browsers : sessions[b].oauth \in {NoAuth} \cup DOMAIN auths
    /\ \A t \in Tabs :
          /\ tabs[t].copy.oauth \in {NoAuth} \cup DOMAIN auths
          /\ tabs[t].step = "save app" => tabs[t].row \in DOMAIN clients
          /\ tabs[t].step \in {"queue", "usage"} => tabs[t].row \in DOMAIN auths

\* So is what the instance's registration, queues, counts and deaths name.
ConnectBounds ==
    /\ TabsBounded
    /\ apps \in {NoAuth} \cup DOMAIN clients
    /\ defaultQueues \subseteq DOMAIN auths /\ linkUsages \subseteq DOMAIN auths
    /\ died \subseteq DOMAIN auths
    /\ ends \in 0..MaxEnds /\ appRefused \in BOOLEAN

ConnectShapes == ConnectInv /\ ConnectBounds

LEMMA ConnectShapesInit == ConnectInit => ConnectShapes
<1> SUFFICES ASSUME ConnectInit PROVE ConnectShapes
    OBVIOUS
<1>1. ConnectInv BY ConnectInvInit
<1>2. IdleTab.step = "idle" /\ IdleTab.copy.oauth = 0 BY DEF IdleTab, Call, NoSession, NoAuth
<1>3. \A b \in Browsers : sessions[b].oauth = NoAuth BY DEF ConnectInit, NoSession
<1>4. \A t \in Tabs : tabs[t] = IdleTab BY DEF ConnectInit
<1>5. TabsBounded BY <1>2, <1>3, <1>4 DEF TabsBounded, NoAuth
<1>6. ends \in 0..MaxEnds BY ConnectingAssumption DEF ConnectInit
<1>7. ConnectBounds BY <1>5, <1>6 DEF ConnectInit, ConnectBounds
<1> QED BY <1>1, <1>7 DEF ConnectShapes

\* One tab takes up a request, or goes on with it, and the sessions stay.
LEMMA TabBounded ==
    ASSUME ConnectShapes, ConnectInv', NEW t \in Tabs, NEW new, tabs' = [tabs EXCEPT ![t] = new],
           DOMAIN clients \subseteq DOMAIN clients', DOMAIN auths \subseteq DOMAIN auths',
           UNCHANGED sessions, new.copy.oauth \in {NoAuth} \cup DOMAIN auths',
           new.step = "save app" => new.row \in DOMAIN clients',
           new.step \in {"queue", "usage"} => new.row \in DOMAIN auths'
    PROVE  TabsBounded'
<1>1. /\ tabs \in [Tabs -> TabRecords] /\ sessions \in [Browsers -> SessionRecords]
      /\ auths \in Seq(AuthRecords) /\ auths' \in Seq(AuthRecords)
    BY DEF ConnectShapes, ConnectInv, ConnectTypes
<1>3. ASSUME NEW b \in Browsers PROVE sessions'[b].oauth \in {NoAuth} \cup DOMAIN auths'
    <2>2. sessions[b].oauth \in {NoAuth} \cup DOMAIN auths BY DEF ConnectShapes, ConnectBounds, TabsBounded
    <2> QED BY <2>2
<1>4. ASSUME NEW u \in Tabs
      PROVE  /\ tabs'[u].copy.oauth \in {NoAuth} \cup DOMAIN auths'
             /\ tabs'[u].step = "save app" => tabs'[u].row \in DOMAIN clients'
             /\ tabs'[u].step \in {"queue", "usage"} => tabs'[u].row \in DOMAIN auths'
    <2>1. CASE u = t BY <1>1, <2>1
    <2>2. CASE u # t
        <3>1. tabs'[u] = tabs[u] BY <1>1, <2>2
        <3>3. /\ tabs[u].copy.oauth \in {NoAuth} \cup DOMAIN auths
              /\ tabs[u].step = "save app" => tabs[u].row \in DOMAIN clients
              /\ tabs[u].step \in {"queue", "usage"} => tabs[u].row \in DOMAIN auths
            BY DEF ConnectShapes, ConnectBounds, TabsBounded
        <3>4. tabs'[u].copy.oauth \in {NoAuth} \cup DOMAIN auths' BY <3>1, <3>3
        <3> QED BY <3>1, <3>3, <3>4
    <2> QED BY <2>1, <2>2
<1> QED BY <1>3, <1>4 DEF TabsBounded

\* A request answers: its tab is idle again, and its browser's session is what it wrote.
LEMMA AnswerBounded ==
    ASSUME ConnectShapes, ConnectInv', NEW t \in Tabs, NEW copy \in SessionRecords, Respond(t, copy),
           DOMAIN clients \subseteq DOMAIN clients', DOMAIN auths \subseteq DOMAIN auths',
           copy.oauth \in {NoAuth} \cup DOMAIN auths'
    PROVE  TabsBounded'
<1>1. /\ tabs \in [Tabs -> TabRecords] /\ sessions \in [Browsers -> SessionRecords]
      /\ auths \in Seq(AuthRecords) /\ auths' \in Seq(AuthRecords) /\ browserOf[t] \in Browsers
    BY DEF ConnectShapes, ConnectInv, ConnectTypes
<1>3. IdleTab.step = "idle" /\ IdleTab.copy.oauth = 0 BY DEF IdleTab, Call, NoSession, NoAuth
<1>4. ASSUME NEW b \in Browsers PROVE sessions'[b].oauth \in {NoAuth} \cup DOMAIN auths'
    <2>2. sessions[b].oauth \in {NoAuth} \cup DOMAIN auths BY DEF ConnectShapes, ConnectBounds, TabsBounded
    <2>3. sessions'[b] = sessions[b] \/ sessions'[b] = copy BY <1>1 DEF Respond
    <2>4. CASE sessions'[b] = copy BY <2>4
    <2>5. CASE sessions'[b] = sessions[b] BY <2>2, <2>5
    <2> QED BY <2>3, <2>4, <2>5
<1>5. ASSUME NEW u \in Tabs
      PROVE  /\ tabs'[u].copy.oauth \in {NoAuth} \cup DOMAIN auths'
             /\ tabs'[u].step = "save app" => tabs'[u].row \in DOMAIN clients'
             /\ tabs'[u].step \in {"queue", "usage"} => tabs'[u].row \in DOMAIN auths'
    <2>1. CASE u = t
        <3>1. tabs'[u] = IdleTab BY <1>1, <2>1 DEF Respond
        <3> QED BY <1>3, <3>1 DEF NoAuth
    <2>2. CASE u # t
        <3>1. tabs'[u] = tabs[u] BY <1>1, <2>2 DEF Respond
        <3>3. /\ tabs[u].copy.oauth \in {NoAuth} \cup DOMAIN auths
              /\ tabs[u].step = "save app" => tabs[u].row \in DOMAIN clients
              /\ tabs[u].step \in {"queue", "usage"} => tabs[u].row \in DOMAIN auths
            BY DEF ConnectShapes, ConnectBounds, TabsBounded
        <3>4. tabs'[u].copy.oauth \in {NoAuth} \cup DOMAIN auths' BY <3>1, <3>3
        <3> QED BY <3>1, <3>3, <3>4
    <2> QED BY <2>1, <2>2
<1> QED BY <1>4, <1>5 DEF TabsBounded

LEMMA ConnectShapesKept == ConnectShapes /\ [ConnectNext]_connectVars => ConnectShapes'
<1> SUFFICES ASSUME ConnectShapes, [ConnectNext]_connectVars PROVE ConnectShapes'
    OBVIOUS
<1>1. ConnectInv /\ ConnectInv' /\ ConnectBounds BY ConnectNextKeeps DEF ConnectShapes
<1> SUFFICES ConnectBounds' BY <1>1 DEF ConnectShapes
<1>2. /\ tabs \in [Tabs -> TabRecords] /\ sessions \in [Browsers -> SessionRecords]
      /\ auths \in Seq(AuthRecords) /\ clients \in Seq(Browsers) /\ Begun \in Nat
      /\ DOMAIN clients = 1..Len(clients) /\ Len(clients) \in Nat /\ DOMAIN auths = 1..Begun
      /\ \A t \in Tabs : TabAt(t)
      /\ \A p \in Places : AccountFor(p)
      /\ socialAccounts \in [Places -> [row: Nat, grant: Nat]]
    BY <1>1 DEF ConnectInv, ConnectTypes, Begun, AccountAt
<1>3. ASSUME NEW t \in Tabs
      PROVE  /\ tabs[t].copy \in SessionRecords /\ tabs[t].copy.oauth \in {NoAuth} \cup DOMAIN auths
             /\ Here(t) \in SessionRecords /\ Here(t).oauth \in {NoAuth} \cup DOMAIN auths
             /\ tabs[t].copy.oauth \in Nat /\ Here(t).oauth \in Nat
             /\ Here(t).select \in Nat /\ tabs[t].copy.select \in Nat
             /\ tabs[t].step = "save app" => tabs[t].row \in DOMAIN clients
             /\ tabs[t].step \in {"queue", "usage"} => tabs[t].row \in DOMAIN auths
    BY <1>1, SessionSafe DEF ConnectBounds, TabsBounded, Here
<1>4. ends' = ends \/ (ends < MaxEnds /\ ends' = ends + 1)
    BY ZenonT(30) DEF ConnectNext, OpenStart, RegisterApp, SaveApp, EndStart, OpenCallback, UserDeclines, Exchange,
           CallFails, OpenSelect, StoreAccount, CreateQueue, RecordLinkUsage, CallDies, EndAccess,
           RemoveAccount, AnEnd, KeepRest, connectVars
<1>5. ends' \in 0..MaxEnds /\ appRefused' \in BOOLEAN
    <2>1. ends' \in 0..MaxEnds BY <1>1, <1>4, ConnectingAssumption DEF ConnectBounds
    <2>2. \/ UNCHANGED appRefused
          \/ \E t \in Tabs : appRefused' = (appRefused \/ (auths[tabs[t].auth].at = "open"
                                                          /\ ~SameClient(tabs[t].auth)))
        BY DEF ConnectNext, OpenStart, RegisterApp, SaveApp, EndStart, OpenCallback, UserDeclines, Exchange,
           CallFails, OpenSelect, StoreAccount, CreateQueue, RecordLinkUsage, CallDies, EndAccess,
           RemoveAccount, KeepHistory, connectVars
    <2>3. appRefused' \in BOOLEAN BY <1>1, <2>2 DEF ConnectBounds
    <2> QED BY <2>1, <2>3
<1>7. ASSUME TabsBounded', UNCHANGED <<apps, clients, auths, defaultQueues, linkUsages, died>>
      PROVE  ConnectBounds'
    BY <1>1, <1>5, <1>7 DEF ConnectBounds
<1>8. ASSUME NEW t \in Tabs, NEW copy \in SessionRecords, Respond(t, copy), copy.oauth \in {NoAuth} \cup DOMAIN auths,
             UNCHANGED <<clients, auths>>
      PROVE  TabsBounded'
    BY <1>1, <1>2, <1>8, AnswerBounded
<1>9. ASSUME NEW t \in Tabs, NEW next \in CallSteps \ {"save app", "queue", "usage"}, ToStep(t, next),
             UNCHANGED <<clients, auths, sessions>>
      PROVE  TabsBounded'
    <2> DEFINE new == [tabs[t] EXCEPT !.step = next]
    <2>1. tabs' = [tabs EXCEPT ![t] = new] BY <1>9 DEF ToStep
    <2>2. new.step = next /\ new.copy.oauth \in {NoAuth} \cup DOMAIN auths BY <1>2, <1>3 DEF TabRecords
    <2> HIDE DEF new
    <2> QED BY <1>1, <1>2, <1>9, <2>1, <2>2, TabBounded
<1>10. ASSUME NEW t \in Tabs, NEW p \in Places, OpenStart(t, p[1], p[2]) PROVE ConnectBounds'
    <2> DEFINE new == Call(IF p[2] = "instance" /\ apps = NoAuth THEN "register" ELSE "start", NoAuth,
                           Here(t), <<p[1], p[2]>>, apps)
    <2>1. /\ tabs' = [tabs EXCEPT ![t] = new]
          /\ UNCHANGED <<apps, clients, auths, defaultQueues, linkUsages, died, sessions>>
        BY <1>10 DEF OpenStart, KeepPlatform, KeepRows, KeepHistory
    <2>2. new.step \in {"register", "start"} /\ new.copy.oauth \in {NoAuth} \cup DOMAIN auths BY <1>3 DEF Call
    <2> HIDE DEF new
    <2> QED BY <1>1, <1>2, <1>7, <2>1, <2>2, TabBounded
<1>11. ASSUME NEW t \in Tabs, RegisterApp(t) PROVE ConnectBounds'
    <2>1. UNCHANGED <<apps, auths, defaultQueues, linkUsages, died>>
        BY <1>11 DEF RegisterApp, KeepRows, KeepHistory
    <2>2. DOMAIN clients \subseteq DOMAIN clients'
        <3>1. \/ UNCHANGED clients
              \/ browserOf[t] \in Browsers /\ clients' = Append(clients, browserOf[t])
            BY <1>1, <1>11 DEF RegisterApp, ConnectInv, ConnectTypes
        <3> QED BY <1>2, <3>1
    <2>3. CASE Respond(t, tabs[t].copy)
        <3>1. TabsBounded' BY <1>1, <1>2, <1>3, <2>1, <2>2, <2>3, AnswerBounded
        <3> QED BY <1>1, <1>5, <2>1, <2>2, <3>1 DEF ConnectBounds
    <2>4. CASE /\ clients' = Append(clients, browserOf[t]) /\ UNCHANGED sessions
               /\ tabs' = [tabs EXCEPT ![t].step = "save app", ![t].row = Len(clients) + 1]
        <3> DEFINE new == [tabs[t] EXCEPT !.step = "save app", !.row = Len(clients) + 1]
        <3>1. tabs' = [tabs EXCEPT ![t] = new] BY <1>2, <2>4
        <3>2. new.step = "save app" /\ new.row = Len(clients) + 1 /\ new.copy.oauth \in {NoAuth} \cup DOMAIN auths
            BY <1>2, <1>3 DEF TabRecords
        <3>3. Len(clients) + 1 \in DOMAIN clients'
            <4>1. browserOf[t] \in Browsers BY <1>1 DEF ConnectInv, ConnectTypes
            <4>2. clients \in Seq(Browsers) BY <1>2
            <4>3. clients' = Append(clients, browserOf[t]) BY <2>4
            <4> QED BY <4>1, <4>2, <4>3
        <3> HIDE DEF new
        <3>4. TabsBounded'
            BY ZenonT(30), <1>1, <1>2, <2>1, <2>2, <2>4, <3>1, <3>2, <3>3, TabBounded
        <3> QED BY <1>1, <1>5, <2>1, <2>2, <3>4 DEF ConnectBounds
    <2> QED BY <1>11, <2>3, <2>4 DEF RegisterApp
<1>12. ASSUME NEW t \in Tabs, SaveApp(t) PROVE ConnectBounds'
    <2>1. UNCHANGED <<clients, auths, defaultQueues, linkUsages, died>>
        BY <1>12 DEF SaveApp, KeepRows, KeepHistory
    <2>2. apps' \in {NoAuth} \cup DOMAIN clients
        BY <1>1, <1>3, <1>12 DEF SaveApp, SavedApp, ConnectBounds
    <2>3. TabsBounded'
        BY <1>3, <1>8, <1>9, <1>12, <2>1 DEF SaveApp, CallSteps
    <2> QED BY <1>1, <1>5, <2>1, <2>2, <2>3 DEF ConnectBounds
<1>13. ASSUME NEW t \in Tabs, EndStart(t) PROVE ConnectBounds'
    <2> DEFINE copy == [oauth |-> Begun + 1, select |-> tabs[t].copy.select]
    <2>1. /\ Respond(t, copy) /\ UNCHANGED <<apps, clients, defaultQueues, linkUsages, died>>
        BY <1>13 DEF EndStart, KeepPlatform, KeepRows, KeepHistory
    <2>2. copy \in SessionRecords /\ copy.oauth = Begun + 1
        <3>1. Begun \in Nat BY <1>2
        <3>2. Begun + 1 \in Nat BY <3>1
        <3>3. tabs[t].copy.select \in Nat BY <1>3
        <3> QED BY <3>2, <3>3 DEF SessionRecords
    <2>3. Begun + 1 \in DOMAIN auths' /\ DOMAIN auths \subseteq DOMAIN auths'
        BY <1>2, <1>13 DEF EndStart, Begun
    <2> HIDE DEF copy
    <2>4. copy.oauth \in {NoAuth} \cup DOMAIN auths' BY <1>2, <2>2, <2>3
    <2>5. TabsBounded' BY <1>1, <1>2, <2>1, <2>2, <2>3, <2>4, AnswerBounded
    <2> QED BY <1>1, <1>5, <2>1, <2>3, <2>5 DEF ConnectBounds
<1>14. ASSUME NEW t \in Tabs, NEW n \in DOMAIN auths, OpenCallback(t, n) PROVE ConnectBounds'
    <2> DEFINE copy == [oauth |-> NoAuth, select |-> Here(t).select]
               new == Call("exchange", n, copy, AskedFor(n), 0)
    <2>1. UNCHANGED <<apps, clients, auths, defaultQueues, linkUsages, died>>
        BY <1>14 DEF OpenCallback, KeepPlatform, KeepRows
    <2>2. copy \in SessionRecords /\ copy.oauth \in {NoAuth} \cup DOMAIN auths
        BY <1>2, <1>3 DEF SessionRecords, NoAuth
    <2>3. new.copy = copy /\ new.step = "exchange" BY DEF Call
    <2>4. \/ tabs' = [tabs EXCEPT ![t] = new] /\ UNCHANGED sessions
          \/ Respond(t, copy)
        BY <1>14 DEF OpenCallback
    <2> HIDE DEF copy, new
    <2>5. TabsBounded'
        BY <1>1, <1>2, <1>8, <2>1, <2>2, <2>3, <2>4, TabBounded
    <2> QED BY <1>7, <2>1, <2>5
<1>15. ASSUME NEW t \in Tabs, NEW n \in DOMAIN auths, UserDeclines(t, n) PROVE ConnectBounds'
    <2> DEFINE copy == [oauth |-> NoAuth, select |-> Here(t).select]
    <2>1. /\ Respond(t, copy) /\ UNCHANGED <<apps, clients, defaultQueues, linkUsages, died>>
          /\ auths' = [auths EXCEPT ![n].at = "declined"]
        BY <1>15 DEF UserDeclines, KeepPlatform, KeepRows, KeepHistory
    <2>2. copy \in SessionRecords /\ copy.oauth \in {NoAuth} \cup DOMAIN auths
        BY <1>2, <1>3 DEF SessionRecords, NoAuth
    <2>3. DOMAIN auths' = DOMAIN auths BY <1>2, <2>1 DEF Begun
    <2> HIDE DEF copy
    <2>4. TabsBounded' BY <1>1, <1>2, <2>1, <2>2, <2>3, AnswerBounded
    <2> QED BY <1>1, <1>5, <2>1, <2>3, <2>4 DEF ConnectBounds
<1>16. ASSUME NEW t \in Tabs, Exchange(t) \/ CallFails(t) PROVE ConnectBounds'
    <2>1. /\ UNCHANGED <<apps, clients, defaultQueues, linkUsages, died>>
          /\ auths' = [auths EXCEPT ![tabs[t].auth].at = "spent"]
        BY <1>16 DEF Exchange, CallFails, KeepPlatform, KeepRows, KeepHistory
    <2>2. DOMAIN auths' = DOMAIN auths BY <1>2, <2>1 DEF Begun
    <2> DEFINE selected == [oauth |-> tabs[t].copy.oauth, select |-> tabs[t].auth]
               new == [tabs[t] EXCEPT !.step = "store"]
    <2>3. selected \in SessionRecords /\ selected.oauth \in {NoAuth} \cup DOMAIN auths
        BY <1>2, <1>3 DEF SessionRecords, TabRecords
    <2>4. new.step = "store" /\ new.copy = tabs[t].copy BY <1>2 DEF TabRecords
    <2>5. \/ Respond(t, selected) \/ Respond(t, tabs[t].copy)
          \/ tabs' = [tabs EXCEPT ![t] = new] /\ UNCHANGED sessions
        BY <1>16 DEF Exchange, CallFails, ToStep
    <2> HIDE DEF selected, new
    <2>6. TabsBounded'
        BY <1>1, <1>2, <1>3, <2>1, <2>2, <2>3, <2>4, <2>5, TabBounded, AnswerBounded
    <2> QED BY <1>1, <1>5, <2>1, <2>2, <2>6 DEF ConnectBounds
<1>17. ASSUME NEW t \in Tabs, OpenSelect(t) PROVE ConnectBounds'
    <2> DEFINE copy == [oauth |-> Here(t).oauth, select |-> NoAuth]
               new == Call("store", Here(t).select, copy, SelectionTarget(t), 0)
    <2>1. /\ UNCHANGED <<apps, clients, auths, defaultQueues, linkUsages, died, sessions>>
          /\ tabs' = [tabs EXCEPT ![t] = new]
        BY <1>17 DEF OpenSelect, KeepPlatform, KeepRows, KeepHistory
    <2>2. new.step = "store" /\ new.copy.oauth = Here(t).oauth BY DEF Call
    <2> HIDE DEF copy, new
    <2>3. TabsBounded' BY <1>1, <1>2, <1>3, <2>1, <2>2, TabBounded
    <2> QED BY <1>7, <2>1, <2>3
<1>18. ASSUME NEW t \in Tabs, StoreAccount(t) PROVE ConnectBounds'
    <2> DEFINE p == tabs[t].place
               row == IF socialAccounts[p] = NoAccount THEN tabs[t].auth ELSE socialAccounts[p].row
               new(s) == [tabs[t] EXCEPT !.row = row, !.step = s]
    <2>1. UNCHANGED <<apps, clients, auths, defaultQueues, linkUsages, died>> /\ tabs[t].step = "store"
        BY <1>18 DEF StoreAccount, KeepPlatform, KeepHistory
    <2>2. tabs[t].auth \in DOMAIN auths /\ AskedFor(tabs[t].auth) = p /\ AuthAt(tabs[t].auth)
        BY <1>1, <1>2, <2>1 DEF TabAt, ConnectInv
    <2>3. p \in Places BY <2>2 DEF AuthAt
    <2>4. row \in DOMAIN auths BY <1>2, <2>2, <2>3 DEF AccountFor
    <2>5. \/ Respond(t, tabs[t].copy)
          \/ \E s \in {"queue", "usage"} :
                tabs' = [tabs EXCEPT ![t].row = row, ![t].step = s] /\ UNCHANGED sessions
        BY <1>18 DEF StoreAccount
    <2>6. CASE Respond(t, tabs[t].copy) BY <1>3, <1>7, <1>8, <2>1, <2>6
    <2>7. ASSUME NEW s \in {"queue", "usage"}, UNCHANGED sessions,
                 tabs' = [tabs EXCEPT ![t].row = row, ![t].step = s]
          PROVE  ConnectBounds'
        <3>1. new(s).row = row /\ new(s).step = s /\ new(s).copy = tabs[t].copy
            BY <1>2 DEF TabRecords
        <3>2. tabs' = [tabs EXCEPT ![t] = new(s)] BY <1>2, <2>7
        <3> HIDE DEF new, row, p
        <3>3. TabsBounded'
            BY <1>1, <1>2, <1>3, <2>1, <2>4, <2>7, <3>1, <3>2, TabBounded
        <3> QED BY <1>7, <2>1, <3>3
    <2> QED BY <2>5, <2>6, <2>7
<1>19. ASSUME NEW t \in Tabs, CreateQueue(t) PROVE ConnectBounds'
    <2> DEFINE new == [tabs[t] EXCEPT !.step = "usage"]
    <2>1. /\ UNCHANGED <<apps, clients, auths, linkUsages, died>> /\ tabs[t].step = "queue"
          /\ defaultQueues' \subseteq defaultQueues \cup {tabs[t].row}
        BY <1>19 DEF CreateQueue, KeepPlatform, KeepHistory
    <2>2. tabs[t].row \in DOMAIN auths BY <1>3, <2>1
    <2>3. Respond(t, tabs[t].copy) \/ (tabs' = [tabs EXCEPT ![t] = new] /\ UNCHANGED sessions)
        BY <1>19 DEF CreateQueue, ToStep
    <2>4. new.step = "usage" /\ new.row = tabs[t].row /\ new.copy = tabs[t].copy BY <1>2 DEF TabRecords
    <2> HIDE DEF new
    <2>5. CASE Respond(t, tabs[t].copy) BY <1>1, <1>3, <1>5, <1>8, <2>1, <2>2, <2>5 DEF ConnectBounds
    <2>6. CASE tabs' = [tabs EXCEPT ![t] = new] /\ UNCHANGED sessions
        <3>1. TabsBounded' BY <1>1, <1>2, <1>3, <2>1, <2>2, <2>4, <2>6, TabBounded
        <3> QED BY <1>1, <1>5, <2>1, <2>2, <3>1 DEF ConnectBounds
    <2> QED BY <2>3, <2>5, <2>6
<1>20. ASSUME NEW t \in Tabs, RecordLinkUsage(t) PROVE ConnectBounds'
    <2>1. /\ UNCHANGED <<apps, clients, auths, defaultQueues, died>> /\ tabs[t].step = "usage"
          /\ linkUsages' \subseteq linkUsages \cup {tabs[t].row} /\ Respond(t, tabs[t].copy)
        BY <1>20 DEF RecordLinkUsage, KeepPlatform, KeepHistory
    <2>2. tabs[t].row \in DOMAIN auths BY <1>3, <2>1
    <2> QED BY <1>1, <1>3, <1>5, <1>8, <2>1, <2>2 DEF ConnectBounds
<1>21. ASSUME NEW t \in Tabs, CallDies(t) PROVE ConnectBounds'
    <2>1. /\ UNCHANGED <<apps, clients, auths, defaultQueues, linkUsages, sessions>>
          /\ tabs' = [tabs EXCEPT ![t] = IdleTab]
          /\ died' \subseteq died \cup (IF tabs[t].step \in {"queue", "usage"} THEN {tabs[t].row} ELSE {})
        BY <1>21 DEF CallDies, KeepPlatform, KeepRows
    <2>2. died' \subseteq DOMAIN auths BY <1>1, <1>3, <2>1 DEF ConnectBounds
    <2>3. IdleTab.step = "idle" /\ IdleTab.copy.oauth \in {NoAuth} \cup DOMAIN auths
        BY <1>2 DEF IdleTab, Call, NoSession, NoAuth
    <2>4. TabsBounded' BY <1>1, <1>2, <2>1, <2>3, TabBounded
    <2> QED BY <1>1, <1>5, <2>1, <2>2, <2>4 DEF ConnectBounds
<1>22. ASSUME UNCHANGED <<apps, clients, auths, died, sessions, tabs>>,
              defaultQueues' \subseteq defaultQueues, linkUsages' \subseteq linkUsages
       PROVE  ConnectBounds'
    BY <1>1, <1>5, <1>22 DEF ConnectBounds, TabsBounded, Begun
<1>23. ASSUME NEW b \in Browsers, EndAccess(b) PROVE ConnectBounds'
    BY <1>22, <1>23 DEF EndAccess, KeepPlatform, KeepRows, KeepHistory
<1>24. ASSUME NEW p \in DOMAIN socialAccounts, RemoveAccount(p) PROVE ConnectBounds'
    BY <1>22, <1>24 DEF RemoveAccount, KeepPlatform, KeepHistory
<1>25. CASE UNCHANGED connectVars BY <1>22, <1>25 DEF connectVars
<1> QED BY <1>10, <1>11, <1>12, <1>13, <1>14, <1>15, <1>16, <1>17, <1>18, <1>19, <1>20, <1>21, <1>23,
           <1>24, <1>25 DEF ConnectNext

LEMMA ConnectShapesHold == ConnectShapes => ConnectTypeOK
<1> SUFFICES ASSUME ConnectShapes PROVE ConnectTypeOK
    OBVIOUS
<1>1. ConnectInv /\ ConnectTypes /\ ConnectBounds /\ TabsBounded
    BY DEF ConnectShapes, ConnectInv, ConnectBounds
<1>2. /\ auths \in Seq(AuthRecords) /\ Begun \in Nat /\ DOMAIN auths = 1..Begun
      /\ sessions \in [Browsers -> SessionRecords] /\ tabs \in [Tabs -> TabRecords]
      /\ socialAccounts \in [Places -> [row: Nat, grant: Nat]]
    BY <1>1 DEF ConnectTypes, Begun
<1>3. ASSUME NEW b \in Browsers PROVE sessions[b] \in [oauth: 0..Begun, select: 0..Begun]
    <2>1. sessions[b] \in SessionRecords /\ Selectable(b, sessions[b].select) BY <1>1, <1>2 DEF ConnectInv
    <2>2. sessions[b].oauth \in 0..Begun
        <3>1. Begun \in Nat /\ DOMAIN auths = 1..Begun BY <1>2
        <3>2. sessions[b].oauth \in {NoAuth} \cup DOMAIN auths BY <1>1 DEF TabsBounded
        <3> QED BY <3>1, <3>2 DEF NoAuth
    <2>3. sessions[b].select \in 0..Begun BY <1>2, <2>1 DEF Selectable, NoAuth
    <2> QED BY <2>1, <2>2, <2>3 DEF SessionRecords
<1>4. ASSUME NEW n \in DOMAIN auths PROVE auths[n].at \in {"open", "declined", "spent"}
    <2>1. auths[n] \in AuthRecords BY <1>2
    <2> QED BY <2>1 DEF AuthRecords
<1>5. ASSUME NEW p \in DOMAIN socialAccounts PROVE socialAccounts[p] \in [row: 0..Begun, grant: 0..Begun]
    <2>1. p \in Places /\ AccountFor(p) BY <1>1, <1>2 DEF ConnectInv, AccountAt
    <2>2. CASE socialAccounts[p] = NoAccount BY <1>2, <2>2 DEF NoAccount, NoAuth
    <2>3. CASE socialAccounts[p] # NoAccount
        <3>1. socialAccounts[p].row \in 0..Begun /\ socialAccounts[p].grant \in 0..Begun
            BY <1>2, <2>1, <2>3 DEF AccountFor
        <3>2. socialAccounts[p] \in [row: Nat, grant: Nat] BY <1>2, <2>1
        <3> QED BY <3>1, <3>2
    <2> QED BY <2>2, <2>3
<1>6. ASSUME NEW t \in Tabs PROVE tabs[t].step \in CallSteps /\ tabs[t].auth \in 0..Begun
    <2>1. tabs[t] \in TabRecords /\ TabAt(t) BY <1>1, <1>2 DEF ConnectInv
    <2>2. tabs[t].step \in CallSteps BY <2>1 DEF TabRecords
    <2>3. tabs[t].auth = NoAuth \/ tabs[t].auth \in DOMAIN auths
        BY <2>1, <2>2, IdleTabType DEF TabAt, CallSteps
    <2> QED BY <1>2, <2>2, <2>3 DEF NoAuth
<1>7. defaultQueues \cup linkUsages \cup died \cup tooLate \subseteq 1..Begun
    BY <1>1, <1>2 DEF ConnectBounds, ConnectTypes
<1>8. sessions \in [Browsers -> [oauth: 0..Begun, select: 0..Begun]] BY <1>2, <1>3
<1>9. appRefused \in BOOLEAN BY <1>1 DEF ConnectBounds
<1> QED BY <1>1, <1>4, <1>5, <1>6, <1>7, <1>8, <1>9 DEF ConnectTypes, ConnectBounds, ConnectTypeOK

-------------------------------------------------------------------------------
(* Keys and grants: what is stored has its type *)

\* A key is of some account, roles are roles, and what a cache keeps is not over.
AccessRest ==
    /\ key.accounts # {}
    /\ \A e \in KeyEditors : keyEdits[e].step = "commit" => keyEdits[e].new.accounts # {}
    /\ \A u \in KeyEditors : holds[u] \in KeyRoles
    /\ \A p \in Processes : cached[p] # NoKey => cached[p].until > hours

AccessShapes == KeyInv /\ AccessRest

LEMMA AccessShapesInit == AccessInit => AccessShapes
<1> SUFFICES ASSUME AccessInit PROVE AccessShapes
    OBVIOUS
<1>1. KeyInv BY KeyInvInit
<1>2. AccessRest BY AccessAssumption DEF AccessInit, AccessRest, NoEdit, KeyRoles
<1> QED BY <1>1, <1>2 DEF AccessShapes

LEMMA AccessShapesKept == AccessShapes /\ [AccessNext]_accessVars => AccessShapes'
<1> SUFFICES ASSUME AccessShapes, [AccessNext]_accessVars PROVE AccessShapes'
    OBVIOUS
<1>1. KeyInv /\ KeyInv' /\ AccessRest BY AccessNextKeeps DEF AccessShapes
<1>2. /\ key \in KeyRows /\ keyEdits \in [KeyEditors -> Edits] /\ hours \in Nat
      /\ cached \in [Processes -> CacheEntries \cup {NoKey}] /\ holds \in [KeyEditors -> HeldPerms]
    BY <1>1 DEF KeyInv, KeyTypes
<1>3. \A u \in KeyEditors : holds'[u] \in KeyRoles
    <2>1. UNCHANGED holds \/ \E u \in KeyEditors, perms \in KeyRoles : holds' = [holds EXCEPT ![u] = perms]
        BY ZenonT(30)
           DEF AccessNext, Present, ReadRow, StoreRow, Authorize, Admit, RefuseKey, Answer, OpenKey, SaveEdit,
               EditRefused, CommitKey, Revoke, Bust, SetRole, AccessHour, accessVars
    <2> QED BY <1>1, <1>2, <2>1 DEF AccessRest
<1>4. /\ \A e \in KeyEditors : keyEdits'[e].step = "commit" => keyEdits'[e].new.accounts # {}
      /\ key'.accounts # {}
    <2> DEFINE Goal == /\ \A e \in KeyEditors : keyEdits'[e].step = "commit" => keyEdits'[e].new.accounts # {}
                       /\ key'.accounts # {}
    <2>1. UNCHANGED <<key, keyEdits>> => Goal BY <1>1 DEF AccessRest
    <2>2. ASSUME NEW e \in KeyEditors, NEW r, keyEdits' = [keyEdits EXCEPT ![e] = r],
                 r.step = "commit" => r.new.accounts # {}, key'.accounts # {}
          PROVE  Goal
        BY <1>1, <1>2, <2>2 DEF AccessRest
    <2>3. key.accounts # {} BY <1>1 DEF AccessRest
    <2> HIDE DEF Goal
    <2>4. ASSUME NEW e \in KeyEditors, NEW p \in Processes, NEW kind \in {"edit", "revoke"}, OpenKey(e, p, kind)
          PROVE  Goal
        <3> DEFINE r == [step |-> kind, process |-> p, since |-> 0,
                         read |-> IF kind = "edit" THEN key.perms ELSE {}]
        <3>1. keyEdits' = [keyEdits EXCEPT ![e] = r] /\ r.step = kind /\ UNCHANGED key
            BY <2>4 DEF OpenKey, Edit
        <3> HIDE DEF r
        <3> QED BY <2>2, <2>3, <3>1
    <2>5. ASSUME NEW e \in KeyEditors, NEW posted, NEW accounts, NEW expires, SaveEdit(e, posted, accounts, expires)
          PROVE  Goal
        <3>1. PICK r : keyEdits' = [keyEdits EXCEPT ![e] = r] /\ r.new.accounts = accounts /\ UNCHANGED key
            BY <2>5 DEF SaveEdit, Edit
        <3> QED BY <2>2, <2>3, <2>5, <3>1 DEF SaveEdit
    <2>6. NoEdit.step = "idle" BY DEF NoEdit
    <2>7. ASSUME NEW e \in KeyEditors, EditRefused(e) \/ Bust(e) PROVE Goal
        BY <2>2, <2>3, <2>6, <2>7 DEF EditRefused, Bust, Edit
    <2>8. ASSUME NEW e \in KeyEditors, CommitKey(e) PROVE Goal
        <3>1. key' = [keyEdits[e].new EXCEPT !.revoked = key.revoked] /\ keyEdits[e].step = "commit"
            BY <2>8 DEF CommitKey, Saved
        <3>2. keyEdits[e] \in Commits BY <1>1, <3>1, KeyHands DEF KeyInv
        <3>3. key'.accounts = keyEdits[e].new.accounts BY <3>1, <3>2 DEF Commits, KeyRows
        <3>4. key'.accounts # {} BY <1>1, <3>1, <3>3 DEF AccessRest
        <3> QED BY <2>2, <2>6, <2>8, <3>4 DEF CommitKey, Edit
    <2>9. ASSUME NEW e \in KeyEditors, Revoke(e) PROVE Goal
        <3>1. key'.accounts = key.accounts BY <1>2, <2>9 DEF Revoke, KeyRows
        <3>2. keyEdits[e] \in OpenEdits BY <1>1, <2>9, KeyHands DEF KeyInv, Revoke
        <3>3. PICK r : r = [keyEdits[e] EXCEPT !.step = "bust", !.since = hours] BY Zenon
        <3>4. r.step = "bust" BY <3>2, <3>3 DEF OpenEdits
        <3>5. keyEdits' = [keyEdits EXCEPT ![e] = r] BY <2>9, <3>3 DEF Revoke, Edit
        <3> QED BY <2>2, <2>3, <3>1, <3>4, <3>5
    <2>10. Goal
        BY ZenonT(30), <2>1, <2>4, <2>5, <2>7, <2>8, <2>9
           DEF AccessNext, Present, ReadRow, StoreRow, Authorize, Admit, RefuseKey, Answer, SetRole, AccessHour,
               accessVars
    <2> QED BY <2>10 DEF Goal
<1>5. \A p \in Processes : cached'[p] # NoKey => cached'[p].until > hours'
    <2>1. ASSUME NEW p \in Processes PROVE cached[p] # NoKey => cached[p].until \in Nat /\ cached[p].until > hours
        <3>1. cached[p] \in CacheEntries \cup {NoKey} BY <1>2
        <3> QED BY <1>1, <3>1 DEF AccessRest, CacheEntries
    <2>2. CASE AccessHour
        <3>1. hours' = hours + 1
              /\ \A p \in Processes : cached'[p] = IF cached[p] # NoKey /\ cached[p].until <= hours + 1
                                                   THEN NoKey ELSE cached[p]
            BY <2>2 DEF AccessHour
        <3> QED BY <1>2, <2>1, <3>1
    <2>3. ASSUME NEW a \in Agents, StoreRow(a) PROVE \A p \in Processes : cached'[p] # NoKey => cached'[p].until > hours'
        <3> DEFINE entry == [kind |-> "row", row |-> agent[a].row, until |-> hours + KeyTTL]
        <3>1. entry.until > hours BY <1>2, AccessAssumption
        <3>2. UNCHANGED hours /\ (UNCHANGED cached \/ cached' = [cached EXCEPT ![agent[a].process] = entry])
            BY <2>3 DEF StoreRow
        <3> HIDE DEF entry
        <3> QED BY <1>2, <2>1, <3>1, <3>2
    <2>4. \/ UNCHANGED <<cached, hours>>
          \/ UNCHANGED hours /\ \E p : cached' = [cached EXCEPT ![p] = NoKey]
          \/ AccessHour \/ \E a \in Agents : StoreRow(a)
        BY ZenonT(30)
           DEF AccessNext, Present, ReadRow, Authorize, Admit, RefuseKey, Answer, OpenKey, SaveEdit,
               EditRefused, CommitKey, Revoke, Bust, SetRole, accessVars
    <2>5. ASSUME NEW q, cached' = [cached EXCEPT ![q] = NoKey], UNCHANGED hours
          PROVE  \A p \in Processes : cached'[p] # NoKey => cached'[p].until > hours'
        <3>1. \A p \in Processes : cached'[p] = IF p = q THEN NoKey ELSE cached[p] BY <1>2, <2>5
        <3> QED BY <2>1, <2>5, <3>1
    <2> QED BY <2>1, <2>2, <2>3, <2>4, <2>5
<1> QED BY <1>1, <1>3, <1>4, <1>5 DEF AccessShapes, AccessRest

LEMMA AccessShapesHold == AccessShapes => AccessTypeOK
BY DEF AccessShapes, AccessRest, AccessTypeOK, KeyInv, KeyTypes, KeyRows

\* A stored grant has the fields of its row.
LEMMA GrantRowsTyped == GrantInv => GrantTypeOK
<1> SUFFICES ASSUME GrantInv PROVE GrantTypeOK
    OBVIOUS
<1>1. grantClock \in 0..LastTick BY DEF GrantInv
<1>2. ASSUME held # NoGrant
      PROVE  held \in StoredGrants /\ held.expires \in Nat \cup {Unknown}
    <2>1. held \in StoredGrants /\ (held.expires = Unknown \/ held.expires \in 0..held.lapses)
        BY <1>2 DEF GrantInv, EndStored
    <2> QED BY <2>1
<1> QED BY <1>1, <1>2 DEF StoredGrants, GrantTypeOK
===============================================================================
