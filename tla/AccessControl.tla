--------------------------- MODULE AccessControl ---------------------------
(***************************************************************************)
(* Who may change what.  Every handler resolves its caller with separate   *)
(* reads (getCurrentIssuerUser), decides with lib/permissions.ts, reads    *)
(* what it is about to change, and writes; the row policies of migrations  *)
(* 015 and 016 decide once more, in the statement that writes.  Members,   *)
(* roles, assignments, issuers, organizations and templates change in      *)
(* between, by the requests of others.                                     *)
(*                                                                         *)
(* The organization of a user and of an issuer never changes, nor, here,   *)
(* who administers the platform (see OrganizationAdmin).  A membership in  *)
(* another organization than the user's own is consulted by nobody.        *)
(***************************************************************************)
EXTENDS Naturals

CONSTANTS
  User, Administrator,   \* application users, and those with platform_admin
  Tenant, HomeOf,        \* organizations, users.organization_id
  Branch, TenantOf,      \* issuers, issuers.organization_id
  Profile, BranchOf,     \* issuer profiles, owner_issuer_id
  Nobody,
  MaxOthers              \* bound on the changes made by others

AccessAssumption ==
  /\ Administrator \subseteq User
  /\ HomeOf \in [User -> Tenant] /\ TenantOf \in [Branch -> Tenant]
  /\ BranchOf \in [Profile -> Branch]
  /\ Nobody \notin Branch /\ Nobody \notin Profile /\ MaxOthers \in Nat
ASSUME AccessAssumption

MemberRole == {"organization_admin", "issuer", "viewer"}
AssignedRole == {"issuer_admin", "issuer_operator", "viewer"}
BranchStatus == {"active", "suspended", "deleted"}
Capability == {"read", "manage", "templates", "operate"}

VARIABLES
  tenantStatus,  \* organizations.status, with soft_deleted_at as "deleted"
  memberRole,    \* [User -> role in the own organization, or "none"]
  assigned,      \* [Branch -> [User -> role in issuer_members, or "none"]]
  bound,         \* [User -> users.issuer_id, or Nobody]
  branchStatus,  \* issuers.status
  template,      \* [Branch -> its template: status, profile]
  profileActive, \* issuer_profiles.active
  request,       \* the request followed: who asks for what, what it has read
  others         \* changes by other requests so far

tenancy == <<tenantStatus, memberRole, assigned, bound, branchStatus>>
accessVars == <<tenancy, template, profileActive, request, others>>

-----------------------------------------------------------------------------
(***************************************************************************)
(* The rule of the application, over what a request knows of its caller.   *)
(***************************************************************************)

\* What getCurrentIssuerUser would find now: nothing read is older than the rest.
Fresh(u) ==
  [user |-> u,
   role |-> IF u \in Administrator THEN "platform_admin" ELSE memberRole[u],
   assignments |-> [i \in Branch |-> assigned[i][u]],
   issuer |-> IF bound[u] # Nobody /\ branchStatus[bound[u]] = "active" THEN bound[u] ELSE Nobody]

SignedIn(u) == u \in Administrator \/ (tenantStatus[HomeOf[u]] = "active" /\ memberRole[u] # "none")

HasPermission(who, permission) ==
  \/ who.role = "platform_admin"
  \/ who.role = "organization_admin" /\ permission # "organizations.manage"
  \/ permission = "templates.manage" /\ \E i \in Branch : who.assignments[i] = "issuer_admin"

CanAccessOrganization(who, o) == who.role = "platform_admin" \/ HomeOf[who.user] = o

\* Mutant of CanAccessIssuer: whoever is assigned to the issuer may operate it.
AnyAssignmentOperates(who, i, capability) ==
  \/ who.role = "platform_admin"
  \/ /\ TenantOf[i] = HomeOf[who.user]
     /\ \/ who.role = "organization_admin" /\ capability # "operate"
        \/ who.assignments[i] # "none" /\ capability \in {"read", "operate"}
        \/ who.assignments[i] = "issuer_admin" /\ capability = "templates"
        \/ /\ capability = "read" /\ who.role = "viewer" /\ who.issuer = Nobody
           /\ \A j \in Branch : who.assignments[j] = "none"

CanAccessIssuer(who, i, capability) ==
  \/ who.role = "platform_admin"
  \/ /\ TenantOf[i] = HomeOf[who.user]
     /\ \/ who.role = "organization_admin" /\ capability # "operate"
        \/ who.assignments[i] # "none" /\ capability = "read"
        \/ who.assignments[i] = "issuer_admin" /\ capability = "templates"
        \/ who.assignments[i] = "issuer_operator" /\ capability = "operate"
        \/ /\ capability = "read" /\ who.role = "viewer" /\ who.issuer = Nobody
           /\ \A j \in Branch : who.assignments[j] = "none"

-----------------------------------------------------------------------------
(***************************************************************************)
(* The row policies, over the tables as they are.                          *)
(***************************************************************************)

\* phase1_owns_organization
OwnsOrganization(u, o, roles) ==
  u \in Administrator \/ (HomeOf[u] = o /\ tenantStatus[o] = "active" /\ memberRole[u] \in roles)

\* phase2_issuer_access
IssuerAccess(u, i, capability) ==
  \/ u \in Administrator
  \/ /\ OwnsOrganization(u, TenantOf[i], MemberRole)
     /\ \/ capability # "operate" /\ memberRole[u] = "organization_admin"
        \/ assigned[i][u] # "none" /\ capability = "read"
        \/ assigned[i][u] = "issuer_admin" /\ capability = "templates"
        \/ assigned[i][u] = "issuer_operator" /\ capability = "operate"
        \/ /\ capability = "read" /\ bound[u] = Nobody /\ memberRole[u] = "viewer"
           /\ \A j \in Branch : TenantOf[j] = TenantOf[i] => assigned[j][u] = "none"

\* phase2_active_issuer
ActiveIssuer(i) == branchStatus[i] = "active" /\ tenantStatus[TenantOf[i]] = "active"

\* issuers_read
IssuerReadable(u, i) ==
  OwnsOrganization(u, TenantOf[i], {"organization_admin"}) \/ IssuerAccess(u, i, "read")

-----------------------------------------------------------------------------
(***************************************************************************)
(* Requests.                                                               *)
(***************************************************************************)

\* One request is followed; its end is the end of what is followed.
NoRequest == [op |-> "none"]
Finished == [op |-> "ended"]
NotRead == [role |-> "none", assignments |-> [i \in Branch |-> "none"], issuer |-> Nobody, profile |-> Nobody]

\* What can be asked for: the user and the issuer it is about, and the role,
\* status or profile it is to get; "omitted" names no profile.
Asks ==
  [op : {"addMember", "changeRole"}, target : User, value : MemberRole]
  \cup [op : {"removeMember"}, target : User, value : {"none"}]
  \cup [op : {"organization"}, target : Tenant, value : {"active", "disabled", "deleted"}]
  \cup [op : {"assign"}, target : Branch \X User, value : AssignedRole]
  \cup [op : {"unassign"}, target : Branch \X User, value : {"none"}]
  \cup [op : {"updateIssuer"}, target : Branch, value : BranchStatus]
  \cup [op : {"saveTemplate"}, target : Branch, value : Profile \cup {Nobody, "omitted"}]
  \cup [op : {"deleteTemplate"}, target : Branch, value : {"inactive"}]
  \cup [op : {"updateProfile"}, target : Profile, value : {"active", "inactive"}]

Permission ==
  [addMember |-> "members.manage", changeRole |-> "members.manage", removeMember |-> "members.manage",
   organization |-> "organizations.manage", assign |-> "issuers.manage", unassign |-> "issuers.manage",
   updateIssuer |-> "issuers.manage", saveTemplate |-> "templates.manage",
   deleteTemplate |-> "templates.manage", updateProfile |-> "issuers.manage"]

\* The issuer a request is about, and what it must be allowed to do with it.
AboutIssuer(a) == a.op \in {"assign", "unassign", "updateIssuer", "saveTemplate", "deleteTemplate"}
IssuerOf(a) == IF a.op \in {"assign", "unassign"} THEN a.target[1] ELSE a.target
Needed(a) == IF a.op \in {"saveTemplate", "deleteTemplate"} THEN "templates" ELSE "manage"

\* What each handler asks beside the permission: members are of an organization
\* the caller may see, only platform administrators delete an issuer, a template
\* is saved for an active one, and a profile is the caller's own issuer's.
OfMembers(a) == a.op \in {"addMember", "changeRole", "removeMember"}
MembersRule(who, a) == OfMembers(a) => CanAccessOrganization(who, HomeOf[a.target])
IssuersRule(who, a) == a.op = "updateIssuer" /\ a.value = "deleted" => who.role = "platform_admin"
TemplatesRule(a) == a.op = "saveTemplate" => branchStatus[a.target] = "active"
ProfilesRule(who, a) == a.op = "updateProfile" => BranchOf[a.target] = who.issuer

\* What the handlers decide once they know their caller.
Rule(who, a) ==
  /\ HasPermission(who, Permission[a.op])
  /\ AboutIssuer(a) => CanAccessIssuer(who, IssuerOf(a), Needed(a))
  /\ MembersRule(who, a) /\ IssuersRule(who, a) /\ TemplatesRule(a) /\ ProfilesRule(who, a)

InProgress == request \notin {NoRequest, Finished}
AtStep(step) == InProgress /\ request.step = step
Proceed(step) == request' = [request EXCEPT !.step = step]
Refuse == request' = Finished
Still == UNCHANGED <<tenancy, template, profileActive, others>>

BeginRequest(u, a) ==
  /\ request = NoRequest
  /\ request' = [op |-> a.op, ask |-> a, user |-> u, step |-> "organization", read |-> NotRead]
  /\ Still

Known == [user |-> request.user, role |-> request.read.role,
          assignments |-> request.read.assignments, issuer |-> request.read.issuer]

\* The organization, the membership, the assignments and the issuer named in
\* users, each as it is when it is read and as far as the caller may read it.
ReadOrganization ==
  /\ AtStep("organization") /\ Still
  /\ IF OwnsOrganization(request.user, HomeOf[request.user], MemberRole) THEN Proceed("membership") ELSE Refuse

ReadMembership ==
  /\ AtStep("membership") /\ Still
  /\ IF request.user \in Administrator \/ memberRole[request.user] # "none"
     THEN request' = [request EXCEPT !.step = "assignments", !.read.role = Fresh(request.user).role]
     ELSE Refuse

ReadAssignments ==
  /\ AtStep("assignments") /\ Still
  /\ request' = [request EXCEPT !.step = "issuer", !.read.assignments = Fresh(request.user).assignments]

ReadIssuer ==
  /\ AtStep("issuer") /\ Still
  /\ LET i == Fresh(request.user).issuer
     IN request' = [request EXCEPT !.step = "target",
                      !.read.issuer = IF i # Nobody /\ IssuerReadable(request.user, i) THEN i ELSE Nobody]

\* authorize, then the target; a template keeps its mapping unless told otherwise.
ReadTarget ==
  /\ AtStep("target") /\ Still
  /\ IF Rule(Known, request.ask) /\ (AboutIssuer(request.ask) => IssuerReadable(request.user, IssuerOf(request.ask)))
     THEN Proceed(IF request.op # "saveTemplate" THEN "write"
               ELSE IF request.ask.value = "omitted" THEN "mapping" ELSE "profile")
     ELSE Refuse

MappingNow == IF IssuerAccess(request.user, request.ask.target, "read")
              THEN template[request.ask.target].profile ELSE Nobody

ReadMapping ==
  /\ AtStep("mapping") /\ Still
  /\ request' = [request EXCEPT !.step = "profile", !.read.profile = MappingNow]

Chosen == IF request.ask.value = "omitted" THEN request.read.profile ELSE request.ask.value

\* assertIssuerProfile
ReadProfile ==
  /\ AtStep("profile") /\ Still
  /\ IF \/ Chosen = Nobody
        \/ /\ BranchOf[Chosen] = request.ask.target /\ profileActive[Chosen]
           /\ IssuerAccess(request.user, BranchOf[Chosen], "read")
     THEN Proceed("write") ELSE Refuse

\* Mutant of Policy: an upsert is checked as an update alone.
PolicyOfUpdate(u, a) ==
  /\ OfMembers(a) => OwnsOrganization(u, HomeOf[a.target], {"organization_admin"})
  /\ a.op = "organization" => u \in Administrator
  /\ AboutIssuer(a) => IssuerAccess(u, IssuerOf(a), Needed(a))

\* The policies of the written table; an upsert is checked as an insertion, too.
\* Profiles are written with the service role, which no policy restricts.
Policy(u, a) ==
  /\ OfMembers(a) => OwnsOrganization(u, HomeOf[a.target], {"organization_admin"})
  /\ a.op = "organization" => u \in Administrator
  /\ AboutIssuer(a) => IssuerAccess(u, IssuerOf(a), Needed(a))
  /\ a.op = "saveTemplate" => ActiveIssuer(a.target)

\* The unique keys, the rows the statements look for, and the triggers
\* phase2_issuer_metadata and phase2_member_identity.
Admitted(u, a) ==
  /\ a.op = "addMember" => memberRole[a.target] = "none"
  /\ a.op \in {"changeRole", "removeMember"} => memberRole[a.target] # "none"
  /\ a.op = "organization" => tenantStatus[a.target] # "deleted"
  /\ a.op = "assign" =>
       /\ HomeOf[a.target[2]] = TenantOf[a.target[1]] /\ memberRole[a.target[2]] # "none"
       /\ branchStatus[a.target[1]] # "deleted"
  /\ a.op = "unassign" => assigned[a.target[1]][a.target[2]] # "none"
  /\ a.op = "updateIssuer" =>
       branchStatus[a.target] # "deleted" /\ (a.value = "deleted" => u \in Administrator)
  /\ a.op = "deleteTemplate" => template[a.target].status # "none"

\* What the services write, each to its table.
OrganizationsAfter(a) ==
  IF a.op = "organization" THEN [tenantStatus EXCEPT ![a.target] = a.value] ELSE tenantStatus
MembersAfter(a) ==
  IF OfMembers(a) THEN [memberRole EXCEPT ![a.target] = a.value] ELSE memberRole
AssignmentsAfter(a) ==
  IF a.op \in {"assign", "unassign"} THEN [assigned EXCEPT ![a.target[1]][a.target[2]] = a.value] ELSE assigned
IssuersAfter(a) ==
  IF a.op = "updateIssuer" THEN [branchStatus EXCEPT ![a.target] = a.value] ELSE branchStatus
TemplatesAfter(a, profile) ==
  IF a.op = "saveTemplate" THEN [template EXCEPT ![a.target] = [status |-> "active", profile |-> profile]]
  ELSE IF a.op = "deleteTemplate" THEN [template EXCEPT ![a.target].status = "inactive"]
  ELSE template
ProfilesAfter(a) ==
  IF a.op = "updateProfile" THEN [profileActive EXCEPT ![a.target] = (a.value = "active")] ELSE profileActive

Effect(a, profile) ==
  /\ tenantStatus' = OrganizationsAfter(a) /\ memberRole' = MembersAfter(a)
  /\ assigned' = AssignmentsAfter(a) /\ branchStatus' = IssuersAfter(a)
  /\ template' = TemplatesAfter(a, profile) /\ profileActive' = ProfilesAfter(a)
  /\ UNCHANGED bound

Write ==
  /\ AtStep("write") /\ Policy(request.user, request.ask) /\ Admitted(request.user, request.ask)
  /\ Effect(request.ask, IF request.op = "saveTemplate" THEN Chosen ELSE Nobody)
  /\ Refuse /\ UNCHANGED others

\* The statement changes no row, or an error: the request is answered with one.
FailRequest == InProgress /\ Refuse /\ Still

\* A statement of another request, by whoever may make it.
OthersWrite(u, a) ==
  /\ others < MaxOthers /\ others' = others + 1
  /\ a.op = "saveTemplate" => a.value # "omitted"
  /\ Policy(u, a) /\ Admitted(u, a)
  /\ Effect(a, IF a.op = "saveTemplate" THEN a.value ELSE Nobody)
  /\ UNCHANGED request

AccessInit ==
  /\ tenantStatus \in [Tenant -> {"active", "disabled"}]
  /\ memberRole \in [User -> MemberRole \cup {"none"}]
  /\ assigned \in [Branch -> [User -> AssignedRole \cup {"none"}]]
  /\ \A i \in Branch, u \in User : assigned[i][u] # "none" => HomeOf[u] = TenantOf[i]
  /\ bound \in [User -> Branch \cup {Nobody}]
  /\ \A u \in User : bound[u] # Nobody => HomeOf[u] = TenantOf[bound[u]]
  /\ branchStatus \in [Branch -> BranchStatus]
  /\ template \in [Branch -> [status : {"none"}, profile : {Nobody}] \cup [status : {"active"}, profile : {Nobody} \cup Profile]]
  /\ \A i \in Branch : template[i].profile # Nobody => BranchOf[template[i].profile] = i
  /\ profileActive = [p \in Profile |-> TRUE]
  /\ request = NoRequest /\ others = 0

AccessNext ==
  \/ \E u \in User, a \in Asks : BeginRequest(u, a) \/ OthersWrite(u, a)
  \/ ReadOrganization \/ ReadMembership \/ ReadAssignments \/ ReadIssuer
  \/ ReadTarget \/ ReadMapping \/ ReadProfile \/ Write \/ FailRequest

AccessSpec == AccessInit /\ [][AccessNext]_accessVars

-----------------------------------------------------------------------------
(***************************************************************************)
(* Properties.                                                             *)
(***************************************************************************)

Reading ==
  [role : MemberRole \cup {"platform_admin", "none"}, assignments : [Branch -> AssignedRole \cup {"none"}],
   issuer : Branch \cup {Nobody}, profile : Profile \cup {Nobody}]
RequestStep == {"organization", "membership", "assignments", "issuer", "target", "mapping", "profile", "write"}

Begun ==
  {r \in [op : DOMAIN Permission, ask : Asks, user : User, step : RequestStep, read : Reading] :
     r.op = r.ask.op /\ (r.step \in {"mapping", "profile"} => r.op = "saveTemplate")}

AccessTypeOK ==
  /\ tenantStatus \in [Tenant -> {"active", "disabled", "deleted"}]
  /\ memberRole \in [User -> MemberRole \cup {"none"}]
  /\ assigned \in [Branch -> [User -> AssignedRole \cup {"none"}]]
  /\ bound \in [User -> Branch \cup {Nobody}]
  /\ branchStatus \in [Branch -> BranchStatus]
  /\ template \in [Branch -> [status : {"none", "active", "inactive"}, profile : Profile \cup {Nobody}]]
  /\ profileActive \in [Profile -> BOOLEAN]
  /\ request \in {NoRequest, Finished} \cup Begun
  /\ others \in Nat

\* The two rules, one written in lib/permissions.ts and one in the policies,
\* allow the same changes to whoever is signed in and nothing to anybody else;
\* whatever a policy lets read, the application lets read.
RulesAgree ==
  \A u \in User, i \in Branch, c \in Capability :
    /\ IssuerAccess(u, i, c) => SignedIn(u) /\ CanAccessIssuer(Fresh(u), i, c)
    /\ c # "read" /\ SignedIn(u) /\ CanAccessIssuer(Fresh(u), i, c) => IssuerAccess(u, i, c)

\* What a request was allowed piece by piece is decided again by its write:
\* "Membership deletion must revoke workspace access even with an existing
\* valid Auth session" (docs/PHASE1_ARCHITECTURE_REVIEW.md).
Writing == InProgress /\ request' = Finished /\ <<tenancy, template>>' # <<tenancy, template>>
Permitted == SignedIn(request.user) /\ Rule(Fresh(request.user), request.ask)
WrittenWhilePermitted == [][Writing => Permitted]_accessVars

=============================================================================
