------------------------ MODULE AccessControlProofs ------------------------
(*****************************************************************************)
(* Theorems about permissions (AccessControl), the calls that administer an  *)
(* organization (OrganizationAdmin) and the pages that make them             *)
(* (AdminPages), for any users, organizations, issuers and sessions.         *)
(*****************************************************************************)
EXTENDS AccessControl, OrganizationAdmin, AdminPages, FiniteSetTheorems, TLAPS

\* An issuer assigns only users of its own organization.
AssignedAtHome ==
  \A i \in Branch, u \in User : assigned[i][u] # "none" => HomeOf[u] = TenantOf[i]

AccessInv == AccessTypeOK /\ AssignedAtHome

-----------------------------------------------------------------------------

\* A request that is followed is one of those that can be asked.
LEMMA RunningIsBegun == ASSUME AccessTypeOK, InProgress PROVE request \in Begun
BY DEF AccessTypeOK, InProgress, Begun

\* Going to another step changes nothing else of the request.
LEMMA StepTyped ==
  ASSUME AccessTypeOK, InProgress, NEW step \in RequestStep, Proceed(step),
         step \in {"mapping", "profile"} => request.op = "saveTemplate"
  PROVE  request' \in Begun
<1>1. request \in Begun BY RunningIsBegun
<1> QED BY <1>1 DEF Begun, Proceed

\* What a user is found to be is of the type a request remembers.
LEMMA FreshTyped ==
  ASSUME AccessTypeOK, NEW u \in User
  PROVE  /\ Fresh(u).role \in MemberRole \cup {"platform_admin", "none"}
         /\ Fresh(u).assignments \in [Branch -> AssignedRole \cup {"none"}]
         /\ Fresh(u).issuer \in Branch \cup {Nobody}
BY DEF AccessTypeOK, Fresh

\* The steps before the write keep the tables and leave a request of its type.
LEMMA ReadingKeepsType ==
  ASSUME AccessTypeOK, AccessAssumption,
         \/ ReadOrganization \/ ReadMembership \/ ReadAssignments \/ ReadIssuer
         \/ ReadTarget \/ ReadMapping \/ ReadProfile \/ FailRequest
  PROVE  Still /\ request' \in {Finished} \cup Begun
<1>1. CASE ReadOrganization
  BY <1>1, StepTyped DEF ReadOrganization, AtStep, Refuse, RequestStep
<1>2. CASE ReadMembership
  <2>1. request \in Begun BY <1>2, RunningIsBegun DEF ReadMembership, AtStep
  <2>2. request.user \in User BY <2>1 DEF Begun
  <2>3. CASE request' = [request EXCEPT !.step = "assignments", !.read.role = Fresh(request.user).role]
    <3>1. [request.read EXCEPT !.role = Fresh(request.user).role] \in Reading
      BY <2>1, <2>2, FreshTyped DEF Begun, Reading
    <3>2. request' = [request EXCEPT !.step = "assignments",
                        !.read = [request.read EXCEPT !.role = Fresh(request.user).role]]
      BY <2>1, <2>3 DEF Begun
    <3> QED BY <2>1, <3>1, <3>2, <1>2 DEF Begun, RequestStep, ReadMembership
  <2> QED BY <1>2, <2>3 DEF ReadMembership, Refuse
<1>3. CASE ReadAssignments
  <2>1. request \in Begun BY <1>3, RunningIsBegun DEF ReadAssignments, AtStep
  <2>2. request.user \in User BY <2>1 DEF Begun
  <2>3. [request.read EXCEPT !.assignments = Fresh(request.user).assignments] \in Reading
    BY <2>1, <2>2, FreshTyped DEF Begun, Reading
  <2>4. request' = [request EXCEPT !.step = "issuer",
                      !.read = [request.read EXCEPT !.assignments = Fresh(request.user).assignments]]
    BY <2>1, <1>3 DEF Begun, ReadAssignments
  <2> QED BY <2>1, <2>3, <2>4, <1>3 DEF Begun, RequestStep, ReadAssignments
<1>4. CASE ReadIssuer
  <2>1. request \in Begun BY <1>4, RunningIsBegun DEF ReadIssuer, AtStep
  <2>2. request.user \in User BY <2>1 DEF Begun
  <2> DEFINE i == Fresh(request.user).issuer
             seen == IF i # Nobody /\ IssuerReadable(request.user, i) THEN i ELSE Nobody
  <2>3. seen \in Branch \cup {Nobody} BY <2>2, FreshTyped
  <2>4. request' = [request EXCEPT !.step = "target", !.read.issuer = seen] BY <1>4 DEF ReadIssuer
  <2> HIDE DEF seen
  <2>5. [request.read EXCEPT !.issuer = seen] \in Reading BY <2>1, <2>3 DEF Begun, Reading
  <2>6. request' = [request EXCEPT !.step = "target", !.read = [request.read EXCEPT !.issuer = seen]]
    BY <2>4, <2>1 DEF Begun
  <2> QED BY <2>1, <2>5, <2>6, <1>4 DEF Begun, RequestStep, ReadIssuer
<1>5. CASE ReadTarget
  BY <1>5, StepTyped DEF ReadTarget, AtStep, Refuse, RequestStep
<1>6. CASE ReadMapping
  <2>1. request \in Begun BY <1>6, RunningIsBegun DEF ReadMapping, AtStep
  <2>2. MappingNow \in Profile \cup {Nobody}
    <3>1. request.ask.target \in Branch BY <2>1, <1>6 DEF ReadMapping, AtStep, Begun, Asks
    <3>2. template[request.ask.target].profile \in Profile \cup {Nobody} BY <3>1 DEF AccessTypeOK
    <3> QED BY <3>2 DEF MappingNow
  <2>3. request' = [request EXCEPT !.step = "profile", !.read.profile = MappingNow] BY <1>6 DEF ReadMapping
  <2>4. [request.read EXCEPT !.profile = MappingNow] \in Reading BY <2>1, <2>2 DEF Begun, Reading
  <2>5. request' = [request EXCEPT !.step = "profile", !.read = [request.read EXCEPT !.profile = MappingNow]]
    BY <2>3, <2>1 DEF Begun
  <2>6. request.op = "saveTemplate" BY <2>1, <1>6 DEF ReadMapping, AtStep, Begun
  <2> QED BY <2>1, <2>4, <2>5, <2>6, <1>6 DEF Begun, RequestStep, ReadMapping
<1>7. CASE ReadProfile
  BY <1>7, StepTyped DEF ReadProfile, AtStep, Refuse, RequestStep
<1>8. CASE FailRequest
  BY <1>8 DEF FailRequest, Refuse
<1> QED BY <1>1, <1>2, <1>3, <1>4, <1>5, <1>6, <1>7, <1>8

\* What a write stores is of the tables' types, and assigns nobody from elsewhere.
LEMMA EffectKeepsInv ==
  ASSUME AccessTypeOK, AssignedAtHome, AccessAssumption, NEW u \in User, NEW a \in Asks,
         NEW profile \in Profile \cup {Nobody}, Admitted(u, a), Effect(a, profile)
  PROVE  /\ tenantStatus' \in [Tenant -> {"active", "disabled", "deleted"}]
         /\ memberRole' \in [User -> MemberRole \cup {"none"}]
         /\ assigned' \in [Branch -> [User -> AssignedRole \cup {"none"}]]
         /\ bound' \in [User -> Branch \cup {Nobody}]
         /\ branchStatus' \in [Branch -> BranchStatus]
         /\ template' \in [Branch -> [status : {"none", "active", "inactive"}, profile : Profile \cup {Nobody}]]
         /\ profileActive' \in [Profile -> BOOLEAN]
         /\ AssignedAtHome'
<1>1. tenantStatus' \in [Tenant -> {"active", "disabled", "deleted"}]
  BY DEF Effect, OrganizationsAfter, AccessTypeOK, Asks
<1>2. memberRole' \in [User -> MemberRole \cup {"none"}]
  BY DEF Effect, MembersAfter, OfMembers, AccessTypeOK, Asks
<1>3. ASSUME a.op \in {"assign", "unassign"}
      PROVE  assigned' \in [Branch -> [User -> AssignedRole \cup {"none"}]] /\ AssignedAtHome'
  <2>1. /\ a.target \in Branch \X User /\ a.value \in AssignedRole \cup {"none"}
        /\ a.op = "unassign" => a.value = "none"
    BY <1>3 DEF Asks
  <2>2. assigned' = [assigned EXCEPT ![a.target[1]][a.target[2]] = a.value] BY <1>3 DEF Effect, AssignmentsAfter
  <2>3. assigned' \in [Branch -> [User -> AssignedRole \cup {"none"}]]
    BY <2>1, <2>2 DEF AccessTypeOK
  <2>4. ASSUME NEW i \in Branch, NEW v \in User, assigned'[i][v] # "none" PROVE HomeOf[v] = TenantOf[i]
    <3>1. CASE i = a.target[1] /\ v = a.target[2]
      BY <3>1, <2>1, <2>2, <2>4, <1>3 DEF AccessTypeOK, Admitted
    <3>2. CASE i # a.target[1] \/ v # a.target[2]
      <4>1. assigned'[i][v] = assigned[i][v] BY <3>2, <2>1, <2>2 DEF AccessTypeOK
      <4> QED BY <4>1, <2>4 DEF AssignedAtHome
    <3> QED BY <3>1, <3>2
  <2> QED BY <2>3, <2>4 DEF AssignedAtHome
<1>4. ASSUME a.op \notin {"assign", "unassign"}
      PROVE  assigned' \in [Branch -> [User -> AssignedRole \cup {"none"}]] /\ AssignedAtHome'
  BY <1>4 DEF Effect, AssignmentsAfter, AccessTypeOK, AssignedAtHome
<1>5. assigned' \in [Branch -> [User -> AssignedRole \cup {"none"}]] /\ AssignedAtHome'
  BY <1>3, <1>4
<1>6. branchStatus' \in [Branch -> BranchStatus]
  BY DEF Effect, IssuersAfter, AccessTypeOK, Asks
<1>7. template' \in [Branch -> [status : {"none", "active", "inactive"}, profile : Profile \cup {Nobody}]]
  BY ZenonT(60) DEF Effect, TemplatesAfter, AccessTypeOK
<1>8. profileActive' \in [Profile -> BOOLEAN] /\ bound' = bound
  BY DEF Effect, ProfilesAfter, AccessTypeOK
<1> QED BY <1>1, <1>2, <1>5, <1>6, <1>7, <1>8 DEF AccessTypeOK

-----------------------------------------------------------------------------

\* The profile of a template that is about to be written.
LEMMA ChosenTyped ==
  ASSUME AccessTypeOK, InProgress, request.op = "saveTemplate"
  PROVE  Chosen \in Profile \cup {Nobody}
<1>1. request \in Begun BY RunningIsBegun
<1>2. request.ask.value \in Profile \cup {Nobody, "omitted"} BY <1>1 DEF Begun, Asks
<1>3. request.read.profile \in Profile \cup {Nobody} BY <1>1 DEF Begun, Reading
<1> QED BY <1>2, <1>3 DEF Chosen

LEMMA AccessInitInv == ASSUME AccessAssumption, AccessInit PROVE AccessInv
<1>1. template \in [Branch -> [status : {"none", "active", "inactive"}, profile : Profile \cup {Nobody}]]
  BY DEF AccessInit
<1> QED BY <1>1 DEF AccessInit, AccessInv, AccessTypeOK, AssignedAtHome, NoRequest

LEMMA AccessStepInv == ASSUME AccessAssumption, AccessInv, [AccessNext]_accessVars PROVE AccessInv'
<1> USE DEF AccessInv
<1>1. ASSUME NEW u \in User, NEW a \in Asks, BeginRequest(u, a) PROVE AccessInv'
  <2>1. a.op \in DOMAIN Permission BY DEF Asks, Permission
  <2>2. NotRead \in Reading BY DEF NotRead, Reading
  <2>3. request' \in Begun BY <1>1, <2>1, <2>2 DEF BeginRequest, Begun, RequestStep
  <2> QED BY <1>1, <2>3 DEF BeginRequest, Still, tenancy, AccessTypeOK, AssignedAtHome
<1>2. CASE ReadOrganization \/ ReadMembership \/ ReadAssignments \/ ReadIssuer
             \/ ReadTarget \/ ReadMapping \/ ReadProfile \/ FailRequest
  <2>1. Still /\ request' \in {Finished} \cup Begun BY <1>2, ReadingKeepsType
  <2> QED BY <2>1 DEF Still, tenancy, AccessTypeOK, AssignedAtHome
<1>3. CASE Write
  <2>1. request \in Begun /\ InProgress BY <1>3, RunningIsBegun DEF Write, AtStep
  <2>2. request.user \in User /\ request.ask \in Asks BY <2>1 DEF Begun
  <2> DEFINE profile == IF request.op = "saveTemplate" THEN Chosen ELSE Nobody
  <2>3. profile \in Profile \cup {Nobody} BY <2>1, ChosenTyped
  <2>4. Effect(request.ask, profile) /\ Admitted(request.user, request.ask) BY <1>3 DEF Write
  <2>5. request' = Finished /\ others' = others BY <1>3 DEF Write, Refuse
  <2> HIDE DEF profile
  <2> QED BY <2>2, <2>3, <2>4, <2>5, EffectKeepsInv DEF AccessTypeOK
<1>4. ASSUME NEW u \in User, NEW a \in Asks, OthersWrite(u, a) PROVE AccessInv'
  <2> DEFINE profile == IF a.op = "saveTemplate" THEN a.value ELSE Nobody
  <2>1. profile \in Profile \cup {Nobody} BY <1>4 DEF OthersWrite, Asks
  <2>2. Effect(a, profile) /\ Admitted(u, a) BY <1>4 DEF OthersWrite
  <2>3. request' = request /\ others' = others + 1 BY <1>4 DEF OthersWrite
  <2>4. others' \in Nat BY <2>3 DEF AccessTypeOK
  <2> HIDE DEF profile
  <2> QED BY <2>1, <2>2, <2>3, <2>4, EffectKeepsInv DEF AccessTypeOK, Begun
<1>5. CASE UNCHANGED accessVars
  BY <1>5 DEF accessVars, tenancy, AccessTypeOK, AssignedAtHome
<1> QED BY <1>1, <1>2, <1>3, <1>4, <1>5 DEF AccessNext

\* Every value of the model's variables has the type the code gives it.
THEOREM AccessTypeCorrect == AccessSpec => []AccessInv
<1>1. AccessInit => AccessInv BY AccessAssumption, AccessInitInv
<1>2. AccessInv /\ [AccessNext]_accessVars => AccessInv' BY AccessAssumption, AccessStepInv
<1> QED BY <1>1, <1>2, PTL DEF AccessSpec

-----------------------------------------------------------------------------

\* Both rules ask the same of whoever is not a platform administrator.
LEMMA PolicyImpliesRule ==
  ASSUME AccessAssumption, AccessInv, NEW u \in User, NEW i \in Branch, NEW c \in Capability,
         IssuerAccess(u, i, c)
  PROVE  SignedIn(u) /\ CanAccessIssuer(Fresh(u), i, c)
<1>1. CASE u \in Administrator
  BY <1>1 DEF SignedIn, CanAccessIssuer, Fresh
<1>2. CASE u \notin Administrator
  <2>1. OwnsOrganization(u, TenantOf[i], MemberRole) BY <1>2 DEF IssuerAccess
  <2>2. HomeOf[u] = TenantOf[i] /\ tenantStatus[TenantOf[i]] = "active" /\ memberRole[u] \in MemberRole
    BY <1>2, <2>1 DEF OwnsOrganization
  <2>3. SignedIn(u) BY <2>2 DEF SignedIn, MemberRole
  <2>4. Fresh(u).role = memberRole[u] /\ Fresh(u).user = u BY <1>2 DEF Fresh
  <2>5. \A j \in Branch : Fresh(u).assignments[j] = assigned[j][u] BY DEF Fresh
  <2>6. bound[u] = Nobody => Fresh(u).issuer = Nobody BY DEF Fresh
  <2>7. ASSUME \A j \in Branch : TenantOf[j] = TenantOf[i] => assigned[j][u] = "none"
        PROVE  \A j \in Branch : assigned[j][u] = "none"
    BY <2>2, <2>7 DEF AccessInv, AssignedAtHome
  <2> QED BY <1>2, <2>2, <2>3, <2>4, <2>5, <2>6, <2>7 DEF IssuerAccess, CanAccessIssuer
<1> QED BY <1>1, <1>2

LEMMA RuleImpliesPolicy ==
  ASSUME AccessAssumption, AccessInv, NEW u \in User, NEW i \in Branch, NEW c \in Capability,
         c # "read", SignedIn(u), CanAccessIssuer(Fresh(u), i, c)
  PROVE  IssuerAccess(u, i, c)
<1>1. CASE u \in Administrator
  BY <1>1 DEF IssuerAccess
<1>2. CASE u \notin Administrator
  <2>1. Fresh(u).role = memberRole[u] /\ Fresh(u).user = u BY <1>2 DEF Fresh
  <2>2. Fresh(u).assignments[i] = assigned[i][u] BY DEF Fresh
  <2>3. memberRole[u] \in MemberRole BY <1>2 DEF SignedIn, AccessInv, AccessTypeOK
  <2>4. TenantOf[i] = HomeOf[u] BY <2>1, <2>3 DEF CanAccessIssuer, MemberRole
  <2>5. OwnsOrganization(u, TenantOf[i], MemberRole) BY <1>2, <2>3, <2>4 DEF SignedIn, OwnsOrganization
  <2> QED BY <2>1, <2>2, <2>3, <2>5 DEF CanAccessIssuer, IssuerAccess, MemberRole
<1> QED BY <1>1, <1>2

\* The rule of lib/permissions.ts and the row policies never part, whoever has
\* joined, left, been promoted or assigned in the meantime.
THEOREM RulesAgreeHolds == AccessSpec => []RulesAgree
<1>1. AccessInv => RulesAgree
  BY AccessAssumption, PolicyImpliesRule, RuleImpliesPolicy DEF RulesAgree
<1> QED BY <1>1, AccessTypeCorrect, PTL

-----------------------------------------------------------------------------

\* What the policies let write, the application's rule allows then.
LEMMA PolicyIsEnough ==
  ASSUME AccessAssumption, AccessInv, NEW u \in User, NEW a \in Asks, a.op # "updateProfile",
         Policy(u, a), Admitted(u, a)
  PROVE  SignedIn(u) /\ Rule(Fresh(u), a)
<1>1. CASE u \in Administrator
  <2>1. Fresh(u).role = "platform_admin" /\ SignedIn(u) BY <1>1 DEF Fresh, SignedIn
  <2>2. a.op = "saveTemplate" => branchStatus[a.target] = "active" BY DEF Policy, ActiveIssuer
  <2> QED BY <2>1, <2>2 DEF Rule, MembersRule, IssuersRule, TemplatesRule, ProfilesRule, HasPermission, CanAccessOrganization, CanAccessIssuer
<1>2. CASE u \notin Administrator
  <2>1. Fresh(u).role = memberRole[u] /\ Fresh(u).user = u BY <1>2 DEF Fresh
  <2>2. a.op # "organization" BY <1>2 DEF Policy
  <2>3. CASE a.op \in {"addMember", "changeRole", "removeMember"}
    <3>1. OwnsOrganization(u, HomeOf[a.target], {"organization_admin"}) BY <2>3 DEF Policy, OfMembers
    <3>2. HomeOf[u] = HomeOf[a.target] /\ memberRole[u] = "organization_admin" /\ SignedIn(u)
      BY <1>2, <3>1 DEF OwnsOrganization, SignedIn
    <3>3. Permission[a.op] = "members.manage" BY <2>3 DEF Permission
    <3> QED BY <2>1, <2>3, <3>2, <3>3
      DEF Rule, MembersRule, IssuersRule, TemplatesRule, ProfilesRule, HasPermission, CanAccessOrganization, AboutIssuer
  <2>4. CASE AboutIssuer(a)
    <3>1. IssuerOf(a) \in Branch /\ Needed(a) \in Capability BY <2>4 DEF AboutIssuer, IssuerOf, Needed, Asks, Capability
    <3>2. IssuerAccess(u, IssuerOf(a), Needed(a)) BY <2>4 DEF Policy
    <3>3. SignedIn(u) /\ CanAccessIssuer(Fresh(u), IssuerOf(a), Needed(a)) BY <3>1, <3>2, PolicyImpliesRule
    <3>4. ~(a.op = "updateIssuer" /\ a.value = "deleted") BY <1>2 DEF Admitted
    <3>5. a.op = "saveTemplate" => branchStatus[a.target] = "active" BY DEF Policy, ActiveIssuer
    <3>6. memberRole[u] # "platform_admin" BY DEF AccessInv, AccessTypeOK, MemberRole
    <3>7. HasPermission(Fresh(u), Permission[a.op])
      <4>1. CASE memberRole[u] = "organization_admin"
        <5>1. Permission[a.op] # "organizations.manage" BY <2>4 DEF AboutIssuer, Permission
        <5> QED BY <4>1, <5>1, <2>1 DEF HasPermission
      <4>2. CASE memberRole[u] # "organization_admin"
        <5>1. Needed(a) = "templates" /\ Fresh(u).assignments[IssuerOf(a)] = "issuer_admin"
          BY <4>2, <3>3, <3>6, <2>1 DEF CanAccessIssuer, Needed
        <5>2. Permission[a.op] = "templates.manage" BY <5>1 DEF Needed, Permission
        <5> QED BY <5>1, <5>2, <3>1 DEF HasPermission
      <4> QED BY <4>1, <4>2
    <3> QED BY <2>4, <3>3, <3>4, <3>5, <3>7
      DEF Rule, MembersRule, OfMembers, IssuersRule, TemplatesRule, ProfilesRule, AboutIssuer
  <2>5. a.op \in {"addMember", "changeRole", "removeMember"} \/ AboutIssuer(a)
    BY <2>2 DEF Asks, AboutIssuer
  <2> QED BY <2>3, <2>4, <2>5
<1> QED BY <1>1, <1>2

LEMMA StepPermitted ==
  ASSUME AccessAssumption, AccessInv, [AccessNext]_accessVars, Writing PROVE Permitted
<1>1. request \in Begun /\ InProgress BY RunningIsBegun DEF Writing, AccessInv
<1>2. CASE ReadOrganization \/ ReadMembership \/ ReadAssignments \/ ReadIssuer
             \/ ReadTarget \/ ReadMapping \/ ReadProfile \/ FailRequest
  <2>1. Still BY <1>2, ReadingKeepsType DEF AccessInv
  <2> QED BY <2>1 DEF Still, Writing
<1>3. CASE Write
  <2>1. request.user \in User /\ request.ask \in Asks /\ request.op = request.ask.op BY <1>1 DEF Begun
  <2>2. Policy(request.user, request.ask) /\ Admitted(request.user, request.ask) BY <1>3 DEF Write
  <2>3. request.ask.op # "updateProfile"
    <3>1. SUFFICES ASSUME request.ask.op = "updateProfile" PROVE <<tenancy, template>>' = <<tenancy, template>>
      BY DEF Writing
    <3> QED BY <3>1, <1>3
      DEF Write, Effect, OrganizationsAfter, MembersAfter, OfMembers, AssignmentsAfter, IssuersAfter, TemplatesAfter, tenancy
  <2> QED BY <2>1, <2>2, <2>3, PolicyIsEnough DEF Permitted
<1>4. CASE \E u \in User, a \in Asks : BeginRequest(u, a) \/ OthersWrite(u, a)
  <2>1. PICK u \in User, a \in Asks : BeginRequest(u, a) \/ OthersWrite(u, a) BY <1>4
  <2>2. CASE BeginRequest(u, a) BY <2>2 DEF BeginRequest, Still, Writing
  <2>3. CASE OthersWrite(u, a) BY <2>3 DEF OthersWrite, Writing, InProgress
  <2> QED BY <2>1, <2>2, <2>3
<1>5. CASE UNCHANGED accessVars
  BY <1>5 DEF accessVars, Writing, tenancy
<1> QED BY <1>2, <1>3, <1>4, <1>5 DEF AccessNext

\* A request that was let through by what it read earlier, piece by piece,
\* writes only what its caller may still write.
THEOREM WrittenWhilePermittedHolds == AccessSpec => WrittenWhilePermitted
<1>1. AccessInv /\ [AccessNext]_accessVars => (Writing => Permitted) BY AccessAssumption, StepPermitted
<1> QED BY <1>1, AccessTypeCorrect, PTL DEF AccessSpec, WrittenWhilePermitted

-----------------------------------------------------------------------------

(*****************************************************************************)
(* Calls of OrganizationAdmin: rate limits, invitations, document stores.    *)
(* What a session is about, and how far its call has got, stay in step.      *)
(*****************************************************************************)

\* What a session is doing makes sense: an invitation asks for details of its own
\* organization, everything else is about an address, and what activates a store
\* has found it good.
CallMeant(c) ==
  /\ c.since <= now
  /\ IF c.kind = "invite"
     THEN /\ c.target \in Details /\ c.target.org = c.org
          /\ c.step \in {"look", "insert", "invite", "link"}
     ELSE /\ c.target \in Address
          /\ c.step \in {"count", "probe", "record", "act"}
          /\ c.step # "act" => c.kind \in {"test", "activate"}
  /\ c.kind = "activate" /\ c.step = "act" => c.probe
  /\ c.step = "link" => login[c.target.email] = "invited"

AdminInv ==
  /\ TypeOK /\ IsFiniteSet(attempts)
  /\ \A s \in Session : call[s] # None => CallMeant(call[s])

\* The call of a session after a step that goes on.
Then(s, step, since, probe) ==
  [actor |-> call[s].actor, org |-> call[s].org, since |-> since, probe |-> probe,
   kind |-> call[s].kind, target |-> call[s].target, step |-> step]

\* The forms in which the steps write it.
Moves(s, step, since, probe) ==
  \/ Goes(s, step) /\ since = call[s].since /\ probe = call[s].probe
  \/ call' = [call EXCEPT ![s].step = step, ![s].since = since] /\ probe = call[s].probe
  \/ call' = [call EXCEPT ![s].probe = probe, ![s].step = step, ![s].since = since]

LEMMA GoesOn ==
  ASSUME TypeOK, NEW s \in Session, call[s] # None, NEW step, NEW since, NEW probe,
         Moves(s, step, since, probe)
  PROVE  call' = [call EXCEPT ![s] = Then(s, step, since, probe)]
<1>1. call[s] \in Call /\ s \in DOMAIN call
  BY DEF TypeOK
<1>2. ASSUME NEW x, NEW y, NEW z, call[s] = Then(s, x, y, z)
      PROVE  call' = [call EXCEPT ![s] = Then(s, step, since, probe)]
  <2>1. CASE Goes(s, step) /\ since = call[s].since /\ probe = call[s].probe
    <3>1. call' = [call EXCEPT ![s] = [call[s] EXCEPT !.step = step]]
      BY <1>1, <2>1 DEF Goes
    <3>2. [call[s] EXCEPT !.step = step] = Then(s, step, since, probe)
      BY <1>2, <2>1 DEF Then
    <3>. QED
      BY <3>1, <3>2
  <2>2. CASE call' = [call EXCEPT ![s].step = step, ![s].since = since] /\ probe = call[s].probe
    <3>1. DOMAIN call' = DOMAIN call /\ \A r \in DOMAIN call \ {s} : call'[r] = call[r]
      BY <1>1, <2>2
    <3>2. call'[s] = [[call[s] EXCEPT !.step = step] EXCEPT !.since = since]
      BY <1>1, <2>2
    <3>. QED
      BY <1>1, <1>2, <2>2, <3>1, <3>2 DEF Then
  <2>3. CASE call' = [call EXCEPT ![s].probe = probe, ![s].step = step, ![s].since = since]
    <3>1. DOMAIN call' = DOMAIN call /\ \A r \in DOMAIN call \ {s} : call'[r] = call[r]
      BY <1>1, <2>3
    <3>2. call'[s] = [[[call[s] EXCEPT !.probe = probe] EXCEPT !.step = step] EXCEPT !.since = since]
      BY <1>1, <2>3
    <3>. QED
      BY <1>1, <1>2, <2>3, <3>1, <3>2 DEF Then
  <2>. QED
    BY <2>1, <2>2, <2>3 DEF Moves
<1>3. call[s] = Then(s, call[s].step, call[s].since, call[s].probe)
  BY <1>1 DEF Call, Then
<1>. QED
  BY <1>2, <1>3

\* A call that is under way is a record, of the parts its step needs.
LEMMA CallParts ==
  ASSUME AdminInv, NEW s \in Session, call[s] # None
  PROVE  /\ call[s] \in Call /\ CallMeant(call[s]) /\ call[s].org \in Org /\ call[s].actor \in Actor
         /\ call[s].since \in Time /\ call[s].probe \in BOOLEAN
         /\ call[s].since <= now /\ now \in Time
BY DEF AdminInv, TypeOK, CallMeant, Call

\* Only emails without a login get one.
LoginsStay == login' = login \/ \E e \in Email, how \in {"own", "invited"} :
                                    login[e] = None /\ login' = [login EXCEPT ![e] = how]

\* What makes sense goes on doing so while time passes and logins are created.
LEMMA CallLasts ==
  ASSUME AdminInv, NEW c \in Call, CallMeant(c), now' \in Time, now <= now', LoginsStay
  PROVE  CallMeant(c)'
<1>1. None # "invited"
  BY NoneAssumption
<1>2. \A d \in Details : login[d.email] = "invited" => login'[d.email] = "invited"
  BY ZenonT(60), <1>1 DEF AdminInv, TypeOK, Email, LoginsStay
<1>3. c.since \in Time /\ now \in Time
  BY DEF Call, AdminInv, TypeOK
<1>4. c.since <= now'
  BY <1>3, BoundsAssumption DEF Time, CallMeant
<1>. QED
  BY <1>2, <1>4 DEF CallMeant

\* A call goes on, and the others stay what they are.
LEMMA OneCall ==
  ASSUME AdminInv, NEW s \in Session, NEW c \in Call \cup {None}, call' = [call EXCEPT ![s] = c],
         now' \in Time, now <= now', LoginsStay, c # None => CallMeant(c)'
  PROVE  call' \in [Session -> Call \cup {None}] /\ \A r \in Session : (call[r] # None => CallMeant(call[r]))'
<1>1. call' \in [Session -> Call \cup {None}] /\ call'[s] = c /\ \A r \in Session \ {s} : call'[r] = call[r]
  BY DEF AdminInv, TypeOK
<1>2. ASSUME NEW r \in Session \ {s}, call[r] # None PROVE CallMeant(call[r])'
  <2>1. PICK d \in Call : d = call[r] /\ CallMeant(d)
    BY <1>2, CallParts
  <2>2. CallMeant(d)'
    BY <2>1, CallLasts
  <2>. QED
    BY <1>1, <2>1, <2>2
<1>. QED
  BY <1>1, <1>2

CallsFine == call \in [Session -> Call \cup {None}] /\ \A r \in Session : call[r] # None => CallMeant(call[r])

\* What a call must bring to its next step.
Ready(s, step, since, probe) ==
  /\ since <= now
  /\ call[s].kind = "invite" <=> step \in {"insert", "invite", "link"}
  /\ call[s].kind # "invite" /\ step # "act" => call[s].kind \in {"test", "activate"}
  /\ call[s].kind = "activate" /\ step = "act" => probe
  /\ step = "link" => login'[call[s].target.email] = "invited"

\* A step of a call: it ends, or goes on with what its next step needs.
LEMMA CallStep ==
  ASSUME AdminInv, NEW s \in Session, call[s] # None, UNCHANGED now, LoginsStay,
         \/ Ends(s)
         \/ \E step \in {"probe", "record", "act", "insert", "invite", "link"} :
            \E since \in Time : \E probe \in BOOLEAN :
              Moves(s, step, since, probe) /\ Ready(s, step, since, probe)
  PROVE  CallsFine'
<1>. now' \in Time /\ now <= now'
  BY BoundsAssumption DEF AdminInv, TypeOK, Time
<1>1. CASE Ends(s)
  <2>1. call' = [call EXCEPT ![s] = None] /\ None \in Call \cup {None}
    BY <1>1 DEF Ends
  <2>. QED
    BY <2>1, OneCall DEF CallsFine
<1>2. ASSUME NEW step \in {"probe", "record", "act", "insert", "invite", "link"},
             NEW since \in Time, NEW probe \in BOOLEAN,
             Moves(s, step, since, probe), Ready(s, step, since, probe)
      PROVE  CallsFine'
  <2>1. call' = [call EXCEPT ![s] = Then(s, step, since, probe)]
    <3>1. TypeOK
      BY DEF AdminInv
    <3>. QED
      BY <1>2, <3>1, GoesOn
  <2>2. call[s] \in Call /\ CallMeant(call[s])
    BY CallParts
  <2>3. PICK c \in Call : c = Then(s, step, since, probe)
    BY <2>2 DEF Then, Call
  <2>4. /\ c.kind = call[s].kind /\ c.target = call[s].target /\ c.org = call[s].org
        /\ c.step = step /\ c.since = since /\ c.probe = probe
    BY <2>3 DEF Then
  <2>5. CallMeant(c)'
    BY <1>2, <2>2, <2>4 DEF CallMeant, Ready
  <2>. QED
    BY <2>1, <2>3, <2>5, OneCall DEF CallsFine
<1>. QED
  BY <1>1, <1>2

\* The steps on stores: what is read of them, what is written, and what becomes active.
LEMMA StoresKeep ==
  ASSUME AdminInv, NEW s \in Session, UNCHANGED now,
         \/ \E began \in Began(s) : Record(s, began) \/ Activate(s, began)
         \/ Add(s) \/ Approve(s) \/ Deactivate(s)
  PROVE  stores' \in [Address -> Store \cup {None}]
<1>1. call[s] # None
  BY DEF Record, Activate, Add, Approve, Deactivate, At, Acts
<1>2. /\ call[s] \in Call /\ call[s].since \in Time /\ now \in Time /\ call[s].org \in Org
      /\ call[s].target \in Address
  BY <1>1, CallParts DEF CallMeant, Record, Activate, Add, Approve, Deactivate, At, Acts
<1>3. \A began \in Began(s) : began \in Time
  BY <1>1, <1>2, BoundsAssumption DEF Began, Time
<1>4. \A a \in Address : stores[a] # None => stores[a] \in Store
  BY DEF AdminInv, TypeOK
<1>. DEFINE a == call[s].target
<1>5. ASSUME NEW store \in Store, stores' = [stores EXCEPT ![a] = store]
      PROVE  stores' \in [Address -> Store \cup {None}]
  BY <1>2, <1>5 DEF AdminInv, TypeOK
<1>6. ASSUME NEW began \in Began(s), Record(s, began) PROVE stores' \in [Address -> Store \cup {None}]
  <2>1. CASE UNCHANGED stores
    BY <2>1 DEF AdminInv, TypeOK
  <2>2. CASE /\ stores[a] \in Store
             /\ stores' = [stores EXCEPT ![a].checked = began,
                             ![a].connection = IF call[s].probe THEN "ok" ELSE "error"]
    <3>1. DOMAIN stores' = Address /\ \A b \in Address \ {a} : stores'[b] = stores[b]
      BY <1>2, <2>2 DEF AdminInv, TypeOK
    <3>2. stores'[a] = [[stores[a] EXCEPT !.checked = began]
                         EXCEPT !.connection = IF call[s].probe THEN "ok" ELSE "error"]
      BY <1>2, <2>2 DEF AdminInv, TypeOK
    <3>. DEFINE dated == [stores[a] EXCEPT !.checked = began]
                answer == IF call[s].probe THEN "ok" ELSE "error"
    <3>5. dated \in Store
      BY <1>3, <2>2 DEF Store
    <3>6. answer \in {"ok", "error"}
      OBVIOUS
    <3>3. stores'[a] \in Store
      <4>. HIDE DEF dated, answer
      <4>1. [dated EXCEPT !.connection = answer] \in Store
        BY <3>5, <3>6 DEF Store
      <4>. QED
        BY <3>2, <4>1 DEF dated, answer
    <3>4. stores' = [b \in Address |-> stores'[b]]
      BY <1>2, <2>2 DEF AdminInv, TypeOK
    <3>. QED
      BY <3>1, <3>3, <3>4 DEF AdminInv, TypeOK
  <2>. QED
    BY <1>2, <1>4, <1>6, <2>1, <2>2 DEF Record, Owns
<1>7. ASSUME NEW began \in Began(s), Activate(s, began) PROVE stores' \in [Address -> Store \cup {None}]
  <2>1. stores[a] \in Store /\ stores' = Switched(call[s].org, a)
    BY <1>2, <1>4, <1>7 DEF Activate, Owns
  <2>2. \A b \in Address : stores[b] = None \/ stores[b] \in Store
    BY <1>4
  <2>. QED
    BY <2>1, <2>2 DEF Switched, Store
<1>8. CASE Add(s)
  <2>1. [org |-> call[s].org, status |-> "pending", approved |-> FALSE,
         connection |-> "untested", checked |-> 0] \in Store
    BY <1>2, BoundsAssumption DEF Store, Time
  <2>. QED
    BY <1>5, <1>8, <2>1 DEF Add
<1>9. CASE Approve(s)
  <2>1. PICK status \in {"pending", "inactive", "active"} :
          stores' = [stores EXCEPT ![a].approved = TRUE, ![a].status = status]
    BY <1>2, <1>4, <1>9 DEF Approve, Owns, Store
  <2>2. stores[a] \in Store
    BY <1>2, <1>4, <1>9 DEF Approve, Owns
  <2>3. DOMAIN stores' = Address /\ \A b \in Address \ {a} : stores'[b] = stores[b]
    BY <1>2, <2>1 DEF AdminInv, TypeOK
  <2>4. stores'[a] = [[stores[a] EXCEPT !.approved = TRUE] EXCEPT !.status = status]
    BY <1>2, <2>1 DEF AdminInv, TypeOK
  <2>5. stores'[a] \in Store
    BY <2>2, <2>4 DEF Store
  <2>6. stores' = [b \in Address |-> stores'[b]]
    BY <1>2, <2>1 DEF AdminInv, TypeOK
  <2>. QED
    BY <2>3, <2>5, <2>6 DEF AdminInv, TypeOK
<1>10. CASE Deactivate(s)
  <2>1. [stores[a] EXCEPT !.status = IF stores[a].approved THEN "inactive" ELSE "pending"] \in Store
    BY <1>2, <1>4, <1>10 DEF Deactivate, Owns, Store
  <2>2. stores' = [stores EXCEPT ![a] =
                    [stores[a] EXCEPT !.status = IF stores[a].approved THEN "inactive" ELSE "pending"]]
    BY <1>10 DEF Deactivate
  <2>. QED
    BY <1>5, <2>1, <2>2
<1>. QED
  BY <1>6, <1>7, <1>8, <1>9, <1>10

LEMMA TestKeeps ==
  ASSUME AdminInv, NEW s \in Session, NEW began \in Began(s), Count(s, began)
  PROVE  AdminInv'
<1>1. /\ call[s] # None /\ call[s] \in Call /\ CallMeant(call[s]) /\ call[s].org \in Org
      /\ call[s].step = "count" /\ call[s].since \in Time /\ now \in Time /\ call[s].probe \in BOOLEAN
  BY CallParts DEF Count, At
<1>2. UNCHANGED <<active, admins, contract, now, stores, reserved, linked, login, calls>>
  BY DEF Count, around
<1>3. began \in Time
  BY <1>1, BoundsAssumption DEF Began, Time
<1>. DEFINE one == [org |-> call[s].org, at |-> began, id |-> Cardinality(attempts) + 1]
<1>4. one \in Attempt
  BY <1>1, <1>3, FS_CardinalityType DEF Attempt, AdminInv
<1>5. attempts' = attempts \/ attempts' = attempts \cup {one}
  BY DEF Count
<1>6. attempts' \subseteq Attempt /\ IsFiniteSet(attempts')
  <2>. HIDE DEF one
  <2>. QED
    BY <1>4, <1>5, FS_AddElement DEF AdminInv, TypeOK
<1>7. CallsFine'
  <2>1. Ends(s) \/ (Moves(s, "probe", 0, call[s].probe) /\ Ready(s, "probe", 0, call[s].probe))
    BY <1>1, BoundsAssumption DEF Count, Moves, Ready, CallMeant, Time
  <2>2. 0 \in Time
    BY BoundsAssumption DEF Time
  <2>. QED
    BY <1>1, <1>2, <2>1, <2>2, CallStep DEF LoginsStay
<1>. QED
  BY <1>2, <1>6, <1>7 DEF AdminInv, TypeOK, CallsFine

LEMMA ProbeKeeps ==
  ASSUME AdminInv, NEW s \in Session, NEW good \in BOOLEAN, Probe(s, good)
  PROVE  AdminInv'
<1>1. /\ call[s] # None /\ call[s] \in Call /\ CallMeant(call[s]) /\ call[s].step = "probe" /\ now \in Time
  BY CallParts DEF Probe, At
<1>2. UNCHANGED <<active, admins, contract, now, stores, attempts, reserved, linked, login, calls>>
  BY DEF Probe, around, database
<1>3. CallsFine'
  <2>1. Ends(s) \/ (Moves(s, "record", now, good) /\ Ready(s, "record", now, good))
    BY <1>1, BoundsAssumption DEF Probe, Moves, Ready, CallMeant, Time
  <2>. QED
    BY <1>1, <1>2, <2>1, CallStep DEF LoginsStay
<1>. QED
  BY <1>2, <1>3 DEF AdminInv, TypeOK, CallsFine

LEMMA StoreCallsKeep ==
  ASSUME AdminInv, NEW s \in Session,
         \/ \E began \in Began(s) : Record(s, began) \/ Activate(s, began)
         \/ Add(s) \/ Approve(s) \/ Deactivate(s)
  PROVE  AdminInv'
<1>1. /\ call[s] # None /\ call[s] \in Call /\ CallMeant(call[s]) /\ now \in Time /\ call[s].probe \in BOOLEAN
  BY CallParts DEF Record, Activate, Add, Approve, Deactivate, At, Acts
<1>2. UNCHANGED <<active, admins, contract, now, attempts, reserved, linked, login, calls>>
  BY DEF Record, Activate, Add, Approve, Deactivate, Does, around
<1>3. CallsFine'
  <2>1. \/ Ends(s)
        \/ call[s].step = "record" /\ call[s].kind = "activate" /\ call[s].probe /\ Waits(s, "act")
    BY DEF Record, Activate, Add, Approve, Deactivate, Does, AfterTest, At
  <2>2. call[s].kind = "activate" /\ call[s].probe /\ Waits(s, "act") =>
          Moves(s, "act", now, call[s].probe) /\ Ready(s, "act", now, call[s].probe)
    BY <1>1, BoundsAssumption DEF Waits, Moves, Ready, Time
  <2>. QED
    BY <1>1, <1>2, <2>1, <2>2, CallStep DEF LoginsStay
<1>. QED
  BY <1>2, <1>3, StoresKeep DEF AdminInv, TypeOK, CallsFine

LEMMA InvitationKeeps ==
  ASSUME AdminInv, NEW s \in Session,
         \/ Look(s) \/ Insert(s) \/ Link(s)
         \/ \E answered \in BOOLEAN : Invite(s, answered)
  PROVE  AdminInv'
<1>1. /\ call[s] # None /\ call[s] \in Call /\ CallMeant(call[s]) /\ now \in Time /\ call[s].since \in Time
      /\ call[s].probe \in BOOLEAN /\ call[s].target \in Details
  BY CallParts DEF Look, Insert, Link, Invite, At, CallMeant
<1>2. UNCHANGED <<active, admins, contract, now, attempts, stores, calls>>
  BY DEF Look, Insert, Link, Invite, around, database
<1>3. call[s].target.email \in Email
  BY <1>1 DEF Email
<1>4. LoginsStay
  BY <1>3 DEF LoginsStay, Look, Insert, Link, Invite
<1>5. reserved' \subseteq Details /\ linked' \subseteq Email /\ login' \in [Email -> {"invited", "own", None}]
  BY <1>1, <1>3 DEF Look, Insert, Link, Invite, database, AdminInv, TypeOK
<1>6. CallsFine'
  <2>1. Ends(s) \/ \E step \in {"insert", "invite", "link"} :
          Goes(s, step) /\ (step = "link" => login'[call[s].target.email] = "invited")
    BY <1>3 DEF Look, Insert, Link, Invite, AdminInv, TypeOK
  <2>2. call[s].kind = "invite" /\ call[s].since <= now
    BY <1>1 DEF Look, Insert, Link, Invite, At, CallMeant
  <2>3. ASSUME NEW step \in {"insert", "invite", "link"},
               Goes(s, step), step = "link" => login'[call[s].target.email] = "invited"
        PROVE  Moves(s, step, call[s].since, call[s].probe) /\ Ready(s, step, call[s].since, call[s].probe)
    BY <2>2, <2>3 DEF Moves, Ready
  <2>. QED
    BY <1>1, <1>2, <1>4, <2>1, <2>3, CallStep
<1>. QED
  BY <1>2, <1>5, <1>6 DEF AdminInv, TypeOK, CallsFine

\* A call begins.
LEMMA AuthorizeKeeps ==
  ASSUME AdminInv, NEW s \in Session, NEW actor \in Actor, NEW org \in Org,
         NEW kind \in {"add", "approve", "test", "activate", "deactivate", "invite"},
         NEW target \in Address \cup Details, Authorize(s, actor, org, kind, target)
  PROVE  AdminInv'
<1>. DEFINE since == IF FirstStep(kind) = "count" THEN now ELSE 0
            c == [actor |-> actor, org |-> org, probe |-> FALSE, since |-> since,
                  kind |-> kind, target |-> target, step |-> FirstStep(kind)]
<1>1. /\ UNCHANGED <<active, admins, contract, now, stores, attempts, reserved, linked, login>>
      /\ call' = [call EXCEPT ![s] = c] /\ calls' \in 0..MaxCalls
      /\ IF kind = "invite" THEN target \in Details /\ target.org = org ELSE target \in Address
  BY BoundsAssumption DEF Authorize, around, database, Begin, AdminInv, TypeOK
<1>2. now \in Time /\ 0 \in Time /\ now <= now /\ 0 <= now
  BY BoundsAssumption DEF AdminInv, TypeOK, Time
<1>3. c \in Call
  BY <1>2 DEF Call, FirstStep
<1>4. PICK d \in Call : d = c
  BY <1>3
<1>5. CallMeant(d)'
  BY <1>1, <1>2, <1>4 DEF CallMeant, FirstStep
<1>6. CallsFine'
  <2>. HIDE DEF c
  <2>. QED
    BY <1>1, <1>2, <1>4, <1>5, OneCall DEF CallsFine, LoginsStay
<1>. QED
  BY <1>1, <1>6 DEF AdminInv, TypeOK, CallsFine

\* The world around the calls.
LEMMA WorldKeeps ==
  ASSUME AdminInv,
         \/ Tick
         \/ \E org \in Org : ChangeStatus(org) \/ \E actor \in Actor : Dismiss(actor, org)
         \/ \E a \in Address : ChangeContract(a)
         \/ \E e \in Email : OwnLogin(e)
         \/ \E s \in Session : Abandon(s)
         \/ UNCHANGED vars
  PROVE  AdminInv'
<1>1. /\ UNCHANGED <<stores, attempts, reserved, linked>>
      /\ active' \subseteq Org /\ admins' \subseteq Actor \X Org /\ contract' \subseteq Address
  BY DEF Tick, ChangeStatus, Dismiss, ChangeContract, OwnLogin, Abandon, vars, around, database, AdminInv, TypeOK
<1>2. now' \in Time /\ now <= now' /\ calls' \in 0..MaxCalls
  <2>1. \/ now < MaxTime /\ now' = now + 1 /\ calls' = calls
        \/ now' = now /\ Begin
        \/ now' = now /\ calls' = calls
    BY DEF Tick, ChangeStatus, Dismiss, ChangeContract, OwnLogin, Abandon, vars, around
  <2>2. now \in 0..MaxTime /\ calls \in 0..MaxCalls
    BY DEF AdminInv, TypeOK, Time
  <2>. QED
    BY <2>1, <2>2, BoundsAssumption DEF Begin, Time
<1>3. LoginsStay /\ login' \in [Email -> {"invited", "own", None}]
  BY DEF Tick, ChangeStatus, Dismiss, ChangeContract, OwnLogin, Abandon, vars, LoginsStay, AdminInv, TypeOK
<1>4. call' = call \/ \E s \in Session : Ends(s)
  BY DEF Tick, ChangeStatus, Dismiss, ChangeContract, OwnLogin, Abandon, vars
<1>5. call' \in [Session -> Call \cup {None}] /\ \A r \in Session : call'[r] \in {call[r], None}
  BY <1>4 DEF Ends, AdminInv, TypeOK
<1>6. ASSUME NEW r \in Session, call'[r] # None PROVE CallMeant(call[r])'
  <2>1. PICK d \in Call : d = call[r] /\ CallMeant(d)
    BY <1>5, <1>6, CallParts
  <2>2. CallMeant(d)'
    BY <1>2, <1>3, <2>1, CallLasts
  <2>. QED
    BY <1>5, <1>6, <2>1, <2>2
<1>. QED
  BY <1>1, <1>2, <1>3, <1>5, <1>6 DEF AdminInv, TypeOK

LEMMA AdminStep == AdminInv /\ [Next]_vars => AdminInv'
<1>1. ASSUME AdminInv, NEW s \in Session, Step(s) PROVE AdminInv'
  BY <1>1, TestKeeps, ProbeKeeps, StoreCallsKeep, InvitationKeeps, WorldKeeps DEF Step
<1>. QED
  BY <1>1, AuthorizeKeeps, WorldKeeps DEF Next

LEMMA AdminBegin == Init => AdminInv
<1>. SUFFICES ASSUME Init PROVE AdminInv
  OBVIOUS
<1>1. IsFiniteSet(attempts)
  BY FS_EmptySet DEF Init
<1>2. stores \in [Address -> Store \cup {None}]
  <2>1. Approved \subseteq Store
    <3>1. 0 \in Time
      BY BoundsAssumption DEF Time
    <3>. QED
      BY <3>1 DEF Approved, Store
  <2>. QED
    BY <2>1 DEF Init
<1>. QED
  BY <1>1, <1>2, BoundsAssumption DEF Init, AdminInv, TypeOK, Time

LEMMA AdminAlways == Spec => []AdminInv
BY AdminBegin, AdminStep, PTL DEF Spec

\* What the steps write: the attempts, the stores, or the rows of invitations.
StoreStep(s) ==
  \/ \E began \in Began(s) : Record(s, began) \/ Activate(s, began)
  \/ Add(s) \/ Approve(s) \/ Deactivate(s)
InvitationStep(s) == Insert(s) \/ Link(s) \/ \E answered \in BOOLEAN : Invite(s, answered)
OtherStep ==
  \/ \E s \in Session : Abandon(s) \/ Look(s) \/ \E good \in BOOLEAN : Probe(s, good)
  \/ \E s \in Session, actor \in Actor, org \in Org : \E kind, target : Authorize(s, actor, org, kind, target)
  \/ Tick
  \/ \E org \in Org : ChangeStatus(org) \/ \E actor \in Actor : Dismiss(actor, org)
  \/ \E a \in Address : ChangeContract(a)
  \/ \E e \in Email : OwnLogin(e)
  \/ UNCHANGED vars

LEMMA OtherStepFrame == OtherStep => UNCHANGED <<stores, attempts, reserved, linked>> /\ LoginsStay
<1>. SUFFICES ASSUME OtherStep PROVE UNCHANGED <<stores, attempts, reserved, linked>> /\ LoginsStay
  OBVIOUS
<1>1. CASE \E s \in Session : Abandon(s) \/ Look(s) \/ \E good \in BOOLEAN : Probe(s, good)
  BY <1>1 DEF Abandon, Look, Probe, database, LoginsStay
<1>2. CASE \E s \in Session, actor \in Actor, org \in Org : \E kind, target : Authorize(s, actor, org, kind, target)
  BY <1>2 DEF Authorize, database, LoginsStay
<1>3. CASE \/ Tick
           \/ \E org \in Org : ChangeStatus(org) \/ \E actor \in Actor : Dismiss(actor, org)
           \/ \E a \in Address : ChangeContract(a)
           \/ \E e \in Email : OwnLogin(e)
           \/ UNCHANGED vars
  BY <1>3 DEF Tick, ChangeStatus, Dismiss, ChangeContract, OwnLogin, database, vars, LoginsStay
<1>. QED
  BY <1>1, <1>2, <1>3 DEF OtherStep
LEMMA StoreStepFrame ==
  ASSUME NEW s \in Session, StoreStep(s)
  PROVE  UNCHANGED <<active, attempts, reserved, linked, login>>
BY DEF StoreStep, Record, Activate, Add, Approve, Deactivate, Does, around
LEMMA InvitationFrame ==
  ASSUME NEW s \in Session, InvitationStep(s)
  PROVE  UNCHANGED <<stores, attempts>>
BY DEF InvitationStep, Insert, Link, Invite, database

LEMMA Steps ==
  ASSUME [Next]_vars
  PROVE  \/ \E s \in Session : \/ \E began \in Began(s) : Count(s, began)
                             \/ StoreStep(s) \/ InvitationStep(s)
         \/ UNCHANGED <<stores, attempts, reserved, linked>> /\ LoginsStay
<1>1. ASSUME NEW s \in Session, Step(s)
      PROVE  \/ \E began \in Began(s) : Count(s, began)
             \/ StoreStep(s) \/ InvitationStep(s) \/ OtherStep
  BY <1>1 DEF Step, StoreStep, InvitationStep, OtherStep
<1>2. (\E s \in Session : Step(s)) \/ OtherStep
  BY DEF Next, OtherStep
<1>. QED
  BY <1>1, <1>2, OtherStepFrame

\* enforce_auth_rate_limit counts everything later than a window ago, also what
\* overtook it, so that an attempt it allows is at most the limit's last in every
\* window the attempt belongs to.
LEMMA LimitStep == AdminInv /\ LimitHolds /\ [Next]_vars => LimitHolds'
<1>. SUFFICES ASSUME AdminInv, LimitHolds, [Next]_vars PROVE LimitHolds'
  OBVIOUS
<1>1. CASE UNCHANGED attempts
  BY <1>1 DEF LimitHolds, Within
<1>2. ASSUME NEW s \in Session, NEW began \in Began(s), Count(s, began), ~UNCHANGED attempts
      PROVE  LimitHolds'
  <2>. DEFINE one == [org |-> call[s].org, at |-> began, id |-> Cardinality(attempts) + 1]
  <2>1. /\ call[s].since \in Time /\ now \in Time /\ attempts \subseteq Attempt /\ IsFiniteSet(attempts)
    BY <1>2, CallParts DEF Count, At, AdminInv, TypeOK
  <2>2. began \in Int
    BY <2>1, BoundsAssumption DEF Began, Time
  <2>3. /\ attempts' = attempts \cup {one} /\ one.org = call[s].org /\ one.at = began
        /\ ~(Cardinality(Counted(call[s].org, began)) >= Limit)
    BY <1>2 DEF Count
  <2>. HIDE DEF one
  <2>. SUFFICES ASSUME NEW org \in Org, NEW from \in -Window..MaxTime
                PROVE  Cardinality(Within(org, from, from + Window)') <= Limit
    BY DEF LimitHolds, Within
  <2>. DEFINE old == Within(org, from, from + Window)
              new == Within(org, from, from + Window)'
  <2>4. Cardinality(old) <= Limit /\ IsFiniteSet(old) /\ Cardinality(old) \in Nat
    <3>1. IsFiniteSet(old)
      BY <2>1, FS_Subset DEF Within
    <3>. QED
      BY <3>1, FS_CardinalityType DEF LimitHolds
  <2>5. CASE one.org = org /\ from < began /\ began <= from + Window
    <3>. DEFINE counted == Counted(org, began)
    <3>1. IsFiniteSet(counted) /\ Cardinality(counted) \in Nat
      BY <2>1, FS_Subset, FS_CardinalityType DEF Counted
    <3>2. old \subseteq counted
      BY <2>1, <2>2, <2>5, BoundsAssumption DEF Within, Counted, Attempt, Time
    <3>3. Cardinality(old) < Limit
      <4>1. Cardinality(old) <= Cardinality(counted) /\ Cardinality(counted) < Limit
        BY <2>3, <2>5, <3>1, <3>2, FS_Subset, BoundsAssumption
      <4>. QED
        BY <2>4, <3>1, <4>1, BoundsAssumption
    <3>4. new \subseteq old \cup {one}
      BY <2>3 DEF Within
    <3>5. IsFiniteSet(old \cup {one}) /\ Cardinality(old \cup {one}) <= Cardinality(old) + 1
      <4>. HIDE DEF old
      <4>1. IsFiniteSet(old \cup {one})
        BY <2>4, FS_AddElement
      <4>2. Cardinality(old \cup {one}) \in {Cardinality(old), Cardinality(old) + 1}
        BY <2>4, FS_AddElement
      <4>. QED
        BY <2>4, <4>1, <4>2
    <3>6. Cardinality(new) \in Nat /\ Cardinality(new) <= Cardinality(old \cup {one})
      BY <3>4, <3>5, FS_Subset, FS_CardinalityType
    <3>7. Cardinality(old \cup {one}) \in Nat
      BY <3>5, FS_CardinalityType
    <3>8. Cardinality(new) <= Limit
      <4>. HIDE DEF old, new
      <4>. QED
        BY <2>4, <3>3, <3>5, <3>6, <3>7, BoundsAssumption
    <3>. QED
      BY <3>8
  <2>6. CASE ~(one.org = org /\ from < began /\ began <= from + Window)
    <3>1. new = old
      BY <2>3, <2>6 DEF Within
    <3>. QED
      BY <2>4, <3>1
  <2>. QED
    BY <2>5, <2>6
<1>3. UNCHANGED attempts \/ \E s \in Session : \E began \in Began(s) : Count(s, began)
  BY Steps, StoreStepFrame, InvitationFrame
<1>. QED
  BY <1>1, <1>2, <1>3

\* LimitHolds for any limit, window and number of sessions: of the times stored
\* in auth_rate_limits, no window holds more than the limit, whatever order the
\* transactions took the lock in.
THEOREM LimitAlwaysHolds == Spec => []LimitHolds
<1>1. Init => LimitHolds
  <2>1. ASSUME Init, NEW org \in Org, NEW from \in -Window..MaxTime
        PROVE  Cardinality(Within(org, from, from + Window)) <= Limit
    <3>1. Within(org, from, from + Window) = {}
      BY <2>1 DEF Init, Within
    <3>. QED
      BY <3>1, FS_EmptySet, BoundsAssumption
  <2>. QED
    BY <2>1 DEF LimitHolds
<1>. QED
  BY <1>1, AdminAlways, LimitStep, PTL DEF Spec

\* Reservations and links: an invitation inserts what nobody holds, and links a
\* login that it, or an earlier one for the same details, created.
LEMMA LinkStep == AdminInv /\ LinkedWasInvited /\ [Next]_vars => LinkedWasInvited'
<1>. SUFFICES ASSUME AdminInv, LinkedWasInvited, [Next]_vars PROVE LinkedWasInvited'
  OBVIOUS
<1>1. reserved' = reserved \/ \E s \in Session : reserved' = reserved \cup {call[s].target} /\ ~Taken(call[s].target)
  BY Steps, StoreStepFrame DEF InvitationStep, Insert, Link, Invite, Count, database
<1>2. linked' = linked \/ \E s \in Session :
        /\ Link(s) /\ linked' = linked \cup {call[s].target.email} /\ call[s].target \in reserved
        /\ UNCHANGED login
  BY Steps, StoreStepFrame DEF InvitationStep, Insert, Link, Invite, Count, database
<1>3. login' = login \/ \E e \in Email : \E how : login[e] = None /\ login' = [login EXCEPT ![e] = how]
  <2>1. ASSUME NEW s \in Session, InvitationStep(s), ~UNCHANGED login
        PROVE  \E e \in Email : login[e] = None /\ login' = [login EXCEPT ![e] = "invited"]
    <3>1. PICK answered \in BOOLEAN : Invite(s, answered)
      BY <2>1 DEF InvitationStep, Insert, Link
    <3>2. call[s].target.email \in Email
      BY <3>1, CallParts DEF Invite, At, CallMeant, Email
    <3>. QED
      BY <2>1, <3>1, <3>2 DEF Invite
  <2>. QED
    BY <2>1, Steps, StoreStepFrame DEF Count, LoginsStay
<1>4. \A d, r \in reserved' : Overlaps(d, r) => d = r
  BY <1>1 DEF LinkedWasInvited, Taken, Overlaps
<1>5. ASSUME NEW e \in linked' PROVE login'[e] = "invited" /\ \E d \in reserved' : d.email = e
  <2>1. CASE e \in linked
    <3>1. e \in Email /\ login[e] = "invited" /\ None # "invited" /\ \E d \in reserved : d.email = e
      BY <2>1, NoneAssumption DEF AdminInv, TypeOK, LinkedWasInvited
    <3>2. reserved \subseteq reserved'
      BY <1>1
    <3>. QED
      BY <1>3, <3>1, <3>2 DEF AdminInv, TypeOK
  <2>2. CASE e \notin linked
    <3>1. PICK s \in Session : /\ Link(s) /\ call[s].target \in reserved /\ e = call[s].target.email
                               /\ UNCHANGED login
      BY <1>2, <1>5, <2>2
    <3>2. call[s] # None /\ CallMeant(call[s]) /\ call[s].step = "link"
      BY <3>1, CallParts DEF Link, At
    <3>. QED
      BY <1>1, <3>1, <3>2 DEF CallMeant
  <2>. QED
    BY <2>1, <2>2
<1>. QED
  BY <1>4, <1>5 DEF LinkedWasInvited

\* LinkedWasInvited for any administrators, details and sessions: what
\* createWithInvitation reserves is reserved once, and no profile is linked to a
\* login that an invitation did not create, however calls overlap and end early.
THEOREM LinkedWasInvitedHolds == Spec => []LinkedWasInvited
<1>1. Init => LinkedWasInvited
  BY DEF Init, LinkedWasInvited
<1>. QED
  BY <1>1, AdminAlways, LinkStep, PTL DEF Spec

\* What makes a store the active one: the last step of a call that probed it.
LEMMA ActivatedBy ==
  ASSUME AdminInv, [Next]_vars, NEW a \in Address,
         stores[a] # None, stores[a].status # "active", stores'[a] # None, stores'[a].status = "active"
  PROVE  \E s \in Session : \E began \in Began(s) : Activate(s, began) /\ call[s].target = a
<1>1. PICK s \in Session : StoreStep(s)
  BY Steps, InvitationFrame DEF Count
<1>2. stores[a] \in Store /\ stores[a].status \in {"pending", "inactive"}
  BY DEF AdminInv, TypeOK, Store
<1>3. ASSUME NEW began \in Began(s), Record(s, began) PROVE FALSE
  <2>1. stores'[a].status = stores[a].status
    BY <1>2, <1>3 DEF Record, AdminInv, TypeOK, Store
  <2>. QED
    BY <2>1
<1>4. CASE Add(s)
  BY <1>4 DEF Add, AdminInv, TypeOK
<1>5. CASE Approve(s)
  BY <1>2, <1>5 DEF Approve, AdminInv, TypeOK, Store
<1>6. CASE Deactivate(s)
  BY <1>2, <1>6 DEF Deactivate, AdminInv, TypeOK, Store
<1>7. ASSUME NEW began \in Began(s), Activate(s, began) PROVE call[s].target = a
  BY <1>2, <1>7 DEF Activate, Switched, Store
<1>. QED
  BY <1>1, <1>3, <1>4, <1>5, <1>6, <1>7 DEF StoreStep

\* ActivatedAfterGoodProbe for any stores and sessions: the service's activate
\* reaches the database only after its own probe succeeded, and the database
\* checks the actor, the approval and the last recorded test once more.
THEOREM ActivatedAfterGoodProbeHolds == Spec => ActivatedAfterGoodProbe
<1>1. ASSUME AdminInv, [Next]_vars, NEW a \in Address,
             stores[a] # None, stores[a].status # "active", stores'[a] # None, stores'[a].status = "active"
      PROVE  /\ stores[a].approved /\ stores[a].connection = "ok" /\ stores'[a].org \in active
             /\ \E s \in Session : /\ call[s] # None /\ call[s].kind = "activate"
                                   /\ call[s].target = a /\ call[s].probe /\ MayAct(s)
  <2>0. PICK s \in Session : \E began \in Began(s) : Activate(s, began) /\ call[s].target = a
    BY <1>1, ActivatedBy
  <2>1. PICK began \in Began(s) : Activate(s, began) /\ call[s].target = a
    BY <2>0
  <2>2. call[s] # None /\ CallMeant(call[s]) /\ call[s].step = "act" /\ call[s].kind = "activate" /\ MayAct(s)
    BY <1>1, <2>1, CallParts DEF Activate, Acts, At
  <2>3. stores'[a].org = call[s].org /\ call[s].org \in active /\ stores[a].approved /\ stores[a].connection = "ok"
    BY <1>1, <2>1 DEF Activate, Switched, Owns, AdminInv, TypeOK, Store
  <2>. QED
    BY <2>1, <2>2, <2>3 DEF CallMeant
<1>2. AdminInv /\ [Next]_vars =>
        [\A a \in Address :
           LET before == stores[a]
               after == stores'[a]
           IN  after # None /\ after.status = "active" /\ before # None /\ before.status # "active" =>
                 /\ before.approved /\ before.connection = "ok" /\ after.org \in active
                 /\ \E s \in Session : /\ call[s] # None /\ call[s].kind = "activate"
                                       /\ call[s].target = a /\ call[s].probe /\ MayAct(s)]_vars
  BY <1>1
<1>. QED
  BY <1>2, AdminAlways, PTL DEF Spec, ActivatedAfterGoodProbe

LEMMA OneActiveStep == AdminInv /\ OneActiveStore /\ [Next]_vars => OneActiveStore'
<1>. SUFFICES ASSUME AdminInv, OneActiveStore, [Next]_vars PROVE OneActiveStore'
  OBVIOUS
<1>1. CASE UNCHANGED stores
  BY <1>1 DEF OneActiveStore
<1>2. CASE ~UNCHANGED stores
  <2>1. PICK s \in Session : StoreStep(s)
    BY <1>2, Steps, InvitationFrame DEF Count
  <2>2. \A a \in Address : stores[a] # None => stores[a] \in Store
    BY DEF AdminInv, TypeOK
  <2>3. CASE \E began \in Began(s) : Activate(s, began)
    <3>. DEFINE t == call[s].target
    <3>0. t \in Address
      BY <2>3, CallParts DEF Activate, Acts, At, CallMeant
    <3>1. /\ stores' = Switched(call[s].org, t) /\ stores[t] \in Store /\ stores[t].approved
          /\ stores[t].connection = "ok" /\ stores[t].org = call[s].org
      BY <2>2, <2>3, <3>0 DEF Activate, Owns
    <3>2. /\ stores'[t].approved /\ stores'[t].connection = "ok" /\ stores'[t].org = call[s].org
      BY <3>0, <3>1 DEF Switched, Store
    <3>3. ASSUME NEW b \in Address \ {t}, stores'[b] # None, stores'[b].status = "active"
          PROVE  stores'[b] = stores[b] /\ stores[b].org # call[s].org
      <4>1. stores'[b] = IF stores[b] # None /\ stores[b].org = call[s].org /\ stores[b].status = "active"
                         THEN [stores[b] EXCEPT !.status = "inactive"] ELSE stores[b]
        BY <3>1, <3>3 DEF Switched
      <4>. QED
        BY <2>2, <3>3, <4>1 DEF Store
    <3>. HIDE DEF t
    <3>4. ASSUME NEW a \in Address, NEW b \in Address, stores'[a] # None, stores'[a].status = "active"
          PROVE  /\ stores'[a].approved /\ stores'[a].connection # "untested"
                 /\ stores'[b] # None /\ stores'[b].status = "active" /\ stores'[b].org = stores'[a].org => a = b
      BY <3>2, <3>3, <3>4 DEF OneActiveStore
    <3>. QED
      BY <3>4 DEF OneActiveStore
  <2>4. CASE ~\E began \in Began(s) : Activate(s, began)
    <3>. DEFINE Same(a) == /\ stores[a] # None /\ stores[a].status = "active" /\ stores'[a].org = stores[a].org
                           /\ stores[a].approved => stores'[a].approved
                           /\ stores[a].connection # "untested" => stores'[a].connection # "untested"
    <3>1. ASSUME NEW a \in Address, stores'[a] # None, stores'[a].status = "active"
          PROVE  Same(a)
      <4>. USE <2>2, <3>1
      <4>1. ASSUME NEW began \in Began(s), Record(s, began) PROVE Same(a)
        <5>1. /\ stores[call[s].target] # None
              /\ stores' = [stores EXCEPT ![call[s].target].checked = began,
                             ![call[s].target].connection = IF call[s].probe THEN "ok" ELSE "error"]
          BY <1>2, <4>1 DEF Record, Owns
        <5>2. CASE a # call[s].target
          BY <5>1, <5>2 DEF AdminInv, TypeOK
        <5>3. CASE a = call[s].target
          <6>1. stores'[a] = [[stores[a] EXCEPT !.checked = began]
                               EXCEPT !.connection = IF call[s].probe THEN "ok" ELSE "error"]
            BY <5>1, <5>3 DEF AdminInv, TypeOK
          <6>2. /\ stores'[a].status = stores[a].status /\ stores'[a].org = stores[a].org
                /\ stores'[a].approved = stores[a].approved /\ stores'[a].connection \in {"ok", "error"}
            <7>1. stores[a] \in Store
              BY <5>1, <5>3
            <7>2. [stores[a] EXCEPT !.checked = began] \in [org : Org, status : {"pending", "inactive", "active"},
                    approved : BOOLEAN, connection : {"untested", "ok", "error"}, checked : {began}]
              BY <7>1 DEF Store
            <7>. QED
              BY <6>1, <7>1, <7>2 DEF Store
          <6>. QED
            BY <3>1, <5>1, <5>3, <6>2
        <5>. QED
          BY <5>2, <5>3
      <4>2. CASE Add(s)
        BY <4>2 DEF Add, AdminInv, TypeOK
      <4>3. CASE Approve(s)
        BY <4>3 DEF Approve, Owns, AdminInv, TypeOK, Store
      <4>4. CASE Deactivate(s)
        BY <4>4 DEF Deactivate, Owns, AdminInv, TypeOK, Store
      <4>. QED
        BY <2>1, <2>4, <4>1, <4>2, <4>3, <4>4 DEF StoreStep
    <3>. QED
      BY <3>1 DEF OneActiveStore
  <2>. QED
    BY <2>3, <2>4
<1>. QED
  BY <1>1, <1>2

\* OneActiveStore for any organizations and contracts: activation leaves an
\* organization one active store, and what is active was approved and tested.
THEOREM OneActiveStoreHolds == Spec => []OneActiveStore
<1>1. Init => OneActiveStore
  BY NoneAssumption DEF Init, OneActiveStore, Approved
<1>. QED
  BY <1>1, AdminAlways, OneActiveStep, PTL DEF Spec

-----------------------------------------------------------------------------

(*****************************************************************************)
(* The administration pages: what a page shows, loads and changes is of      *)
(* the scope on the screen, and what was removed is listed nowhere.          *)
(*****************************************************************************)

PagesTypeOK ==
  /\ scope \in Scope \cup {Nothing} /\ form \in Scope \cup {Nothing}
  /\ preset \in Scope \cup {Nothing}
  /\ rows \subseteq Scope \X Item /\ gone \subseteq Scope \X Item
  /\ roster \in [Scope -> SUBSET Item]
  /\ load # Nothing => load \in [scope : Scope \cup {Nothing}, answer : Listing]
  /\ load # Nothing => load.scope \in Scope
  /\ Busy => change \in PageCall
  /\ Busy /\ change.op \in {"add", "role", "remove"} => change.scope \in Scope /\ change.item \in Item

\* The directory: the form is filled while an issuer is edited, and from that issuer;
\* the organization selected goes with a new issuer only.
DirectoryInv ==
  screen = "issuers" =>
    /\ form = IF editing = "scope" THEN scope ELSE Nothing
    /\ Busy /\ change.op = "save" =>
         change.form = change.scope /\ (change.scope # Nothing => change.owner = Nothing)

\* A panel: what it shows, loads and changes is of the scope shown.
PanelInv ==
  screen \in Panels =>
    /\ \A r \in rows : r[1] = scope
    /\ load # Nothing => load.scope = scope
    /\ Busy => IF screen = "identities" THEN change.op = "download" /\ ~change.answer.read
               ELSE change.op \in {"add", "remove"} /\ change.scope = scope
    /\ screen = "keys" /\ (loaded \/ Busy) => load = Nothing /\ scope \in Scope /\ loaded

\* What was removed is listed nowhere: not by the server, not in an answer under
\* way, and on the page only until the answer to the removal, or until the keys and
\* hosting panels, which reported it, have a list again.
GoneInv ==
  /\ \A r \in gone : r[2] \notin roster[r[1]]
  /\ screen # "issuers" =>
       /\ screen # "identities" /\ Busy => load = Nothing
       /\ screen = "identities" => gone = {}
       /\ load # Nothing /\ load.answer.read => gone \cap ListOf(load.scope, load.answer.items) = {}
       /\ Busy /\ change.answer.read =>
            change.phase # "sent" /\ gone \cap ListOf(change.scope, change.answer.items) = {}
       /\ Busy /\ change.op \in {"add", "role"} /\ change.phase = "done" => Asked \notin gone
       /\ \A r \in gone \cap rows :
            \/ Busy /\ r = Asked /\ change.op = "remove" /\ change.phase = "done"
            \/ r \in unseen /\ screen \in {"keys", "hosting"}

PagesInv == PagesTypeOK /\ DirectoryInv /\ PanelInv /\ GoneInv

\* A change is asked for: nothing else happens but a selection of the page.
LEMMA AskKeeps ==
  ASSUME PagesInv, ~Busy, NEW op, NEW s, NEW i, NEW from, NEW owner, SendChange(op, s, i, from, owner),
         change' \in PageCall,
         op \in {"add", "role", "remove"} => s \in Scope /\ i \in Item,
         UNCHANGED <<screen, scope, load, form, preset, unseen, roster, gone>>, rows' \subseteq rows,
         loaded' = loaded \/ screen = "organizations", editing' = editing \/ screen = "organizations",
         screen = "issuers" /\ op = "save" => from = s /\ (s # Nothing => owner = Nothing),
         screen \in Panels => s = scope /\ IF screen = "identities" THEN op = "download" ELSE op \in {"add", "remove"},
         screen = "keys" => loaded,
         screen \notin {"issuers", "identities"} => load = Nothing
  PROVE  PagesInv'
<1>1. /\ Busy' /\ change'.op = op /\ change'.scope = s /\ change'.item = i /\ change'.form = from
      /\ change'.owner = owner /\ change'.phase = "sent" /\ ~change'.answer.read
  BY NothingAssumption DEF SendChange, Busy, Unread
<1>2. PagesTypeOK'
  BY <1>1 DEF PagesInv, PagesTypeOK
<1>3. DirectoryInv'
  BY <1>1 DEF PagesInv, DirectoryInv
<1>4. PanelInv'
  BY <1>1 DEF PagesInv, PanelInv, Panels
<1>5. GoneInv'
  <2>1. screen # "issuers" => \A r \in gone \cap rows : r \in unseen /\ screen \in {"keys", "hosting"}
    BY DEF PagesInv, GoneInv
  <2>. QED
    BY <1>1, <2>1 DEF PagesInv, GoneInv, ListOf
<1>. QED
  BY <1>2, <1>3, <1>4, <1>5 DEF PagesInv

\* What may be asked for is a request.
LEMMA AskRequests ==
  ASSUME NEW op \in {"add", "role", "remove", "status", "view", "save", "download"},
         NEW s \in Scope \cup {Nothing}, NEW i \in Item \cup {Nothing}, NEW from \in Scope \cup {Nothing},
         NEW owner \in Scope \cup {Nothing}, SendChange(op, s, i, from, owner)
  PROVE  change' \in PageCall
BY DEF SendChange, PageCall, Listing, Unread

\* What a selection loads is a list of the scope selected.
LEMMA LoadStarts ==
  ASSUME NEW s \in Scope \cup {Nothing}, StartLoad(s), load' # Nothing
  PROVE  load' \in [scope : Scope \cup {Nothing}, answer : Listing] /\ load'.scope \in Scope
BY DEF StartLoad, Unread, Listing

LEMMA IssuersKeep == PagesInv /\ IssuersClick => PagesInv'
<1>. SUFFICES ASSUME PagesInv, IssuersClick PROVE PagesInv'
  OBVIOUS
<1>1. screen = "issuers" /\ UNCHANGED screen /\ UNCHANGED <<roster, gone>> /\ PagesTypeOK
  BY DEF IssuersClick, ViewIssuer, EditIssuer, ChangeIssuerStatus, NewIssuer, ChooseOrganization, CancelEdit,
         SaveIssuer, AddIssuerMember, ChangeIssuerMember, PagesInv
<1>2. CASE \/ \E s \in Scope : ViewIssuer(s) \/ EditIssuer(s)
           \/ NewIssuer \/ ChooseOrganization \/ CancelEdit
  <2>1. /\ UNCHANGED change /\ rows' \subseteq rows /\ scope' \in Scope \cup {Nothing}
        /\ form' \in Scope \cup {Nothing} /\ preset' \in Scope \cup {Nothing}
        /\ (UNCHANGED load \/ StartLoad(scope'))
    BY <1>1, <1>2 DEF ViewIssuer, EditIssuer, NewIssuer, ChooseOrganization, CancelEdit, PagesTypeOK
  <2>3. load' # Nothing =>
          load' \in [scope : Scope \cup {Nothing}, answer : Listing] /\ load'.scope \in Scope
    BY <1>1, <2>1, LoadStarts DEF PagesTypeOK
  <2>4. PagesTypeOK'
    BY <1>1, <2>1, <2>3 DEF PagesTypeOK, Busy
  <2>2. DirectoryInv'
    BY <1>1, <1>2, <2>1 DEF ViewIssuer, EditIssuer, NewIssuer, ChooseOrganization, CancelEdit,
         PagesInv, DirectoryInv, Busy
  <2>. QED
    BY <1>1, <2>1, <2>2, <2>4 DEF PagesInv, PanelInv, GoneInv, Panels
<1>3. ASSUME NEW s \in Scope, ChangeIssuerStatus(s) PROVE PagesInv'
  BY <1>1, <1>3, AskRequests, AskKeeps DEF Ask, ChangeIssuerStatus, shown, Panels
<1>4. CASE SaveIssuer
  <2>1. PICK s \in Scope \cup {Nothing}, owner \in Scope \cup {Nothing} :
          SendChange("save", s, Nothing, form, owner) /\ form = s /\ (s # Nothing => owner = Nothing)
    <3>1. CASE editing = "scope"
      BY <1>1, <1>4, <3>1 DEF SaveIssuer, Ask, PagesInv, DirectoryInv, PagesTypeOK
    <3>2. CASE editing # "scope"
      BY <1>1, <1>4, <3>2 DEF SaveIssuer, PagesInv, DirectoryInv, PagesTypeOK
    <3>. QED
      BY <3>1, <3>2
  <2>2. change' \in PageCall
    BY <1>1, <2>1, AskRequests DEF PagesTypeOK
  <2>. QED
    BY <1>1, <1>4, <2>1, <2>2, AskKeeps DEF SaveIssuer, shown, Panels
<1>5. ASSUME NEW i \in Item, AddIssuerMember(i) PROVE PagesInv'
  BY <1>1, <1>5, AskRequests, AskKeeps DEF Ask, AddIssuerMember, shown, Panels, PagesTypeOK
<1>6. ASSUME NEW op \in {"role", "remove"}, NEW r \in rows, ChangeIssuerMember(op, r) PROVE PagesInv'
  <2>1. r[1] \in Scope /\ r[2] \in Item
    BY <1>1 DEF PagesTypeOK
  <2>. QED
    BY <1>1, <1>6, <2>1, AskRequests, AskKeeps DEF Ask, ChangeIssuerMember, shown, Panels
<1>. QED
  BY <1>2, <1>3, <1>4, <1>5, <1>6 DEF IssuersClick

LEMMA OrganizationsKeep == PagesInv /\ OrganizationsClick => PagesInv'
<1>. SUFFICES ASSUME PagesInv, OrganizationsClick PROVE PagesInv'
  OBVIOUS
<1>1. screen = "organizations" /\ UNCHANGED screen /\ UNCHANGED <<roster, gone>> /\ PagesTypeOK
  BY DEF OrganizationsClick, ViewOrganization, EditOrganization, ChangeOrganizationStatus, CloseEditor,
         SaveOrganization, AddOrganizationMember, ChangeOrganizationMember, PagesInv
<1>2. CASE CloseEditor \/ \E s \in Scope \cup {Nothing} : EditOrganization(s)
  <2>1. UNCHANGED <<change, load, rows>> /\ PagesTypeOK'
    BY <1>2 DEF CloseEditor, EditOrganization, PagesInv, PagesTypeOK, Busy
  <2>. QED
    BY <1>1, <2>1 DEF PagesInv, PanelInv, GoneInv, DirectoryInv, Panels, ListOf, Asked, Busy
<1>3. ASSUME NEW s \in Scope, ViewOrganization(s) PROVE PagesInv'
  BY <1>1, <1>3, AskRequests, AskKeeps DEF Ask, ViewOrganization, Panels
<1>4. ASSUME NEW s \in Scope, ChangeOrganizationStatus(s) PROVE PagesInv'
  BY <1>1, <1>4, AskRequests, AskKeeps DEF Ask, ChangeOrganizationStatus, shown, Panels
<1>5. CASE SaveOrganization
  BY <1>1, <1>5, AskRequests, AskKeeps DEF Ask, SaveOrganization, shown, Panels, PagesTypeOK
<1>6. ASSUME NEW i \in Item, AddOrganizationMember(i) PROVE PagesInv'
  BY <1>1, <1>6, AskRequests, AskKeeps DEF Ask, AddOrganizationMember, shown, Panels, PagesTypeOK
<1>7. ASSUME NEW op \in {"role", "remove"}, NEW r \in rows, ChangeOrganizationMember(op, r) PROVE PagesInv'
  <2>1. r[2] \in Item
    BY <1>1 DEF PagesTypeOK
  <2>2. SendChange(op, scope, r[2], Nothing, Nothing) /\ scope \in Scope /\ ~Busy /\ load = Nothing
    BY <1>1, <1>7 DEF ChangeOrganizationMember, Ask, PagesTypeOK
  <2>3. change' \in PageCall
    BY <2>1, <2>2, AskRequests
  <2>. QED
    BY <1>1, <1>7, <2>1, <2>2, <2>3, AskKeeps DEF ChangeOrganizationMember, shown, Panels
<1>. QED
  BY <1>2, <1>3, <1>4, <1>5, <1>6, <1>7 DEF OrganizationsClick

\* A panel shows another scope: the list is emptied, and loaded anew.
LEMMA SelectKeeps ==
  ASSUME PagesInv, NEW s \in Scope \cup {Nothing}, screen \in Panels, Select(s),
         screen = "keys" => s \in Scope,
         \/ UNCHANGED <<change, roster, gone>> /\ (Busy => screen = "identities")
         \/ /\ change' = Nothing /\ screen # "identities"
            /\ roster' \in [Scope -> SUBSET Item] /\ gone' = {r \in gone : r[2] \notin roster'[r[1]]}
  PROVE  PagesInv'
<1>1. /\ rows' = {} /\ scope' = s /\ ~loaded' /\ UNCHANGED <<screen, form, preset>> /\ (load' # Nothing => load'.scope = s /\ ~load'.answer.read)
      /\ (Busy' => screen = "identities" /\ UNCHANGED change)
  BY DEF Select, StartLoad, Unread, Busy
<1>2. PagesTypeOK'
  <2>1. load' # Nothing => load' \in [scope : Scope \cup {Nothing}, answer : Listing] /\ load'.scope \in Scope
    BY DEF Select, StartLoad, Unread, Listing
  <2>. QED
    BY <1>1, <2>1 DEF PagesInv, PagesTypeOK, Busy
<1>3. DirectoryInv'
  BY <1>1 DEF DirectoryInv, Panels
<1>4. PanelInv'
  BY <1>1 DEF PagesInv, PanelInv, Busy
<1>5. GoneInv'
  BY <1>1 DEF PagesInv, GoneInv, Busy, Asked, ListOf
<1>. QED
  BY <1>2, <1>3, <1>4, <1>5 DEF PagesInv

\* What the server made of a request is a roster.
LEMMA PerformedIsRoster ==
  ASSUME PagesTypeOK, Busy
  PROVE  Performed \in [Scope -> SUBSET Item]
BY DEF PagesTypeOK, Performed

LEMMA PanelsKeep == PagesInv /\ (KeysClick \/ IdentitiesClick \/ HostingClick \/ StoresClick) => PagesInv'
<1>. SUFFICES ASSUME PagesInv, KeysClick \/ IdentitiesClick \/ HostingClick \/ StoresClick PROVE PagesInv'
  OBVIOUS
<1>1. PagesTypeOK
  BY DEF PagesInv
<1>2. ASSUME NEW s \in Scope, SelectKeys(s) \/ SelectHosting(s) PROVE PagesInv'
  <2>1. roster' \in [Scope -> SUBSET Item]
    BY <1>1, <1>2, PerformedIsRoster DEF SelectKeys, SelectHosting, Remount, PagesTypeOK
  <2>. QED
    BY <1>2, <2>1, SelectKeeps DEF SelectKeys, SelectHosting, Remount, Panels
<1>3. ASSUME NEW s \in Scope \cup {Nothing}, SelectIdentity(s) \/ SelectStores(s) PROVE PagesInv'
  BY <1>3, SelectKeeps DEF SelectIdentity, SelectStores, Panels
<1>4. ASSUME NEW a \in Alternative, ChangeKeys(a[1], a[2]) PROVE PagesInv'
  <2>1. a[1] \in {"add", "remove"} /\ a[2] \in Item
    BY DEF Alternative
  <2>. QED
    BY <1>1, <1>4, <2>1, AskRequests, AskKeeps DEF Ask, ChangeKeys, shown, Panels, PagesInv, PanelInv
<1>5. CASE DownloadIdentity
  BY <1>1, <1>5, AskRequests, AskKeeps DEF Ask, DownloadIdentity, shown, Panels, PagesTypeOK
<1>6. ASSUME NEW a \in Alternative, ChangeHosting(a[1], a[2]) \/ ChangeStores(a[1], a[2]) PROVE PagesInv'
  <2>1. a[1] \in {"add", "remove"} /\ a[2] \in Item
    BY DEF Alternative
  <2>2. /\ SendChange(a[1], scope, a[2], Nothing, Nothing) /\ scope \in Scope /\ ~Busy /\ load = Nothing
        /\ screen \in {"hosting", "stores"} /\ UNCHANGED <<screen, shown, load, roster, gone>>
    BY <1>1, <1>6 DEF ChangeHosting, ChangeStores, Ask, PagesTypeOK
  <2>3. change' \in PageCall
    BY <2>1, <2>2, AskRequests
  <2>. QED
    BY <2>1, <2>2, <2>3, AskKeeps DEF shown, Panels
<1>. QED
  BY <1>2, <1>3, <1>4, <1>5, <1>6 DEF KeysClick, IdentitiesClick, HostingClick, StoresClick

\* The answer to a change that is none of a panel's.
LEMMA DirectoryAnswers == PagesInv /\ AnswerIssuers /\ AnswerCall => PagesInv'
<1>. SUFFICES ASSUME PagesInv, AnswerIssuers, AnswerCall PROVE PagesInv'
  OBVIOUS
<1>1. screen = "issuers" /\ UNCHANGED <<screen, preset, roster, gone>> /\ change' = Nothing /\ PagesTypeOK /\ Busy
  BY DEF AnswerIssuers, AnswerCall, PagesInv
<1>2. change.answer.items \subseteq Item /\ change.scope \in Scope \cup {Nothing}
  BY <1>1 DEF PagesTypeOK, PageCall, Listing
<1>3. rows' \subseteq Scope \X Item
  BY <1>1, <1>2 DEF AnswerIssuers, PagesTypeOK, ListOf, shown
<1>4. /\ UNCHANGED <<scope, load, editing, form>>
      \/ /\ scope' \in Scope \cup {Nothing} /\ (UNCHANGED load \/ StartLoad(scope'))
         /\ editing' = "no" /\ form' = Nothing
  BY <1>1, <1>2 DEF AnswerIssuers, shown
<1>5. PagesTypeOK'
  <2>1. load' # Nothing =>
          load' \in [scope : Scope \cup {Nothing}, answer : Listing] /\ load'.scope \in Scope
    BY <1>1, <1>4, LoadStarts DEF PagesTypeOK
  <2>. QED
    BY <1>1, <1>3, <1>4, <2>1 DEF PagesTypeOK, Busy
<1>6. DirectoryInv'
  BY <1>1, <1>4 DEF PagesInv, DirectoryInv, Busy
<1>. QED
  BY <1>1, <1>5, <1>6 DEF PagesInv, PanelInv, GoneInv, Panels

LEMMA OrganizationsAnswer == PagesInv /\ AnswerOrganizations /\ AnswerCall => PagesInv'
<1>. SUFFICES ASSUME PagesInv, AnswerOrganizations, AnswerCall PROVE PagesInv'
  OBVIOUS
<1>1. /\ screen = "organizations" /\ UNCHANGED <<screen, preset, roster, gone>> /\ change' = Nothing /\ PagesTypeOK
      /\ Busy /\ change.phase = "done" /\ load = Nothing
  BY DEF AnswerOrganizations, AnswerCall, PagesInv, GoneInv
<1>2. change.scope \in Scope \cup {Nothing}
  BY <1>1 DEF PagesTypeOK, PageCall
<1>3. rows' \subseteq Scope \X Item /\ UNCHANGED form /\ scope' \in Scope \cup {Nothing}
  BY <1>1, <1>2 DEF AnswerOrganizations, PagesTypeOK
<1>4. load' = Nothing \/ StartLoad(change.scope)
  BY <1>1 DEF AnswerOrganizations
<1>5. PagesTypeOK'
  <2>1. load' # Nothing =>
          load' \in [scope : Scope \cup {Nothing}, answer : Listing] /\ load'.scope \in Scope
    BY <1>2, <1>4, LoadStarts
  <2>. QED
    BY <1>1, <1>3, <2>1 DEF PagesTypeOK, Busy
<1>6. gone \cap rows' = {}
  BY <1>1 DEF AnswerOrganizations, PagesInv, GoneInv, Asked
<1>7. load' # Nothing => ~load'.answer.read
  BY <1>4 DEF StartLoad, Unread
<1>. QED
  BY <1>1, <1>5, <1>6, <1>7 DEF PagesInv, PanelInv, GoneInv, DirectoryInv, Panels, Busy

LEMMA PanelAnswers == PagesInv /\ AnswerPanel /\ AnswerCall => PagesInv'
<1>. SUFFICES ASSUME PagesInv, AnswerPanel, AnswerCall PROVE PagesInv'
  OBVIOUS
<1>1. /\ screen \in Panels /\ UNCHANGED <<screen, roster, gone, scope, load, editing, form, preset>>
      /\ change' = Nothing /\ PagesTypeOK /\ Busy
  BY DEF AnswerPanel, AnswerCall, PagesInv
<1>2. \/ /\ change.answer.read /\ change.scope = scope /\ rows' = ListOf(scope, change.answer.items)
         /\ gone \cap rows' = {}
      \/ screen = "identities" /\ UNCHANGED rows
  BY <1>1 DEF AnswerPanel, PagesInv, PanelInv, GoneInv, Panels
<1>3. rows' \subseteq Scope \X Item /\ \A r \in rows' : r[1] = scope
  <2>1. change.answer.items \subseteq Item
    BY <1>1 DEF PagesTypeOK, PageCall, Listing
  <2>2. change.answer.read => scope \in Scope
    BY <1>1 DEF PagesInv, PanelInv, PagesTypeOK
  <2>. QED
    BY <1>1, <1>2, <2>1, <2>2 DEF PagesTypeOK, PagesInv, PanelInv, ListOf
<1>4. screen = "keys" => load = Nothing /\ scope \in Scope /\ loaded'
  BY <1>1 DEF AnswerPanel, PagesInv, PanelInv
<1>5. PagesTypeOK'
  BY <1>1, <1>3 DEF PagesTypeOK, Busy
<1>6. PanelInv'
  BY <1>1, <1>3, <1>4 DEF PagesInv, PanelInv, Busy
<1>7. gone \cap rows' = {}
  BY <1>2 DEF PagesInv, GoneInv
<1>8. GoneInv'
  BY <1>1, <1>7 DEF PagesInv, GoneInv, Busy, ListOf
<1>. QED
  BY <1>1, <1>5, <1>6, <1>8 DEF PagesInv, DirectoryInv, Panels

\* The server, the lists, and what is lost.
LEMMA ServeKeeps == PagesInv /\ Serve => PagesInv'
<1>. SUFFICES ASSUME PagesInv, Serve PROVE PagesInv'
  OBVIOUS
<1>1. /\ PagesTypeOK /\ Busy /\ change \in PageCall /\ change.phase = "sent"
      /\ UNCHANGED <<screen, scope, rows, loaded, editing, form, preset, unseen, load>>
  BY DEF PagesInv, PagesTypeOK, Serve, shown
<1>2. PICK phase \in {"done", "failed"} :
        /\ change' = [change EXCEPT !.phase = phase]
        /\ phase = "done" => roster' = Performed
        /\ phase = "failed" => UNCHANGED roster
  BY DEF Serve
<1>3. /\ change' \in PageCall /\ Busy' /\ change'.phase = phase
      /\ change'.op = change.op /\ change'.scope = change.scope /\ change'.item = change.item
      /\ change'.form = change.form /\ change'.owner = change.owner /\ change'.answer = change.answer /\ Asked' = Asked
  BY <1>1, <1>2, NothingAssumption DEF PageCall, Busy, Asked
<1>4. /\ roster' \in [Scope -> SUBSET Item]
      /\ roster' # roster => phase = "done" /\ change.op \in {"add", "role", "remove"}
  BY <1>1, <1>2, PerformedIsRoster DEF PagesTypeOK, Performed
<1>5. \/ roster' = roster /\ gone' = gone
      \/ /\ phase = "done" /\ change.op = "remove" /\ gone' = gone \cup {Asked}
         /\ roster' = [roster EXCEPT ![change.scope] = @ \ {change.item}]
      \/ /\ phase = "done" /\ change.op \in {"add", "role"} /\ gone' = gone \ {Asked}
         /\ roster' = [roster EXCEPT ![change.scope] = @ \cup {change.item}]
  BY <1>2, <1>4 DEF Serve, Performed
<1>6. change.op \in {"add", "role", "remove"} => change.scope \in Scope /\ change.item \in Item
  BY <1>1 DEF PagesTypeOK
<1>7. PagesTypeOK'
  BY <1>1, <1>3, <1>4, <1>5, <1>6 DEF PagesTypeOK, Asked
<1>8. PanelInv' /\ DirectoryInv'
  BY <1>1, <1>3 DEF PagesInv, PanelInv, DirectoryInv, Panels
<1>9. \A r \in gone' : r[2] \notin roster'[r[1]]
  BY <1>1, <1>5, <1>6, <1>7 DEF PagesInv, GoneInv, PagesTypeOK, Asked
<1>10. screen # "issuers" => /\ \A r \in gone \cap rows : r \in unseen /\ screen \in {"keys", "hosting"}
                            /\ ~change.answer.read
  BY <1>1 DEF PagesInv, GoneInv
<1>11. phase = "done" /\ change.op \in {"add", "role"} => Asked \notin gone'
  BY <1>1, <1>2, <1>5, <1>6, <1>9 DEF PagesTypeOK, Performed, Asked
<1>12. screen = "identities" => gone' = {}
  BY <1>1, <1>5 DEF PagesInv, PanelInv, GoneInv, Panels
<1>13. GoneInv'
  BY <1>1, <1>3, <1>5, <1>9, <1>10, <1>11, <1>12 DEF PagesInv, GoneInv, ListOf
<1>. QED
  BY <1>7, <1>8, <1>13 DEF PagesInv

LEMMA ReadAfterKeeps == PagesInv /\ ReadAfter => PagesInv'
<1>. SUFFICES ASSUME PagesInv, ReadAfter PROVE PagesInv'
  OBVIOUS
<1>1. /\ PagesTypeOK /\ Busy /\ change \in PageCall /\ change.phase # "sent" /\ screen # "identities"
      /\ UNCHANGED <<screen, scope, rows, loaded, editing, form, preset, unseen, load, roster, gone>>
      /\ change' = [change EXCEPT !.answer = Read(change.scope)]
      /\ change.scope \in Scope
  <2>1. screen \in {"keys", "hosting", "stores"} \/ change.op = "add"
    BY DEF ReadAfter
  <2>. QED
    BY <2>1 DEF PagesInv, PagesTypeOK, PanelInv, Panels, ReadAfter, shown
<1>2. Read(change.scope) \in Listing /\ Read(change.scope).items = roster[change.scope]
  BY <1>1 DEF Read, Listing, PagesTypeOK
<1>3. /\ change' \in PageCall /\ Busy' /\ change'.answer.items = roster[change.scope]
      /\ change'.op = change.op /\ change'.scope = change.scope /\ change'.item = change.item
      /\ change'.form = change.form /\ change'.owner = change.owner /\ change'.phase = change.phase /\ Asked' = Asked
  BY <1>1, <1>2, NothingAssumption DEF PageCall, Busy, Asked
<1>4. PagesTypeOK'
  BY <1>1, <1>3 DEF PagesTypeOK
<1>5. PanelInv' /\ DirectoryInv'
  BY <1>1, <1>3 DEF PagesInv, PanelInv, DirectoryInv, Panels
<1>6. GoneInv'
  BY <1>1, <1>3 DEF PagesInv, GoneInv, ListOf
<1>. QED
  BY <1>4, <1>5, <1>6 DEF PagesInv

LEMMA ListsKeep == PagesInv /\ (ReadList \/ AnswerList) => PagesInv'
<1>. SUFFICES ASSUME PagesInv, ReadList \/ AnswerList PROVE PagesInv'
  OBVIOUS
<1>1. /\ PagesTypeOK /\ UNCHANGED <<screen, scope, editing, form, preset, change, roster, gone>>
      /\ load # Nothing /\ load \in [scope : Scope \cup {Nothing}, answer : Listing] /\ load.scope \in Scope
  BY DEF PagesInv, PagesTypeOK, ReadList, AnswerList, shown
<1>2. CASE ReadList
  <2>1. /\ UNCHANGED <<rows, loaded, unseen>> /\ load' = [load EXCEPT !.answer = Read(load.scope)]
    BY <1>2 DEF ReadList, shown
  <2>2. Read(load.scope) \in Listing /\ Read(load.scope).items = roster[load.scope]
    BY <1>1 DEF Read, Listing, PagesTypeOK
  <2>3. /\ load' \in [scope : Scope \cup {Nothing}, answer : Listing]
        /\ load'.scope = load.scope /\ load'.answer.items = roster[load.scope]
    BY <1>1, <2>1, <2>2
  <2>4. PagesTypeOK'
    BY <1>1, <2>1, <2>3 DEF PagesTypeOK, Busy
  <2>5. PanelInv' /\ DirectoryInv'
    BY <1>1, <2>1, <2>3 DEF PagesInv, PanelInv, DirectoryInv, Panels, Busy
  <2>6. GoneInv'
    BY <1>1, <2>1, <2>3 DEF PagesInv, GoneInv, ListOf, Busy, Asked
  <2>. QED
    BY <2>4, <2>5, <2>6 DEF PagesInv
<1>3. CASE AnswerList
  <2>1. /\ load' = Nothing
        /\ \/ load.answer.read /\ rows' = ListOf(load.scope, load.answer.items) /\ loaded' = TRUE
           \/ UNCHANGED <<rows, loaded, unseen>>
    BY <1>3 DEF AnswerList
  <2>2. load.answer.items \subseteq Item
    BY <1>1 DEF Listing
  <2>3. PagesTypeOK'
    BY <1>1, <2>1, <2>2 DEF PagesTypeOK, Busy, ListOf
  <2>4. PanelInv' /\ DirectoryInv'
    BY <1>1, <2>1 DEF PagesInv, PanelInv, DirectoryInv, Panels, Busy, ListOf
  <2>5. GoneInv'
    BY <1>1, <2>1 DEF PagesInv, GoneInv, ListOf, Busy, Asked
  <2>. QED
    BY <2>3, <2>4, <2>5 DEF PagesInv
<1>. QED
  BY <1>2, <1>3

LEMMA FailKeeps == PagesInv /\ Fail => PagesInv'
<1>. SUFFICES ASSUME PagesInv, Fail PROVE PagesInv'
  OBVIOUS
<1>1. /\ ~Busy' /\ PagesTypeOK /\ gone' \subseteq gone
      /\ UNCHANGED <<screen, scope, rows, loaded, editing, form, preset, load, roster>>
  BY DEF Fail, Busy, PagesInv
<1>0. \A r \in gone' \cap rows : screen # "issuers" => r \in unseen' /\ screen \in {"keys", "hosting"}
  <2>1. CASE /\ screen \in {"keys", "hosting"} /\ unseen' = unseen \cup ({Asked} \cap gone) /\ UNCHANGED gone
    BY <2>1 DEF PagesInv, GoneInv
  <2>2. CASE gone' = (IF change.phase = "done" THEN gone \ {Asked} ELSE gone) /\ UNCHANGED unseen
    BY <2>2 DEF PagesInv, GoneInv
  <2>. QED
    BY <2>1, <2>2 DEF Fail
<1>2. PagesTypeOK'
  BY <1>1 DEF PagesTypeOK
<1>3. PanelInv' /\ DirectoryInv'
  BY <1>1 DEF PagesInv, PanelInv, DirectoryInv, Panels
<1>4. GoneInv'
  BY <1>0, <1>1 DEF PagesInv, GoneInv
<1>. QED
  BY <1>2, <1>3, <1>4 DEF PagesInv

LEMMA OthersKeep ==
  ASSUME PagesInv, NEW s \in Scope, NEW i \in Item, OthersChange(s, i)
  PROVE  PagesInv'
<1>1. /\ roster' = [roster EXCEPT ![s] = IF i \in @ THEN @ \ {i} ELSE @ \cup {i}]
      /\ gone' = gone \ {<<s, i>>} /\ PagesTypeOK
      /\ UNCHANGED <<screen, scope, rows, loaded, editing, form, preset, unseen, load, change>>
  BY DEF OthersChange, PagesInv, shown
<1>2. PagesTypeOK'
  BY <1>1 DEF PagesTypeOK, Busy
<1>3. PanelInv' /\ DirectoryInv'
  BY <1>1 DEF PagesInv, PanelInv, DirectoryInv, Panels, Busy
<1>4. GoneInv'
  BY <1>1 DEF PagesInv, PagesTypeOK, GoneInv, Busy, Asked, ListOf
<1>. QED
  BY <1>2, <1>3, <1>4 DEF PagesInv

LEMMA PagesStep == PagesInv /\ [PagesNext]_pageVars => PagesInv'
<1>1. PagesInv /\ UNCHANGED pageVars => PagesInv'
  BY DEF pageVars, shown, PagesInv, PagesTypeOK, DirectoryInv, PanelInv, GoneInv, Busy, Asked
<1>. QED
  BY <1>1, IssuersKeep, OrganizationsKeep, PanelsKeep, DirectoryAnswers, OrganizationsAnswer, PanelAnswers,
     ServeKeeps, ReadAfterKeeps, ListsKeep, FailKeeps, OthersKeep
     DEF PagesNext, AnswerCall

LEMMA PagesBegin == PagesInit => PagesInv
BY DEF PagesInit, Blank, PagesInv, PagesTypeOK, DirectoryInv, PanelInv, GoneInv, Busy

\* DirectoryFormSavedToSource for any issuers: saveIssuer sends the fields of the
\* issuer it writes to, whichever issuer was viewed, edited or answered in between,
\* and the organization selected with a new issuer only.
THEOREM DirectoryFormSavedToSourceHolds == PagesSpec => []DirectoryFormSavedToSource
<1>1. PagesInv => DirectoryFormSavedToSource
  BY DEF PagesInv, DirectoryInv, DirectoryFormSavedToSource
<1>. QED
  BY <1>1, PagesBegin, PagesStep, PTL DEF PagesSpec

\* PanelsAreCurrent for any scopes and items: a panel lists what belongs to the
\* scope it shows, and no page that waits for its changes lists what it removed,
\* unless it reported the removal and could not read the list afterwards.
THEOREM PanelsAreCurrentHolds == PagesSpec => []PanelsAreCurrent
<1>1. PagesInv => PanelsAreCurrent
  BY DEF PagesInv, PanelInv, GoneInv, PanelsAreCurrent
<1>. QED
  BY <1>1, PagesBegin, PagesStep, PTL DEF PagesSpec
=============================================================================
