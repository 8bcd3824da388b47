----------------------------- MODULE MCPlatform -----------------------------
(***************************************************************************)
(* Small instances for TLC of AccessControl and of the modules of the      *)
(* pages, beside those of MCVerification.  None of the modules shares      *)
(* state with another; a behaviour is one of one of them, and the others   *)
(* keep an initial state.                                                  *)
(***************************************************************************)
EXTENDS MCVerification, AccessControl, AdminPages, VerifyPage, CredentialPages, ProfilePages, TLC

CONSTANTS admin, user, i1, i2, tenant, s1, m1, e1, e2, e3, w1, w2

\* A platform administrator and a user of one organization with two issuers,
\* the first of which has a profile.
MCHomeOf == [u \in User |-> tenant]
MCTenantOf == [i \in Branch |-> tenant]
MCBranchOf == [p \in Profile |-> i1]

\* The user is or is not a member, and may be assigned and bound to the first
\* issuer, which has a template.
AccessStart ==
  /\ tenantStatus = [t \in Tenant |-> "active"]
  /\ \E r \in MemberRole \cup {"none"} : memberRole = (admin :> "none" @@ user :> r)
  /\ \E r \in AssignedRole \cup {"none"} :
       assigned = (i1 :> (admin :> "none" @@ user :> r) @@ i2 :> (admin :> "none" @@ user :> "none"))
  /\ \E b \in {Nobody, i1} : bound = (admin :> Nobody @@ user :> b)
  /\ branchStatus = [i \in Branch |-> "active"]
  /\ \E p \in Profile :
       template = (i1 :> [status |-> "active", profile |-> p] @@ i2 :> [status |-> "none", profile |-> Nobody])
  /\ AccessInit

\* The initial states that modules keep while another takes the steps.
VerificationStill ==
  /\ VerificationInit /\ \A r \in Request : target[r] = listed /\ submitted[r]
  /\ DocumentInit /\ ~operator /\ configured = DefaultStore
AccessStill ==
  AccessStart /\ memberRole[user] = "none" /\ bound[user] = Nobody
  /\ \A i \in Branch : assigned[i][user] = "none"
\* By symmetry, whoever lists something is the first scope and lists the first item.
PagesStart == PagesInit /\ (m1 \in roster[s1] \/ \A s \in Scope : roster[s] = {})
PagesStill == screen = "issuers" /\ roster = [s \in Scope |-> {}] /\ Blank

VisitStill == VisitInit /\ lookup = Absent
StaffStill == StaffInit /\ backed = Held

\* Two profiles of the first issuer and one of the second, all active at first;
\* both issuers have a template, the first with a profile.
MCOwnedBy == e1 :> w1 @@ e2 :> w1 @@ e3 :> w2
ProfilesStart ==
  /\ live = Identity /\ templates = (w1 :> e1 @@ w2 :> Unchosen)
  /\ ProfilesInit
ProfilesStill == ProfilesStart /\ opened = "registry"

platformVars == <<verVars, docVars, accessVars, pageVars, visitVars, staffVars, profileVars, part>>

PlatformInit ==
  \/ MCInit /\ AccessStill /\ PagesStill /\ VisitStill /\ StaffStill /\ ProfilesStill
  \/ part = "permissions" /\ AccessStart /\ VerificationStill /\ PagesStill /\ VisitStill /\ StaffStill /\ ProfilesStill
  \/ part = "pages" /\ PagesStart /\ VerificationStill /\ AccessStill /\ VisitStill /\ StaffStill /\ ProfilesStill
  \/ part = "visit" /\ VisitInit /\ VerificationStill /\ AccessStill /\ PagesStill /\ StaffStill /\ ProfilesStill
  \/ part = "staff" /\ StaffInit /\ VerificationStill /\ AccessStill /\ PagesStill /\ VisitStill /\ ProfilesStill
  \/ part = "profiles" /\ ProfilesStart /\ VerificationStill /\ AccessStill /\ PagesStill /\ VisitStill /\ StaffStill

PlatformNext ==
  \/ MCNext /\ UNCHANGED <<accessVars, pageVars, visitVars, staffVars, profileVars>>
  \/ /\ part = "permissions" /\ AccessNext
     /\ UNCHANGED <<verVars, docVars, pageVars, visitVars, staffVars, profileVars, part>>
  \/ /\ part = "pages" /\ PagesNext
     /\ UNCHANGED <<verVars, docVars, accessVars, visitVars, staffVars, profileVars, part>>
  \/ /\ part = "visit" /\ VisitNext
     /\ UNCHANGED <<verVars, docVars, accessVars, pageVars, staffVars, profileVars, part>>
  \/ /\ part = "staff" /\ StaffNext
     /\ UNCHANGED <<verVars, docVars, accessVars, pageVars, visitVars, profileVars, part>>
  \/ /\ part = "profiles" /\ ProfilesNext
     /\ UNCHANGED <<verVars, docVars, accessVars, pageVars, visitVars, staffVars, part>>

PlatformSpec == PlatformInit /\ [][PlatformNext]_platformVars

=============================================================================
