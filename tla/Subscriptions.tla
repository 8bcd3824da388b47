---------------------------- MODULE Subscriptions ----------------------------
(***************************************************************************)
(* The commercial plans of organizations, from the administrators'         *)
(* dashboards down to the rows: a dashboard loads the contract of the      *)
(* organization it selects and submits a replacement for it, which the     *)
(* database accepts against the version it names; creations count against  *)
(* the plan under the lock of the subscription's row; and the platform     *)
(* administrators, who alone may assign, grant and withdraw that role      *)
(* under an advisory lock.                                                 *)
(***************************************************************************)
EXTENDS Integers, FiniteSets

CONSTANTS
  Org,       \* organizations
  Admin,     \* users who are or may become platform administrators, a dashboard each
  Creation,  \* sessions that create certificates, issuers or templates
  Plan,      \* subscription_plans
  Ceiling,   \* the limit of each plan that has one
  Offer,     \* the contracts administrators choose from
  None,      \* no organization, no snapshot, no call
  MaxMonth,  \* bound: the last month
  MaxCalls   \* bound: selections, calls and creations that are begun

SubscriptionStatus == {"pending", "active", "suspended", "expired", "canceled"}
Month == 1..MaxMonth

Contract == [plan : Plan, status : SubscriptionStatus, expires : Month \cup {MaxMonth + 1}]

\* What a dashboard is sent of a subscription.
Snapshot == [org : Org, contract : Contract, version : Nat]

Assignment == [org : Org, contract : Contract, seen : Snapshot]

Grant == [user : Admin, enabled : BOOLEAN]

Job == [org : Org, table : {"certificates", "slots"}, began : Month]

ASSUME PlansAssumption ==
  /\ Ceiling \in [DOMAIN Ceiling -> Nat] /\ Offer \subseteq Contract
  /\ MaxMonth \in Nat \ {0} /\ MaxCalls \in Nat
  /\ IsFiniteSet(Admin)

ASSUME NoneAssumption == None \notin Org \cup Snapshot \cup Assignment \cup Grant \cup Job

VARIABLES
  roles,     \* users whose roles hold platform_admin
  contract, version,  \* the row of subscriptions of each organization
  used,      \* certificates_issued of each organization and month
  slots,     \* its issuers that are not deleted, or its templates
  month,     \* the current month
  selected,  \* the organization each dashboard has selected
  asking,    \* snapshots it has asked for
  answers,   \* snapshots on their way to it
  display,   \* the snapshot on display
  post,      \* the assignment it has submitted, with what was on display then
  grant,     \* the change of a role it has submitted
  pc,        \* where its call stands
  job,       \* what a session creates, where, and the month it began in
  step,      \* where the session stands
  calls      \* selections, calls and creations begun so far

subscription == <<contract, version>>
usage == <<used, slots, month>>
dashboard == <<selected, asking, answers, display>>
creation == <<job, step>>
vars == <<roles, subscription, usage, dashboard, post, grant, pc, creation, calls>>

SnapshotOf(o) == [org |-> o, contract |-> contract[o], version |-> version[o]]

WithinCeiling(p, n) == p \in DOMAIN Ceiling => n <= Ceiling[p]

TypeOK ==
  /\ roles \subseteq Admin
  /\ contract \in [Org -> Contract] /\ version \in [Org -> Nat]
  /\ used \in [Org -> [Month -> Nat]] /\ slots \in [Org -> Nat] /\ month \in Month
  /\ selected \in [Admin -> Org \cup {None}]
  /\ asking \in [Admin -> SUBSET Org] /\ answers \in [Admin -> SUBSET Snapshot]
  /\ display \in [Admin -> Snapshot \cup {None}]
  /\ post \in [Admin -> Assignment \cup {None}]
  /\ grant \in [Admin -> Grant \cup {None}]
  /\ pc \in [Admin -> {"idle", "authorize", "role", "assign", "snapshot", "permission", "queue", "holding"}]
  /\ job \in [Creation -> Job \cup {None}]
  /\ step \in [Creation -> {"idle", "inserted", "holding"}]
  /\ calls \in Nat

\* The organizations exist, on whatever contract.
Init ==
  /\ roles \in (SUBSET Admin) \ {{}}
  /\ contract \in [Org -> Offer] /\ version = [o \in Org |-> 1]
  /\ used = [o \in Org |-> [m \in Month |-> 0]] /\ slots = [o \in Org |-> 0] /\ month = 1
  /\ selected = [a \in Admin |-> None]
  /\ asking = [a \in Admin |-> {}] /\ answers = [a \in Admin |-> {}]
  /\ display = [a \in Admin |-> None]
  /\ post = [a \in Admin |-> None] /\ grant = [a \in Admin |-> None]
  /\ pc = [a \in Admin |-> "idle"]
  /\ job = [s \in Creation |-> None] /\ step = [s \in Creation |-> "idle"]
  /\ calls = 0

Begin == calls < MaxCalls /\ calls' = calls + 1

Goto(a, label) == pc' = [pc EXCEPT ![a] = label]

-----------------------------------------------------------------------------
(***************************************************************************)
(* The dashboard of an administrator.                                      *)
(***************************************************************************)

\* The effect of the selection clears what is on display, aborts the request
\* under way and starts the next; a call in progress disables the selection.
Select(a, o) ==
  /\ Begin /\ pc[a] = "idle" /\ o # selected[a]
  /\ selected' = [selected EXCEPT ![a] = o]
  /\ display' = [display EXCEPT ![a] = None]
  /\ asking' = [asking EXCEPT ![a] = {o}]
  /\ answers' = [answers EXCEPT ![a] = {}]
  /\ UNCHANGED <<roles, subscription, usage, post, grant, pc, creation>>

\* subscription_snapshot reads the row, for an administrator.
Serve(a, o) ==
  /\ o \in asking[a]
  /\ asking' = [asking EXCEPT ![a] = @ \ {o}]
  /\ answers' = [answers EXCEPT ![a] = IF a \in roles THEN @ \cup {SnapshotOf(o)} ELSE @]
  /\ UNCHANGED <<roles, subscription, usage, selected, display, post, grant, pc, creation, calls>>

Show(a, x) ==
  /\ x \in answers[a]
  /\ answers' = [answers EXCEPT ![a] = @ \ {x}]
  /\ display' = [display EXCEPT ![a] = x]
  /\ UNCHANGED <<roles, subscription, usage, selected, asking, post, grant, pc, creation, calls>>

\* submit, for the contract on display.
Submit(a, new) ==
  /\ Begin /\ pc[a] = "idle" /\ display[a] # None
  /\ post' = [post EXCEPT ![a] = [org |-> selected[a], contract |-> new, seen |-> display[a]]]
  /\ Goto(a, "authorize")
  /\ UNCHANGED <<roles, subscription, usage, dashboard, grant, creation>>

-----------------------------------------------------------------------------
(***************************************************************************)
(* The assignment.                                                         *)
(***************************************************************************)

\* The handler looks the roles up, and the function once more before it has the
\* lock; without the role the call fails.
Authorize(a) ==
  /\ pc[a] \in {"authorize", "role"} /\ a \in roles
  /\ Goto(a, IF pc[a] = "authorize" THEN "role" ELSE "assign")
  /\ UNCHANGED <<roles, subscription, usage, dashboard, post, grant, creation, calls>>

\* A creation that has checked the plan holds the row until it ends.
Locked(o) == \E s \in Creation : step[s] = "holding" /\ job[s].org = o

\* Mutant of Assign: a version that the assignment does not advance.
AssignUnversioned(a) ==
  LET new == post[a] IN
  /\ pc[a] = "assign" /\ ~Locked(new.org)
  /\ new.seen.version = version[new.org]
  /\ contract' = [contract EXCEPT ![new.org] = new.contract]
  /\ Goto(a, "snapshot")
  /\ UNCHANGED <<roles, version, usage, dashboard, post, grant, creation, calls>>

\* subscription_admin_action under the lock of the row: the version submitted is
\* the current one.
Assign(a) ==
  LET new == post[a] IN
  /\ pc[a] = "assign" /\ ~Locked(new.org)
  /\ new.seen.version = version[new.org]
  /\ contract' = [contract EXCEPT ![new.org] = new.contract]
  /\ version' = [version EXCEPT ![new.org] = @ + 1]
  /\ Goto(a, "snapshot")
  /\ UNCHANGED <<roles, usage, dashboard, post, grant, creation, calls>>

End(a) ==
  /\ Goto(a, "idle")
  /\ post' = [post EXCEPT ![a] = None] /\ grant' = [grant EXCEPT ![a] = None]

\* The response carries a snapshot that is read after the commit.
Reply(a) ==
  /\ pc[a] = "snapshot"
  /\ display' = [display EXCEPT ![a] = SnapshotOf(post[a].org)]
  /\ End(a)
  /\ UNCHANGED <<roles, subscription, usage, selected, asking, answers, creation, calls>>

\* Another version, a refused role, a price below the plan's, a lost connection
\* before or after the commit: the dashboard reports an error and shows what it
\* showed.
Fail(a) ==
  /\ pc[a] # "idle"
  /\ End(a)
  /\ UNCHANGED <<roles, subscription, usage, dashboard, creation, calls>>

-----------------------------------------------------------------------------
(***************************************************************************)
(* The role of platform administrator.                                     *)
(***************************************************************************)

ChangeRole(a, g) ==
  /\ Begin /\ pc[a] = "idle"
  /\ grant' = [grant EXCEPT ![a] = g]
  /\ Goto(a, "permission")
  /\ UNCHANGED <<roles, subscription, usage, dashboard, post, creation>>

\* The last administrator stays one.
KeepsOne(g) == ~g.enabled /\ g.user \in roles => Cardinality(roles) > 1

\* Mutant of CheckPermission: the administrators are counted with the
\* permission, before the lock.
CheckPermissionCounting(a) ==
  /\ pc[a] = "permission" /\ a \in roles /\ KeepsOne(grant[a])
  /\ Goto(a, "holding")
  /\ UNCHANGED <<roles, subscription, usage, dashboard, post, grant, creation, calls>>

\* phase1_set_platform_admin asks who is calling before it takes the lock.
CheckPermission(a) ==
  /\ pc[a] = "permission" /\ a \in roles
  /\ Goto(a, "queue")
  /\ UNCHANGED <<roles, subscription, usage, dashboard, post, grant, creation, calls>>

\* The advisory lock, and under it the count.
LockRoles(a) ==
  /\ pc[a] = "queue" /\ \A b \in Admin : pc[b] # "holding"
  /\ KeepsOne(grant[a])
  /\ Goto(a, "holding")
  /\ UNCHANGED <<roles, subscription, usage, dashboard, post, grant, creation, calls>>

CommitRole(a) ==
  /\ pc[a] = "holding"
  /\ roles' = IF grant[a].enabled THEN roles \cup {grant[a].user} ELSE roles \ {grant[a].user}
  /\ End(a)
  /\ UNCHANGED <<subscription, usage, dashboard, creation, calls>>

-----------------------------------------------------------------------------
(***************************************************************************)
(* Creations.                                                              *)
(***************************************************************************)

\* The row is inserted; nobody else sees it yet.  now() stays at this month.
Insert(s, o, table) ==
  /\ Begin /\ step[s] = "idle"
  /\ job' = [job EXCEPT ![s] = [org |-> o, table |-> table, began |-> month]]
  /\ step' = [step EXCEPT ![s] = "inserted"]
  /\ UNCHANGED <<roles, subscription, usage, dashboard, post, grant, pc>>

\* The plan of an active subscription has room for one more.
HasRoom(o, table, began) ==
  /\ contract[o].status = "active" /\ contract[o].expires > began
  /\ table = "certificates" => WithinCeiling(contract[o].plan, used[o][began] + 1)
  /\ table = "slots" => WithinCeiling(contract[o].plan, slots[o] + 1)

\* Mutant of Enforce: the row is read without FOR UPDATE.
EnforceUnlocked(s) ==
  /\ step[s] = "inserted" /\ HasRoom(job[s].org, job[s].table, job[s].began)
  /\ step' = [step EXCEPT ![s] = "holding"]
  /\ UNCHANGED <<roles, subscription, usage, dashboard, post, grant, pc, job, calls>>

\* subscription_enforce locks the subscription and counts.
Enforce(s) ==
  /\ step[s] = "inserted" /\ ~Locked(job[s].org)
  /\ HasRoom(job[s].org, job[s].table, job[s].began)
  /\ step' = [step EXCEPT ![s] = "holding"]
  /\ UNCHANGED <<roles, subscription, usage, dashboard, post, grant, pc, job, calls>>

Stop(s) ==
  /\ step' = [step EXCEPT ![s] = "idle"]
  /\ job' = [job EXCEPT ![s] = None]

\* The row and its count become visible together.
CommitCertificate(s) ==
  LET o == job[s].org IN
  /\ step[s] = "holding" /\ job[s].table = "certificates"
  /\ used' = [used EXCEPT ![o][job[s].began] = @ + 1]
  /\ Stop(s)
  /\ UNCHANGED <<roles, subscription, slots, month, dashboard, post, grant, pc, calls>>

CommitSlot(s) ==
  /\ step[s] = "holding" /\ job[s].table = "slots"
  /\ slots' = [slots EXCEPT ![job[s].org] = @ + 1]
  /\ Stop(s)
  /\ UNCHANGED <<roles, subscription, used, month, dashboard, post, grant, pc, calls>>

\* A subscription that is inactive or full, or any later failure.
Rollback(s) ==
  /\ step[s] # "idle"
  /\ Stop(s)
  /\ UNCHANGED <<roles, subscription, usage, dashboard, post, grant, pc, calls>>

\* An issuer is deleted; revocations and deletions refund no certificate.
Delete(o) ==
  /\ slots[o] > 0
  /\ slots' = [slots EXCEPT ![o] = @ - 1]
  /\ UNCHANGED <<roles, subscription, used, month, dashboard, post, grant, pc, creation, calls>>

NextMonth ==
  /\ month < MaxMonth
  /\ month' = month + 1
  /\ UNCHANGED <<roles, subscription, used, slots, dashboard, post, grant, pc, creation, calls>>

AdminStep(a) ==
  \/ \E o \in Org : Select(a, o) \/ Serve(a, o)
  \/ \E x \in answers[a] : Show(a, x)
  \/ \E new \in Offer : Submit(a, new)
  \/ Authorize(a) \/ Assign(a) \/ Reply(a) \/ Fail(a)
  \/ \E g \in Grant : ChangeRole(a, g)
  \/ CheckPermission(a) \/ LockRoles(a) \/ CommitRole(a)

CreationStep(s) ==
  \/ \E o \in Org, table \in {"certificates", "slots"} : Insert(s, o, table)
  \/ Enforce(s) \/ CommitCertificate(s) \/ CommitSlot(s) \/ Rollback(s)

Next ==
  \/ \E a \in Admin : AdminStep(a)
  \/ \E s \in Creation : CreationStep(s)
  \/ \E o \in Org : Delete(o)
  \/ NextMonth

Spec == Init /\ [][Next]_vars

-----------------------------------------------------------------------------
(***************************************************************************)
(* Properties.                                                             *)
(***************************************************************************)

\* However administrators remove each other at the same time, one remains.
AdministratorRemains == roles # {}

\* Nothing is created beyond the ceiling of the plan in force when it commits,
\* nor under a subscription that is not active then, whatever other sessions
\* create, delete and assign between the count and the commit.
WithinPlan ==
  [][\A o \in Org :
       /\ slots'[o] > slots[o] =>
            contract[o].status = "active" /\ WithinCeiling(contract[o].plan, slots'[o])
       /\ \A m \in Month : used'[o][m] > used[o][m] =>
            contract[o].status = "active" /\ WithinCeiling(contract[o].plan, used'[o][m])]_vars

\* A contract is replaced only by an administrator whose dashboard showed that
\* very contract, of that organization, when the replacement was submitted.
ReplacesWhatWasShown ==
  [][\A o \in Org : contract'[o] # contract[o] =>
       \E a \in Admin :
         /\ pc[a] = "assign" /\ pc'[a] = "snapshot"
         /\ post[a].org = o /\ post[a].seen = SnapshotOf(o)]_vars

\* A dashboard shows the organization that is selected on it, in whatever order
\* the answers to its requests arrive.
ShowsSelected == \A a \in Admin : display[a] # None => display[a].org = selected[a]

=============================================================================
