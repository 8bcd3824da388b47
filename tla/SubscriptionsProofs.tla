------------------------- MODULE SubscriptionsProofs -------------------------
(***************************************************************************)
(* Theorems about Subscriptions, for any organizations, administrators,    *)
(* sessions, plans and number of calls.                                    *)
(***************************************************************************)
EXTENDS Subscriptions, FiniteSetTheorems, TLAPS

Assigning == {"authorize", "role", "assign", "snapshot"}

\* A call carries what it was submitted with.
Carries(a) ==
  /\ pc[a] \in Assigning => post[a] # None
  /\ pc[a] \in {"permission", "queue", "holding"} => grant[a] # None

\* One change of roles at a time, counted under the lock.
Turn(a) ==
  pc[a] = "holding" => KeepsOne(grant[a]) /\ \A b \in Admin : pc[b] = "holding" => a = b

\* A snapshot of the version in force shows the contract in force.
Current(x) == x.version <= version[x.org] /\ (x.version = version[x.org] => x = SnapshotOf(x.org))

\* What a dashboard asks for, is sent, shows and submits is what is selected.
Shown(a) ==
  /\ asking[a] \subseteq {selected[a]}
  /\ \A x \in answers[a] : x.org = selected[a] /\ Current(x)
  /\ display[a] # None => display[a].org = selected[a] /\ Current(display[a])
  /\ pc[a] \in Assigning =>
       post[a].org = selected[a] /\ post[a].seen.org = selected[a] /\ Current(post[a].seen)

\* A session that has the lock has it alone, and there still is room.
Room(s) ==
  /\ step[s] # "idle" => job[s] # None
  /\ step[s] = "holding" =>
       /\ HasRoom(job[s].org, job[s].table, job[s].began)
       /\ \A t \in Creation : step[t] = "holding" /\ job[t].org = job[s].org => s = t

RolesInv == roles # {} /\ \A a \in Admin : Turn(a)

PlansInv ==
  /\ TypeOK
  /\ RolesInv
  /\ \A a \in Admin : Carries(a)
  /\ \A a \in Admin : Shown(a)
  /\ \A s \in Creation : Room(s)
-----------------------------------------------------------------------------
(***************************************************************************)
(* Type correctness.                                                       *)
(***************************************************************************)

\* What is not nothing is what it should be.
LEMMA Carried ==
  ASSUME TypeOK
  PROVE  /\ \A a \in Admin : post[a] # None => post[a] \in Assignment
         /\ \A a \in Admin : grant[a] # None => grant[a] \in Grant
         /\ \A a \in Admin : display[a] # None => display[a] \in Snapshot
         /\ \A s \in Creation : job[s] # None => job[s] \in Job
BY DEF TypeOK

\* Nothing is neither a snapshot nor a call.
LEMMA NothingElse ==
  /\ \A x \in Snapshot : x # None
  /\ \A x \in Assignment : x # None
  /\ \A x \in Grant : x # None
  /\ \A x \in Job : x # None
BY NoneAssumption

LEMMA SnapshotType == TypeOK => \A o \in Org : SnapshotOf(o) \in Snapshot
BY DEF TypeOK, SnapshotOf, Snapshot

\* The dashboards' steps keep everything well typed.
LEMMA DashboardType ==
  ASSUME TypeOK, NEW a \in Admin, Carries(a), Shown(a),
         \/ \E o \in Org : Select(a, o) \/ Serve(a, o)
         \/ \E x \in answers[a] : Show(a, x)
         \/ \E new \in Offer : Submit(a, new)
         \/ Reply(a)
  PROVE  TypeOK'
<1> USE DEF TypeOK, usage, subscription, dashboard, creation, Begin, Goto
<1>1. ASSUME NEW o \in Org, Select(a, o) PROVE TypeOK'
  BY <1>1 DEF Select
<1>2. ASSUME NEW o \in Org, Serve(a, o) PROVE TypeOK'
  <2>1. SnapshotOf(o) \in Snapshot
    BY SnapshotType
  <2>2. answers' \in [Admin -> SUBSET Snapshot]
    BY <1>2, <2>1 DEF Serve
  <2>. QED
    BY <1>2, <2>2 DEF Serve
<1>3. ASSUME NEW x \in answers[a], Show(a, x) PROVE TypeOK'
  BY <1>3 DEF Show
<1>4. ASSUME NEW new \in Offer, Submit(a, new) PROVE TypeOK'
  <2>1. display[a] \in Snapshot /\ selected[a] \in Org
    BY <1>4, Carried DEF Submit, Shown, Snapshot
  <2>2. [org |-> selected[a], contract |-> new, seen |-> display[a]] \in Assignment
    BY <2>1, PlansAssumption DEF Assignment
  <2>3. post' \in [Admin -> Assignment \cup {None}]
    BY <1>4, <2>2 DEF Submit
  <2>. QED
    BY <1>4, <2>3 DEF Submit
<1>5. CASE Reply(a)
  <2>1. post[a] \in Assignment
    BY <1>5, Carried DEF Reply, Carries, Assigning
  <2>2. SnapshotOf(post[a].org) \in Snapshot
    BY <2>1, SnapshotType DEF Assignment
  <2>. QED
    BY <1>5, <2>2 DEF Reply, End
<1> QED
  BY <1>1, <1>2, <1>3, <1>4, <1>5

\* So do the calls behind them.
LEMMA CallType ==
  ASSUME TypeOK, NEW a \in Admin, Carries(a),
         \/ Authorize(a) \/ Assign(a) \/ Fail(a)
         \/ \E g \in Grant : ChangeRole(a, g)
         \/ CheckPermission(a) \/ LockRoles(a) \/ CommitRole(a)
  PROVE  TypeOK'
<1> USE DEF TypeOK, usage, subscription, dashboard, creation, Begin, Goto, End
<1>1. CASE Authorize(a)
  BY <1>1 DEF Authorize
<1>2. CASE Assign(a)
  <2>1. post[a] \in Assignment
    BY <1>2, Carried DEF Assign, Carries, Assigning
  <2>2. post[a].org \in Org /\ post[a].contract \in Contract
    BY <2>1 DEF Assignment
  <2>. QED
    BY <1>2, <2>2 DEF Assign
<1>3. CASE Fail(a)
  BY <1>3 DEF Fail
<1>4. ASSUME NEW g \in Grant, ChangeRole(a, g) PROVE TypeOK'
  BY <1>4 DEF ChangeRole
<1>5. CASE CheckPermission(a)
  BY <1>5 DEF CheckPermission
<1>6. CASE LockRoles(a)
  BY <1>6 DEF LockRoles
<1>7. CASE CommitRole(a)
  <2>1. grant[a] \in Grant
    BY <1>7, Carried DEF CommitRole, Carries
  <2>2. roles' \subseteq Admin
    BY <1>7, <2>1 DEF CommitRole, Grant
  <2>. QED
    BY <1>7, <2>2 DEF CommitRole
<1> QED
  BY <1>1, <1>2, <1>3, <1>4, <1>5, <1>6, <1>7

\* And the creations, whatever the world does meanwhile.
LEMMA WorldType ==
  ASSUME TypeOK, \A s \in Creation : Room(s),
         \/ \E s \in Creation : CreationStep(s)
         \/ \E o \in Org : Delete(o)
         \/ NextMonth
  PROVE  TypeOK'
<1> USE DEF TypeOK, usage, subscription, dashboard, creation, Begin, Stop
<1>1. ASSUME NEW s \in Creation, NEW o \in Org, NEW table \in {"certificates", "slots"}, Insert(s, o, table)
      PROVE  TypeOK'
  <2>1. [org |-> o, table |-> table, began |-> month] \in Job
    BY DEF Job
  <2>. QED
    BY <1>1, <2>1 DEF Insert
<1>2. ASSUME NEW s \in Creation, Enforce(s) PROVE TypeOK'
  BY <1>2 DEF Enforce
<1>3. ASSUME NEW s \in Creation, CommitCertificate(s) PROVE TypeOK'
  <2>1. job[s].org \in Org /\ job[s].began \in Month
    BY <1>3, Carried DEF CommitCertificate, Room, Job
  <2>2. used' \in [Org -> [Month -> Nat]]
    BY <1>3, <2>1 DEF CommitCertificate
  <2>. QED
    BY <1>3, <2>2 DEF CommitCertificate
<1>4. ASSUME NEW s \in Creation, CommitSlot(s) PROVE TypeOK'
  <2>1. job[s].org \in Org
    BY <1>4, Carried DEF CommitSlot, Room, Job
  <2>. QED
    BY <1>4, <2>1 DEF CommitSlot
<1>5. ASSUME NEW s \in Creation, Rollback(s) PROVE TypeOK'
  BY <1>5 DEF Rollback
<1>6. ASSUME NEW o \in Org, Delete(o) PROVE TypeOK'
  BY <1>6 DEF Delete
<1>7. CASE NextMonth
  BY <1>7, PlansAssumption DEF NextMonth, Month
<1> QED
  BY <1>1, <1>2, <1>3, <1>4, <1>5, <1>6, <1>7 DEF CreationStep

LEMMA StepType == PlansInv /\ [Next]_vars => TypeOK'
<1> SUFFICES ASSUME PlansInv, [Next]_vars PROVE TypeOK'
  OBVIOUS
<1> USE DEF PlansInv
<1>1. ASSUME NEW a \in Admin, AdminStep(a) PROVE TypeOK'
  BY <1>1, DashboardType, CallType DEF AdminStep
<1>2. ASSUME NEW s \in Creation, CreationStep(s) PROVE TypeOK'
  BY <1>2, WorldType
<1>3. ASSUME NEW o \in Org, Delete(o) PROVE TypeOK'
  BY <1>3, WorldType
<1>4. CASE NextMonth
  BY <1>4, WorldType
<1>5. CASE UNCHANGED vars
  BY <1>5 DEF vars, TypeOK, usage, subscription, dashboard, creation
<1> QED
  BY <1>1, <1>2, <1>3, <1>4, <1>5 DEF Next

-----------------------------------------------------------------------------
(***************************************************************************)
(* What a step leaves alone.                                               *)
(***************************************************************************)

\* Whatever is not an administrator's step.
WorldStep ==
  \/ \E s \in Creation : CreationStep(s)
  \/ \E o \in Org : Delete(o)
  \/ NextMonth
  \/ UNCHANGED vars

LEMMA WorldFrame == WorldStep => UNCHANGED <<roles, subscription, dashboard, post, grant, pc>>
BY DEF WorldStep, CreationStep, Insert, Enforce, CommitCertificate, CommitSlot, Rollback, Delete,
       NextMonth, vars, subscription, dashboard

\* An administrator's step leaves the other dashboards and calls alone, and
\* everything that creations do.
Others(a) ==
  /\ \A b \in Admin \ {a} :
       /\ selected'[b] = selected[b] /\ asking'[b] = asking[b] /\ answers'[b] = answers[b]
       /\ display'[b] = display[b] /\ post'[b] = post[b] /\ grant'[b] = grant[b] /\ pc'[b] = pc[b]
  /\ UNCHANGED <<used, slots, month, job, step>>

LEMMA AdminFrame ==
  ASSUME TypeOK, NEW a \in Admin, AdminStep(a)
  PROVE  Others(a)
<1> USE DEF TypeOK, usage, subscription, dashboard, creation, Goto, End, Others
<1>1. ASSUME NEW o \in Org, Select(a, o) PROVE Others(a)
  BY <1>1 DEF Select
<1>2. ASSUME NEW o \in Org, Serve(a, o) PROVE Others(a)
  BY <1>2 DEF Serve
<1>3. ASSUME NEW x \in answers[a], Show(a, x) PROVE Others(a)
  BY <1>3 DEF Show
<1>4. ASSUME NEW new \in Offer, Submit(a, new) PROVE Others(a)
  BY <1>4 DEF Submit
<1>5. CASE Authorize(a)
  BY <1>5 DEF Authorize
<1>6. CASE Assign(a)
  BY <1>6 DEF Assign
<1>7. CASE Reply(a)
  BY <1>7 DEF Reply
<1>8. CASE Fail(a)
  BY <1>8 DEF Fail
<1>9. ASSUME NEW g \in Grant, ChangeRole(a, g) PROVE Others(a)
  BY <1>9 DEF ChangeRole
<1>10. CASE CheckPermission(a)
  BY <1>10 DEF CheckPermission
<1>11. CASE LockRoles(a)
  BY <1>11 DEF LockRoles
<1>12. CASE CommitRole(a)
  BY <1>12 DEF CommitRole
<1> QED
  BY <1>1, <1>2, <1>3, <1>4, <1>5, <1>6, <1>7, <1>8, <1>9, <1>10, <1>11, <1>12 DEF AdminStep

\* Every step is one or the other.
LEMMA Steps == [Next]_vars => WorldStep \/ \E a \in Admin : AdminStep(a)
BY DEF Next, WorldStep

-----------------------------------------------------------------------------
(***************************************************************************)
(* The administrators.                                                     *)
(***************************************************************************)

\* Taking one of several leaves some.
LEMMA OneRemains ==
  ASSUME PlansAssumption, roles \subseteq Admin, Cardinality(roles) > 1, NEW u \in roles
  PROVE  roles \ {u} # {}
<1>1. IsFiniteSet(roles)
  BY PlansAssumption, FS_Subset DEF PlansAssumption
<1>2. Cardinality(roles) \in Nat /\ Cardinality(roles \ {u}) = Cardinality(roles) - 1
  BY <1>1, FS_RemoveElement, FS_CardinalityType
<1>3. Cardinality({}) = 0
  BY FS_EmptySet
<1> QED
  BY <1>2, <1>3

\* The call of an administrator carries its submission on every step.
LEMMA StepCarries == PlansInv /\ [Next]_vars => \A a \in Admin : Carries(a)'
<1> SUFFICES ASSUME PlansInv, [Next]_vars, NEW a \in Admin PROVE Carries(a)'
  OBVIOUS
<1> USE DEF Carries, Assigning
<1>0. TypeOK /\ Carries(a)
  BY DEF PlansInv
<1>1. CASE WorldStep
  BY <1>0, <1>1, WorldFrame
<1>2. ASSUME NEW b \in Admin \ {a}, AdminStep(b) PROVE Carries(a)'
  BY <1>0, <1>2, AdminFrame DEF Others
<1>3. CASE AdminStep(a)
  <2> USE DEF TypeOK, Goto, End
  <2>1. ASSUME NEW o \in Org, Select(a, o) PROVE Carries(a)'
    BY <1>0, <2>1 DEF Select
  <2>2. ASSUME NEW o \in Org, Serve(a, o) PROVE Carries(a)'
    BY <1>0, <2>2 DEF Serve
  <2>3. ASSUME NEW x \in answers[a], Show(a, x) PROVE Carries(a)'
    BY <1>0, <2>3 DEF Show
  <2>4. ASSUME NEW new \in Offer, Submit(a, new) PROVE Carries(a)'
    <3>1. TypeOK'
      BY StepType
    <3>2. post'[a] = [org |-> selected[a], contract |-> new, seen |-> display[a]]
      BY <1>0, <2>4 DEF Submit
    <3>3. display[a] \in Snapshot /\ selected[a] \in Org
      BY <1>0, <2>4, Carried DEF Submit, PlansInv, Shown, Snapshot
    <3>4. post'[a] \in Assignment
      BY <3>2, <3>3, PlansAssumption DEF Assignment
    <3>. QED
      BY <1>0, <2>4, <3>4, NothingElse DEF Submit
  <2>5. CASE Authorize(a)
    BY <1>0, <2>5 DEF Authorize
  <2>6. CASE Assign(a)
    BY <1>0, <2>6 DEF Assign
  <2>7. CASE Reply(a)
    BY <1>0, <2>7 DEF Reply
  <2>8. CASE Fail(a)
    BY <1>0, <2>8 DEF Fail
  <2>9. ASSUME NEW g \in Grant, ChangeRole(a, g) PROVE Carries(a)'
    BY <1>0, <2>9, NothingElse DEF ChangeRole
  <2>10. CASE CheckPermission(a)
    BY <1>0, <2>10 DEF CheckPermission
  <2>11. CASE LockRoles(a)
    BY <1>0, <2>11 DEF LockRoles
  <2>12. CASE CommitRole(a)
    BY <1>0, <2>12 DEF CommitRole
  <2> QED
    BY <1>3, <2>1, <2>2, <2>3, <2>4, <2>5, <2>6, <2>7, <2>8, <2>9, <2>10, <2>11, <2>12 DEF AdminStep
<1> QED
  BY <1>1, <1>2, <1>3, Steps

\* Roles change only under the lock.
LEMMA OnlyCommitsRoles ==
  ASSUME NEW a \in Admin, AdminStep(a), ~CommitRole(a)
  PROVE  UNCHANGED roles
BY DEF AdminStep, Select, Serve, Show, Submit, Authorize, Assign, Reply, Fail, ChangeRole,
       CheckPermission, LockRoles

\* The lock is taken only when nobody has it, by whoever leaves one.
LEMMA OnlyLocksHold ==
  ASSUME TypeOK, NEW a \in Admin, AdminStep(a), pc'[a] = "holding"
  PROVE  \/ pc[a] = "holding" /\ UNCHANGED <<roles, grant>>
         \/ UNCHANGED <<roles, grant>> /\ KeepsOne(grant[a]) /\ \A b \in Admin : pc[b] # "holding"
<1> USE DEF TypeOK, Goto, End
<1>1. ASSUME NEW o \in Org, Select(a, o) PROVE pc[a] = "holding" /\ UNCHANGED <<roles, grant>>
  BY <1>1 DEF Select
<1>2. ASSUME NEW o \in Org, Serve(a, o) PROVE pc[a] = "holding" /\ UNCHANGED <<roles, grant>>
  BY <1>2 DEF Serve
<1>3. ASSUME NEW x \in answers[a], Show(a, x) PROVE pc[a] = "holding" /\ UNCHANGED <<roles, grant>>
  BY <1>3 DEF Show
<1>4. ASSUME NEW new \in Offer, Submit(a, new) PROVE FALSE
  BY <1>4 DEF Submit
<1>5. ~Authorize(a) /\ ~Assign(a) /\ ~Reply(a) /\ ~Fail(a) /\ ~CheckPermission(a) /\ ~CommitRole(a)
  BY DEF Authorize, Assign, Reply, Fail, CheckPermission, CommitRole
<1>6. ASSUME NEW g \in Grant, ChangeRole(a, g) PROVE FALSE
  BY <1>6 DEF ChangeRole
<1>7. CASE LockRoles(a)
  BY <1>7 DEF LockRoles
<1> QED
  BY <1>1, <1>2, <1>3, <1>4, <1>5, <1>6, <1>7 DEF AdminStep

LEMMA StepRoles == PlansInv /\ [Next]_vars => RolesInv'
<1> SUFFICES ASSUME PlansInv, [Next]_vars PROVE RolesInv'
  OBVIOUS
<1>0. TypeOK /\ RolesInv
  BY DEF PlansInv
<1>1. CASE WorldStep
  BY <1>0, <1>1, WorldFrame DEF RolesInv, Turn, KeepsOne
<1>2. ASSUME NEW a \in Admin, AdminStep(a) PROVE RolesInv'
  <2>1. Others(a)
    BY <1>0, <1>2, AdminFrame
  <2>2. CASE CommitRole(a)
    <3>1. grant[a] \in Grant /\ KeepsOne(grant[a]) /\ pc'[a] = "idle"
      BY <1>0, <2>2, Carried DEF CommitRole, PlansInv, Carries, RolesInv, Turn, TypeOK, End, Goto
    <3>2. roles' # {}
      <4>1. CASE grant[a].enabled
        BY <2>2, <4>1 DEF CommitRole
      <4>2. CASE ~grant[a].enabled /\ grant[a].user \in roles
        BY <1>0, <2>2, <3>1, <4>2, OneRemains, PlansAssumption DEF CommitRole, KeepsOne, TypeOK
      <4>3. CASE ~grant[a].enabled /\ grant[a].user \notin roles
        BY <1>0, <2>2, <4>3 DEF CommitRole, RolesInv
      <4> QED
        BY <4>1, <4>2, <4>3
    <3>3. \A b \in Admin : pc'[b] # "holding"
      <4>1. pc[a] = "holding"
        BY <2>2 DEF CommitRole
      <4> QED
        BY <1>0, <2>1, <3>1, <4>1 DEF RolesInv, Turn, Others
    <3> QED
      BY <3>2, <3>3 DEF RolesInv, Turn
  <2>3. CASE ~CommitRole(a)
    <3>1. UNCHANGED roles
      BY <1>2, <2>3, OnlyCommitsRoles
    <3>2. CASE pc'[a] = "holding"
      <4>1. /\ UNCHANGED grant /\ KeepsOne(grant[a])
            /\ \A b \in Admin \ {a} : pc[b] # "holding"
        BY <1>0, <1>2, <3>2, OnlyLocksHold DEF RolesInv, Turn
      <4> QED
        BY <1>0, <2>1, <3>1, <4>1 DEF RolesInv, Turn, Others, KeepsOne
    <3>3. CASE pc'[a] # "holding"
      BY <1>0, <2>1, <3>1, <3>3 DEF RolesInv, Turn, Others, KeepsOne
    <3> QED
      BY <3>2, <3>3
  <2> QED
    BY <2>2, <2>3
<1> QED
  BY <1>1, <1>2, Steps

-----------------------------------------------------------------------------
(***************************************************************************)
(* What dashboards show.                                                   *)
(***************************************************************************)

\* A contract changes with its version, by the assignment of one that was shown.
ContractsKeep ==
  \A o \in Org : \/ contract'[o] = contract[o] /\ version'[o] = version[o]
                 \/ version'[o] = version[o] + 1

LEMMA ContractStep ==
  ASSUME PlansInv, [Next]_vars
  PROVE  ContractsKeep
<1>0. TypeOK
  BY DEF PlansInv
<1>1. CASE WorldStep
  BY <1>1, WorldFrame DEF subscription, ContractsKeep
<1>2. ASSUME NEW a \in Admin, AdminStep(a) PROVE ContractsKeep
  <2>1. CASE Assign(a)
    <3>1. post[a] \in Assignment /\ post[a].org \in Org
      BY <1>0, <2>1, Carried DEF Assign, PlansInv, Carries, Assigning, Assignment
    <3> QED
      BY <1>0, <2>1, <3>1 DEF Assign, TypeOK, ContractsKeep
  <2>2. CASE ~Assign(a)
    BY <1>2, <2>2 DEF AdminStep, Select, Serve, Show, Submit, Authorize, Reply, Fail, ChangeRole,
       CheckPermission, LockRoles, CommitRole, subscription, ContractsKeep
  <2> QED
    BY <2>1, <2>2
<1> QED
  BY <1>1, <1>2, Steps

\* So what was current is current or of an earlier version.
LEMMA StaysCurrent ==
  ASSUME TypeOK, ContractsKeep, NEW x \in Snapshot, Current(x)
  PROVE  Current(x)'
<1>1. x.org \in Org /\ x.version \in Nat /\ version[x.org] \in Nat
  BY DEF Snapshot, TypeOK
<1> QED
  BY <1>1 DEF ContractsKeep, Current, SnapshotOf

\* What is read now is current.
LEMMA ReadIsCurrent ==
  ASSUME TypeOK, NEW o \in Org
  PROVE  SnapshotOf(o).org = o /\ Current(SnapshotOf(o))
<1>1. version[o] \in Nat /\ SnapshotOf(o).org = o /\ SnapshotOf(o).version = version[o]
  BY DEF TypeOK, SnapshotOf
<1> QED
  BY <1>1 DEF Current

\* What others do leaves a dashboard current.
LEMMA ShownFrame ==
  ASSUME TypeOK, ContractsKeep, NEW a \in Admin, Shown(a), Carries(a),
         selected'[a] = selected[a], asking'[a] = asking[a], answers'[a] = answers[a],
         display'[a] = display[a], post'[a] = post[a], pc'[a] \in Assigning => pc[a] \in Assigning
  PROVE  Shown(a)'
<1>1. \A x \in answers[a] : x \in Snapshot
  BY DEF TypeOK
<1>2. display[a] # None => display[a] \in Snapshot
  BY Carried
<1>3. pc[a] \in Assigning => post[a].seen \in Snapshot
  BY Carried DEF Carries, Assignment
<1> QED
  BY <1>1, <1>2, <1>3, StaysCurrent DEF Shown

LEMMA StepShown == PlansInv /\ [Next]_vars => \A a \in Admin : Shown(a)'
<1> SUFFICES ASSUME PlansInv, [Next]_vars, NEW a \in Admin PROVE Shown(a)'
  OBVIOUS
<1>0. TypeOK /\ Shown(a) /\ Carries(a) /\ ContractsKeep
  BY ContractStep DEF PlansInv
<1>1. CASE WorldStep
  BY <1>0, <1>1, WorldFrame, ShownFrame DEF dashboard
<1>2. ASSUME NEW b \in Admin \ {a}, AdminStep(b) PROVE Shown(a)'
  BY <1>0, <1>2, AdminFrame, ShownFrame DEF Others
<1>3. CASE AdminStep(a)
  <2>1. ASSUME NEW o \in Org, Select(a, o) PROVE Shown(a)'
    <3>1. /\ selected'[a] = o /\ asking'[a] = {o} /\ answers'[a] = {} /\ display'[a] = None
          /\ pc'[a] = "idle"
      BY <1>0, <2>1 DEF Select, TypeOK
    <3> QED
      BY <3>1 DEF Shown, Assigning
  <2>2. ASSUME NEW o \in Org, Serve(a, o) PROVE Shown(a)'
    <3>1. /\ selected'[a] = selected[a] /\ display'[a] = display[a] /\ post'[a] = post[a]
          /\ pc'[a] = pc[a] /\ UNCHANGED <<contract, version>>
          /\ asking'[a] \subseteq asking[a] /\ answers'[a] \subseteq answers[a] \cup {SnapshotOf(o)}
      BY <1>0, <2>2 DEF Serve, TypeOK, subscription
    <3>2. o = selected[a]
      BY <1>0, <2>2 DEF Serve, Shown
    <3>3. SnapshotOf(o).org = selected[a] /\ Current(SnapshotOf(o))
      BY <1>0, <3>2, ReadIsCurrent
    <3> QED
      BY <1>0, <3>1, <3>3 DEF Shown, Current, SnapshotOf
  <2>3. ASSUME NEW x \in answers[a], Show(a, x) PROVE Shown(a)'
    <3>1. /\ selected'[a] = selected[a] /\ display'[a] = x /\ post'[a] = post[a]
          /\ pc'[a] = pc[a] /\ UNCHANGED <<contract, version>>
          /\ asking'[a] = asking[a] /\ answers'[a] \subseteq answers[a]
      BY <1>0, <2>3 DEF Show, TypeOK, subscription
    <3> QED
      BY <1>0, <3>1 DEF Shown, Current, SnapshotOf
  <2>4. ASSUME NEW new \in Offer, Submit(a, new) PROVE Shown(a)'
    <3>1. /\ selected'[a] = selected[a] /\ display'[a] = display[a] /\ display[a] # None
          /\ post'[a] = [org |-> selected[a], contract |-> new, seen |-> display[a]]
          /\ UNCHANGED <<contract, version, asking, answers>>
      BY <1>0, <2>4 DEF Submit, TypeOK, subscription, dashboard
    <3> QED
      BY <1>0, <3>1 DEF Shown, Current, SnapshotOf
  <2>5. CASE Authorize(a)
    BY <1>0, <2>5, ShownFrame DEF Authorize, dashboard, TypeOK, Goto, Assigning
  <2>6. CASE Assign(a)
    BY <1>0, <2>6, ShownFrame DEF Assign, dashboard, TypeOK, Goto, Assigning
  <2>7. CASE Reply(a)
    <3>1. post[a].org \in Org /\ post[a].org = selected[a]
      BY <1>0, <2>7, Carried DEF Reply, Carries, Shown, Assigning, Assignment
    <3>2. /\ selected'[a] = selected[a] /\ display'[a] = SnapshotOf(post[a].org)
          /\ pc'[a] = "idle" /\ UNCHANGED <<contract, version, asking, answers>>
      BY <1>0, <2>7 DEF Reply, TypeOK, subscription, Goto, End
    <3>3. SnapshotOf(post[a].org).org = selected[a] /\ Current(SnapshotOf(post[a].org))
      BY <1>0, <3>1, ReadIsCurrent
    <3> QED
      BY <1>0, <3>2, <3>3 DEF Shown, Current, SnapshotOf, Assigning
  <2>8. CASE Fail(a)
    <3>1. pc'[a] = "idle" /\ UNCHANGED <<contract, version, selected, asking, answers, display>>
      BY <1>0, <2>8 DEF Fail, TypeOK, subscription, dashboard, Goto, End
    <3> QED
      BY <1>0, <3>1 DEF Shown, Current, SnapshotOf, Assigning
  <2>9. ASSUME NEW g \in Grant, ChangeRole(a, g) PROVE Shown(a)'
    BY <1>0, <2>9, ShownFrame DEF ChangeRole, dashboard, TypeOK, Goto, Assigning
  <2>10. CASE CheckPermission(a)
    BY <1>0, <2>10, ShownFrame DEF CheckPermission, dashboard, TypeOK, Goto, Assigning
  <2>11. CASE LockRoles(a)
    BY <1>0, <2>11, ShownFrame DEF LockRoles, dashboard, TypeOK, Goto, Assigning
  <2>12. CASE CommitRole(a)
    <3>1. pc'[a] = "idle" /\ UNCHANGED <<contract, version, selected, asking, answers, display>>
      BY <1>0, <2>12 DEF CommitRole, TypeOK, subscription, dashboard, Goto, End
    <3> QED
      BY <1>0, <3>1 DEF Shown, Current, SnapshotOf, Assigning
  <2> QED
    BY <1>3, <2>1, <2>2, <2>3, <2>4, <2>5, <2>6, <2>7, <2>8, <2>9, <2>10, <2>11, <2>12 DEF AdminStep
<1> QED
  BY <1>1, <1>2, <1>3, Steps

-----------------------------------------------------------------------------
(***************************************************************************)
(* Creations.                                                              *)
(***************************************************************************)

\* Nobody replaces the contract of a locked row.
LEMMA LockedContract ==
  ASSUME PlansInv, NEW a \in Admin, AdminStep(a), NEW o \in Org, Locked(o)
  PROVE  contract'[o] = contract[o]
<1>1. CASE Assign(a)
  <2>1. post[a].org # o
    BY <1>1 DEF Assign
  <2> QED
    BY <1>1, <2>1 DEF Assign, PlansInv, TypeOK
<1>2. CASE ~Assign(a)
  BY <1>2 DEF AdminStep, Select, Serve, Show, Submit, Authorize, Reply, Fail, ChangeRole,
     CheckPermission, LockRoles, CommitRole, subscription
<1> QED
  BY <1>1, <1>2

\* Room is not lost where nothing is added under the same contract.
LEMMA RoomKept ==
  ASSUME TypeOK, TypeOK', NEW j \in Job, HasRoom(j.org, j.table, j.began),
         contract'[j.org] = contract[j.org],
         used'[j.org][j.began] = used[j.org][j.began],
         slots'[j.org] <= slots[j.org]
  PROVE  HasRoom(j.org, j.table, j.began)'
<1>1. j.org \in Org /\ j.began \in Month
  BY DEF Job
<1>2. /\ used[j.org][j.began] \in Nat /\ slots[j.org] \in Nat /\ slots'[j.org] \in Nat
      /\ contract[j.org].plan \in DOMAIN Ceiling => Ceiling[contract[j.org].plan] \in Nat
  BY <1>1, PlansAssumption DEF TypeOK, PlansAssumption
<1> QED
  BY <1>2 DEF HasRoom, WithinCeiling

\* A session's step leaves the others' creations and all contracts alone.
LEMMA CreationFrame ==
  ASSUME TypeOK, NEW s \in Creation, CreationStep(s)
  PROVE  /\ contract' = contract /\ month' = month
         /\ \A t \in Creation \ {s} : job'[t] = job[t] /\ step'[t] = step[t]
         /\ step[s] # "holding" => UNCHANGED <<used, slots>>
BY DEF CreationStep, Insert, Enforce, CommitCertificate, CommitSlot, Rollback, TypeOK, subscription,
       usage, Stop

\* What a commit counts, it counts where it has the lock.
LEMMA CommitCounts ==
  ASSUME TypeOK, NEW s \in Creation, job[s] # None, CreationStep(s), NEW o \in Org, o # job[s].org
  PROVE  slots'[o] = slots[o] /\ used'[o] = used[o]
<1>1. job[s].org \in Org
  BY Carried DEF Job
<1> QED
  BY <1>1 DEF CreationStep, Insert, Enforce, CommitCertificate, CommitSlot, Rollback, TypeOK, usage

LEMMA StepRoom == PlansInv /\ [Next]_vars => \A s \in Creation : Room(s)'
<1> SUFFICES ASSUME PlansInv, [Next]_vars, NEW s \in Creation PROVE Room(s)'
  OBVIOUS
<1>0. TypeOK /\ TypeOK' /\ Room(s) /\ (\A t \in Creation : Room(t))
  BY StepType DEF PlansInv
<1>1. ASSUME NEW a \in Admin, AdminStep(a) PROVE Room(s)'
  <2>1. UNCHANGED <<used, slots, job, step>>
    BY <1>0, <1>1, AdminFrame DEF Others
  <2>2. CASE step[s] = "holding"
    <3>1. job[s] \in Job /\ job[s].org \in Org
      BY <1>0, <2>2, Carried DEF Room, Job
    <3>2. Locked(job[s].org)
      BY <2>2 DEF Locked
    <3>3. contract'[job[s].org] = contract[job[s].org]
      BY <1>1, <3>1, <3>2, LockedContract
    <3>4. slots[job[s].org] <= slots[job[s].org]
      BY <1>0, <3>1 DEF TypeOK
    <3>5. HasRoom(job[s].org, job[s].table, job[s].began)'
      BY <1>0, <2>1, <2>2, <3>1, <3>3, <3>4, RoomKept DEF Room
    <3> QED
      BY <1>0, <2>1, <3>5 DEF Room
  <2>3. CASE step[s] # "holding"
    BY <1>0, <2>1, <2>3 DEF Room
  <2> QED
    BY <2>2, <2>3
<1>2. ASSUME NEW t \in Creation \ {s}, CreationStep(t) PROVE Room(s)'
  <2>1. /\ job'[s] = job[s] /\ step'[s] = step[s] /\ contract' = contract
        /\ step[t] # "holding" => UNCHANGED <<used, slots>>
    BY <1>0, <1>2, CreationFrame
  <2>2. CASE step[s] = "holding"
    <3>1. job[s] \in Job /\ job[s].org \in Org /\ job[s].began \in Month
      BY <1>0, <2>2, Carried DEF Room, Job
    <3>2. slots'[job[s].org] = slots[job[s].org] /\ used'[job[s].org] = used[job[s].org]
      <4>1. CASE step[t] = "holding"
        <5>1. job[t] # None /\ job[t].org # job[s].org
          BY <1>0, <2>2, <4>1 DEF Room
        <5> QED
          BY <1>0, <1>2, <3>1, <5>1, CommitCounts
      <4>2. CASE step[t] # "holding"
        BY <2>1, <4>2
      <4> QED
        BY <4>1, <4>2
    <3>3. slots'[job[s].org] <= slots[job[s].org]
      BY <1>0, <3>1, <3>2 DEF TypeOK
    <3>4. HasRoom(job[s].org, job[s].table, job[s].began)'
      BY <1>0, <2>1, <2>2, <3>1, <3>2, <3>3, RoomKept DEF Room
    <3>5. step'[t] = "holding" /\ job'[t].org = job[s].org => FALSE
      <4> SUFFICES ASSUME step'[t] = "holding", job'[t].org = job[s].org PROVE FALSE
        OBVIOUS
      <4>1. Locked(job[s].org)
        BY <2>2 DEF Locked
      <4>2. Enforce(t)
        BY <1>0, <1>2 DEF CreationStep, Insert, Enforce, CommitCertificate, CommitSlot, Rollback, Stop, TypeOK
      <4> QED
        BY <4>1, <4>2 DEF Enforce
    <3>6. \A q \in Creation : step'[q] = "holding" /\ job'[q].org = job'[s].org => s = q
      BY <1>0, <1>2, <2>1, <2>2, <3>5, CreationFrame DEF Room
    <3> QED
      BY <1>0, <2>1, <2>2, <3>4, <3>6 DEF Room
  <2>3. CASE step[s] # "holding"
    BY <1>0, <2>1, <2>3 DEF Room
  <2> QED
    BY <2>2, <2>3
<1>3. CASE CreationStep(s)
  <2>1. ASSUME NEW o \in Org, NEW table \in {"certificates", "slots"}, Insert(s, o, table) PROVE Room(s)'
    <3>1. step'[s] = "inserted" /\ job'[s] = [org |-> o, table |-> table, began |-> month]
      BY <1>0, <2>1 DEF Insert, TypeOK
    <3>2. job'[s] \in Job
      BY <1>0, <3>1 DEF Job, TypeOK
    <3> QED
      BY <3>1, <3>2, NothingElse DEF Room
  <2>2. CASE Enforce(s)
    <3>1. step'[s] = "holding" /\ UNCHANGED <<job, contract, used, slots>> /\ ~Locked(job[s].org)
      BY <1>0, <2>2 DEF Enforce, TypeOK, subscription, usage
    <3>2. HasRoom(job[s].org, job[s].table, job[s].began)'
      BY <2>2, <3>1 DEF Enforce, HasRoom
    <3>3. \A t \in Creation \ {s} : step'[t] = step[t]
      BY <1>0, <1>3, CreationFrame
    <3> QED
      BY <1>0, <2>2, <3>1, <3>2, <3>3 DEF Room, Enforce, Locked
  <2>3. CASE CommitCertificate(s) \/ CommitSlot(s) \/ Rollback(s)
    <3>1. step'[s] = "idle"
      BY <1>0, <2>3 DEF CommitCertificate, CommitSlot, Rollback, Stop, TypeOK
    <3> QED
      BY <3>1 DEF Room
  <2> QED
    BY <1>3, <2>1, <2>2, <2>3 DEF CreationStep
<1>4. ASSUME NEW o \in Org, Delete(o) PROVE Room(s)'
  <2>1. UNCHANGED <<contract, used, job, step>>
    BY <1>4 DEF Delete, subscription, creation
  <2>2. CASE step[s] = "holding"
    <3>1. job[s] \in Job /\ job[s].org \in Org
      BY <1>0, <2>2, Carried DEF Room, Job
    <3>2. slots'[job[s].org] <= slots[job[s].org]
      BY <1>0, <1>4, <3>1 DEF Delete, TypeOK
    <3>3. HasRoom(job[s].org, job[s].table, job[s].began)'
      BY <1>0, <2>1, <2>2, <3>1, <3>2, RoomKept DEF Room
    <3> QED
      BY <1>0, <2>1, <3>3 DEF Room
  <2>3. CASE step[s] # "holding"
    BY <1>0, <2>1, <2>3 DEF Room
  <2> QED
    BY <2>2, <2>3
<1>5. CASE NextMonth \/ UNCHANGED vars
  <2>1. UNCHANGED <<contract, used, slots, job, step>>
    BY <1>5 DEF NextMonth, vars, subscription, usage, creation
  <2> QED
    BY <1>0, <2>1 DEF Room, HasRoom
<1> QED
  BY <1>1, <1>2, <1>3, <1>4, <1>5, Steps DEF WorldStep

-----------------------------------------------------------------------------
(***************************************************************************)
(* The theorems.                                                           *)
(***************************************************************************)

LEMMA InitInv == Init => PlansInv
<1> SUFFICES ASSUME Init PROVE PlansInv
  OBVIOUS
<1>1. TypeOK
  <2>1. 1 \in Month
    BY PlansAssumption DEF Month, PlansAssumption
  <2>2. contract \in [Org -> Contract]
    BY PlansAssumption DEF Init, PlansAssumption
  <2> QED
    BY <2>1, <2>2 DEF Init, TypeOK
<1>2. RolesInv
  BY DEF Init, RolesInv, Turn
<1>3. \A a \in Admin : Carries(a) /\ Shown(a)
  BY DEF Init, Carries, Shown, Assigning
<1>4. \A s \in Creation : Room(s)
  BY DEF Init, Room
<1> QED
  BY <1>1, <1>2, <1>3, <1>4 DEF PlansInv

\* The invariant behind the theorems: who has a lock has it alone and may still
\* do what it checked, and every snapshot is current or of an earlier version.
THEOREM PlansInvariant == Spec => []PlansInv
<1>1. PlansInv /\ [Next]_vars => PlansInv'
  <2> SUFFICES ASSUME PlansInv, [Next]_vars PROVE PlansInv'
    OBVIOUS
  <2> QED
    BY StepType, StepRoles, StepCarries, StepShown, StepRoom DEF PlansInv
<1> QED
  BY InitInv, <1>1, PTL DEF Spec

\* Every state of the contracts, calls and creations is well typed.
THEOREM SubscriptionsTypeCorrect == Spec => []TypeOK
<1>1. PlansInv => TypeOK
  BY DEF PlansInv
<1> QED
  BY PlansInvariant, <1>1, PTL

\* However many administrators withdraw the role from each other at once
\* (phase1_set_platform_admin), one keeps it.
THEOREM AdministratorRemainsHolds == Spec => []AdministratorRemains
<1>1. PlansInv => AdministratorRemains
  BY DEF PlansInv, RolesInv, AdministratorRemains
<1> QED
  BY PlansInvariant, <1>1, PTL

\* A dashboard (BillingDashboard) never shows another organization's contract
\* than the selected one's.
THEOREM ShowsSelectedHolds == Spec => []ShowsSelected
<1>1. PlansInv => ShowsSelected
  BY DEF PlansInv, Shown, ShowsSelected
<1> QED
  BY PlansInvariant, <1>1, PTL

\* subscription_enforce admits nothing beyond the plan in force at the commit.
THEOREM WithinPlanHolds == Spec => WithinPlan
<1> DEFINE Within ==
      \A o \in Org :
       /\ slots'[o] > slots[o] =>
            contract[o].status = "active" /\ WithinCeiling(contract[o].plan, slots'[o])
       /\ \A m \in Month : used'[o][m] > used[o][m] =>
            contract[o].status = "active" /\ WithinCeiling(contract[o].plan, used'[o][m])
<1>1. PlansInv /\ [Next]_vars => Within
  <2> SUFFICES ASSUME PlansInv, [Next]_vars PROVE Within
    OBVIOUS
  <2>0. TypeOK /\ \A s \in Creation : Room(s)
    BY DEF PlansInv
  <2>1. ASSUME UNCHANGED <<used, slots>> PROVE Within
    BY <2>0, <2>1 DEF TypeOK
  <2>2. ASSUME NEW a \in Admin, AdminStep(a) PROVE Within
    BY <2>0, <2>1, <2>2, AdminFrame DEF Others
  <2>3. ASSUME NEW s \in Creation, CreationStep(s) PROVE Within
    <3>1. CASE CommitCertificate(s)
      <4> DEFINE k == job[s].org
                 n == job[s].began
      <4>1. /\ k \in Org /\ n \in Month /\ job[s].table = "certificates"
            /\ HasRoom(k, job[s].table, n)
        BY <2>0, <3>1, Carried DEF CommitCertificate, Room, Job
      <4>2. /\ contract[k].status = "active"
            /\ WithinCeiling(contract[k].plan, used[k][n] + 1)
        BY <4>1 DEF HasRoom
      <4> HIDE DEF k, n
      <4>3. /\ used' = [used EXCEPT ![k][n] = @ + 1] /\ slots' = slots
        BY <3>1 DEF CommitCertificate, k, n
      <4>4. used'[k][n] = used[k][n] + 1
        BY <2>0, <4>1, <4>3 DEF TypeOK
      <4>5. \A o \in Org, m \in Month : o # k \/ m # n => used'[o][m] = used[o][m]
        BY <2>0, <4>1, <4>3 DEF TypeOK
      <4> QED
        BY <2>0, <4>1, <4>2, <4>3, <4>4, <4>5 DEF TypeOK
    <3>2. CASE CommitSlot(s)
      <4> DEFINE k == job[s].org
      <4>1. k \in Org /\ job[s].table = "slots" /\ HasRoom(k, job[s].table, job[s].began)
        BY <2>0, <3>2, Carried DEF CommitSlot, Room, Job
      <4>2. contract[k].status = "active" /\ WithinCeiling(contract[k].plan, slots[k] + 1)
        BY <4>1 DEF HasRoom
      <4> HIDE DEF k
      <4>3. slots' = [slots EXCEPT ![k] = @ + 1] /\ used' = used
        BY <3>2 DEF CommitSlot, k
      <4> QED
        BY <2>0, <4>1, <4>2, <4>3 DEF TypeOK
    <3>3. CASE ~CommitCertificate(s) /\ ~CommitSlot(s)
      BY <2>1, <2>3, <3>3 DEF CreationStep, Insert, Enforce, Rollback, usage
    <3> QED
      BY <3>1, <3>2, <3>3
  <2>4. ASSUME NEW o \in Org, Delete(o) PROVE Within
    BY <2>0, <2>4 DEF Delete, TypeOK
  <2>5. CASE NextMonth \/ UNCHANGED vars
    BY <2>1, <2>5 DEF NextMonth, vars, usage
  <2> QED
    BY <2>2, <2>3, <2>4, <2>5, Steps DEF WorldStep
<1>2. PlansInv /\ [Next]_vars => [Within]_vars
  BY <1>1
<1> QED
  BY PlansInvariant, <1>2, PTL DEF Spec, WithinPlan

\* subscription_admin_action replaces only what the dashboard that submitted
\* the replacement had shown.
THEOREM ReplacesWhatWasShownHolds == Spec => ReplacesWhatWasShown
<1> DEFINE Replaces ==
      \A o \in Org : contract'[o] # contract[o] =>
       \E a \in Admin :
         /\ pc[a] = "assign" /\ pc'[a] = "snapshot"
         /\ post[a].org = o /\ post[a].seen = SnapshotOf(o)
<1>1. PlansInv /\ [Next]_vars => Replaces
  <2> SUFFICES ASSUME PlansInv, [Next]_vars, NEW o \in Org, contract'[o] # contract[o]
               PROVE  \E a \in Admin : /\ pc[a] = "assign" /\ pc'[a] = "snapshot"
                                        /\ post[a].org = o /\ post[a].seen = SnapshotOf(o)
    OBVIOUS
  <2>0. TypeOK
    BY DEF PlansInv
  <2>1. ~WorldStep
    BY WorldFrame DEF subscription
  <2>2. PICK a \in Admin : AdminStep(a)
    BY <2>1, Steps
  <2>3. Assign(a)
    BY <2>2 DEF AdminStep, Select, Serve, Show, Submit, Authorize, Reply, Fail, ChangeRole,
       CheckPermission, LockRoles, CommitRole, subscription
  <2>4. pc[a] = "assign" /\ pc'[a] = "snapshot"
    BY <2>0, <2>3 DEF Assign, Goto, TypeOK
  <2>5. post[a].org = o
    BY <2>0, <2>3 DEF Assign, TypeOK
  <2>6. post[a].seen.org = o /\ Current(post[a].seen) /\ post[a].seen.version = version[o]
    BY <2>3, <2>4, <2>5 DEF PlansInv, Shown, Assigning, Assign
  <2>7. post[a].seen = SnapshotOf(o)
    BY <2>6 DEF Current
  <2> QED
    BY <2>4, <2>5, <2>7
<1>2. PlansInv /\ [Next]_vars => [Replaces]_vars
  BY <1>1
<1> QED
  BY PlansInvariant, <1>2, PTL DEF Spec, ReplacesWhatWasShown

=============================================================================
