-------------------------- MODULE OrganizationAdmin --------------------------
(***************************************************************************)
(* What the administrators of organizations do: they register Document     *)
(* Stores, have the server test them and switch issuance to one of them;   *)
(* and they invite the user of a new issuer.  Both are calls of several    *)
(* steps, in the database and outside it: a test asks the chain between    *)
(* two transactions and is rate limited, an invitation reserves rows, asks *)
(* the provider of logins and links what it created.  A call may end after *)
(* any step, others run in between, and meanwhile administrators lose      *)
(* their role, organizations are suspended and contracts change.           *)
(***************************************************************************)
EXTENDS Integers, FiniteSets

CONSTANTS
  Org,       \* organizations
  Actor,     \* users who call
  Platform,  \* those of them who are platform administrators
  Address,   \* contract addresses
  Details,   \* what an invitation may ask for: organization, issuer code and email
  Session,   \* processes that serve calls
  Limit,     \* tests of an organization's stores within a window (10)
  Window,    \* the length of that window (5 minutes)
  Recent,    \* the age up to which a test counts for activation (10 minutes)
  None,      \* no store, no login, no call
  MaxTime,   \* bound: the last moment
  MaxCalls   \* bound: calls begun and changes of the world around them

Time == 0..MaxTime
Email == {d.email : d \in Details}

Store == [org : Org, status : {"pending", "inactive", "active"}, approved : BOOLEAN,
          connection : {"untested", "ok", "error"}, checked : Time]

\* A counted attempt, under the time its transaction began.
Attempt == [org : Org, at : Time, id : Nat]

ASSUME BoundsAssumption ==
  /\ Limit \in Nat /\ Window \in Nat /\ Recent \in Nat /\ MaxTime \in Nat /\ MaxCalls \in Nat

ASSUME DetailsAssumption == /\ Platform \subseteq Actor
                            /\ \A d \in Details : d.org \in Org

VARIABLES
  active,    \* the organizations that are active
  admins,    \* who administers which organization
  contract,  \* the contracts that grant the server's wallet both roles
  stores,    \* organization_document_stores
  attempts,  \* auth_rate_limits of the tests
  reserved,  \* the details an issuer, a key and a profile were created for
  login,     \* how the provider came to have a login for an email
  linked,    \* the emails whose profile is linked to that login
  call,      \* what each session is doing
  now,       \* the clock
  calls      \* calls begun and changes of the world so far

around == <<active, admins, contract, now>>
database == <<stores, attempts, reserved, linked>>
vars == <<around, database, login, call, calls>>

\* A call that acts on a store or on details; the transactions of a test begin
\* between the end of the step before, since, and their own.
Call == [actor : Actor, org : Org, since : Time, probe : BOOLEAN,
         kind : {"add", "approve", "test", "activate", "deactivate", "invite"},
         target : Address \cup Details,
         step : {"count", "probe", "record", "act", "look", "insert", "invite", "link"}]

ASSUME NoneAssumption == None \notin Store \cup Call \cup {"invited", "own"}

\* Stores that were registered and approved before, and never tested.
Approved == [org : Org, status : {"inactive"}, approved : {TRUE},
             connection : {"untested"}, checked : {0}]

Init ==
  /\ active = Org /\ admins \in SUBSET (Actor \X Org)
  /\ contract = Address /\ now = 0 /\ calls = 0
  /\ stores \in [Address -> {None} \cup Approved] /\ attempts = {} /\ reserved = {} /\ linked = {}
  /\ login = [e \in Email |-> None] /\ call = [s \in Session |-> None]

Begin == calls < MaxCalls /\ calls' = calls + 1

-----------------------------------------------------------------------------
(* Calls.                                                                  *)

\* A session of the web application, and the same check inside the functions.
Manages(actor, org) ==
  actor \in Platform \/ (<<actor, org>> \in admins /\ org \in active)

\* organization_store_action, phase3_actor_can_manage: the actor is looked up again.
MayAct(s) == Manages(call[s].actor, call[s].org)

At(s, step) == call[s] # None /\ call[s].step = step

Goes(s, step) == call' = [call EXCEPT ![s].step = step]

Waits(s, step) == call' = [call EXCEPT ![s].step = step, ![s].since = now]

Ends(s) == call' = [call EXCEPT ![s] = None]

\* The first step after the handler has authorized the call.
FirstStep(kind) == IF kind \in {"test", "activate"} THEN "count"
                   ELSE IF kind = "invite" THEN "look" ELSE "act"

Authorize(s, actor, org, kind, target) ==
  /\ call[s] = None /\ Begin /\ Manages(actor, org)
  /\ kind = "approve" => actor \in Platform
  /\ IF kind = "invite" THEN target \in Details /\ target.org = org ELSE target \in Address
  /\ call' = [call EXCEPT ![s] = [actor |-> actor, org |-> org, probe |-> FALSE,
                since |-> IF FirstStep(kind) = "count" THEN now ELSE 0,
                kind |-> kind, target |-> target, step |-> FirstStep(kind)]]
  /\ UNCHANGED <<around, database, login>>

\* Any step may fail, and the browser or the process may be gone.
Abandon(s) == call[s] # None /\ Ends(s) /\ UNCHANGED <<around, database, login, calls>>

-----------------------------------------------------------------------------
(* Document Stores.                                                        *)

\* The attempts of an organization later than a moment, up to another.
Within(org, from, to) == {x \in attempts : x.org = org /\ from < x.at /\ x.at <= to}

\* Mutant of Counted: only attempts up to the beginning of this one are counted.
CountedBefore(org, began) == Within(org, began - Window, began)

\* What enforce_auth_rate_limit counts: everything later than a window ago, by a
\* clock that stopped when its transaction began.
Counted(org, began) == {x \in attempts : x.org = org /\ x.at > began - Window}

\* enforce_auth_rate_limit, serialized by its advisory lock.
Count(s, began) ==
  LET c == call[s]
  IN  /\ At(s, "count")
      /\ IF Cardinality(Counted(c.org, began)) >= Limit
         THEN Ends(s) /\ UNCHANGED attempts
         ELSE /\ attempts' = attempts \cup {[org |-> c.org, at |-> began,
                                            id |-> Cardinality(attempts) + 1]}
              /\ call' = [call EXCEPT ![s].step = "probe", ![s].since = 0]
      /\ UNCHANGED <<around, stores, reserved, linked, login, calls>>

Owns(s) == stores[call[s].target] # None /\ stores[call[s].target].org = call[s].org

\* testDocumentStoreConnection, outside any transaction and with a deadline.
Probe(s, good) ==
  /\ At(s, "probe")
  /\ good => call[s].target \in contract
  /\ IF Owns(s)
     THEN call' = [call EXCEPT ![s].probe = good, ![s].step = "record", ![s].since = now]
     ELSE Ends(s)
  /\ UNCHANGED <<around, database, login, calls>>

\* Mutant of AfterTest: a failed test does not end the activation.
AfterTestAnyway(s) == IF call[s].kind = "activate" THEN Waits(s, "act") ELSE Ends(s)

\* test throws when the probe failed, which ends activate too.
AfterTest(s) == IF call[s].kind = "activate" /\ call[s].probe THEN Waits(s, "act") ELSE Ends(s)

\* The action "test" of organization_store_action.
Record(s, began) ==
  LET c == call[s]
  IN  /\ At(s, "record")
      /\ IF MayAct(s) /\ Owns(s)
         THEN /\ stores' = [stores EXCEPT ![c.target].checked = began,
                              ![c.target].connection = IF c.probe THEN "ok" ELSE "error"]
              /\ AfterTest(s)
         ELSE Ends(s) /\ UNCHANGED stores
      /\ UNCHANGED <<around, attempts, reserved, linked, login, calls>>

Acts(s, kind) == At(s, "act") /\ call[s].kind = kind /\ MayAct(s)

Does(s) == /\ Ends(s)
           /\ UNCHANGED <<around, attempts, reserved, linked, login, calls>>

\* A contract is registered once, whoever claims it first.
Add(s) ==
  /\ Acts(s, "add") /\ stores[call[s].target] = None
  /\ stores' = [stores EXCEPT ![call[s].target] =
       [org |-> call[s].org, status |-> "pending", approved |-> FALSE,
        connection |-> "untested", checked |-> 0]]
  /\ Does(s)

Approve(s) ==
  LET old == stores[call[s].target]
  IN  /\ Acts(s, "approve") /\ call[s].actor \in Platform /\ Owns(s)
      /\ stores' = [stores EXCEPT ![call[s].target].approved = TRUE,
                      ![call[s].target].status = IF old.status = "pending" THEN "inactive" ELSE @]
      /\ Does(s)

\* Both updates of the action "activate", under the lock of the organization.
Switched(org, address) ==
  [a \in Address |-> IF a = address THEN [stores[a] EXCEPT !.status = "active"]
                     ELSE IF stores[a] # None /\ stores[a].org = org /\ stores[a].status = "active"
                     THEN [stores[a] EXCEPT !.status = "inactive"] ELSE stores[a]]

Activate(s, began) ==
  LET c == call[s]
      store == stores[c.target]
  IN  /\ Acts(s, "activate") /\ Owns(s) /\ c.org \in active
      /\ store.approved /\ store.connection = "ok" /\ store.checked >= began - Recent
      /\ stores' = Switched(c.org, c.target)
      /\ Does(s)

Deactivate(s) ==
  LET old == stores[call[s].target]
  IN  /\ Acts(s, "deactivate") /\ Owns(s)
      /\ stores' = [stores EXCEPT ![call[s].target].status =
                      IF old.approved THEN "inactive" ELSE "pending"]
      /\ Does(s)

-----------------------------------------------------------------------------
(* Invitations.                                                            *)

\* The issuer code of an organization and the email of a user are unique.
Overlaps(d, r) == (d.org = r.org /\ d.slug = r.slug) \/ d.email = r.email

Taken(d) == \E r \in reserved : Overlaps(d, r)

\* phase3_prepare_invitation looks for the issuer and the profile: either both
\* are from an unfinished invitation with the same details, or neither exists.
Look(s) ==
  LET d == call[s].target
  IN  /\ At(s, "look") /\ MayAct(s)
      /\ IF Taken(d)
         THEN IF d \in reserved /\ d.email \notin linked THEN Goes(s, "invite") ELSE Ends(s)
         ELSE Goes(s, "insert")
      /\ UNCHANGED <<around, database, login, calls>>

\* It asks for the actor once more and creates the issuer, its key and the
\* profile; rows that were inserted since it looked raise a unique violation.
Insert(s) ==
  LET d == call[s].target
  IN  /\ At(s, "insert")
      /\ IF Taken(d) \/ ~MayAct(s) THEN Ends(s) /\ UNCHANGED reserved
         ELSE Goes(s, "invite") /\ reserved' = reserved \cup {d}
      /\ UNCHANGED <<around, stores, attempts, linked, login, calls>>

\* Mutant of Invite: a login that is there already will do.
InviteAnyone(s, answered) ==
  LET e == call[s].target.email
  IN  /\ At(s, "invite")
      /\ IF answered THEN Goes(s, "link") ELSE Ends(s)
      /\ login' = IF login[e] = None THEN [login EXCEPT ![e] = "invited"] ELSE login
      /\ UNCHANGED <<around, database, calls>>

\* inviteUserByEmail creates a login, once; its answer may be lost.
Invite(s, answered) ==
  LET e == call[s].target.email
  IN  /\ At(s, "invite")
      /\ IF login[e] = None
         THEN /\ login' = [login EXCEPT ![e] = "invited"]
              /\ IF answered THEN Goes(s, "link") ELSE Ends(s)
         ELSE Ends(s) /\ UNCHANGED login
      /\ UNCHANGED <<around, database, calls>>

\* complete_issuer_invitation; even a platform administrator links nobody to an
\* organization that is not active.
Link(s) ==
  LET d == call[s].target
  IN  /\ At(s, "link") /\ Ends(s)
      /\ linked' = IF d \in reserved /\ d.email \notin linked /\ MayAct(s) /\ d.org \in active
                   THEN linked \cup {d.email} ELSE linked
      /\ UNCHANGED <<around, stores, attempts, reserved, login, calls>>

-----------------------------------------------------------------------------
(* The world around them.                                                  *)

Tick == now < MaxTime /\ now' = now + 1
        /\ UNCHANGED <<active, admins, contract, database, login, call, calls>>

\* A platform administrator suspends or restores an organization.
ChangeStatus(org) ==
  /\ Begin
  /\ active' = IF org \in active THEN active \ {org} ELSE active \cup {org}
  /\ UNCHANGED <<admins, contract, now, database, login, call>>

\* A member loses the role of administrator.
Dismiss(actor, org) ==
  /\ Begin /\ <<actor, org>> \in admins /\ admins' = admins \ {<<actor, org>>}
  /\ UNCHANGED <<active, contract, now, database, login, call>>

\* The owner of a contract withdraws a role from the server's wallet or grants it.
ChangeContract(a) ==
  /\ Begin
  /\ contract' = IF a \in contract THEN contract \ {a} ELSE contract \cup {a}
  /\ UNCHANGED <<active, admins, now, database, login, call>>

\* The provider gets a login that nobody was invited for.
OwnLogin(e) ==
  /\ Begin /\ login[e] = None /\ login' = [login EXCEPT ![e] = "own"]
  /\ UNCHANGED <<around, database, call>>

Began(s) == IF call[s] = None THEN {} ELSE call[s].since..now

Step(s) ==
  \/ Abandon(s)
  \/ \E began \in Began(s) : Count(s, began) \/ Record(s, began) \/ Activate(s, began)
  \/ \E good \in BOOLEAN : Probe(s, good)
  \/ Add(s) \/ Approve(s) \/ Deactivate(s)
  \/ Look(s) \/ Insert(s) \/ Link(s)
  \/ \E answered \in BOOLEAN : Invite(s, answered)

Next ==
  \/ \E s \in Session :
       \/ Step(s)
       \/ \E actor \in Actor, org \in Org :
            \/ \E a \in Address, kind \in {"add", "approve", "test", "activate", "deactivate"} :
                 Authorize(s, actor, org, kind, a)
            \/ \E d \in Details : Authorize(s, actor, org, "invite", d)
  \/ Tick
  \/ \E org \in Org : ChangeStatus(org) \/ \E actor \in Actor : Dismiss(actor, org)
  \/ \E a \in Address : ChangeContract(a)
  \/ \E e \in Email : OwnLogin(e)

Spec == Init /\ [][Next]_vars

-----------------------------------------------------------------------------
(* Properties.                                                             *)

\* Variables hold values of their types (the tables and calls of migrations 004,
\* 017 and 021).
TypeOK ==
  /\ active \subseteq Org /\ admins \subseteq Actor \X Org /\ contract \subseteq Address
  /\ stores \in [Address -> Store \cup {None}]
  /\ attempts \subseteq Attempt /\ reserved \subseteq Details /\ linked \subseteq Email
  /\ login \in [Email -> {"invited", "own", None}]
  /\ call \in [Session -> Call \cup {None}]
  /\ now \in Time /\ calls \in 0..MaxCalls

\* However attempts overlap and wait for the lock, no window holds more of them
\* than the limit, measured by the times they are stored under
\* (enforce_auth_rate_limit).
LimitHolds ==
  \A org \in Org, from \in -Window..MaxTime :
    Cardinality(Within(org, from, from + Window)) <= Limit

\* A store becomes the active one only in a call that probed the contract itself
\* and found it good, by an actor who at that moment administers its active
\* organization, after a platform administrator approved it and with no failed test
\* recorded since (organization_store_action and OrganizationDocumentStoreService).
ActivatedAfterGoodProbe ==
  [][\A a \in Address :
       LET before == stores[a]
           after == stores'[a]
       IN  after # None /\ after.status = "active" /\ before # None /\ before.status # "active" =>
             /\ before.approved /\ before.connection = "ok" /\ after.org \in active
             /\ \E s \in Session : /\ call[s] # None /\ call[s].kind = "activate"
                                   /\ call[s].target = a /\ call[s].probe /\ MayAct(s)]_vars

\* Issuance finds at most one store to use, and that one was approved and tested
\* (OrganizationDocumentStoreService.active).
OneActiveStore ==
  \A a, b \in Address :
    stores[a] # None /\ stores[a].status = "active" =>
      /\ stores[a].approved /\ stores[a].connection # "untested"
      /\ stores[b] # None /\ stores[b].status = "active" /\ stores[b].org = stores[a].org => a = b

\* An issuer code and an email belong to one reservation, and a profile is linked
\* to a login only if that was created by an invitation for it: retries, lost
\* answers and overlapping invitations never admit a login that existed before
\* (IssuerService.createWithInvitation).
LinkedWasInvited ==
  /\ \A d, r \in reserved : Overlaps(d, r) => d = r
  /\ \A e \in linked : login[e] = "invited" /\ \E d \in reserved : d.email = e

=============================================================================
