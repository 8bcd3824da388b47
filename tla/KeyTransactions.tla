--------------------------- MODULE KeyTransactions ---------------------------
(***************************************************************************)
(* The database transactions behind IssuerKeys, lock by lock.  Each one    *)
(* locks the row it changes, then the organization's DID row, rebuilds the *)
(* document from what is committed by then and from its own writes, and    *)
(* publishes both with its commit.  A credential insert locks the issuer   *)
(* and the organization for sharing and reads the key after that.          *)
(***************************************************************************)
EXTENDS Integers, Sequences, FiniteSets

CONSTANTS
  Issuer,
  MaxVersion,  \* bound on the versions of a key
  Tx,          \* database sessions
  Kind         \* the kinds of transactions they run

ASSUME VersionsAssumption == MaxVersion \in Nat \ {0}

\* An issuer's row is named by the issuer, the others by these strings.
ASSUME RowsAssumption == Issuer \cap {"org", "did", "key", "subscription"} = {}

VARIABLES
  orgActive,   \* organizations.status, committed
  issuer,      \* issuers.status, committed
  keyStatus,   \* issuer_keys.status, committed
  verifying,   \* assertionMethod of the committed DID document
  signing,     \* its authentication
  didActive,   \* organization_dids.status, committed
  job,         \* what each session is doing
  step,        \* locks its transaction has taken
  draft,       \* the document it has rebuilt, not committed yet
  named        \* the issuers it has locked by naming them in audit rows

Version == 1..MaxVersion
Key == Issuer \X Version

document == <<verifying, signing, didActive>>
tables == <<orgActive, issuer, keyStatus, document>>
sessions == <<job, step, draft, named>>
vars == <<tables, sessions>>

NoJob == [kind |-> "none"]

Job ==
  {j \in [kind : {"create"}, issuer : Issuer]
         \cup [kind : {"issuer"}, issuer : Issuer, status : {"active", "suspended"}]
         \cup [kind : {"organization", "rename"}, status : BOOLEAN]
         \cup [kind : {"save", "activate", "insert"}, issuer : Issuer, version : Version] :
     j.kind \in Kind}

Document == [verifying : SUBSET Key, signing : SUBSET Key, active : BOOLEAN]
NoDraft == [verifying |-> {}, signing |-> {}, active |-> FALSE]

Init ==
  /\ orgActive = TRUE /\ didActive = TRUE
  /\ issuer = [i \in Issuer |-> "none"]
  /\ keyStatus = [k \in Key |-> "none"]
  /\ verifying = {} /\ signing = {}
  /\ job = [t \in Tx |-> NoJob]
  /\ step = [t \in Tx |-> 0]
  /\ draft = [t \in Tx |-> NoDraft]
  /\ named = [t \in Tx |-> {}]

-----------------------------------------------------------------------------
(***************************************************************************)
(* Locks.  A plan is the rows a transaction locks, in order: its own       *)
(* issuer, the organization, its subscription, the DID; "key" is a read    *)
(* without a lock.  An audit row references the organization and locks it  *)
(* for key share; an update of a unique column, the slug, conflicts with   *)
(* that.  Under the lock of the DID, an audit row for every key that gains *)
(* or loses its method names that key's issuer and locks it for key share. *)
(***************************************************************************)

LockPlan ==
  [create       |-> << <<"org", "keyshare">>, <<"subscription", "update">>, <<"did", "update">> >>,
   issuer       |-> << <<"own", "nokey">>, <<"org", "keyshare">>, <<"did", "update">> >>,
   organization |-> << <<"org", "nokey">>, <<"did", "update">> >>,
   rename       |-> << <<"org", "update">>, <<"did", "update">> >>,
   save         |-> << <<"own", "update">>, <<"did", "update">>, <<"org", "keyshare">> >>,
   activate     |-> << <<"own", "update">>, <<"did", "update">>, <<"org", "keyshare">> >>,
   insert       |-> << <<"own", "share">>, <<"org", "share">>, <<"key", "read">>,
                      <<"subscription", "update">> >>]

\* Mutant of Plan: the activation takes the DID before the issuer.
PlanDidFirst ==
  [LockPlan EXCEPT !.activate = << <<"did", "update">>, <<"own", "update">>, <<"org", "keyshare">> >>]

\* Mutant of Plan: the insert reads its owners without locking them.
PlanUnlockedInsert ==
  [LockPlan EXCEPT !.insert = << <<"own", "read">>, <<"org", "read">>, <<"key", "read">>,
                                 <<"subscription", "update">> >>]

Plan == LockPlan

\* Postgres's row-level lock conflicts.
Conflict ==
  [read |-> {}, keyshare |-> {"update"}, share |-> {"nokey", "update"},
   nokey |-> {"share", "nokey", "update"}, update |-> {"keyshare", "share", "nokey", "update"}]

Running(t) == job[t] # NoJob
Steps(t) == Plan[job[t].kind]

\* The n-th lock of t, on the row it names.
LockAt(t, n) ==
  [row |-> IF Steps(t)[n][1] = "own" THEN job[t].issuer ELSE Steps(t)[n][1],
   mode |-> Steps(t)[n][2]]

\* The issuers of the keys whose methods t's document adds, activates or removes.
Changed(t) ==
  {k[1] : k \in (signing \ draft[t].signing) \cup (draft[t].signing \ signing)
                \cup (draft[t].verifying \ verifying)}

\* The issuers t has still to name in audit rows; its own it holds already.
Unnamed(t) ==
  IF Running(t) /\ \E n \in 1..step[t] : LockAt(t, n).row = "did"
  THEN Changed(t) \ (named[t] \cup IF job[t].kind \in {"organization", "rename"} THEN {}
                                   ELSE {job[t].issuer})
  ELSE {}

KeyShare(rows) == {[row |-> r, mode |-> "keyshare"] : r \in rows}

Held(t) ==
  IF Running(t) THEN {LockAt(t, n) : n \in 1..step[t]} \cup KeyShare(named[t]) ELSE {}

\* The locks t may be waiting for: the audit rows are written in the order of
\* the keys' ids, which may be any, so all their issuers count.
Awaited(t) ==
  IF Unnamed(t) # {} THEN KeyShare(Unnamed(t))
  ELSE IF Running(t) /\ step[t] < Len(Steps(t)) THEN {LockAt(t, step[t] + 1)} ELSE {}

\* The transactions that keep t from a lock.
Refusing(t, lock) ==
  {u \in Tx \ {t} : \E h \in Held(u) : h.row = lock.row /\ h.mode \in Conflict[lock.mode]}

Blockers(t) == UNION {Refusing(t, lock) : lock \in Awaited(t)}

\* A circle of sessions, each waiting for another of them.
Circle(S) == \A t \in S : Blockers(t) \cap S # {} /\ \E u \in S : t \in Blockers(u)

-----------------------------------------------------------------------------
(***************************************************************************)
(* What a transaction makes of the tables.                                 *)
(***************************************************************************)

IssuerAfter(j) ==
  IF j.kind = "create" THEN [issuer EXCEPT ![j.issuer] = "active"]
  ELSE IF j.kind = "issuer" THEN [issuer EXCEPT ![j.issuer] = j.status] ELSE issuer

OrgAfter(j) == IF j.kind \in {"organization", "rename"} THEN j.status ELSE orgActive

KeysAfter(j) ==
  IF j.kind = "create" THEN [keyStatus EXCEPT ![<<j.issuer, 1>>] = "active"]
  ELSE IF j.kind = "save" THEN [keyStatus EXCEPT ![<<j.issuer, j.version>>] = "pending"]
  ELSE IF j.kind = "activate"
  THEN [k \in Key |-> IF k = <<j.issuer, j.version>> THEN "active"
                      ELSE IF k[1] = j.issuer /\ keyStatus[k] = "active" THEN "retired"
                      ELSE keyStatus[k]]
  ELSE keyStatus

\* phase4_sync_methods and phase4_rebuild_document, on the tables as t sees them.
Rebuilt(j) ==
  [verifying |-> {k \in Key : KeysAfter(j)[k] \in {"active", "retired"}},
   signing |-> {k \in Key : KeysAfter(j)[k] = "active" /\ IssuerAfter(j)[k[1]] = "active"
                            /\ OrgAfter(j)},
   active |-> OrgAfter(j)]

IsNext(i, v) ==
  /\ \A w \in 1..v - 1 : keyStatus[<<i, w>>] # "none"
  /\ \A w \in v..MaxVersion : keyStatus[<<i, w>>] = "none"

\* What t requires of the row it has just locked; it fails otherwise.
Accepts(j, row) ==
  \/ /\ j.kind = "create"
     /\ issuer[j.issuer] = "none"
  \/ /\ j.kind = "issuer"
     /\ issuer[j.issuer] # "none"
  \/ j.kind \in {"organization", "rename"}
  \/ /\ j.kind = "save"
     /\ row = j.issuer => /\ issuer[j.issuer] = "active" /\ IsNext(j.issuer, j.version)
                          /\ \A v \in Version : keyStatus[<<j.issuer, v>>] # "pending"
  \/ /\ j.kind = "activate"
     /\ row = j.issuer => issuer[j.issuer] = "active"
     /\ row = "did" => didActive /\ keyStatus[<<j.issuer, j.version>>] = "pending"
  \/ /\ j.kind = "insert"
     /\ row = "org" => issuer[j.issuer] = "active" /\ orgActive
     /\ row = "key" => keyStatus[<<j.issuer, j.version>>] = "active"
                       /\ <<j.issuer, j.version>> \in signing

-----------------------------------------------------------------------------
(***************************************************************************)
(* Sessions.                                                               *)
(***************************************************************************)

\* Only a creation has something to read first: the organization, unlocked.
Begin(t, j) ==
  /\ ~Running(t)
  /\ j.kind = "create" =>
       /\ orgActive /\ issuer[j.issuer] = "none"
       /\ \A u \in Tx : ~(job[u].kind = "create" /\ job[u].issuer = j.issuer)  \* a new id
  /\ job' = [job EXCEPT ![t] = j]
  /\ UNCHANGED <<tables, step, draft, named>>

End(t) ==
  /\ job' = [job EXCEPT ![t] = NoJob]
  /\ step' = [step EXCEPT ![t] = 0]
  /\ draft' = [draft EXCEPT ![t] = NoDraft]
  /\ named' = [named EXCEPT ![t] = {}]

\* Mutant of Acquire: the document is rebuilt without waiting for the DID row.
AcquireBesides(t) ==
  /\ Running(t) /\ step[t] < Len(Steps(t)) /\ Unnamed(t) = {}
  /\ LET next == LockAt(t, step[t] + 1) IN
     /\ next.row # "did" => Blockers(t) = {}
     /\ IF Accepts(job[t], next.row)
          THEN /\ step' = [step EXCEPT ![t] = @ + 1]
               /\ draft' = IF next.row = "did" THEN [draft EXCEPT ![t] = Rebuilt(job[t])] ELSE draft
               /\ UNCHANGED <<job, named>>
          ELSE End(t)
  /\ UNCHANGED tables

\* One lock is granted, and what it protects is checked, or the document rebuilt
\* from it; a transaction whose check fails is rolled back.
Acquire(t) ==
  /\ Running(t) /\ step[t] < Len(Steps(t)) /\ Unnamed(t) = {} /\ Blockers(t) = {}
  /\ LET next == LockAt(t, step[t] + 1) IN
     IF Accepts(job[t], next.row)
       THEN /\ step' = [step EXCEPT ![t] = @ + 1]
            /\ draft' = IF next.row = "did" THEN [draft EXCEPT ![t] = Rebuilt(job[t])] ELSE draft
            /\ UNCHANGED <<job, named>>
       ELSE End(t)
  /\ UNCHANGED tables

\* An audit row names an issuer whose key gains or loses its method.
Audit(t) ==
  /\ \E i \in Unnamed(t) :
       /\ Refusing(t, [row |-> i, mode |-> "keyshare"]) = {}
       /\ named' = [named EXCEPT ![t] = @ \cup {i}]
  /\ UNCHANGED <<tables, job, step, draft>>

\* The rows and the document become visible together.
Commit(t) ==
  /\ Running(t) /\ step[t] = Len(Steps(t)) /\ Unnamed(t) = {}
  /\ issuer' = IssuerAfter(job[t])
  /\ orgActive' = OrgAfter(job[t])
  /\ keyStatus' = KeysAfter(job[t])
  /\ IF job[t].kind = "insert" THEN UNCHANGED document
     ELSE /\ verifying' = draft[t].verifying
          /\ signing' = draft[t].signing
          /\ didActive' = draft[t].active
  /\ End(t)

\* A statement fails or the connection is lost.
Cancel(t) ==
  /\ Running(t)
  /\ End(t)
  /\ UNCHANGED tables

\* Postgres rolls back a transaction that waits for itself.
BreakDeadlock(t) ==
  /\ \E S \in SUBSET Tx : t \in S /\ Circle(S)
  /\ End(t)
  /\ UNCHANGED tables

Next ==
  \E t \in Tx :
    \/ \E j \in Job : Begin(t, j)
    \/ Acquire(t) \/ Audit(t) \/ Commit(t) \/ Cancel(t) \/ BreakDeadlock(t)

Spec == Init /\ [][Next]_vars

-----------------------------------------------------------------------------
(***************************************************************************)
(* Properties.                                                             *)
(***************************************************************************)

\* Whatever transactions overlap, every committed state shows the document its
\* keys and owners call for, and keys only advance.
Identity == INSTANCE ManagedIdentity WITH active <- {i \in Issuer : issuer[i] = "active"}

ImplementsIdentity == Identity!Spec

\* A credential is committed while the key it was signed with still signs: no
\* rotation, suspension or disabling commits between its checks and its commit.
InsertsUnderSigner ==
  [][\A t \in Tx : job[t].kind = "insert" /\ Commit(t) => <<job[t].issuer, job[t].version>> \in signing]_vars

\* Transactions wait for each other in a circle only if one of them changes the
\* slug together with the status, or one disables or restores the organization,
\* and names its issuers in audit rows, while another saves or activates a key of
\* such an issuer: all others take their rows in one order.
DeadlocksNeedOrganization ==
  \A S \in (SUBSET Tx) \ {{}} : Circle(S) =>
    \/ \E t \in S : job[t].kind = "rename"
    \/ \E t, u \in S : job[t].kind = "organization" /\ job[u].kind \in {"save", "activate"}

=============================================================================
