----------------------- MODULE KeyTransactionsProofs -----------------------
(***************************************************************************)
(* Theorems about KeyTransactions, for any number of sessions, issuers and *)
(* versions.  What a transaction was told about a row stays true while it  *)
(* holds the row, because no two sessions hold conflicting locks; so what  *)
(* it has rebuilt under the lock of the DID row is the document of the     *)
(* tables that its commit leaves behind.                                   *)
(***************************************************************************)
EXTENDS KeyTransactions, TLAPS

KeyStatus == {"none", "pending", "active", "retired"}

TypeOK ==
  /\ orgActive \in BOOLEAN /\ didActive \in BOOLEAN
  /\ issuer \in [Issuer -> {"none", "active", "suspended"}]
  /\ keyStatus \in [Key -> KeyStatus]
  /\ verifying \subseteq Key /\ signing \subseteq Key
  /\ job \in [Tx -> Job \cup {NoJob}]
  /\ step \in [Tx -> Nat]
  /\ draft \in [Tx -> Document]
  /\ named \in [Tx -> SUBSET Issuer]
  /\ \A t \in Tx : step[t] <= IF Running(t) THEN Len(Steps(t)) ELSE 0

\* The locks that two sessions hold on a row go together.
LocksCompatible ==
  \A t, u \in Tx : t # u =>
    \A g \in Held(t), h \in Held(u) : g.row = h.row => h.mode \notin Conflict[g.mode]

\* The rows a transaction has locked: its issuer's, the organization's, its
\* subscription's, the DID's.
IsKind(t, kinds) == job[t].kind \in kinds
HasOwn(t) == IsKind(t, {"issuer", "save", "activate", "insert"}) /\ step[t] >= 1
HasDid(t) ==
  \/ IsKind(t, {"organization", "rename", "save", "activate"}) /\ step[t] >= 2
  \/ IsKind(t, {"create", "issuer"}) /\ step[t] >= 3
HasSubscription(t) ==
  \/ IsKind(t, {"create"}) /\ step[t] >= 2
  \/ IsKind(t, {"insert"}) /\ step[t] >= 4
HasOrg(t) ==
  \/ IsKind(t, {"create", "organization", "rename"}) /\ step[t] >= 1
  \/ IsKind(t, {"issuer", "insert"}) /\ step[t] >= 2
  \/ IsKind(t, {"save", "activate"}) /\ step[t] >= 3

\* How it has locked the first two.
OwnMode ==
  [issuer |-> "nokey", save |-> "update", activate |-> "update", insert |-> "share"]
OrgMode ==
  [create |-> "keyshare", issuer |-> "keyshare", save |-> "keyshare", activate |-> "keyshare",
   organization |-> "nokey", rename |-> "update", insert |-> "share"]

\* What a transaction has rebuilt is still the document it is about to leave.
DraftsCurrent == \A t \in Tx : HasDid(t) => draft[t] = Rebuilt(job[t])

\* Audit rows name issuers under the lock of the DID only.
NamesUnderDid == \A t \in Tx : named[t] # {} => HasDid(t)

\* What a transaction has required of its rows still holds.
Required(t) ==
  LET j == job[t] IN
  /\ IsKind(t, {"create"}) => issuer[j.issuer] = "none"
  /\ IsKind(t, {"issuer"}) /\ step[t] >= 1 => issuer[j.issuer] # "none"
  /\ IsKind(t, {"save"}) /\ step[t] >= 1 =>
       issuer[j.issuer] = "active" /\ IsNext(j.issuer, j.version)
  /\ IsKind(t, {"activate"}) /\ step[t] >= 1 => issuer[j.issuer] = "active"
  /\ IsKind(t, {"activate"}) /\ step[t] >= 2 => keyStatus[<<j.issuer, j.version>>] = "pending"
  /\ IsKind(t, {"insert"}) /\ step[t] >= 2 => issuer[j.issuer] = "active" /\ orgActive
  /\ IsKind(t, {"insert"}) /\ step[t] >= 3 => keyStatus[<<j.issuer, j.version>>] = "active"
AllRequired == \A t \in Tx : Required(t)

\* No two transactions create the same issuer.
CreatesDiffer == \A t, u \in Tx :
  t # u /\ IsKind(t, {"create"}) /\ IsKind(u, {"create"}) => job[t].issuer # job[u].issuer

\* The committed document is the one that the committed tables call for.
Published ==
  /\ verifying = {k \in Key : keyStatus[k] \in {"active", "retired"}}
  /\ signing = {k \in Key : keyStatus[k] = "active" /\ issuer[k[1]] = "active" /\ orgActive}
  /\ didActive = orgActive

\* Every issuer there is signs with one key, and only issuers there are have any.
OneSignerOf(i) ==
  /\ IF issuer[i] = "none" THEN \A v \in Version : keyStatus[<<i, v>>] = "none"
     ELSE \E v \in Version : keyStatus[<<i, v>>] = "active"
  /\ \A v, w \in Version :
       keyStatus[<<i, v>>] = "active" /\ keyStatus[<<i, w>>] = "active" => v = w
OneSigner == \A i \in Issuer : OneSignerOf(i)

TransactionsInv ==
  /\ TypeOK /\ LocksCompatible /\ DraftsCurrent /\ NamesUnderDid /\ AllRequired /\ CreatesDiffer
  /\ Published /\ OneSigner

-----------------------------------------------------------------------------
(***************************************************************************)
(* Lemmas about locks.                                                     *)
(***************************************************************************)

\* The rows are told apart by their names.
LEMMA RowNames ==
  \A i \in Issuer : i # "org" /\ i # "did" /\ i # "key" /\ i # "subscription"
BY RowsAssumption

\* What each session may be doing.
LEMMA Jobs ==
  ASSUME NEW j \in Job
  PROVE  /\ j.kind \in {"create", "issuer", "organization", "rename", "save", "activate", "insert"}
         /\ j # NoJob
         /\ j.kind \in {"create", "issuer", "save", "activate", "insert"} => j.issuer \in Issuer
         /\ j.kind \in {"save", "activate", "insert"} => j.version \in Version
         /\ j.kind = "issuer" => j.status \in {"active", "suspended"}
         /\ j.kind \in {"organization", "rename"} => j.status \in BOOLEAN
BY DEF Job, NoJob

\* The plans, one lock at a time.
LEMMA Plans ==
  ASSUME NEW t \in Tx, job[t] \in Job
  PROVE  /\ IsKind(t, {"create"}) =>
              /\ Len(Steps(t)) = 3
              /\ LockAt(t, 1) = [row |-> "org", mode |-> "keyshare"]
              /\ LockAt(t, 2) = [row |-> "subscription", mode |-> "update"]
              /\ LockAt(t, 3) = [row |-> "did", mode |-> "update"]
         /\ IsKind(t, {"issuer"}) =>
              /\ Len(Steps(t)) = 3
              /\ LockAt(t, 1) = [row |-> job[t].issuer, mode |-> "nokey"]
              /\ LockAt(t, 2) = [row |-> "org", mode |-> "keyshare"]
              /\ LockAt(t, 3) = [row |-> "did", mode |-> "update"]
         /\ IsKind(t, {"organization"}) =>
              /\ Len(Steps(t)) = 2
              /\ LockAt(t, 1) = [row |-> "org", mode |-> "nokey"]
              /\ LockAt(t, 2) = [row |-> "did", mode |-> "update"]
         /\ IsKind(t, {"rename"}) =>
              /\ Len(Steps(t)) = 2
              /\ LockAt(t, 1) = [row |-> "org", mode |-> "update"]
              /\ LockAt(t, 2) = [row |-> "did", mode |-> "update"]
         /\ IsKind(t, {"save", "activate"}) =>
              /\ Len(Steps(t)) = 3
              /\ LockAt(t, 1) = [row |-> job[t].issuer, mode |-> "update"]
              /\ LockAt(t, 2) = [row |-> "did", mode |-> "update"]
              /\ LockAt(t, 3) = [row |-> "org", mode |-> "keyshare"]
         /\ IsKind(t, {"insert"}) =>
              /\ Len(Steps(t)) = 4
              /\ LockAt(t, 1) = [row |-> job[t].issuer, mode |-> "share"]
              /\ LockAt(t, 2) = [row |-> "org", mode |-> "share"]
              /\ LockAt(t, 3) = [row |-> "key", mode |-> "read"]
              /\ LockAt(t, 4) = [row |-> "subscription", mode |-> "update"]
<1> USE DEF IsKind, Steps, LockAt, Plan, LockPlan
<1>1. CASE job[t].kind = "create"
  BY <1>1
<1>2. CASE job[t].kind = "issuer"
  BY <1>2
<1>3. CASE job[t].kind = "organization"
  BY <1>3
<1>4. CASE job[t].kind = "rename"
  BY <1>4
<1>5. CASE job[t].kind = "save"
  BY <1>5
<1>6. CASE job[t].kind = "activate"
  BY <1>6
<1>7. CASE job[t].kind = "insert"
  BY <1>7
<1>. QED
  BY <1>1, <1>2, <1>3, <1>4, <1>5, <1>6, <1>7, Jobs

\* Where a transaction may stand in its plan.
LEMMA Places ==
  ASSUME TypeOK, NEW t \in Tx, Running(t), NEW n \in Nat, n <= Len(Steps(t))
  PROVE  /\ job[t] \in Job
         /\ IsKind(t, {"organization", "rename"}) => n \in {0, 1, 2}
         /\ IsKind(t, {"create", "issuer", "save", "activate"}) => n \in {0, 1, 2, 3}
         /\ IsKind(t, {"insert"}) => n \in {0, 1, 2, 3, 4}
<1>1. job[t] \in Job
  BY DEF TypeOK, Running
<1>2. /\ IsKind(t, {"organization", "rename"}) => Len(Steps(t)) = 2
      /\ IsKind(t, {"create", "issuer", "save", "activate"}) => Len(Steps(t)) = 3
      /\ IsKind(t, {"insert"}) => Len(Steps(t)) = 4
  BY <1>1, Plans DEF IsKind
<1>3. IsKind(t, {"organization", "rename"}) => n \in {0, 1, 2}
  <2>1. IsKind(t, {"organization", "rename"}) => n <= 2
    BY <1>2
  <2>. QED
    BY <2>1
<1>4. IsKind(t, {"create", "issuer", "save", "activate"}) => n \in {0, 1, 2, 3}
  <2>1. IsKind(t, {"create", "issuer", "save", "activate"}) => n <= 3
    BY <1>2
  <2>. QED
    BY <2>1
<1>5. IsKind(t, {"insert"}) => n \in {0, 1, 2, 3, 4}
  <2>1. IsKind(t, {"insert"}) => n <= 4
    BY <1>2
  <2>. QED
    BY <2>1
<1>. QED
  BY <1>1, <1>3, <1>4, <1>5

\* A lock that is held is one of the four, or on an issuer named, or no lock.
LEMMA HeldLocks ==
  ASSUME TypeOK, NEW t \in Tx, NEW h \in Held(t)
  PROVE  /\ Running(t) /\ job[t] \in Job
         /\ \/ HasOwn(t) /\ h.row = job[t].issuer /\ h.mode = OwnMode[job[t].kind]
            \/ HasOrg(t) /\ h.row = "org" /\ h.mode = OrgMode[job[t].kind]
            \/ HasSubscription(t) /\ h.row = "subscription" /\ h.mode = "update"
            \/ HasDid(t) /\ h.row = "did" /\ h.mode = "update"
            \/ h.row = "key" /\ h.mode = "read"
            \/ named[t] # {} /\ h.row \in Issuer /\ h.mode = "keyshare"
<1>1. Running(t) /\ job[t] \in Job
  BY DEF Held, Running, TypeOK
<1>2. CASE h \in KeyShare(named[t])
  BY <1>1, <1>2 DEF KeyShare, TypeOK
<1>3. ASSUME NEW n \in 1..step[t], h = LockAt(t, n)
      PROVE  \/ HasOwn(t) /\ h.row = job[t].issuer /\ h.mode = OwnMode[job[t].kind]
             \/ HasOrg(t) /\ h.row = "org" /\ h.mode = OrgMode[job[t].kind]
             \/ HasSubscription(t) /\ h.row = "subscription" /\ h.mode = "update"
             \/ HasDid(t) /\ h.row = "did" /\ h.mode = "update"
             \/ h.row = "key" /\ h.mode = "read"
  <2>1. step[t] \in Nat /\ step[t] <= Len(Steps(t)) /\ n # 0
    BY <1>1, <1>3 DEF TypeOK
  <2>2. /\ IsKind(t, {"organization", "rename"}) => step[t] \in {0, 1, 2}
        /\ IsKind(t, {"create", "issuer", "save", "activate"}) => step[t] \in {0, 1, 2, 3}
        /\ IsKind(t, {"insert"}) => step[t] \in {0, 1, 2, 3, 4}
    BY <1>1, <2>1, Places
  <2>3. /\ IsKind(t, {"organization", "rename"}) => n \in {1, 2}
        /\ IsKind(t, {"create", "issuer", "save", "activate"}) => n \in {1, 2, 3}
        /\ IsKind(t, {"insert"}) => n \in {1, 2, 3, 4}
    BY <2>2
  <2> USE <1>1, <1>3, <2>2, <2>3, Plans
      DEF IsKind, HasOwn, HasOrg, HasDid, HasSubscription, OwnMode, OrgMode
  <2>4. CASE job[t].kind \in {"organization", "rename"}
    BY <2>4
  <2>5. CASE job[t].kind = "create"
    BY <2>5
  <2>6. CASE job[t].kind \in {"issuer", "save", "activate"}
    BY <2>6
  <2>7. CASE job[t].kind = "insert"
    BY <2>7
  <2>. QED
    BY <2>4, <2>5, <2>6, <2>7, Jobs
<1>. QED
  BY <1>1, <1>2, <1>3 DEF Held

\* A row that is locked is locked in the mode of the plan.
LEMMA LocksHeld ==
  ASSUME TypeOK, NEW t \in Tx
  PROVE  /\ HasOwn(t) => [row |-> job[t].issuer, mode |-> OwnMode[job[t].kind]] \in Held(t)
         /\ HasOrg(t) => [row |-> "org", mode |-> OrgMode[job[t].kind]] \in Held(t)
         /\ HasDid(t) => [row |-> "did", mode |-> "update"] \in Held(t)
<1>1. ASSUME Running(t)
      PROVE  job[t] \in Job /\ step[t] \in Nat /\ \A n \in 1..step[t] : LockAt(t, n) \in Held(t)
  BY <1>1 DEF TypeOK, Running, Held
<1>2. HasOwn(t) \/ HasOrg(t) \/ HasDid(t) => Running(t)
  BY DEF HasOwn, HasOrg, HasDid, IsKind, Running, NoJob
<1>3. step[t] \in Nat /\ (step[t] >= 1 => 1 \in 1..step[t]) /\ (step[t] >= 2 => 2 \in 1..step[t])
      /\ (step[t] >= 3 => 3 \in 1..step[t])
  BY DEF TypeOK
<1>4. HasOwn(t) => [row |-> job[t].issuer, mode |-> OwnMode[job[t].kind]] \in Held(t)
  BY <1>1, <1>2, <1>3, Plans DEF HasOwn, IsKind, OwnMode
<1>5. HasOrg(t) => [row |-> "org", mode |-> OrgMode[job[t].kind]] \in Held(t)
  BY <1>1, <1>2, <1>3, Plans DEF HasOrg, IsKind, OrgMode
<1>6. HasDid(t) => [row |-> "did", mode |-> "update"] \in Held(t)
  BY <1>1, <1>2, <1>3, Plans DEF HasDid, IsKind
<1>. QED
  BY <1>4, <1>5, <1>6

\* Of two sessions, one at most holds the row of the DID; and what they hold of
\* the organization or of the same issuer goes together.
LEMMA Exclusion ==
  ASSUME TypeOK, LocksCompatible, NEW t \in Tx, NEW u \in Tx, t # u
  PROVE  /\ ~(HasDid(t) /\ HasDid(u))
         /\ HasOrg(t) /\ HasOrg(u) => OrgMode[job[u].kind] \notin Conflict[OrgMode[job[t].kind]]
         /\ HasOwn(t) /\ HasOwn(u) /\ job[t].issuer = job[u].issuer =>
              OwnMode[job[u].kind] \notin Conflict[OwnMode[job[t].kind]]
<1>1. ~(HasDid(t) /\ HasDid(u))
  BY LocksHeld, "update" \in Conflict["update"] DEF LocksCompatible, Conflict
<1>2. HasOrg(t) /\ HasOrg(u) => OrgMode[job[u].kind] \notin Conflict[OrgMode[job[t].kind]]
  BY LocksHeld DEF LocksCompatible
<1>3. HasOwn(t) /\ HasOwn(u) /\ job[t].issuer = job[u].issuer =>
        OwnMode[job[u].kind] \notin Conflict[OwnMode[job[t].kind]]
  BY LocksHeld DEF LocksCompatible
<1>. QED
  BY <1>1, <1>2, <1>3

\* What a session neither does nor has changes is where it was.
LEMMA SameSession ==
  ASSUME NEW u \in Tx, job'[u] = job[u], step'[u] = step[u], named'[u] = named[u]
  PROVE  /\ Held(u)' = Held(u) /\ Running(u)' = Running(u) /\ Len(Steps(u))' = Len(Steps(u))
         /\ HasOwn(u)' = HasOwn(u) /\ HasOrg(u)' = HasOrg(u) /\ HasDid(u)' = HasDid(u)
BY DEF Held, KeyShare, Running, LockAt, Steps, HasOwn, HasOrg, HasDid, IsKind

\* A session that ends has nothing, and no other is touched.
LEMMA Ended ==
  ASSUME TypeOK, NEW t \in Tx, End(t)
  PROVE  /\ job'[t] = NoJob /\ step'[t] = 0 /\ draft'[t] = NoDraft /\ named'[t] = {}
         /\ \A u \in Tx \ {t} : job'[u] = job[u] /\ step'[u] = step[u] /\ draft'[u] = draft[u]
                               /\ named'[u] = named[u]
         /\ job' \in [Tx -> Job \cup {NoJob}] /\ step' \in [Tx -> Nat] /\ draft' \in [Tx -> Document]
         /\ named' \in [Tx -> SUBSET Issuer]
         /\ ~Running(t)' /\ Held(t)' = {}
<1>1. NoDraft \in Document
  BY DEF NoDraft, Document
<1>2. /\ job'[t] = NoJob /\ step'[t] = 0 /\ draft'[t] = NoDraft /\ named'[t] = {}
      /\ \A u \in Tx \ {t} : job'[u] = job[u] /\ step'[u] = step[u] /\ draft'[u] = draft[u]
                            /\ named'[u] = named[u]
      /\ job' \in [Tx -> Job \cup {NoJob}] /\ step' \in [Tx -> Nat] /\ draft' \in [Tx -> Document]
      /\ named' \in [Tx -> SUBSET Issuer]
  BY <1>1 DEF End, TypeOK
<1>. QED
  BY <1>2 DEF Running, Held

\* Of two locks that go together in one order, so they do in the other.
LEMMA ConflictSymmetry ==
  \A a, b \in {"read", "keyshare", "share", "nokey", "update"} :
    a \in Conflict[b] <=> b \in Conflict[a]
BY DEF Conflict

\* The next lock of a session that still has one to take.
LEMMA NextLock ==
  ASSUME TypeOK, NEW t \in Tx, Running(t), step[t] < Len(Steps(t))
  PROVE  /\ job[t] \in Job
         /\ IsKind(t, {"organization", "rename"}) => step[t] \in {0, 1}
         /\ IsKind(t, {"create", "issuer", "save", "activate"}) => step[t] \in {0, 1, 2}
         /\ IsKind(t, {"insert"}) => step[t] \in {0, 1, 2, 3}
<1>1. step[t] \in Nat /\ Len(Steps(t)) \in Nat
  BY Plans, Jobs DEF TypeOK, Running, IsKind
<1>2. step[t] + 1 \in Nat /\ step[t] + 1 <= Len(Steps(t))
  BY <1>1
<1>. QED
  BY <1>1, <1>2, Places

\* The modes that locks are held in.
LEMMA Modes ==
  ASSUME TypeOK, NEW t \in Tx
  PROVE  /\ \A h \in Held(t) : h.mode \in {"read", "keyshare", "share", "nokey", "update"}
         /\ Running(t) /\ step[t] < Len(Steps(t)) =>
              LockAt(t, step[t] + 1).mode \in {"read", "keyshare", "share", "nokey", "update"}
<1>1. ASSUME NEW h \in Held(t)
      PROVE  h.mode \in {"read", "keyshare", "share", "nokey", "update"}
  BY <1>1, HeldLocks, Jobs DEF HasOwn, HasOrg, IsKind, OwnMode, OrgMode
<1>2. ASSUME Running(t), step[t] < Len(Steps(t))
      PROVE  LockAt(t, step[t] + 1).mode \in {"read", "keyshare", "share", "nokey", "update"}
  <2> USE <1>2, NextLock, Plans DEF IsKind
  <2>1. CASE job[t].kind \in {"organization", "rename"}
    BY <2>1
  <2>2. CASE job[t].kind \in {"create", "issuer", "save", "activate"}
    BY <2>2
  <2>3. CASE job[t].kind = "insert"
    BY <2>3
  <2>. QED
    BY <2>1, <2>2, <2>3, Jobs
<1>. QED
  BY <1>1, <1>2

-----------------------------------------------------------------------------
(***************************************************************************)
(* Type correctness.                                                       *)
(***************************************************************************)

\* What a transaction makes of the tables is well typed.
LEMMA AfterTypes ==
  ASSUME TypeOK, NEW j \in Job
  PROVE  /\ IssuerAfter(j) \in [Issuer -> {"none", "active", "suspended"}]
         /\ OrgAfter(j) \in BOOLEAN
         /\ KeysAfter(j) \in [Key -> KeyStatus]
         /\ Rebuilt(j) \in Document
<1>1. IssuerAfter(j) \in [Issuer -> {"none", "active", "suspended"}]
  BY Jobs DEF IssuerAfter, TypeOK
<1>2. OrgAfter(j) \in BOOLEAN
  BY Jobs DEF OrgAfter, TypeOK
<1>3. KeysAfter(j) \in [Key -> KeyStatus]
  <2>1. 1 \in Version
    BY VersionsAssumption DEF Version
  <2>2. CASE j.kind = "create"
    BY <2>2 DEF KeysAfter, TypeOK, KeyStatus
  <2>3. CASE j.kind = "save"
    BY <2>3 DEF KeysAfter, TypeOK, KeyStatus
  <2>4. CASE j.kind = "activate"
    BY <2>4 DEF KeysAfter, TypeOK, KeyStatus
  <2>. QED
    BY <2>2, <2>3, <2>4 DEF KeysAfter, TypeOK
<1>. QED
  BY <1>1, <1>2, <1>3 DEF Rebuilt, Document

\* A session names issuers, and under the lock of the DID.
LEMMA UnnamedIssuers ==
  ASSUME TypeOK, NEW t \in Tx, NEW i \in Unnamed(t)
  PROVE  i \in Issuer /\ HasDid(t) /\ Running(t) /\ job[t] \in Job
<1>1. Running(t) /\ i \in Changed(t) /\ \E n \in 1..step[t] : LockAt(t, n).row = "did"
  BY DEF Unnamed
<1>2. i \in Issuer
  <2>1. draft[t].signing \subseteq Key /\ draft[t].verifying \subseteq Key
        /\ signing \subseteq Key /\ verifying \subseteq Key
    BY DEF TypeOK, Document
  <2>2. PICK k \in Key : i = k[1]
    BY <1>1, <2>1 DEF Changed
  <2>. QED
    BY <2>2 DEF Key
<1>3. PICK n \in 1..step[t] : LockAt(t, n).row = "did"
  BY <1>1
<1>4. LockAt(t, n) \in Held(t)
  BY <1>1, <1>3 DEF Held
<1>5. job[t] \in Job /\ (HasOwn(t) => job[t].issuer \in Issuer)
  BY <1>1, Jobs DEF TypeOK, Running, HasOwn, IsKind
<1>. QED
  BY <1>1, <1>2, <1>3, <1>4, <1>5, HeldLocks, RowNames

\* A session that is rolled back leaves well typed sessions.
LEMMA EndType ==
  ASSUME TypeOK, NEW t \in Tx, End(t), UNCHANGED tables
  PROVE  TypeOK'
<1>1. UNCHANGED <<orgActive, issuer, keyStatus, verifying, signing, didActive>>
  BY DEF tables, document
<1>2. \A u \in Tx : step'[u] <= IF Running(u)' THEN Len(Steps(u))' ELSE 0
  BY SMTT(60), Ended, SameSession DEF TypeOK
<1>. QED
  BY <1>1, <1>2, Ended DEF TypeOK

\* Every step keeps the types.
LEMMA StepType == TypeOK /\ [Next]_vars => TypeOK'
<1> SUFFICES ASSUME TypeOK, [Next]_vars PROVE TypeOK'
  OBVIOUS
<1>1. ASSUME NEW t \in Tx, NEW j \in Job, Begin(t, j) PROVE TypeOK'
  <2>1. UNCHANGED <<orgActive, issuer, keyStatus, verifying, signing, didActive, step, draft, named>>
    BY <1>1 DEF Begin, tables, document
  <2>2. job' \in [Tx -> Job \cup {NoJob}] /\ \A u \in Tx \ {t} : job'[u] = job[u]
    BY <1>1 DEF Begin, TypeOK
  <2>3. step[t] <= 0 /\ step[t] \in Nat /\ job'[t] = j
    BY <1>1 DEF Begin, TypeOK
  <2>4. Running(t)' /\ Len(Steps(t))' \in {2, 3, 4}
    BY <2>3, Plans, Jobs DEF Running, Steps, Plan, LockPlan
  <2>5. \A u \in Tx : step'[u] <= IF Running(u)' THEN Len(Steps(u))' ELSE 0
    BY <2>1, <2>2, <2>3, <2>4, SameSession DEF TypeOK
  <2>. QED
    BY <2>1, <2>2, <2>5 DEF TypeOK
<1>2. ASSUME NEW t \in Tx, Acquire(t) PROVE TypeOK'
  <2>1. CASE End(t)
    BY <1>2, <2>1, EndType DEF Acquire
  <2>2. CASE ~End(t)
    <3>1. /\ UNCHANGED <<orgActive, issuer, keyStatus, verifying, signing, didActive, job, named>>
          /\ step' = [step EXCEPT ![t] = @ + 1] /\ step[t] < Len(Steps(t)) /\ Running(t)
          /\ draft' \in {draft, [draft EXCEPT ![t] = Rebuilt(job[t])]}
      BY <1>2, <2>2 DEF Acquire, tables, document
    <3>2. Rebuilt(job[t]) \in Document
      BY <3>1, AfterTypes DEF TypeOK, Running
    <3>3. draft' \in [Tx -> Document] /\ step' \in [Tx -> Nat]
      <4>1. draft \in [Tx -> Document] /\ step \in [Tx -> Nat]
        BY DEF TypeOK
      <4>. QED
        BY <3>1, <3>2, <4>1
    <3>4. step[t] + 1 <= Len(Steps(t))
      <4>1. Len(Steps(t)) \in {2, 3, 4} /\ step[t] \in Nat
        BY <3>1, Plans, Jobs DEF TypeOK, Running, IsKind
      <4>. QED
        BY <4>1, <3>1
    <3>5. \A u \in Tx : step'[u] <= IF Running(u)' THEN Len(Steps(u))' ELSE 0
      BY <3>1, <3>4 DEF TypeOK, Running, Steps
    <3>. QED
      BY <3>1, <3>3, <3>5 DEF TypeOK
  <2>. QED
    BY <2>1, <2>2
<1>3. ASSUME NEW t \in Tx, Commit(t) PROVE TypeOK'
  <2>1. job[t] \in Job
    BY <1>3 DEF Commit, Running, TypeOK
  <2>2. draft[t].verifying \subseteq Key /\ draft[t].signing \subseteq Key
        /\ draft[t].active \in BOOLEAN
    BY DEF TypeOK, Document
  <2>3. verifying' \subseteq Key /\ signing' \subseteq Key /\ didActive' \in BOOLEAN
    BY <1>3, <2>2 DEF Commit, TypeOK, document
  <2>4. /\ orgActive' \in BOOLEAN
        /\ issuer' \in [Issuer -> {"none", "active", "suspended"}]
        /\ keyStatus' \in [Key -> KeyStatus]
    BY <1>3, <2>1, AfterTypes DEF Commit
  <2>5. \A u \in Tx : step'[u] <= IF Running(u)' THEN Len(Steps(u))' ELSE 0
    BY SMTT(60), <1>3, Ended, SameSession DEF TypeOK, Commit
  <2>. QED
    BY <1>3, <2>3, <2>4, <2>5, Ended DEF TypeOK, Commit
<1>4. ASSUME NEW t \in Tx, Cancel(t) \/ BreakDeadlock(t) PROVE TypeOK'
  BY <1>4, EndType DEF Cancel, BreakDeadlock
<1>5. CASE UNCHANGED vars
  <2>1. UNCHANGED <<orgActive, issuer, keyStatus, verifying, signing, didActive, job, step, draft, named>>
    BY <1>5 DEF vars, tables, document, sessions
  <2>. QED
    BY <2>1 DEF TypeOK, Running, Steps
<1>6. ASSUME NEW t \in Tx, Audit(t) PROVE TypeOK'
  <2>1. UNCHANGED <<orgActive, issuer, keyStatus, verifying, signing, didActive, job, step, draft>>
    BY <1>6 DEF Audit, tables, document
  <2>2. PICK i \in Unnamed(t) : named' = [named EXCEPT ![t] = @ \cup {i}]
    BY <1>6 DEF Audit
  <2>3. i \in Issuer
    BY <2>2, UnnamedIssuers
  <2>4. named' \in [Tx -> SUBSET Issuer]
    BY <2>2, <2>3 DEF TypeOK
  <2>5. \A u \in Tx : step'[u] <= IF Running(u)' THEN Len(Steps(u))' ELSE 0
    BY <2>1 DEF TypeOK, Running, Steps
  <2>. QED
    BY <2>1, <2>4, <2>5 DEF TypeOK
<1>. QED
  BY <1>1, <1>2, <1>3, <1>4, <1>5, <1>6 DEF Next

\* Every state of the sessions is well typed.
THEOREM TransactionsTypeCorrect == Spec => []TypeOK
<1>1. Init => TypeOK
  BY DEF Init, TypeOK, KeyStatus, Document, NoDraft, Running
<1>. QED
  BY <1>1, StepType, PTL DEF Spec

-----------------------------------------------------------------------------
(***************************************************************************)
(* Locks.                                                                  *)
(***************************************************************************)

\* What a session that was granted its next lock holds.
LEMMA Granted ==
  ASSUME TypeOK, NEW t \in Tx, Acquire(t), ~End(t)
  PROVE  /\ Accepts(job[t], LockAt(t, step[t] + 1).row)
         /\ Held(t)' = Held(t) \cup {LockAt(t, step[t] + 1)}
         /\ step'[t] = step[t] + 1 /\ job' = job /\ named' = named
         /\ \A u \in Tx \ {t} : step'[u] = step[u] /\ draft'[u] = draft[u]
         /\ draft'[t] = IF LockAt(t, step[t] + 1).row = "did" THEN Rebuilt(job[t]) ELSE draft[t]
<1>1. /\ Accepts(job[t], LockAt(t, step[t] + 1).row) /\ job' = job /\ named' = named
      /\ step' = [step EXCEPT ![t] = @ + 1]
      /\ draft' = IF LockAt(t, step[t] + 1).row = "did" THEN [draft EXCEPT ![t] = Rebuilt(job[t])]
                  ELSE draft
      /\ Running(t)
  BY DEF Acquire
<1>2. step \in [Tx -> Nat] /\ draft \in [Tx -> Document]
  BY DEF TypeOK
<1>3. step'[t] = step[t] + 1 /\ \A u \in Tx \ {t} : step'[u] = step[u] /\ draft'[u] = draft[u]
  BY <1>1, <1>2
<1>4. 1..step'[t] = 1..step[t] \cup {step[t] + 1}
  BY <1>2, <1>3
<1>5. /\ Held(t)' = {LockAt(t, n) : n \in 1..step'[t]} \cup KeyShare(named[t])
      /\ Held(t) = {LockAt(t, n) : n \in 1..step[t]} \cup KeyShare(named[t])
  BY <1>1 DEF Held, KeyShare, Running, LockAt, Steps
<1>. QED
  BY <1>1, <1>2, <1>3, <1>4, <1>5

\* A step that grants nothing leaves no new locks.
LEMMA LocksKept ==
  ASSUME LocksCompatible, \A t \in Tx : Held(t)' = Held(t) \/ Held(t)' = {}
  PROVE  LocksCompatible'
BY DEF LocksCompatible, Conflict

\* No step lets two sessions hold conflicting locks.
LEMMA StepLocks == TypeOK /\ LocksCompatible /\ NamesUnderDid /\ [Next]_vars => LocksCompatible'
<1> SUFFICES ASSUME TypeOK, LocksCompatible, NamesUnderDid, [Next]_vars PROVE LocksCompatible'
  OBVIOUS
<1>1. ASSUME NEW t \in Tx, NEW j \in Job, Begin(t, j) PROVE LocksCompatible'
  <2>1. step' = step /\ step[t] = 0 /\ named' = named /\ \A u \in Tx \ {t} : job'[u] = job[u]
    BY <1>1 DEF Begin, TypeOK
  <2>2. Held(t)' = {}
    <3>1. ~HasDid(t)
      BY <2>1 DEF HasDid
    <3>2. named[t] = {}
      BY <3>1 DEF NamesUnderDid
    <3>. QED
      BY <2>1, <3>2 DEF Held, KeyShare
  <2>. QED
    BY <2>1, <2>2, SameSession, LocksKept
<1>2. ASSUME NEW t \in Tx, End(t) PROVE LocksCompatible'
  BY <1>2, Ended, SameSession, LocksKept
<1>3. ASSUME NEW t \in Tx, Acquire(t), ~End(t) PROVE LocksCompatible'
  <2> DEFINE next == LockAt(t, step[t] + 1)
  <2>1. Held(t)' = Held(t) \cup {next} /\ \A u \in Tx \ {t} : Held(u)' = Held(u)
    BY <1>3, Granted, SameSession
  <2>2. Running(t) /\ step[t] < Len(Steps(t)) /\ Refusing(t, next) = {}
    <3>1. /\ Running(t) /\ step[t] < Len(Steps(t)) /\ Unnamed(t) = {}
          /\ UNION {Refusing(t, lock) : lock \in Awaited(t)} = {}
      BY <1>3 DEF Acquire, Blockers
    <3>2. next \in Awaited(t)
      BY <3>1 DEF Awaited
    <3>. HIDE DEF next
    <3>. QED
      BY <3>1, <3>2
  <2>3. ASSUME NEW u \in Tx \ {t}, NEW h \in Held(u), h.row = next.row
        PROVE  h.mode \notin Conflict[next.mode] /\ next.mode \notin Conflict[h.mode]
    <3>1. h.mode \notin Conflict[next.mode]
      BY <2>2, <2>3 DEF Refusing
    <3>. QED
      BY <3>1, <2>2, Modes, ConflictSymmetry
  <2>. HIDE DEF next
  <2>. QED
    BY <2>1, <2>3 DEF LocksCompatible, Conflict
<1>4. ASSUME NEW t \in Tx, Audit(t) PROVE LocksCompatible'
  <2>1. PICK i \in Unnamed(t) : /\ Refusing(t, [row |-> i, mode |-> "keyshare"]) = {}
                               /\ named' = [named EXCEPT ![t] = @ \cup {i}]
    BY <1>4 DEF Audit
  <2> DEFINE lock == [row |-> i, mode |-> "keyshare"]
  <2>2. /\ job' = job /\ step' = step /\ named'[t] = named[t] \cup {i}
        /\ \A u \in Tx \ {t} : named'[u] = named[u]
    BY <1>4, <2>1 DEF Audit, TypeOK
  <2>3. Held(t)' \subseteq Held(t) \cup {lock} /\ \A u \in Tx \ {t} : Held(u)' = Held(u)
    BY <2>2, SameSession DEF Held, KeyShare, Running, LockAt, Steps
  <2>4. ASSUME NEW u \in Tx \ {t}, NEW h \in Held(u), h.row = lock.row
        PROVE  h.mode \notin Conflict[lock.mode] /\ lock.mode \notin Conflict[h.mode]
    <3>1. h.mode \notin Conflict[lock.mode]
      BY <2>1, <2>4 DEF Refusing
    <3>2. lock.mode = "keyshare"
      OBVIOUS
    <3>. QED
      BY <3>1, <3>2, Modes, ConflictSymmetry
  <2>. HIDE DEF lock
  <2>. QED
    BY <2>3, <2>4 DEF LocksCompatible, Conflict
<1>5. CASE UNCHANGED vars
  BY <1>5, SameSession, LocksKept DEF vars, sessions
<1>. QED
  BY <1>1, <1>2, <1>3, <1>4, <1>5 DEF Next, Commit, Cancel, BreakDeadlock

-----------------------------------------------------------------------------
(***************************************************************************)
(* Steps that commit nothing.                                              *)
(***************************************************************************)

\* What a session that stays where it is has required and rebuilt stays true
\* with tables that stay as they are.
LEMMA UntouchedSession ==
  ASSUME UNCHANGED <<orgActive, issuer, keyStatus>>,
         NEW u \in Tx, job'[u] = job[u], step'[u] = step[u], draft'[u] = draft[u]
  PROVE  /\ Required(u) => Required(u)'
         /\ (HasDid(u) => draft[u] = Rebuilt(job[u])) => (HasDid(u)' => draft'[u] = Rebuilt(job[u])')
BY DEF Required, IsKind, IsNext, HasDid, Rebuilt, KeysAfter, IssuerAfter, OrgAfter

\* A session that does nothing has required and rebuilt nothing.
LEMMA IdleSession ==
  ASSUME NEW t \in Tx, job[t] = NoJob
  PROVE  Required(t) /\ ~HasDid(t)
BY DEF Required, HasDid, IsKind, NoJob

\* Tables that stay as they are stay published, and their issuers keep a signer.
LEMMA UntouchedTables ==
  ASSUME UNCHANGED tables, Published, OneSigner
  PROVE  Published' /\ OneSigner'
BY DEF tables, document, Published, OneSigner, OneSignerOf

\* A roll back.
LEMMA EndInv ==
  ASSUME TransactionsInv, NEW t \in Tx, End(t), UNCHANGED tables, TypeOK', LocksCompatible'
  PROVE  TransactionsInv'
<1>1. UNCHANGED <<orgActive, issuer, keyStatus>>
  BY DEF tables
<1>2. /\ job'[t] = NoJob /\ named'[t] = {}
      /\ \A u \in Tx \ {t} : job'[u] = job[u] /\ step'[u] = step[u] /\ draft'[u] = draft[u]
                            /\ named'[u] = named[u]
  BY Ended DEF TransactionsInv
<1>3. Required(t)' /\ ~HasDid(t)'
  BY <1>2 DEF Required, HasDid, IsKind, NoJob
<1>4. AllRequired' /\ DraftsCurrent'
  <2>1. ASSUME NEW u \in Tx \ {t}
        PROVE  Required(u)' /\ (HasDid(u)' => draft'[u] = Rebuilt(job[u])')
    BY <1>1, <1>2, UntouchedSession DEF TransactionsInv, AllRequired, DraftsCurrent
  <2>. QED
    BY <1>3, <2>1 DEF AllRequired, DraftsCurrent
<1>5. CreatesDiffer'
  BY <1>2 DEF TransactionsInv, CreatesDiffer, IsKind, NoJob
<1>6. NamesUnderDid'
  BY <1>2, SameSession DEF TransactionsInv, NamesUnderDid
<1>. QED
  BY <1>4, <1>5, <1>6, UntouchedTables DEF TransactionsInv

\* The start of a transaction.
LEMMA BeginInv ==
  ASSUME TransactionsInv, NEW t \in Tx, NEW j \in Job, Begin(t, j), TypeOK', LocksCompatible'
  PROVE  TransactionsInv'
<1>1. /\ UNCHANGED <<orgActive, issuer, keyStatus, step, draft, named>> /\ UNCHANGED tables
      /\ step[t] = 0 /\ job'[t] = j /\ \A u \in Tx \ {t} : job'[u] = job[u]
  BY DEF Begin, TransactionsInv, TypeOK, tables
<1>2. Required(t)' /\ ~HasDid(t)'
  BY <1>1 DEF Begin, Required, HasDid, IsKind
<1>3. AllRequired' /\ DraftsCurrent'
  <2>1. ASSUME NEW u \in Tx \ {t}
        PROVE  Required(u)' /\ (HasDid(u)' => draft'[u] = Rebuilt(job[u])')
    BY <1>1, UntouchedSession DEF TransactionsInv, AllRequired, DraftsCurrent
  <2>. QED
    BY <1>2, <2>1 DEF AllRequired, DraftsCurrent
<1>4. CreatesDiffer'
  BY <1>1 DEF Begin, TransactionsInv, CreatesDiffer, IsKind
<1>5. NamesUnderDid'
  <2>1. ~HasDid(t)
    BY <1>1 DEF HasDid
  <2>. QED
    BY <1>1, <2>1, SameSession DEF TransactionsInv, NamesUnderDid
<1>. QED
  BY <1>1, <1>3, <1>4, <1>5, UntouchedTables DEF TransactionsInv

\* What a session has just been granted is as it required it.
LEMMA GrantedRequired ==
  ASSUME TypeOK, NEW t \in Tx, Acquire(t), ~End(t), Required(t)
  PROVE  Required(t)'
<1>1. /\ Accepts(job[t], LockAt(t, step[t] + 1).row) /\ job'[t] = job[t] /\ step'[t] = step[t] + 1
      /\ UNCHANGED <<issuer, keyStatus, orgActive>>
  BY Granted DEF Acquire, tables
<1>2. /\ job[t] \in Job
      /\ IsKind(t, {"save", "activate"}) => step[t] \in {0, 1, 2}
      /\ IsKind(t, {"insert"}) => step[t] \in {0, 1, 2, 3}
  BY NextLock DEF Acquire, IsKind
<1> USE <1>1, <1>2, Plans DEF IsKind, Required, Accepts
<1>3. CASE job[t].kind \in {"create", "issuer", "organization", "rename"}
  BY <1>3
<1>4. CASE job[t].kind = "save"
  BY <1>4 DEF IsNext
<1>5. CASE job[t].kind = "activate"
  BY <1>5
<1>6. CASE job[t].kind = "insert"
  BY <1>6
<1>. QED
  BY <1>3, <1>4, <1>5, <1>6, Jobs

\* The document is rebuilt when the row of the DID is locked.
LEMMA GrantedDraft ==
  ASSUME TypeOK, NEW t \in Tx, Acquire(t), ~End(t), HasDid(t) => draft[t] = Rebuilt(job[t]), HasDid(t)'
  PROVE  draft'[t] = Rebuilt(job[t])'
<1>1. /\ draft'[t] = IF LockAt(t, step[t] + 1).row = "did" THEN Rebuilt(job[t]) ELSE draft[t]
      /\ job'[t] = job[t] /\ step'[t] = step[t] + 1
      /\ UNCHANGED <<issuer, keyStatus, orgActive>>
  BY Granted DEF Acquire, tables
<1>2. /\ job[t] \in Job
      /\ IsKind(t, {"organization", "rename"}) => step[t] \in {0, 1}
      /\ IsKind(t, {"create", "issuer", "save", "activate"}) => step[t] \in {0, 1, 2}
  BY NextLock DEF Acquire
<1>3. HasDid(t) \/ LockAt(t, step[t] + 1).row = "did"
  BY <1>1, <1>2, Plans DEF HasDid, IsKind
<1>4. Rebuilt(job[t])' = Rebuilt(job[t])
  BY <1>1 DEF Rebuilt, KeysAfter, IssuerAfter, OrgAfter
<1>. QED
  BY <1>1, <1>3, <1>4

\* A lock is granted.
LEMMA AcquireInv ==
  ASSUME TransactionsInv, NEW t \in Tx, Acquire(t), TypeOK', LocksCompatible'
  PROVE  TransactionsInv'
<1>1. CASE End(t)
  BY <1>1, EndInv DEF Acquire
<1>2. CASE ~End(t)
  <2>1. /\ UNCHANGED <<orgActive, issuer, keyStatus, named>> /\ UNCHANGED tables /\ job' = job
        /\ step'[t] = step[t] + 1 /\ step[t] \in Nat
        /\ \A u \in Tx \ {t} : step'[u] = step[u] /\ draft'[u] = draft[u]
    BY <1>2, Granted DEF TransactionsInv, TypeOK, Acquire, tables
  <2>2. Required(t)' /\ (HasDid(t)' => draft'[t] = Rebuilt(job[t])')
    BY <1>2, GrantedRequired, GrantedDraft DEF TransactionsInv, AllRequired, DraftsCurrent
  <2>3. ASSUME NEW u \in Tx \ {t}
        PROVE  Required(u)' /\ (HasDid(u)' => draft'[u] = Rebuilt(job[u])')
    BY <2>1, UntouchedSession DEF TransactionsInv, AllRequired, DraftsCurrent
  <2>4. AllRequired' /\ DraftsCurrent'
    BY <2>2, <2>3 DEF AllRequired, DraftsCurrent
  <2>5. CreatesDiffer'
    BY <2>1 DEF TransactionsInv, CreatesDiffer, IsKind
  <2>6. NamesUnderDid'
    <3>1. HasDid(t) => HasDid(t)'
      BY <2>1 DEF HasDid, IsKind
    <3>. QED
      BY <2>1, <3>1, SameSession DEF TransactionsInv, NamesUnderDid
  <2>. QED
    BY <2>1, <2>4, <2>5, <2>6, UntouchedTables DEF TransactionsInv
<1>. QED
  BY <1>1, <1>2

\* An issuer is named.
LEMMA AuditInv ==
  ASSUME TransactionsInv, NEW t \in Tx, Audit(t), TypeOK', LocksCompatible'
  PROVE  TransactionsInv'
<1>1. UNCHANGED <<orgActive, issuer, keyStatus, job, step, draft>> /\ UNCHANGED tables
  BY DEF Audit, tables
<1>2. HasDid(t) /\ \A u \in Tx \ {t} : named'[u] = named[u]
  BY UnnamedIssuers DEF Audit, TransactionsInv, TypeOK
<1>3. \A u \in Tx : Required(u)' /\ (HasDid(u)' => draft'[u] = Rebuilt(job[u])')
  BY <1>1, UntouchedSession DEF TransactionsInv, AllRequired, DraftsCurrent
<1>4. CreatesDiffer'
  BY <1>1 DEF TransactionsInv, CreatesDiffer, IsKind
<1>5. \A u \in Tx : HasDid(u)' = HasDid(u)
  BY <1>1 DEF HasDid, IsKind
<1>6. NamesUnderDid'
  BY <1>2, <1>5 DEF TransactionsInv, NamesUnderDid
<1>. QED
  BY <1>1, <1>3, <1>4, <1>6, UntouchedTables DEF TransactionsInv, AllRequired, DraftsCurrent

-----------------------------------------------------------------------------
(***************************************************************************)
(* Commits.                                                                *)
(***************************************************************************)

\* Keys are pairs, and a pair is taken apart as it was put together.
LEMMA KeyPair == \A i \in Issuer, v \in Version :
  <<i, v>> \in Key /\ <<i, v>>[1] = i /\ <<i, v>>[2] = v
BY DEF Key
LEMMA PairOfKey == \A k \in Key : k[1] \in Issuer /\ k[2] \in Version /\ k = <<k[1], k[2]>>
BY DEF Key

\* A session that commits has all its locks, and writes what it makes of the tables.
LEMMA CommitFacts ==
  ASSUME TypeOK, NEW t \in Tx, Commit(t)
  PROVE  /\ job[t] \in Job /\ job[t].kind \in
              {"create", "issuer", "organization", "rename", "save", "activate", "insert"}
         /\ ~IsKind(t, {"insert"}) => HasDid(t) /\ HasOrg(t)
         /\ IsKind(t, {"issuer", "save", "activate"}) => HasOwn(t)
         /\ IsKind(t, {"issuer", "save", "activate"}) => step[t] = 3
         /\ IsKind(t, {"insert"}) => step[t] = 4
         /\ issuer' = IssuerAfter(job[t]) /\ orgActive' = OrgAfter(job[t])
         /\ keyStatus' = KeysAfter(job[t])
<1>1. job[t] \in Job /\ step[t] = Len(Steps(t))
  BY DEF Commit, TypeOK, Running
<1>2. /\ IsKind(t, {"organization", "rename"}) => step[t] = 2
      /\ IsKind(t, {"create", "issuer", "save", "activate"}) => step[t] = 3
      /\ IsKind(t, {"insert"}) => step[t] = 4
  BY <1>1, Plans DEF IsKind
<1>3. ~IsKind(t, {"insert"}) => HasDid(t) /\ HasOrg(t)
  <2> USE <1>2 DEF IsKind, HasDid, HasOrg
  <2>1. CASE job[t].kind \in {"organization", "rename"}
    BY <2>1
  <2>2. CASE job[t].kind \in {"create", "issuer", "save", "activate"}
    BY <2>2
  <2>. QED
    BY <1>1, <2>1, <2>2, Jobs
<1>4. IsKind(t, {"issuer", "save", "activate"}) => HasOwn(t)
  BY <1>2 DEF IsKind, HasOwn
<1>5. issuer' = IssuerAfter(job[t]) /\ orgActive' = OrgAfter(job[t]) /\ keyStatus' = KeysAfter(job[t])
  BY DEF Commit
<1>6. job[t].kind \in {"create", "issuer", "organization", "rename", "save", "activate", "insert"}
  BY <1>1, Jobs
<1>7. /\ IsKind(t, {"issuer", "save", "activate"}) => step[t] = 3
      /\ IsKind(t, {"insert"}) => step[t] = 4
  BY <1>2 DEF IsKind
<1>. QED
  BY <1>1, <1>3, <1>4, <1>5, <1>6, <1>7

\* What a commit changes, by the kind of the transaction.
LEMMA CommitTables ==
  ASSUME TransactionsInv, NEW t \in Tx, Commit(t)
  PROVE  LET j == job[t] IN
         /\ IsKind(t, {"organization", "rename", "save", "activate", "insert"}) => issuer' = issuer
         /\ IsKind(t, {"create", "issuer"}) =>
              /\ j.issuer \in Issuer /\ issuer'[j.issuer] \in {"active", "suspended"}
              /\ \A i \in Issuer \ {j.issuer} : issuer'[i] = issuer[i]
         /\ ~IsKind(t, {"organization", "rename"}) => orgActive' = orgActive
         /\ IsKind(t, {"organization", "rename", "issuer", "insert"}) => keyStatus' = keyStatus
         /\ IsKind(t, {"create"}) => \A k \in Key :
              keyStatus'[k] = IF k = <<j.issuer, 1>> THEN "active" ELSE keyStatus[k]
         /\ IsKind(t, {"save"}) => \A k \in Key :
              keyStatus'[k] = IF k = <<j.issuer, j.version>> THEN "pending" ELSE keyStatus[k]
         /\ IsKind(t, {"activate"}) => \A k \in Key :
              keyStatus'[k] = IF k = <<j.issuer, j.version>> THEN "active"
                              ELSE IF k[1] = j.issuer /\ keyStatus[k] = "active" THEN "retired"
                              ELSE keyStatus[k]
<1> DEFINE j == job[t]
<1>1. /\ j \in Job /\ issuer' = IssuerAfter(j) /\ orgActive' = OrgAfter(j) /\ keyStatus' = KeysAfter(j)
      /\ issuer \in [Issuer -> {"none", "active", "suspended"}] /\ keyStatus \in [Key -> KeyStatus]
  BY CommitFacts DEF TransactionsInv, TypeOK
<1> HIDE DEF j
<1>2. IsKind(t, {"create", "issuer"}) => j.issuer \in Issuer /\ (j.kind = "issuer" => j.status \in {"active", "suspended"})
  BY <1>1, Jobs DEF IsKind, j
<1>3. IsKind(t, {"create", "issuer"}) =>
        /\ issuer'[j.issuer] \in {"active", "suspended"}
        /\ \A i \in Issuer \ {j.issuer} : issuer'[i] = issuer[i]
  BY <1>1, <1>2 DEF IsKind, j, IssuerAfter
<1>4. IsKind(t, {"organization", "rename", "save", "activate", "insert"}) => issuer' = issuer
  BY <1>1 DEF IsKind, j, IssuerAfter
<1>5. ~IsKind(t, {"organization", "rename"}) => orgActive' = orgActive
  BY <1>1 DEF IsKind, j, OrgAfter
<1>6. IsKind(t, {"organization", "rename", "issuer", "insert"}) => keyStatus' = keyStatus
  BY <1>1 DEF IsKind, j, KeysAfter
<1>7. IsKind(t, {"create"}) => \A k \in Key :
        keyStatus'[k] = IF k = <<j.issuer, 1>> THEN "active" ELSE keyStatus[k]
  BY <1>1 DEF IsKind, j, KeysAfter
<1>8. IsKind(t, {"save"}) => \A k \in Key :
        keyStatus'[k] = IF k = <<j.issuer, j.version>> THEN "pending" ELSE keyStatus[k]
  BY <1>1 DEF IsKind, j, KeysAfter
<1>9. IsKind(t, {"activate"}) => \A k \in Key :
        keyStatus'[k] = IF k = <<j.issuer, j.version>> THEN "active"
                        ELSE IF k[1] = j.issuer /\ keyStatus[k] = "active" THEN "retired"
                        ELSE keyStatus[k]
  BY <1>1 DEF IsKind, j, KeysAfter
<1>. QED
  BY <1>2, <1>3, <1>4, <1>5, <1>6, <1>7, <1>8, <1>9 DEF j

\* A commit leaves alone what other sessions hold.
LEMMA CommitSpares ==
  ASSUME TransactionsInv, NEW t \in Tx, Commit(t), NEW u \in Tx, u # t
  PROVE  /\ HasDid(u) => UNCHANGED <<orgActive, issuer, keyStatus>>
         /\ HasOrg(u) /\ IsKind(u, {"insert"}) => orgActive' = orgActive
         /\ IsKind(u, {"create"}) => issuer'[job[u].issuer] = issuer[job[u].issuer]
         /\ HasOwn(u) /\ issuer[job[u].issuer] # "none" =>
              /\ issuer'[job[u].issuer] = issuer[job[u].issuer]
              /\ \A v \in Version : keyStatus'[<<job[u].issuer, v>>] = keyStatus[<<job[u].issuer, v>>]
<1>1. TypeOK /\ LocksCompatible /\ Required(t) /\ Required(u)
  BY DEF TransactionsInv, AllRequired
<1>2. HasDid(u) => UNCHANGED <<orgActive, issuer, keyStatus>>
  <2>1. HasDid(u) => IsKind(t, {"insert"})
    BY <1>1, CommitFacts, Exclusion
  <2>. QED
    BY <2>1, CommitTables DEF IsKind
<1>3. HasOrg(u) /\ IsKind(u, {"insert"}) => orgActive' = orgActive
  <2>1. HasOrg(u) /\ IsKind(u, {"insert"}) => ~IsKind(t, {"organization", "rename"})
    BY <1>1, CommitFacts, Exclusion DEF IsKind, OrgMode, Conflict
  <2>. QED
    BY <2>1, CommitTables
<1>4. IsKind(t, {"issuer"}) => issuer[job[t].issuer] # "none"
  BY <1>1, CommitFacts DEF Required, IsKind
<1>5. IsKind(t, {"create"}) => issuer[job[t].issuer] = "none"
  BY <1>1 DEF Required, IsKind
<1>6. IsKind(u, {"create", "issuer", "save", "activate", "insert"}) => job[u].issuer \in Issuer
  BY <1>1, Jobs DEF TypeOK, IsKind, NoJob
<1>7. ASSUME IsKind(u, {"create"}) PROVE issuer'[job[u].issuer] = issuer[job[u].issuer]
  <2>1. issuer[job[u].issuer] = "none" /\ job[u].issuer \in Issuer
    BY <1>1, <1>6, <1>7 DEF Required, IsKind
  <2>2. IsKind(t, {"create", "issuer"}) => job[t].issuer # job[u].issuer
    BY <1>4, <1>7, <2>1 DEF TransactionsInv, CreatesDiffer, IsKind
  <2>. QED
    BY <1>1, <2>1, <2>2, CommitTables, CommitFacts DEF IsKind
<1>8. ASSUME HasOwn(u), issuer[job[u].issuer] # "none"
      PROVE  /\ issuer'[job[u].issuer] = issuer[job[u].issuer]
             /\ \A v \in Version : keyStatus'[<<job[u].issuer, v>>] = keyStatus[<<job[u].issuer, v>>]
  <2>1. job[u].issuer \in Issuer /\ job[u].kind \in {"issuer", "save", "activate", "insert"}
    BY <1>6, <1>8 DEF HasOwn, IsKind
  <2>2. IsKind(t, {"issuer", "save", "activate"}) => job[t].issuer # job[u].issuer
    BY <1>1, <1>8, <2>1, CommitFacts, Exclusion DEF IsKind, OwnMode, Conflict
  <2>3. IsKind(t, {"create"}) => job[t].issuer # job[u].issuer
    BY <1>5, <1>8
  <2>4. issuer'[job[u].issuer] = issuer[job[u].issuer]
    BY <1>1, <2>1, <2>2, <2>3, CommitTables, CommitFacts DEF IsKind
  <2>5. ASSUME NEW v \in Version
        PROVE  keyStatus'[<<job[u].issuer, v>>] = keyStatus[<<job[u].issuer, v>>]
    <3>1. /\ <<job[u].issuer, v>> \in Key /\ <<job[u].issuer, v>>[1] = job[u].issuer
          /\ \A w : job[t].issuer # job[u].issuer => <<job[u].issuer, v>> # <<job[t].issuer, w>>
      BY <2>1, KeyPair
    <3>2. CASE IsKind(t, {"organization", "rename", "issuer", "insert"})
      BY <3>2, CommitTables
    <3>3. CASE IsKind(t, {"create"})
      BY <2>3, <3>1, <3>3, CommitTables
    <3>4. CASE IsKind(t, {"save"})
      BY <2>2, <3>1, <3>4, CommitTables DEF IsKind
    <3>5. CASE IsKind(t, {"activate"})
      BY <2>2, <3>1, <3>5, CommitTables DEF IsKind
    <3>. QED
      BY <3>2, <3>3, <3>4, <3>5, CommitFacts, <1>1 DEF IsKind
  <2>. QED
    BY <2>4, <2>5
<1>. QED
  BY <1>2, <1>3, <1>7, <1>8

\* What other sessions have required stays true.
LEMMA CommitRequired ==
  ASSUME TransactionsInv, NEW t \in Tx, Commit(t), NEW u \in Tx
  PROVE  Required(u)'
<1>1. CASE u = t
  BY <1>1, Ended DEF Commit, TransactionsInv, Required, IsKind, NoJob
<1>2. CASE u # t
  <2> DEFINE j == job[u]
  <2>1. job'[u] = j /\ step'[u] = step[u] /\ TypeOK /\ Required(u)
    BY <1>2, Ended DEF Commit, TransactionsInv, AllRequired
  <2>2. /\ IsKind(u, {"create", "issuer", "save", "activate", "insert"}) => j.issuer \in Issuer
        /\ IsKind(u, {"save", "activate", "insert"}) => j.version \in Version
    BY <2>1, Jobs DEF TypeOK, IsKind, NoJob
  <2>3. \A n \in {1, 2, 3} : IsKind(u, {"issuer", "save", "activate", "insert"}) /\ step[u] >= n => HasOwn(u)
    BY <2>1 DEF HasOwn, IsKind, TypeOK
  <2>4. ASSUME HasOwn(u), issuer[j.issuer] # "none"
        PROVE  /\ issuer'[j.issuer] = issuer[j.issuer]
               /\ \A v \in Version : keyStatus'[<<j.issuer, v>>] = keyStatus[<<j.issuer, v>>]
    BY <1>2, <2>4, CommitSpares
  <2>5. IsKind(u, {"create"}) => issuer'[j.issuer] = issuer[j.issuer]
    BY <1>2, CommitSpares
  <2>6. IsKind(u, {"insert"}) /\ step[u] >= 2 => orgActive' = orgActive
    BY <1>2, CommitSpares DEF HasOrg, IsKind
  <2>7. IsKind(u, {"insert"}) /\ step[u] >= 3 => step[u] >= 2
    BY <2>1 DEF TypeOK
  <2>8. ASSUME IsKind(u, {"save"}), step[u] >= 1 PROVE IsNext(j.issuer, j.version)'
    <3>1. /\ j.version \in Version /\ IsNext(j.issuer, j.version)
          /\ \A v \in Version : keyStatus'[<<j.issuer, v>>] = keyStatus[<<j.issuer, v>>]
      BY <2>1, <2>2, <2>3, <2>4, <2>8 DEF Required, IsKind
    <3>2. 1..j.version - 1 \subseteq Version /\ j.version..MaxVersion \subseteq Version
      BY <3>1, VersionsAssumption DEF Version
    <3>3. j' = j
      BY <2>1
    <3> HIDE DEF j
    <3>. QED
      BY <3>1, <3>2, <3>3 DEF IsNext
  <2> HIDE DEF j
  <2>9. j' = j /\ job[u] = j
    BY <2>1 DEF j
  <2>10. /\ IsKind(u, {"create"}) => issuer'[j.issuer] = "none"
         /\ IsKind(u, {"issuer"}) /\ step[u] >= 1 => issuer'[j.issuer] # "none"
         /\ IsKind(u, {"save", "activate"}) /\ step[u] >= 1 => issuer'[j.issuer] = "active"
         /\ IsKind(u, {"insert"}) /\ step[u] >= 2 => issuer'[j.issuer] = "active"
    BY <2>1, <2>3, <2>4, <2>5, <2>9 DEF Required, IsKind
  <2>11. IsKind(u, {"activate"}) /\ step[u] >= 2 => keyStatus'[<<j.issuer, j.version>>] = "pending"
    <3>1. IsKind(u, {"activate"}) /\ step[u] >= 2 => step[u] >= 1
      BY <2>1 DEF TypeOK
    <3>. QED
      BY <3>1, <2>1, <2>2, <2>3, <2>4, <2>9 DEF Required, IsKind
  <2>12. IsKind(u, {"insert"}) /\ step[u] >= 3 => keyStatus'[<<j.issuer, j.version>>] = "active"
    BY <2>1, <2>2, <2>3, <2>4, <2>7, <2>9 DEF Required, IsKind
  <2>. QED
    BY <2>1, <2>6, <2>8, <2>9, <2>10, <2>11, <2>12 DEF Required, IsKind
<1>. QED
  BY <1>1, <1>2

\* What is published is the document of the tables that become visible with it.
LEMMA CommitPublishes ==
  ASSUME TransactionsInv, NEW t \in Tx, Commit(t)
  PROVE  Published'
<1>1. CASE IsKind(t, {"insert"})
  <2>1. UNCHANGED <<verifying, signing, didActive>> /\ UNCHANGED <<issuer, orgActive, keyStatus>>
    BY <1>1, CommitTables DEF Commit, document, IsKind
  <2>. QED
    BY <2>1 DEF TransactionsInv, Published
<1>2. CASE ~IsKind(t, {"insert"})
  <2>1. draft[t] = Rebuilt(job[t])
    BY <1>2, CommitFacts DEF TransactionsInv, DraftsCurrent
  <2>2. verifying' = draft[t].verifying /\ signing' = draft[t].signing /\ didActive' = draft[t].active
    BY <1>2 DEF Commit, IsKind
  <2>3. issuer' = IssuerAfter(job[t]) /\ orgActive' = OrgAfter(job[t]) /\ keyStatus' = KeysAfter(job[t])
    BY DEF Commit
  <2>. QED
    BY <2>1, <2>2, <2>3 DEF Rebuilt, Published
<1>. QED
  BY <1>1, <1>2

\* A commit leaves every issuer there is with one signer, and no other with a key.
LEMMA CommitSigners ==
  ASSUME TransactionsInv, NEW t \in Tx, Commit(t), NEW i \in Issuer
  PROVE  OneSignerOf(i)'
<1> DEFINE j == job[t]
<1>1. OneSignerOf(i) /\ Required(t) /\ TypeOK /\ 1 \in Version
  BY VersionsAssumption DEF TransactionsInv, AllRequired, OneSigner, Version
<1>2. CASE IsKind(t, {"organization", "rename", "issuer", "insert"})
  <2>1. keyStatus' = keyStatus /\ (issuer'[i] = "none" <=> issuer[i] = "none")
    <3>1. IsKind(t, {"issuer"}) => issuer[j.issuer] # "none"
      BY <1>1, CommitFacts DEF Required, IsKind
    <3>. QED
      BY <1>2, <3>1, CommitTables DEF IsKind
  <2>. QED
    BY <1>1, <2>1 DEF OneSignerOf
<1>3. CASE IsKind(t, {"create"})
  <2>1. /\ issuer[j.issuer] = "none" /\ j.issuer \in Issuer
        /\ issuer'[j.issuer] \in {"active", "suspended"}
        /\ \A k \in Issuer \ {j.issuer} : issuer'[k] = issuer[k]
        /\ \A k \in Key : keyStatus'[k] = IF k = <<j.issuer, 1>> THEN "active" ELSE keyStatus[k]
    BY <1>1, <1>3, CommitTables DEF Required, IsKind
  <2> HIDE DEF j
  <2>2. CASE i = j.issuer
    BY <1>1, <2>1, <2>2, KeyPair DEF OneSignerOf
  <2>3. CASE i # j.issuer
    <3>1. \A v \in Version : keyStatus'[<<i, v>>] = keyStatus[<<i, v>>]
      BY <2>1, <2>3, KeyPair
    <3>. QED
      BY <1>1, <2>1, <2>3, <3>1 DEF OneSignerOf
  <2>. QED
    BY <2>2, <2>3
<1>4. CASE IsKind(t, {"save"})
  <2>1. /\ j.issuer \in Issuer /\ j.version \in Version /\ issuer' = issuer
        /\ issuer[j.issuer] = "active" /\ IsNext(j.issuer, j.version)
        /\ \A k \in Key : keyStatus'[k] = IF k = <<j.issuer, j.version>> THEN "pending" ELSE keyStatus[k]
    BY <1>1, <1>4, CommitTables, CommitFacts, Jobs DEF Required, IsKind
  <2> HIDE DEF j
  <2>2. keyStatus[<<j.issuer, j.version>>] = "none"
    <3>1. j.version \in j.version..MaxVersion
      BY <2>1, VersionsAssumption DEF Version
    <3>. QED
      BY <2>1, <3>1 DEF IsNext
  <2>3. \A v \in Version : keyStatus'[<<i, v>>] = "active" <=> keyStatus[<<i, v>>] = "active"
    BY <2>1, <2>2, KeyPair
  <2>4. issuer[i] = "none" => \A v \in Version : keyStatus'[<<i, v>>] = keyStatus[<<i, v>>]
    BY <2>1, KeyPair
  <2>. QED
    BY <1>1, <2>1, <2>3, <2>4 DEF OneSignerOf
<1>5. CASE IsKind(t, {"activate"})
  <2>1. /\ j.issuer \in Issuer /\ j.version \in Version /\ issuer' = issuer /\ issuer[j.issuer] = "active"
        /\ \A k \in Key : keyStatus'[k] =
             IF k = <<j.issuer, j.version>> THEN "active"
             ELSE IF k[1] = j.issuer /\ keyStatus[k] = "active" THEN "retired" ELSE keyStatus[k]
    BY <1>1, <1>5, CommitTables, CommitFacts, Jobs DEF Required, IsKind
  <2> HIDE DEF j
  <2>2. CASE i = j.issuer
    BY <1>1, <2>1, <2>2, KeyPair DEF OneSignerOf
  <2>3. CASE i # j.issuer
    <3>1. \A v \in Version : keyStatus'[<<i, v>>] = keyStatus[<<i, v>>]
      BY <2>1, <2>3, KeyPair
    <3>. QED
      BY <1>1, <2>1, <2>3, <3>1 DEF OneSignerOf
  <2>. QED
    BY <2>2, <2>3
<1>. QED
  BY <1>2, <1>3, <1>4, <1>5, CommitFacts, <1>1 DEF IsKind

\* A commit.
LEMMA CommitInv ==
  ASSUME TransactionsInv, NEW t \in Tx, Commit(t), TypeOK', LocksCompatible'
  PROVE  TransactionsInv'
<1>1. /\ job'[t] = NoJob /\ named'[t] = {}
      /\ \A u \in Tx \ {t} : job'[u] = job[u] /\ step'[u] = step[u] /\ draft'[u] = draft[u]
                            /\ named'[u] = named[u]
  BY Ended DEF TransactionsInv, Commit
<1>2. DraftsCurrent'
  <2>1. ASSUME NEW u \in Tx, HasDid(u)' PROVE draft'[u] = Rebuilt(job[u])'
    <3>1. u # t /\ HasDid(u)
      BY <1>1, <2>1, SameSession DEF HasDid, IsKind, NoJob
    <3>2. UNCHANGED <<orgActive, issuer, keyStatus>>
      BY <3>1, CommitSpares
    <3>. QED
      BY <1>1, <2>1, <3>1, <3>2, UntouchedSession DEF TransactionsInv, DraftsCurrent
  <2>. QED
    BY <2>1 DEF DraftsCurrent
<1>3. CreatesDiffer'
  BY <1>1 DEF TransactionsInv, CreatesDiffer, IsKind, NoJob
<1>4. AllRequired' /\ OneSigner'
  BY CommitRequired, CommitSigners DEF AllRequired, OneSigner
<1>5. NamesUnderDid'
  BY <1>1, SameSession DEF TransactionsInv, NamesUnderDid
<1>. QED
  BY <1>2, <1>3, <1>4, <1>5, CommitPublishes DEF TransactionsInv

\* Every step keeps the invariant.
LEMMA StepInv == TransactionsInv /\ [Next]_vars => TransactionsInv'
<1> SUFFICES ASSUME TransactionsInv, [Next]_vars PROVE TransactionsInv'
  OBVIOUS
<1>1. TypeOK' /\ LocksCompatible'
  BY StepType, StepLocks DEF TransactionsInv
<1>2. CASE UNCHANGED vars
  <2>1. UNCHANGED tables /\ UNCHANGED <<orgActive, issuer, keyStatus, job, step, draft, named>>
    BY <1>2 DEF vars, sessions, tables
  <2>2. \A u \in Tx : Required(u)' /\ (HasDid(u)' => draft'[u] = Rebuilt(job[u])')
    BY <2>1, UntouchedSession DEF TransactionsInv, AllRequired, DraftsCurrent
  <2>3. CreatesDiffer'
    BY <2>1 DEF TransactionsInv, CreatesDiffer, IsKind
  <2>4. Published' /\ OneSigner'
    BY <2>1, UntouchedTables DEF TransactionsInv
  <2>5. NamesUnderDid'
    BY <2>1, SameSession DEF TransactionsInv, NamesUnderDid
  <2>. QED
    BY <1>1, <2>2, <2>3, <2>4, <2>5 DEF TransactionsInv, AllRequired, DraftsCurrent
<1>. QED
  BY <1>1, <1>2, BeginInv, AcquireInv, AuditInv, CommitInv, EndInv DEF Next, Cancel, BreakDeadlock

\* The invariant, in every state.
LEMMA TransactionsInvariant == Spec => []TransactionsInv
<1>1. Init => TransactionsInv
  <2> SUFFICES ASSUME Init PROVE TransactionsInv
    OBVIOUS
  <2>1. TypeOK
    BY DEF Init, TypeOK, KeyStatus, Document, NoDraft, Running
  <2>2. \A t \in Tx : job[t] = NoJob /\ Held(t) = {} /\ named[t] = {}
    BY DEF Init, Held, Running
  <2>3. LocksCompatible /\ DraftsCurrent /\ NamesUnderDid /\ AllRequired /\ CreatesDiffer
    BY <2>2, IdleSession DEF LocksCompatible, NamesUnderDid, DraftsCurrent, AllRequired, CreatesDiffer, IsKind, NoJob
  <2>4. Published /\ OneSigner
    BY KeyPair DEF Init, Published, OneSigner, OneSignerOf
  <2>. QED
    BY <2>1, <2>3, <2>4 DEF TransactionsInv
<1>. QED
  BY <1>1, StepInv, PTL DEF Spec

-----------------------------------------------------------------------------
(***************************************************************************)
(* Safety.                                                                 *)
(***************************************************************************)

\* No rotation, suspension or disabling commits between the checks of a
\* credential's insert and its commit, however many sessions there are.
THEOREM InsertsUnderSignerHolds == Spec => InsertsUnderSigner
<1>1. ASSUME TransactionsInv, NEW t \in Tx, job[t].kind = "insert", Commit(t)
      PROVE  <<job[t].issuer, job[t].version>> \in signing
  <2>1. Required(t) /\ step[t] = 4 /\ job[t] \in Job
    BY <1>1, CommitFacts DEF TransactionsInv, AllRequired, IsKind
  <2>2. /\ issuer[job[t].issuer] = "active" /\ orgActive
        /\ keyStatus[<<job[t].issuer, job[t].version>>] = "active"
    BY <1>1, <2>1 DEF Required, IsKind
  <2>. QED
    BY <1>1, <2>1, <2>2, Jobs, KeyPair DEF TransactionsInv, Published
<1>2. TransactionsInv =>
        [\A t \in Tx : job[t].kind = "insert" /\ Commit(t) => <<job[t].issuer, job[t].version>> \in signing]_vars
  BY <1>1
<1>. QED
  BY <1>2, TransactionsInvariant, PTL DEF InsertsUnderSigner

\* A commit takes every key one step on its way, or none.
LEMMA CommitAdvances ==
  ASSUME TransactionsInv, NEW t \in Tx, Commit(t), NEW k \in Key
  PROVE  keyStatus'[k] \in Identity!Advance[keyStatus[k]]
<1> DEFINE j == job[t]
<1>1. TypeOK /\ Required(t) /\ keyStatus[k] \in KeyStatus
  BY DEF TransactionsInv, AllRequired, TypeOK
<1>2. CASE keyStatus'[k] = keyStatus[k]
  BY <1>1, <1>2 DEF Identity!Advance, KeyStatus
<1>3. CASE IsKind(t, {"create"}) /\ k = <<j.issuer, 1>>
  <2>1. j.issuer \in Issuer /\ issuer[j.issuer] = "none" /\ 1 \in Version /\ keyStatus'[k] = "active"
    BY <1>1, <1>3, CommitTables, VersionsAssumption DEF Required, IsKind, Version
  <2>2. keyStatus[k] = "none"
    BY <1>3, <2>1 DEF TransactionsInv, OneSigner, OneSignerOf
  <2>. QED
    BY <2>1, <2>2 DEF Identity!Advance
<1>4. CASE IsKind(t, {"save"}) /\ k = <<j.issuer, j.version>>
  <2>1. j.version \in Version /\ IsNext(j.issuer, j.version) /\ keyStatus'[k] = "pending"
    BY <1>1, <1>4, CommitTables, CommitFacts, Jobs DEF Required, IsKind
  <2>2. keyStatus[k] = "none"
    BY <1>4, <2>1, VersionsAssumption DEF IsNext, Version
  <2>. QED
    BY <2>1, <2>2 DEF Identity!Advance
<1>5. CASE IsKind(t, {"activate"}) /\ k = <<j.issuer, j.version>>
  <2>1. keyStatus[k] = "pending" /\ keyStatus'[k] = "active"
    BY <1>1, <1>5, CommitTables, CommitFacts DEF Required, IsKind
  <2>. QED
    BY <2>1 DEF Identity!Advance
<1>6. CASE IsKind(t, {"activate"}) /\ k # <<j.issuer, j.version>> /\ keyStatus'[k] # keyStatus[k]
  <2>1. keyStatus[k] = "active" /\ keyStatus'[k] = "retired"
    BY <1>6, CommitTables
  <2>. QED
    BY <2>1 DEF Identity!Advance
<1>7. \/ keyStatus'[k] = keyStatus[k]
      \/ IsKind(t, {"create"}) /\ k = <<j.issuer, 1>>
      \/ IsKind(t, {"save"}) /\ k = <<j.issuer, j.version>>
      \/ IsKind(t, {"activate"})
  BY <1>1, CommitTables, CommitFacts DEF IsKind
<1>. QED
  BY <1>2, <1>3, <1>4, <1>5, <1>6, <1>7

\* The transactions, however they overlap, implement the identity that they
\* publish: each commit is one change of it, and nothing else is seen.
THEOREM TransactionsImplementIdentity == Spec => ImplementsIdentity
<1>1. Init => Identity!Init
  BY DEF Init, Identity!Init, Identity!Key, Key
<1>2. ASSUME TransactionsInv, TransactionsInv', NEW t \in Tx, Commit(t) PROVE Identity!Change
  <2>1. \A k \in Identity!Key : keyStatus'[k] \in Identity!Advance[keyStatus[k]]
    BY <1>2, CommitAdvances DEF Identity!Key, Key
  <2>2. ASSUME NEW i \in Issuer PROVE Identity!Succession(i)
    <3>1. OneSignerOf(i) /\ OneSignerOf(i)' /\ Required(t) /\ TypeOK
      BY <1>2 DEF TransactionsInv, OneSigner, AllRequired
    <3>2. issuer[i] # "none" => issuer'[i] # "none"
      BY <1>2, <3>1, CommitTables, CommitFacts DEF IsKind
    <3>3. \A v, w \in Version :
            keyStatus'[<<i, v>>] = "active" /\ keyStatus'[<<i, w>>] = "active" => v = w
      BY <3>1 DEF OneSignerOf
    <3>4. (\E v \in Version : keyStatus[<<i, v>>] = "active") =>
            \E w \in Version : keyStatus'[<<i, w>>] = "active"
      BY <3>1, <3>2 DEF OneSignerOf
    <3>. QED
      BY <3>3, <3>4 DEF Identity!Succession
  <2>3. Identity!Documented'
    BY <1>2 DEF TransactionsInv, Published, Identity!Documented, Identity!MaySign, Identity!MayVerify,
                Identity!Key, Key
  <2>. QED
    BY <2>1, <2>2, <2>3 DEF Identity!Change
<1>3. TransactionsInv /\ TransactionsInv' /\ [Next]_vars => [Identity!Change]_Identity!vars
  BY <1>2 DEF Next, Begin, Acquire, Audit, Cancel, BreakDeadlock, vars, tables, document, Identity!vars
<1>. QED
  BY <1>1, <1>3, TransactionsInvariant, PTL DEF Spec, ImplementsIdentity, Identity!Spec

-----------------------------------------------------------------------------
(***************************************************************************)
(* Deadlock.  Only the organization's own transaction names issuers that   *)
(* it does not hold, and only a save or an activation refuses that.  Any   *)
(* other session that holds the row of the DID has at most the             *)
(* organization left to lock for key share, which only a rename refuses.   *)
(* So without these nobody in a circle holds the DID, hence nobody waits   *)
(* for it, hence nobody for the subscription, hence nobody for the         *)
(* organization, hence nobody for an issuer.                               *)
(***************************************************************************)

\* Which row a session is about to lock.
NeedsOwn(t) == IsKind(t, {"issuer", "save", "activate", "insert"}) /\ step[t] = 0
NeedsOrg(t) ==
  \/ IsKind(t, {"create", "organization", "rename"}) /\ step[t] = 0
  \/ IsKind(t, {"issuer", "insert"}) /\ step[t] = 1
  \/ IsKind(t, {"save", "activate"}) /\ step[t] = 2
NeedsSubscription(t) ==
  \/ IsKind(t, {"create"}) /\ step[t] = 1
  \/ IsKind(t, {"insert"}) /\ step[t] = 3
NeedsDid(t) ==
  \/ IsKind(t, {"organization", "rename", "save", "activate"}) /\ step[t] = 1
  \/ IsKind(t, {"create", "issuer"}) /\ step[t] = 2

\* A transaction on one issuer changes the methods of no other.
LEMMA NamesOwnIssuer ==
  ASSUME TransactionsInv, NEW t \in Tx, IsKind(t, {"create", "issuer", "save", "activate"})
  PROVE  Unnamed(t) = {}
<1> SUFFICES ASSUME NEW i \in Unnamed(t) PROVE FALSE
  OBVIOUS
<1> DEFINE j == job[t]
<1>1. TypeOK /\ Published /\ draft[t] = Rebuilt(j) /\ j \in Job /\ i \in Changed(t) /\ i # j.issuer
  BY UnnamedIssuers DEF TransactionsInv, DraftsCurrent, Unnamed, IsKind
<1>2. PICK k \in Key : /\ i = k[1]
                      /\ \/ k \in signing /\ k \notin draft[t].signing
                         \/ k \in draft[t].signing /\ k \notin signing
                         \/ k \in draft[t].verifying /\ k \notin verifying
  BY <1>1, AfterTypes DEF Changed, TypeOK, Document
<1>3. OrgAfter(j) = orgActive /\ IssuerAfter(j)[i] = issuer[i]
  BY <1>1, <1>2, PairOfKey, Jobs DEF OrgAfter, IssuerAfter, IsKind, TypeOK
<1>4. KeysAfter(j)[k] = keyStatus[k]
  BY <1>1, <1>2, PairOfKey, Jobs DEF KeysAfter, IsKind, TypeOK
<1>. HIDE DEF j
<1>. QED
  BY <1>1, <1>2, <1>3, <1>4 DEF Published, Rebuilt

\* A session waits for one that holds the row it needs.
LEMMA Blocking ==
  ASSUME TransactionsInv, NEW t \in Tx, NEW u \in Blockers(t)
  PROVE  /\ u \in Tx \ {t}
         /\ \/ NeedsDid(t) /\ HasDid(u)
            \/ NeedsSubscription(t) /\ HasSubscription(u)
            \/ NeedsOrg(t) /\ HasOrg(u) /\ OrgMode[job[u].kind] \in Conflict[OrgMode[job[t].kind]]
            \/ NeedsOwn(t) /\ (HasOwn(u) \/ HasDid(u))
            \/ HasDid(t) /\ IsKind(t, {"organization", "rename"}) /\ IsKind(u, {"save", "activate"})
<1>1. PICK lock \in Awaited(t) : u \in Refusing(t, lock)
  BY DEF Blockers
<1>2. PICK h \in Held(u) : u \in Tx \ {t} /\ h.row = lock.row /\ h.mode \in Conflict[lock.mode]
  BY <1>1 DEF Refusing
<1>3. TypeOK /\ (named[u] # {} => HasDid(u))
  BY <1>2 DEF TransactionsInv, NamesUnderDid
<1>4. /\ Running(u) /\ job[u] \in Job
      /\ \/ HasOwn(u) /\ h.row = job[u].issuer /\ job[u].issuer \in Issuer
            /\ h.mode = OwnMode[job[u].kind]
         \/ HasOrg(u) /\ h.row = "org" /\ h.mode = OrgMode[job[u].kind]
         \/ HasSubscription(u) /\ h.row = "subscription" /\ h.mode = "update"
         \/ HasDid(u) /\ h.row = "did" /\ h.mode = "update"
         \/ h.row = "key" /\ h.mode = "read"
         \/ HasDid(u) /\ h.row \in Issuer /\ h.mode = "keyshare"
  BY <1>2, <1>3, HeldLocks, Jobs DEF HasOwn, IsKind
<1>5. CASE Unnamed(t) # {}
  <2>1. /\ lock.row \in Issuer /\ lock.mode = "keyshare"
        /\ HasDid(t) /\ Running(t) /\ job[t] \in Job /\ ~IsKind(t, {"insert"})
    BY <1>1, <1>3, <1>5, UnnamedIssuers DEF Awaited, KeyShare, HasDid, IsKind
  <2>2. IsKind(t, {"organization", "rename"})
    BY <1>5, <2>1, NamesOwnIssuer, Jobs DEF IsKind
  <2>3. HasOwn(u) /\ OwnMode[job[u].kind] = "update"
    BY <1>2, <1>4, <2>1, RowNames DEF Conflict
  <2>4. IsKind(u, {"save", "activate"})
    BY <2>3 DEF HasOwn, OwnMode, IsKind
  <2>. QED
    BY <1>2, <2>1, <2>2, <2>4
<1>6. CASE Unnamed(t) = {}
  <2>1. Running(t) /\ step[t] < Len(Steps(t)) /\ lock = LockAt(t, step[t] + 1)
    BY <1>1, <1>6 DEF Awaited
  <2>2. /\ job[t] \in Job
        /\ IsKind(t, {"organization", "rename"}) => step[t] \in {0, 1}
        /\ IsKind(t, {"create", "issuer", "save", "activate"}) => step[t] \in {0, 1, 2}
        /\ IsKind(t, {"insert"}) => step[t] \in {0, 1, 2, 3}
    BY <1>3, <2>1, NextLock
  <2>3. \/ NeedsOwn(t) /\ lock.row = job[t].issuer /\ job[t].issuer \in Issuer
        \/ NeedsOrg(t) /\ lock = [row |-> "org", mode |-> OrgMode[job[t].kind]]
        \/ NeedsSubscription(t) /\ lock = [row |-> "subscription", mode |-> "update"]
        \/ NeedsDid(t) /\ lock = [row |-> "did", mode |-> "update"]
        \/ lock = [row |-> "key", mode |-> "read"]
    <3> USE <2>1, <2>2, Plans DEF IsKind, NeedsOwn, NeedsOrg, NeedsSubscription, NeedsDid, OrgMode
    <3>1. CASE job[t].kind \in {"organization", "rename"}
      BY <3>1
    <3>2. CASE job[t].kind \in {"save", "activate"}
      BY <3>2, Jobs
    <3>3. CASE job[t].kind = "issuer"
      BY <3>3, Jobs
    <3>4. CASE job[t].kind = "insert"
      BY <3>4, Jobs
    <3>5. CASE job[t].kind = "create"
      BY <3>5
    <3>. QED
      BY <3>1, <3>2, <3>3, <3>4, <3>5, Jobs
  <2>4. CASE NeedsOwn(t) /\ lock.row = job[t].issuer /\ job[t].issuer \in Issuer
    BY <1>2, <1>4, <2>4, RowNames
  <2>5. CASE NeedsOrg(t) /\ lock = [row |-> "org", mode |-> OrgMode[job[t].kind]]
    BY <1>2, <1>4, <2>5, RowNames
  <2>6. CASE NeedsSubscription(t) /\ lock = [row |-> "subscription", mode |-> "update"]
    BY <1>2, <1>4, <2>6, RowNames
  <2>7. CASE NeedsDid(t) /\ lock = [row |-> "did", mode |-> "update"]
    BY <1>2, <1>4, <2>7, RowNames
  <2>8. lock # [row |-> "key", mode |-> "read"]
    BY <1>2 DEF Conflict
  <2>. QED
    BY <2>3, <2>4, <2>5, <2>6, <2>7, <2>8
<1>. QED
  BY <1>5, <1>6

\* Where a session that waits without the DID may stand with what it holds.
LEMMA StillWaits ==
  ASSUME TransactionsInv, NEW t \in Tx, Blockers(t) # {}, ~HasDid(t)
  PROVE  /\ NeedsOwn(t) \/ NeedsOrg(t) \/ NeedsSubscription(t) \/ NeedsDid(t)
         /\ HasSubscription(t) => NeedsDid(t)
         /\ HasOrg(t) => NeedsDid(t) \/ NeedsSubscription(t)
         /\ HasOwn(t) => ~NeedsOwn(t)
<1>1. NeedsOwn(t) \/ NeedsOrg(t) \/ NeedsSubscription(t) \/ NeedsDid(t)
  BY Blocking
<1>. QED
  BY <1>1 DEF IsKind, HasDid, HasSubscription, HasOrg, HasOwn, NeedsOrg, NeedsSubscription, NeedsDid,
              NeedsOwn

\* A session needs one row at a time.
LEMMA OneNeed ==
  ASSUME NEW t \in Tx
  PROVE  /\ NeedsDid(t) => ~NeedsSubscription(t) /\ ~NeedsOrg(t) /\ ~NeedsOwn(t)
         /\ NeedsSubscription(t) => ~NeedsOrg(t) /\ ~NeedsOwn(t)
         /\ NeedsOrg(t) => ~NeedsOwn(t)
BY DEF NeedsDid, NeedsSubscription, NeedsOrg, NeedsOwn, IsKind

\* No circle without a rename, or the organization and a change of a key.
LEMMA NoCircle == TransactionsInv => DeadlocksNeedOrganization
<1> SUFFICES ASSUME TransactionsInv, NEW S \in SUBSET Tx, S # {}, Circle(S),
                    \A t \in S : ~IsKind(t, {"rename"}),
                    \A t, u \in S : ~(IsKind(t, {"organization"}) /\ IsKind(u, {"save", "activate"}))
             PROVE  FALSE
  BY DEF DeadlocksNeedOrganization, IsKind
<1>1. ASSUME NEW t \in S PROVE t \in Tx /\ Blockers(t) # {} /\ \E u \in S : u \in Blockers(t)
  BY <1>1 DEF Circle
<1>2. ASSUME NEW t \in S PROVE ~HasDid(t)
  <2> SUFFICES ASSUME HasDid(t) PROVE FALSE
    OBVIOUS
  <2>1. PICK u \in S : u \in Blockers(t)
    BY <1>1
  <2>2. NeedsOrg(t) /\ HasOrg(u) /\ OrgMode[job[u].kind] \in Conflict[OrgMode[job[t].kind]]
    <3>1. ~NeedsDid(t) /\ ~NeedsSubscription(t) /\ ~NeedsOwn(t)
      BY DEF HasDid, NeedsDid, NeedsSubscription, NeedsOwn, IsKind
    <3>2. ~(IsKind(t, {"organization", "rename"}) /\ IsKind(u, {"save", "activate"}))
      BY DEF IsKind
    <3>. QED
      BY <1>1, <2>1, <3>1, <3>2, Blocking
  <2>3. IsKind(t, {"save", "activate"})
    BY <2>2 DEF HasDid, NeedsOrg, IsKind
  <2>4. OrgMode[job[u].kind] = "update"
    BY <2>2, <2>3 DEF OrgMode, Conflict, IsKind
  <2>. QED
    BY <2>2, <2>4 DEF HasOrg, OrgMode, IsKind
<1>3. ASSUME NEW t \in S PROVE ~NeedsDid(t)
  BY <1>1, <1>2, Blocking, OneNeed
<1>4. ASSUME NEW t \in S PROVE ~NeedsSubscription(t)
  <2>1. PICK u \in S : u \in Blockers(t)
    BY <1>1
  <2>2. ~HasSubscription(u)
    BY <1>1, <1>2, <1>3, StillWaits
  <2>. QED
    BY <1>1, <1>2, <2>1, <2>2, Blocking, OneNeed
<1>5. ASSUME NEW t \in S PROVE ~NeedsOrg(t)
  <2>1. PICK u \in S : u \in Blockers(t)
    BY <1>1
  <2>2. ~HasOrg(u)
    BY <1>1, <1>2, <1>3, <1>4, StillWaits
  <2>. QED
    BY <1>1, <1>2, <2>1, <2>2, Blocking, OneNeed
<1>6. PICK t \in S : TRUE
  OBVIOUS
<1>7. PICK u \in S : u \in Blockers(t)
  BY <1>1
<1>8. ~HasOwn(u) /\ ~HasDid(u)
  BY <1>1, <1>2, <1>3, <1>4, <1>5, StillWaits
<1>. QED
  BY <1>1, <1>2, <1>3, <1>4, <1>5, <1>7, <1>8, Blocking

\* Sessions wait for each other in a circle only through a rename, or through a
\* change of the organization together with one of its keys, however many there
\* are and whatever they do.
THEOREM DeadlocksNeedOrganizationHolds == Spec => []DeadlocksNeedOrganization
BY NoCircle, TransactionsInvariant, PTL

=============================================================================
