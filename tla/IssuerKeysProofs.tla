-------------------------- MODULE IssuerKeysProofs --------------------------
(***************************************************************************)
(* Theorems about IssuerKeys and, in the second part, about KeyWrapping,   *)
(* for any sets of issuers, versions, calls, servers and envelopes.        *)
(***************************************************************************)
EXTENDS IssuerKeys, KeyWrapping, TLAPS

\* The published part of the state is a function of the rest.
Publication ==
  /\ method = [k \in Key |-> MethodStatus(k)]
  /\ didActive = (org = "active")
  /\ docMethods = {k \in Key : method[k] # "none"}
  /\ docAuth = {k \in Key : method[k] = "active"}

\* An issuer that was not created has no key and nothing to download.
NoKeyBeforeIssuer ==
  \A i \in Issuer : issuer[i] = "none" =>
    export[i] = "none" /\ \A v \in Version : keyStatus[<<i, v>>] = "none"

\* An issuer about to be created is a new one.
CreatingIsNew == \A i \in creating : issuer[i] = "none"

\* A download that returned the key had claimed it.
DeliveredWasClaimed ==
  \A d \in delivered : export[target[d]] = "claimed"

\* OneSigningKey for one issuer, and its two halves.
HasActive(i) == \E v \in Version : keyStatus[<<i, v>>] = "active"

OneEach(i) ==
  \A v, w \in Version : v # w =>
    /\ ~(keyStatus[<<i, v>>] = "active" /\ keyStatus[<<i, w>>] = "active")
    /\ ~(keyStatus[<<i, v>>] = "pending" /\ keyStatus[<<i, w>>] = "pending")

IssuerKeysInv ==
  /\ TypeOK
  /\ Publication
  /\ CreatingIsNew
  /\ NoKeyBeforeIssuer
  /\ OneSigningKey
  /\ KeysOpenable
  /\ DeliveredWasClaimed
  /\ ExportedOnce

-----------------------------------------------------------------------------
(***************************************************************************)
(* Lemmas.                                                                 *)
(***************************************************************************)

\* One signing key, said of each issuer's versions.
LEMMA OneSigningKeyParts ==
  OneSigningKey <=> \A i \in Issuer : (issuer[i] # "none" => HasActive(i)) /\ OneEach(i)
BY DEF OneSigningKey, HasActive, OneEach

\* Keys are pairs, and a pair is taken apart as it was put together.
LEMMA KeyPair == \A i \in Issuer, v \in Version :
  <<i, v>> \in Key /\ <<i, v>>[1] = i /\ <<i, v>>[2] = v
BY DEF Key

\* Every key is the pair of its issuer and its version.
LEMMA PairOfKey == \A k \in Key : k[1] \in Issuer /\ k[2] \in Version /\ k = <<k[1], k[2]>>
BY DEF Key

\* What a step publishes is well typed and follows from what it has changed.
LEMMA PublishedType ==
  ASSUME Published
  PROVE  /\ Publication'
         /\ didActive' \in BOOLEAN
         /\ method' \in [Key -> {"none", "active", "inactive"}]
         /\ docMethods' \subseteq Key /\ docAuth' \subseteq Key
<1>1. \A k \in Key : MethodStatus(k)' \in {"none", "active", "inactive"}
  BY DEF MethodStatus
<1>. QED
  BY <1>1 DEF Published, Publication

\* A step that leaves the document and its sources alone keeps it published.
LEMMA PublicationKept ==
  ASSUME Publication, UNCHANGED <<org, issuer, keyStatus>>, UNCHANGED document
  PROVE  Publication'
BY DEF Publication, MethodStatus, document

-----------------------------------------------------------------------------
(***************************************************************************)
(* Type correctness.                                                       *)
(***************************************************************************)

\* Types: every step keeps them.
LEMMA StepType == TypeOK /\ [Next]_vars => TypeOK'
<1> SUFFICES ASSUME TypeOK, [Next]_vars PROVE TypeOK'
  OBVIOUS
<1> USE VersionsAssumption DEF TypeOK, Call, Goto, Version, calls, document
<1>1. ASSUME NEW i \in Issuer, NEW s \in {"active", "suspended", "deleted"}, CreateIssuer(i, s)
      PROVE  TypeOK'
  <2>1. /\ issuer' \in [Issuer -> IssuerStatus]
        /\ export' \in [Issuer -> {"none", "open", "expired", "claimed"}]
    BY <1>1 DEF CreateIssuer, IssuerStatus
  <2>2. keyStatus' \in [Key -> KeyStatus]
    BY <1>1 DEF CreateIssuer, KeyStatus
  <2>3. sealed' \in [Key -> 0..MaxVersion]
    <3>1. 1 \in 0..MaxVersion
      OBVIOUS
    <3>2. sealed' = [sealed EXCEPT ![<<i, 1>>] = 1]
      BY <1>1 DEF CreateIssuer
    <3>. QED
      BY <3>1, <3>2
  <2>4. Published /\ UNCHANGED <<org, calls>> /\ creating' = creating \ {i}
    BY <1>1 DEF CreateIssuer
  <2>. QED
    BY <2>1, <2>2, <2>3, <2>4, PublishedType
<1>2. ASSUME NEW i \in Issuer, NEW s \in {"active", "suspended", "deleted"}, SetIssuer(i, s)
      PROVE  TypeOK'
  BY <1>2, PublishedType DEF SetIssuer, IssuerStatus
<1>3. ASSUME NEW i \in Issuer, NEW v \in Version, ActivateKey(i, v) PROVE TypeOK'
  BY <1>3, PublishedType DEF ActivateKey, Activated, KeyStatus
<1>4. ASSUME NEW i \in Issuer, BeginIssuer(i) \/ ExpireExport(i) PROVE TypeOK'
  BY <1>4 DEF BeginIssuer, ExpireExport
<1>5. ASSUME NEW s \in OrgStatus, SetOrganization(s) PROVE TypeOK'
  BY <1>5, PublishedType DEF SetOrganization
<1>6. ASSUME NEW r \in Rotation, BeginRotation(r) PROVE TypeOK'
  BY <1>6 DEF BeginRotation
<1>7. ASSUME NEW r \in Rotation, SaveKey(r) PROVE TypeOK'
  <2>1. <<target[r], version[r]>> \in Key
    BY DEF Key
  <2>2. keyStatus' \in [Key -> KeyStatus]
    BY <1>7, <2>1 DEF SaveKey, KeyStatus
  <2>3. sealed' \in [Key -> 0..MaxVersion]
    BY <1>7, <2>1 DEF SaveKey
  <2>4. Published \/ UNCHANGED document
    BY <1>7 DEF SaveKey
  <2>5. pc' \in [Call -> {"idle", "save", "claim", "done", "refused"}]
        /\ UNCHANGED <<org, creating, issuer, export, target, version, delivered>>
    BY <1>7 DEF SaveKey
  <2>. QED
    BY <2>2, <2>3, <2>4, <2>5, PublishedType
<1>8. ASSUME NEW d \in Download, BeginDownload(d) PROVE TypeOK'
  BY <1>8 DEF BeginDownload
<1>9. ASSUME NEW d \in Download, ClaimExport(d) PROVE TypeOK'
  BY <1>9 DEF ClaimExport
<1>10. CASE UNCHANGED vars
  BY <1>10 DEF vars
<1>. QED
  BY <1>1, <1>2, <1>3, <1>4, <1>5, <1>6, <1>7, <1>8, <1>9, <1>10 DEF Next

\* Every state of the key registry and its publication is well typed.
THEOREM IssuerKeysTypeCorrect == Spec => []TypeOK
<1>1. Init => TypeOK
  BY VersionsAssumption
     DEF Init, TypeOK, OrgStatus, IssuerStatus, KeyStatus, Call, Version
<1>. QED
  BY <1>1, StepType, PTL DEF Spec

-----------------------------------------------------------------------------
(***************************************************************************)
(* The inductive invariant.                                                *)
(***************************************************************************)

\* The invariant holds before there is an issuer.
LEMMA InitInv == Init => IssuerKeysInv
<1> SUFFICES ASSUME Init PROVE IssuerKeysInv
  OBVIOUS
<1>1. TypeOK
  BY VersionsAssumption
     DEF Init, TypeOK, OrgStatus, IssuerStatus, KeyStatus, Call, Version
<1>2. Publication
  BY DEF Init, Publication, MethodStatus
<1>3. \A i \in Issuer, v \in Version : keyStatus[<<i, v>>] = "none"
  BY KeyPair DEF Init
<1>. QED
  BY <1>1, <1>2, <1>3
     DEF Init, IssuerKeysInv, CreatingIsNew, NoKeyBeforeIssuer, OneSigningKey, KeysOpenable,
         DeliveredWasClaimed, ExportedOnce

\* The keys change in three ways: a first key, a pending one, an activation.
LEMMA CreateKeys ==
  ASSUME IssuerKeysInv, NEW i \in Issuer, NEW s \in {"active", "suspended", "deleted"},
         CreateIssuer(i, s)
  PROVE  (NoKeyBeforeIssuer /\ OneSigningKey /\ KeysOpenable)'
<1> USE KeyPair, PairOfKey, VersionsAssumption DEF IssuerKeysInv, TypeOK
<1>1. 1 \in Version
  BY DEF Version
<1>2. \A j \in Issuer, v \in Version :
        keyStatus'[<<j, v>>] = IF j = i /\ v = 1 THEN "active" ELSE keyStatus[<<j, v>>]
  BY <1>1 DEF CreateIssuer
<1>3. \A k \in Key : sealed'[k] = IF k = <<i, 1>> THEN 1 ELSE sealed[k]
  BY <1>1 DEF CreateIssuer
<1>4. \A v \in Version : keyStatus[<<i, v>>] = "none"
  BY DEF CreateIssuer, CreatingIsNew, NoKeyBeforeIssuer
<1>5. NoKeyBeforeIssuer'
  BY <1>2 DEF CreateIssuer, NoKeyBeforeIssuer
<1>6. OneSigningKey'
  <2>1. \A j \in Issuer : j # i => issuer'[j] = issuer[j]
    BY DEF CreateIssuer
  <2>2. HasActive(i)' /\ OneEach(i)'
    BY <1>1, <1>2, <1>4 DEF HasActive, OneEach
  <2>3. ASSUME NEW j \in Issuer, j # i
        PROVE  (issuer[j] # "none" => HasActive(j)') /\ OneEach(j)'
    <3>1. (issuer[j] # "none" => HasActive(j)) /\ OneEach(j)
      BY OneSigningKeyParts
    <3>2. \A v \in Version : keyStatus'[<<j, v>>] = keyStatus[<<j, v>>]
      BY <1>2, <2>3
    <3>. HIDE DEF IssuerKeysInv, TypeOK
    <3>. QED
      BY <3>1, <3>2 DEF HasActive, OneEach
  <2>. HIDE DEF IssuerKeysInv, TypeOK
  <2>. QED
    BY <2>1, <2>2, <2>3 DEF OneSigningKey, HasActive, OneEach
<1>7. KeysOpenable'
  BY <1>1, <1>2, <1>3 DEF KeysOpenable
<1>. QED
  BY <1>5, <1>6, <1>7

\* Saving a pending key keeps what holds of signing keys and their material.
LEMMA SaveKeys ==
  ASSUME IssuerKeysInv, NEW r \in Rotation, SaveKey(r)
  PROVE  (NoKeyBeforeIssuer /\ OneSigningKey /\ KeysOpenable)'
<1> USE KeyPair, PairOfKey, VersionsAssumption DEF IssuerKeysInv, TypeOK, Call
<1> DEFINE i == target[r]
           v == version[r]
<1>1. i \in Issuer /\ v \in Version
  OBVIOUS
<1>2. CASE UNCHANGED <<keyStatus, sealed>>
  <2>1. UNCHANGED <<issuer, export>>
    BY DEF SaveKey
  <2>. HIDE DEF IssuerKeysInv, TypeOK
  <2>. QED
    BY <1>2, <2>1 DEF IssuerKeysInv, NoKeyBeforeIssuer, OneSigningKey, KeysOpenable
<1>3. CASE ~UNCHANGED <<keyStatus, sealed>>
  <2>1. /\ IsNext(i, v) /\ issuer[i] = "active"
        /\ \A w \in Version : keyStatus[<<i, w>>] # "pending"
        /\ keyStatus' = [keyStatus EXCEPT ![<<i, v>>] = "pending"]
        /\ sealed' = [sealed EXCEPT ![<<i, v>>] = v]
        /\ UNCHANGED <<issuer, export>>
    BY <1>3 DEF SaveKey
  <2>2. \A j \in Issuer, w \in Version :
          keyStatus'[<<j, w>>] = IF j = i /\ w = v THEN "pending" ELSE keyStatus[<<j, w>>]
    BY <1>1, <2>1
  <2>3. \A k \in Key : sealed'[k] = IF k = <<i, v>> THEN v ELSE sealed[k]
    BY <1>1, <2>1
  <2>4. keyStatus[<<i, v>>] = "none"
    BY <2>1 DEF IsNext
  <2>. HIDE DEF i, v
  <2>5. NoKeyBeforeIssuer'
    BY <1>1, <2>1, <2>2 DEF NoKeyBeforeIssuer
  <2>6. OneSigningKey'
    <3>1. ASSUME NEW j \in Issuer PROVE (issuer[j] # "none" => HasActive(j)') /\ OneEach(j)'
      <4>1. (issuer[j] # "none" => HasActive(j)) /\ OneEach(j)
        BY OneSigningKeyParts
      <4>2. issuer[j] # "none" => HasActive(j)'
        <5>1. ASSUME NEW w \in Version, keyStatus[<<j, w>>] = "active"
              PROVE  keyStatus'[<<j, w>>] = "active"
          <6>1. ~(j = i /\ w = v)
            BY <2>4, <5>1
          <6>. QED
            BY <2>2, <5>1, <6>1
        <5>. HIDE DEF IssuerKeysInv, TypeOK
        <5>. QED
          BY <4>1, <5>1 DEF HasActive
      <4>3. OneEach(j)'
        BY <1>1, <2>1, <2>2, <4>1 DEF OneEach
      <4>. QED
        BY <4>2, <4>3
    <3>. QED
      BY <2>1, <3>1 DEF OneSigningKey, HasActive, OneEach
  <2>7. KeysOpenable'
    BY <1>1, <2>2, <2>3 DEF KeysOpenable
  <2>. QED
    BY <2>5, <2>6, <2>7
<1>. QED
  BY <1>2, <1>3

\* So does activating one, which retires the key before it.
LEMMA ActivateKeys ==
  ASSUME IssuerKeysInv, NEW i \in Issuer, NEW v \in Version, ActivateKey(i, v)
  PROVE  (NoKeyBeforeIssuer /\ OneSigningKey /\ KeysOpenable)'
<1> USE KeyPair, PairOfKey DEF IssuerKeysInv, TypeOK
<1>1. \A j \in Issuer, w \in Version :
        keyStatus'[<<j, w>>] =
          IF j = i /\ w = v THEN "active"
          ELSE IF j = i /\ keyStatus[<<j, w>>] = "active" THEN "retired" ELSE keyStatus[<<j, w>>]
  BY DEF ActivateKey, Activated
<1>2. issuer[i] = "active" /\ keyStatus[<<i, v>>] = "pending" /\ UNCHANGED <<issuer, sealed, export>>
  BY DEF ActivateKey
<1>3. NoKeyBeforeIssuer'
  BY <1>1, <1>2 DEF NoKeyBeforeIssuer
<1>4. OneSigningKey'
  <2>1. ASSUME NEW j \in Issuer PROVE (issuer[j] # "none" => HasActive(j)') /\ OneEach(j)'
    <3>1. (issuer[j] # "none" => HasActive(j)) /\ OneEach(j)
      BY OneSigningKeyParts
    <3>2. issuer[j] # "none" => HasActive(j)'
      <4>1. CASE j = i
        BY <1>1, <4>1 DEF HasActive
      <4>2. CASE j # i
        <5>1. ASSUME NEW w \in Version, keyStatus[<<j, w>>] = "active"
              PROVE  keyStatus'[<<j, w>>] = "active"
          BY <1>1, <4>2, <5>1
        <5>. HIDE DEF IssuerKeysInv, TypeOK
        <5>. QED
          BY <3>1, <5>1 DEF HasActive
      <4>. QED
        BY <4>1, <4>2
    <3>3. OneEach(j)'
      BY <1>1, <3>1 DEF OneEach
    <3>. QED
      BY <3>2, <3>3
  <2>. QED
    BY <1>2, <2>1 DEF OneSigningKey, HasActive, OneEach
<1>5. KeysOpenable'
  BY <1>1, <1>2 DEF KeysOpenable
<1>. QED
  BY <1>3, <1>4, <1>5

\* An issuer about to be created is a new one after every step.
LEMMA StepCreating == IssuerKeysInv /\ [Next]_vars => CreatingIsNew'
<1> SUFFICES ASSUME IssuerKeysInv, [Next]_vars, NEW j \in creating' PROVE issuer'[j] = "none"
  BY DEF CreatingIsNew
<1> USE DEF IssuerKeysInv, CreatingIsNew, TypeOK
<1>1. ASSUME NEW i \in Issuer, NEW s \in {"active", "suspended", "deleted"},
             CreateIssuer(i, s) \/ SetIssuer(i, s)
      PROVE  issuer'[j] = "none"
  BY <1>1 DEF CreateIssuer, SetIssuer
<1>2. ASSUME NEW i \in Issuer, BeginIssuer(i) PROVE issuer'[j] = "none"
  BY <1>2 DEF BeginIssuer
<1>3. CASE UNCHANGED <<creating, issuer>>
  BY <1>3
<1>. QED
  BY <1>1, <1>2, <1>3
     DEF Next, ActivateKey, ExpireExport, SetOrganization, BeginRotation, SaveKey,
         BeginDownload, ClaimExport, vars

\* Every step keeps the invariant.
LEMMA StepInv == IssuerKeysInv /\ [Next]_vars => IssuerKeysInv'
<1> SUFFICES ASSUME IssuerKeysInv, [Next]_vars PROVE IssuerKeysInv'
  OBVIOUS
<1>1. TypeOK' /\ CreatingIsNew'
  BY StepType, StepCreating DEF IssuerKeysInv
<1>2. ASSUME NEW i \in Issuer, NEW s \in {"active", "suspended", "deleted"}, CreateIssuer(i, s)
      PROVE  IssuerKeysInv'
  <2>1. Publication'
    BY <1>2, PublishedType DEF CreateIssuer
  <2>2. DeliveredWasClaimed' /\ ExportedOnce'
    <3>1. export[i] = "none" /\ export' = [export EXCEPT ![i] = "open"]
          /\ UNCHANGED <<target, delivered>>
      BY <1>2 DEF CreateIssuer, IssuerKeysInv, CreatingIsNew, NoKeyBeforeIssuer, calls
    <3>. QED
      BY <3>1 DEF IssuerKeysInv, DeliveredWasClaimed, ExportedOnce, TypeOK, Call
  <2>. QED
    BY <1>1, <1>2, <2>1, <2>2, CreateKeys DEF IssuerKeysInv
<1>3. ASSUME NEW i \in Issuer, NEW s \in {"active", "suspended", "deleted"}, SetIssuer(i, s)
      PROVE  IssuerKeysInv'
  <2>1. Publication'
    BY <1>3, PublishedType DEF SetIssuer
  <2>2. \A j \in Issuer : issuer'[j] = "none" <=> issuer[j] = "none"
    BY <1>3 DEF SetIssuer, IssuerKeysInv, TypeOK
  <2>3. UNCHANGED <<keyStatus, sealed, export, target, delivered>>
    BY <1>3 DEF SetIssuer, calls
  <2>. QED
    BY SMTT(30), <1>1, <2>1, <2>2, <2>3
       DEF IssuerKeysInv, NoKeyBeforeIssuer, OneSigningKey, KeysOpenable,
           DeliveredWasClaimed, ExportedOnce
<1>4. ASSUME NEW i \in Issuer, NEW v \in Version, ActivateKey(i, v) PROVE IssuerKeysInv'
  <2>1. Publication'
    BY <1>4, PublishedType DEF ActivateKey
  <2>2. DeliveredWasClaimed' /\ ExportedOnce'
    BY <1>4 DEF ActivateKey, calls, IssuerKeysInv, DeliveredWasClaimed, ExportedOnce
  <2>. QED
    BY <1>1, <1>4, <2>1, <2>2, ActivateKeys DEF IssuerKeysInv
<1>5. ASSUME NEW i \in Issuer, ExpireExport(i) PROVE IssuerKeysInv'
  <2>1. /\ export[i] = "open" /\ export' = [export EXCEPT ![i] = "expired"]
        /\ UNCHANGED <<org, issuer, keyStatus, sealed, document, target, delivered>>
    BY <1>5 DEF ExpireExport, calls
  <2>2. DeliveredWasClaimed' /\ NoKeyBeforeIssuer'
    BY <2>1 DEF IssuerKeysInv, TypeOK, Call, DeliveredWasClaimed, NoKeyBeforeIssuer
  <2>. QED
    BY <1>1, <2>1, <2>2, PublicationKept
       DEF IssuerKeysInv, OneSigningKey, KeysOpenable, ExportedOnce
<1>6. ASSUME NEW s \in OrgStatus, SetOrganization(s) PROVE IssuerKeysInv'
  <2>1. Publication'
    BY <1>6, PublishedType DEF SetOrganization
  <2>2. UNCHANGED <<issuer, keyStatus, sealed, export, target, delivered>>
    BY <1>6 DEF SetOrganization, calls
  <2>. QED
    BY <1>1, <2>1, <2>2
       DEF IssuerKeysInv, NoKeyBeforeIssuer, OneSigningKey, KeysOpenable,
           DeliveredWasClaimed, ExportedOnce
<1>7. ASSUME NEW r \in Rotation, SaveKey(r) PROVE IssuerKeysInv'
  <2>1. Publication'
    <3>1. CASE Published
      BY <3>1, PublishedType
    <3>2. CASE ~Published
      BY <1>7, <3>2, PublicationKept DEF SaveKey, IssuerKeysInv
    <3>. QED
      BY <3>1, <3>2
  <2>2. DeliveredWasClaimed' /\ ExportedOnce'
    BY <1>7 DEF SaveKey, IssuerKeysInv, DeliveredWasClaimed, ExportedOnce
  <2>. QED
    BY <1>1, <1>7, <2>1, <2>2, SaveKeys DEF IssuerKeysInv
<1>8. ASSUME UNCHANGED <<org, issuer, keyStatus, sealed, document, export, target, delivered>>
      PROVE  IssuerKeysInv'
  BY <1>1, <1>8, PublicationKept
     DEF IssuerKeysInv, NoKeyBeforeIssuer, OneSigningKey, KeysOpenable,
         DeliveredWasClaimed, ExportedOnce
<1>9. ASSUME NEW d \in Download, ClaimExport(d) PROVE IssuerKeysInv'
  <2>1. CASE UNCHANGED <<export, delivered>>
    BY <1>8, <1>9, <2>1 DEF ClaimExport
  <2>2. CASE ~UNCHANGED <<export, delivered>>
    <3> DEFINE i == target[d]
    <3>1. /\ export[i] = "open" /\ export' = [export EXCEPT ![i] = "claimed"]
          /\ delivered' \in {delivered, delivered \cup {d}}
          /\ UNCHANGED <<org, issuer, keyStatus, sealed, document, target>>
      BY <1>9, <2>2 DEF ClaimExport, Exportable
    <3>2. i \in Issuer /\ \A e \in delivered : target[e] \in Issuer /\ target[e] # i
      BY <3>1 DEF IssuerKeysInv, TypeOK, Call, DeliveredWasClaimed
    <3>3. issuer[i] # "none"
      BY <3>1, <3>2 DEF IssuerKeysInv, NoKeyBeforeIssuer
    <3>. HIDE DEF i
    <3>4. NoKeyBeforeIssuer'
      BY <3>1, <3>2, <3>3 DEF IssuerKeysInv, NoKeyBeforeIssuer, TypeOK
    <3>5. target'[d] = i
      BY <3>1 DEF i
    <3>6. DeliveredWasClaimed' /\ ExportedOnce'
      BY <3>1, <3>2, <3>5 DEF IssuerKeysInv, TypeOK, DeliveredWasClaimed, ExportedOnce
    <3>. QED
      BY <1>1, <3>1, <3>4, <3>6, PublicationKept DEF IssuerKeysInv, OneSigningKey, KeysOpenable
  <2>. QED
    BY <2>1, <2>2
<1>10. CASE \/ \E i \in Issuer : BeginIssuer(i)
            \/ \E r \in Rotation : BeginRotation(r)
            \/ \E d \in Download : BeginDownload(d)
            \/ UNCHANGED vars
  BY <1>8, <1>10 DEF BeginIssuer, BeginRotation, BeginDownload, calls, vars, document
<1>. QED
  BY <1>2, <1>3, <1>4, <1>5, <1>6, <1>7, <1>9, <1>10 DEF Next

\* The invariant, in every state.
LEMMA IssuerKeysInvariant == Spec => []IssuerKeysInv
BY InitInv, StepInv, PTL DEF Spec

-----------------------------------------------------------------------------
(***************************************************************************)
(* Safety.                                                                 *)
(***************************************************************************)

\* An issuer that exists has exactly one active key and at most one pending
\* one, for any interleaving of rotations and activations.
THEOREM OneSigningKeyHolds == Spec => []OneSigningKey
<1>1. IssuerKeysInv => OneSigningKey
  BY DEF IssuerKeysInv
<1>. QED
  BY <1>1, IssuerKeysInvariant, PTL

\* Every stored envelope is sealed for the version it is stored under.
THEOREM KeysOpenableHolds == Spec => []KeysOpenable
<1>1. IssuerKeysInv => KeysOpenable
  BY DEF IssuerKeysInv
<1>. QED
  BY <1>1, IssuerKeysInvariant, PTL

\* The first private key is returned by one download at most.
THEOREM ExportedOnceHolds == Spec => []ExportedOnce
<1>1. IssuerKeysInv => ExportedOnce
  BY DEF IssuerKeysInv
<1>. QED
  BY <1>1, IssuerKeysInvariant, PTL

\* Methods that are a function of the keys make a document that tracks them.
LEMMA PublicationTracks == IssuerKeysInv => DocumentTracksKeys
<1> SUFFICES ASSUME IssuerKeysInv PROVE DocumentTracksKeys
  OBVIOUS
<1>1. \A k \in Key : method[k] = MethodStatus(k)
  BY DEF IssuerKeysInv, Publication
<1>. QED
  BY <1>1 DEF IssuerKeysInv, Publication, MethodStatus, DocumentTracksKeys, TypeOK, KeyStatus

\* The document always names the keys that may sign and those that ever could.
THEOREM DocumentTracksKeysHolds == Spec => []DocumentTracksKeys
BY PublicationTracks, IssuerKeysInvariant, PTL

\* No step takes a key back from retirement, or from use to anything else.
LEMMA StepRetires ==
  ASSUME IssuerKeysInv, [Next]_vars, NEW k \in Key
  PROVE  /\ keyStatus[k] = "retired" => keyStatus'[k] = "retired"
         /\ keyStatus[k] = "active" => keyStatus'[k] \in {"active", "retired"}
<1> USE PairOfKey, KeyPair
<1>1. ASSUME NEW i \in Issuer, NEW s \in {"active", "suspended", "deleted"}, CreateIssuer(i, s),
             k # <<i, 1>> \/ keyStatus[k] \in {"retired", "active"}
      PROVE  keyStatus'[k] = keyStatus[k]
  <2>1. 1 \in Version
    BY VersionsAssumption DEF Version
  <2>2. keyStatus[<<i, 1>>] = "none"
    BY <1>1, <2>1 DEF CreateIssuer, IssuerKeysInv, CreatingIsNew, NoKeyBeforeIssuer
  <2>. QED
    BY <1>1, <2>2 DEF CreateIssuer, IssuerKeysInv, TypeOK
<1>2. ASSUME NEW i \in Issuer, NEW v \in Version, ActivateKey(i, v)
      PROVE  keyStatus'[k] = IF k = <<i, v>> THEN "active"
                             ELSE IF k[1] = i /\ keyStatus[k] = "active" THEN "retired"
                             ELSE keyStatus[k]
  BY <1>2 DEF ActivateKey, Activated
<1>3. ASSUME NEW i \in Issuer, NEW v \in Version, ActivateKey(i, v)
      PROVE  keyStatus[<<i, v>>] = "pending"
  BY <1>3 DEF ActivateKey
<1>4. ASSUME NEW r \in Rotation, SaveKey(r), keyStatus[k] # "none"
      PROVE  keyStatus'[k] = keyStatus[k]
  <2>1. CASE UNCHANGED keyStatus
    BY <2>1
  <2>2. CASE ~UNCHANGED keyStatus
    <3> DEFINE n == <<target[r], version[r]>>
    <3>1. keyStatus[n] = "none" /\ keyStatus' = [keyStatus EXCEPT ![n] = "pending"]
      BY <1>4, <2>2 DEF SaveKey, IsNext
    <3>. QED
      BY <1>4, <3>1 DEF IssuerKeysInv, TypeOK
  <2>. QED
    BY <2>1, <2>2
<1>5. CASE UNCHANGED keyStatus
  BY <1>5
<1>. QED
  BY <1>1, <1>2, <1>3, <1>4, <1>5
     DEF Next, SetIssuer, BeginIssuer, ExpireExport, SetOrganization, BeginRotation, BeginDownload,
         ClaimExport, vars

\* Every step advances a key as ManagedIdentity allows.
LEMMA StepAdvances ==
  ASSUME IssuerKeysInv, [Next]_vars, NEW k \in Key
  PROVE  /\ keyStatus[k] \in KeyStatus
         /\ keyStatus[k] = "none" => keyStatus'[k] \in {"none", "pending", "active"}
         /\ keyStatus[k] = "pending" => keyStatus'[k] \in {"pending", "active"}
         /\ keyStatus[k] = "active" => keyStatus'[k] \in {"active", "retired"}
         /\ keyStatus[k] = "retired" => keyStatus'[k] = "retired"
<1> USE PairOfKey, KeyPair
<1>1. keyStatus[k] \in KeyStatus
  BY DEF IssuerKeysInv, TypeOK
<1>2. ASSUME NEW i \in Issuer, NEW s \in {"active", "suspended", "deleted"}, CreateIssuer(i, s),
             keyStatus[k] \in {"none", "pending"}
      PROVE  keyStatus'[k] \in {keyStatus[k], "active"}
  BY <1>2 DEF CreateIssuer, IssuerKeysInv, TypeOK
<1>3. ASSUME NEW i \in Issuer, NEW v \in Version, ActivateKey(i, v), keyStatus[k] \in {"none", "pending"}
      PROVE  keyStatus'[k] = IF k = <<i, v>> THEN "active" ELSE keyStatus[k]
  BY <1>3 DEF ActivateKey, Activated
<1>4. ASSUME NEW i \in Issuer, NEW v \in Version, ActivateKey(i, v)
      PROVE  keyStatus[<<i, v>>] = "pending"
  BY <1>4 DEF ActivateKey
<1>5. ASSUME NEW r \in Rotation, SaveKey(r), keyStatus[k] = "none"
      PROVE  keyStatus'[k] \in {"none", "pending"}
  <2>1. CASE UNCHANGED keyStatus
    BY <1>5, <2>1
  <2>2. CASE ~UNCHANGED keyStatus
    <3> DEFINE n == <<target[r], version[r]>>
    <3>1. keyStatus' = [keyStatus EXCEPT ![n] = "pending"]
      BY <1>5, <2>2 DEF SaveKey
    <3>. QED
      BY <1>5, <3>1 DEF IssuerKeysInv, TypeOK
  <2>. QED
    BY <2>1, <2>2
<1>6. ASSUME NEW r \in Rotation, SaveKey(r), keyStatus[k] = "pending"
      PROVE  keyStatus'[k] = "pending"
  BY <1>6 DEF SaveKey, IssuerKeysInv, TypeOK
<1>7. ASSUME keyStatus[k] = "pending",
             NEW i \in Issuer, NEW s \in {"active", "suspended", "deleted"}, CreateIssuer(i, s)
      PROVE  keyStatus'[k] \in {"pending", "active"}
  BY <1>2, <1>7
<1>8. CASE UNCHANGED keyStatus
  BY <1>1, <1>8 DEF KeyStatus
<1>9. keyStatus[k] = "none" => keyStatus'[k] \in {"none", "pending", "active"}
  BY <1>2, <1>3, <1>5, <1>8
     DEF Next, SetIssuer, BeginIssuer, ExpireExport, SetOrganization, BeginRotation, BeginDownload,
         ClaimExport, vars
<1>10. keyStatus[k] = "pending" => keyStatus'[k] \in {"pending", "active"}
  BY <1>3, <1>6, <1>7, <1>8
     DEF Next, SetIssuer, BeginIssuer, ExpireExport, SetOrganization, BeginRotation, BeginDownload,
         ClaimExport, vars
<1>. QED
  BY <1>1, <1>9, <1>10, StepRetires

\* No step undoes the creation of an issuer.
LEMMA StepCreated ==
  ASSUME IssuerKeysInv, [Next]_vars, NEW j \in Issuer, issuer[j] # "none"
  PROVE  issuer'[j] # "none"
<1>1. ASSUME NEW i \in Issuer, NEW s \in {"active", "suspended", "deleted"},
             CreateIssuer(i, s) \/ SetIssuer(i, s)
      PROVE  issuer'[j] # "none"
  BY <1>1 DEF CreateIssuer, SetIssuer, IssuerKeysInv, TypeOK
<1>. QED
  BY <1>1
     DEF Next, ActivateKey, BeginIssuer, ExpireExport, SetOrganization, BeginRotation, SaveKey,
         BeginDownload, ClaimExport, vars

\* A retired key stays retired.
THEOREM RetiredIsFinalHolds == Spec => RetiredIsFinal
<1>1. IssuerKeysInv /\ [Next]_vars =>
        [\A k \in Key : keyStatus[k] = "retired" => keyStatus'[k] = "retired"]_vars
  BY StepRetires
<1>. QED
  BY <1>1, IssuerKeysInvariant, PTL DEF Spec, RetiredIsFinal

\* No verification method ever leaves the document.
THEOREM HistoryRetainedHolds == Spec => HistoryRetained
<1>0. IssuerKeysInv /\ IssuerKeysInv' => DocumentTracksKeys /\ DocumentTracksKeys'
  BY PublicationTracks, PTL
<1>1. IssuerKeysInv /\ IssuerKeysInv' /\ [Next]_vars => [docMethods \subseteq docMethods']_vars
  <2> SUFFICES ASSUME IssuerKeysInv, IssuerKeysInv', [Next]_vars
               PROVE  docMethods \subseteq docMethods'
    OBVIOUS
  <2>1. docMethods = {k \in Key : keyStatus[k] \in {"active", "retired"}}
    BY <1>0 DEF DocumentTracksKeys
  <2>2. docMethods' = {k \in Key : keyStatus'[k] \in {"active", "retired"}}
    BY <1>0 DEF DocumentTracksKeys
  <2>. QED
    BY <2>1, <2>2, StepRetires
<1>. QED
  BY <1>1, IssuerKeysInvariant, PTL DEF Spec, HistoryRetained

\* The registry, with all its calls, implements the identity it publishes:
\* each of its steps is a change of that identity, or none.
THEOREM ImplementsIdentityHolds == Spec => ImplementsIdentity
<1>0. IssuerKeysInv /\ IssuerKeysInv' =>
        /\ DocumentTracksKeys /\ DocumentTracksKeys'
        /\ OneSigningKey /\ OneSigningKey'
  BY PublicationTracks, PTL DEF IssuerKeysInv
<1>1. Init => Identity!Init
  BY DEF Init, Identity!Init, Identity!Key, Key
<1>2. IssuerKeysInv /\ IssuerKeysInv' /\ [Next]_vars => [Identity!Change]_Identity!vars
  <2> SUFFICES ASSUME IssuerKeysInv, IssuerKeysInv', [Next]_vars PROVE Identity!Change
    BY DEF Identity!vars
  <2>1. ASSUME NEW k \in Key PROVE keyStatus'[k] \in Identity!Advance[keyStatus[k]]
    BY StepAdvances DEF Identity!Advance, KeyStatus
  <2>2. ASSUME NEW i \in Issuer PROVE Identity!Succession(i)
    <3>1. \A v, w \in Version :
            keyStatus'[<<i, v>>] = "active" /\ keyStatus'[<<i, w>>] = "active" => v = w
      BY <1>0 DEF OneSigningKey
    <3>2. ASSUME NEW v \in Version, keyStatus[<<i, v>>] = "active"
          PROVE  \E w \in Version : keyStatus'[<<i, w>>] = "active"
      BY <3>2, StepCreated, <1>0, KeyPair DEF OneSigningKey, IssuerKeysInv, NoKeyBeforeIssuer
    <3>. QED
      BY <3>1, <3>2 DEF Identity!Succession
  <2>3. Identity!Documented'
    BY <1>0 DEF Identity!Documented, Identity!MaySign, Identity!MayVerify, Identity!Key, Key, DocumentTracksKeys
  <2>. QED
    BY <2>1, <2>2, <2>3 DEF Identity!Change, Identity!Key, Key
<1>. QED
  BY <1>1, <1>2, IssuerKeysInvariant, PTL DEF Spec, ImplementsIdentity, Identity!Spec

-----------------------------------------------------------------------------
(***************************************************************************)
(* KeyWrapping.  Masters only ever grow: a server turns to a newer one,    *)
(* and a run seals with a newer one than it read.  So a run that has been  *)
(* overtaken finds every envelope of its plan newer than it had read it,   *)
(* and replaces nothing.                                                   *)
(***************************************************************************)


\* What a server seals with can be opened everywhere, and a draft is sealed
\* with what its server seals with.
InUseHeld == \A s, t \in Server : current[s] \in ring[t]
DraftsCurrent == \A k \in Row :
  draft[k] # NoDraft =>
    /\ k \notin Stored /\ draft[k].server \in Server
    /\ draft[k].master = current[draft[k].server]

\* No envelope is newer than the newest master in use.
NoneNewer == \A k \in Stored : \E s \in Server : envelope[k].master <= current[s]

\* A run was planned when every server used its master, over older envelopes.
Planned == {r \in Run : run[r].stage = "planned"}
PlansOlder == \A r \in Planned :
  /\ \A s \in Server : run[r].master <= current[s]
  /\ \A p \in run[r].plan : p[1] \in Stored /\ p[2].master < run[r].master

\* What is planned still may be done, or every envelope has grown newer since.
Overtaken(r) == \A p \in run[r].plan : p[2].master < envelope[p[1]].master
PlansLive == \A r \in Planned :
  \/ \A s \in Server : run[r].master \in ring[s]
  \/ Overtaken(r)

\* Once cleared, always the one master everybody seals and has sealed with.
ClearedMeans == cleared # 0 =>
  /\ \A s \in Server : current[s] = cleared
  /\ \A k \in Stored : envelope[k].master = cleared

WrappingInv ==
  /\ WrappingTypeOK /\ InUseHeld /\ DraftsCurrent /\ NoneNewer
  /\ PlansOlder /\ PlansLive /\ ClearedMeans /\ EnvelopesOpenable
-----------------------------------------------------------------------------
(***************************************************************************)
(* The steps of the operator.                                              *)
(***************************************************************************)

\* Initially there is one master and nothing sealed with it.
LEMMA WrappingInitInv == WrappingInit => WrappingInv
<1> SUFFICES ASSUME WrappingInit PROVE WrappingInv
  OBVIOUS
<1>1. 1 \in Master
  BY WrappingAssumption DEF Master
<1>2. Stored = {} /\ Planned = {} /\ cleared = 0
  BY DEF WrappingInit, Stored, Planned, Waiting
<1>3. WrappingTypeOK
  BY <1>1 DEF WrappingInit, WrappingTypeOK, NoRow, NoDraft, Waiting
<1> QED
  BY <1>1, <1>2, <1>3 DEF WrappingInit, WrappingInv, InUseHeld, DraftsCurrent, NoneNewer,
     PlansOlder, PlansLive, ClearedMeans, EnvelopesOpenable

\* A restart leaves the drafts of the other servers as they were.
LEMMA DraftsOfOthers ==
  ASSUME WrappingTypeOK, NEW s \in Server
  PROVE  /\ WithoutDraftsOf(s) \in [Row -> [server : Server \cup {"none"}, master : Nat]]
         /\ \A k \in Row : WithoutDraftsOf(s)[k] # NoDraft =>
              WithoutDraftsOf(s)[k] = draft[k] /\ draft[k].server # s
BY DEF WithoutDraftsOf, NoDraft, WrappingTypeOK

LEMMA AddMasterInv ==
  ASSUME WrappingInv, NEW s \in Server, NEW m \in Master, AddMaster(s, m)
  PROVE  WrappingInv'
<1> USE DEF WrappingInv
<1>1. \A t \in Server : ring[t] \subseteq ring'[t]
  BY DEF AddMaster, WrappingTypeOK
<1>2. WrappingTypeOK'
  BY DraftsOfOthers DEF AddMaster, WrappingTypeOK
<1>3. Stored' = Stored /\ Planned' = Planned
  BY DEF AddMaster, Stored, Planned
<1>4. DraftsCurrent'
  BY <1>3, DraftsOfOthers DEF AddMaster, DraftsCurrent
<1>5. InUseHeld' /\ EnvelopesOpenable'
  BY <1>1, <1>3 DEF AddMaster, InUseHeld, EnvelopesOpenable, CanOpen
<1>6. NoneNewer' /\ PlansOlder' /\ ClearedMeans'
  BY <1>3 DEF AddMaster, NoneNewer, PlansOlder, ClearedMeans
<1>7. PlansLive'
  BY <1>1, <1>3 DEF AddMaster, PlansLive, Overtaken
<1> QED
  BY <1>2, <1>4, <1>5, <1>6, <1>7

LEMMA UseMasterInv ==
  ASSUME WrappingInv, NEW s \in Server, NEW m \in Master, UseMaster(s, m)
  PROVE  WrappingInv'
<1> USE DEF WrappingInv
<1>1. /\ \A t \in Server : current[t] \in Nat /\ current'[t] \in Nat /\ current[t] <= current'[t]
      /\ \A t \in Server : current'[t] = IF t = s THEN m ELSE current[t]
  BY DEF UseMaster, WrappingTypeOK, Master
<1>2. WrappingTypeOK'
  BY DraftsOfOthers DEF UseMaster, WrappingTypeOK
<1>3. Stored' = Stored /\ Planned' = Planned
  BY DEF UseMaster, Stored, Planned
<1>4. DraftsCurrent'
  BY <1>1, <1>3, DraftsOfOthers DEF UseMaster, DraftsCurrent
<1>5. InUseHeld' /\ EnvelopesOpenable' /\ ClearedMeans' /\ PlansLive'
  BY <1>1, <1>3 DEF UseMaster, InUseHeld, EnvelopesOpenable, CanOpen, ClearedMeans, PlansLive, Overtaken
<1>6. NoneNewer'
  BY <1>1, <1>3 DEF UseMaster, NoneNewer, WrappingTypeOK, Stored
<1>7. PlansOlder'
  BY <1>1, <1>3 DEF UseMaster, PlansOlder, WrappingTypeOK, Planned
<1> QED
  BY <1>2, <1>4, <1>5, <1>6, <1>7

\* A master is retired when every envelope is sealed with another one: what was
\* to be sealed with it has been overtaken.
LEMMA RetireMasterInv ==
  ASSUME WrappingInv, NEW s \in Server, NEW m \in Master, RetireMaster(s, m)
  PROVE  WrappingInv'
<1> USE DEF WrappingInv
<1>1. /\ m # cleared /\ \A t \in Server : current[t] = cleared
      /\ \A k \in Stored : envelope[k].master = cleared
      /\ \A t \in Server : ring'[t] = IF t = s THEN ring[t] \ {m} ELSE ring[t]
  BY DEF RetireMaster, ClearedMeans, WrappingTypeOK
<1>2. WrappingTypeOK'
  BY DraftsOfOthers DEF RetireMaster, WrappingTypeOK
<1>3. Stored' = Stored /\ Planned' = Planned
  BY DEF RetireMaster, Stored, Planned
<1>4. DraftsCurrent'
  BY <1>3, DraftsOfOthers DEF RetireMaster, DraftsCurrent
<1>5. InUseHeld' /\ EnvelopesOpenable'
  BY <1>1, <1>3 DEF RetireMaster, InUseHeld, EnvelopesOpenable, CanOpen
<1>6. NoneNewer' /\ PlansOlder' /\ ClearedMeans'
  BY <1>3 DEF RetireMaster, NoneNewer, PlansOlder, ClearedMeans
<1>7. ASSUME NEW r \in Planned
      PROVE  (\A t \in Server : run[r].master \in ring'[t]) \/ Overtaken(r)'
  <2>1. CASE Overtaken(r)
    BY <2>1 DEF RetireMaster, Overtaken
  <2>2. CASE run[r].master = cleared /\ \A t \in Server : run[r].master \in ring[t]
    BY <1>1, <2>2
  <2>3. CASE run[r].master # cleared
    <3>1. run[r].master \in Nat /\ cleared \in Nat /\ r \in Run
      BY DEF Planned, WrappingTypeOK
    <3>2. run[r].master <= cleared
      BY <1>1 DEF PlansOlder
    <3>3. \A p \in run[r].plan : p[2].master \in Nat
      BY <3>1 DEF WrappingTypeOK
    <3>4. \A p \in run[r].plan : p[2].master < envelope[p[1]].master
      BY <1>1, <2>3, <3>1, <3>2, <3>3 DEF PlansOlder
    <3> QED
      BY <3>4 DEF RetireMaster, Overtaken
  <2> QED
    BY <2>1, <2>2, <2>3 DEF PlansLive
<1>8. PlansLive'
  BY <1>3, <1>7 DEF RetireMaster, PlansLive
<1> QED
  BY <1>2, <1>4, <1>5, <1>6, <1>8

-----------------------------------------------------------------------------
(***************************************************************************)
(* The steps of keys.                                                      *)
(***************************************************************************)

LEMMA ProvisionKeyInv ==
  ASSUME WrappingInv, NEW k \in Row, NEW s \in Server, ProvisionKey(k, s)
  PROVE  WrappingInv'
<1> USE DEF WrappingInv
<1>1. current[s] \in Nat /\ k \notin Stored
  BY DEF WrappingTypeOK, Master, ProvisionKey, Stored
<1>2. Stored' = Stored /\ Planned' = Planned
  BY DEF ProvisionKey, Stored, Planned
<1>3. WrappingTypeOK'
  BY <1>1 DEF ProvisionKey, WrappingTypeOK
<1>4. DraftsCurrent'
  BY <1>1, <1>2 DEF ProvisionKey, DraftsCurrent, WrappingTypeOK
<1>5. InUseHeld' /\ EnvelopesOpenable' /\ NoneNewer' /\ PlansOlder' /\ PlansLive' /\ ClearedMeans'
  BY <1>2 DEF ProvisionKey, InUseHeld, EnvelopesOpenable, CanOpen, NoneNewer, PlansOlder,
     PlansLive, Overtaken, ClearedMeans
<1> QED
  BY <1>3, <1>4, <1>5

\* A row is sealed with what its server seals with, and no run has read it.
LEMMA SaveRowInv ==
  ASSUME WrappingInv, NEW k \in Row, SaveRow(k)
  PROVE  WrappingInv'
<1> USE DEF WrappingInv
<1> DEFINE m == draft[k].master
           s == draft[k].server
<1>1. s \in Server /\ m = current[s] /\ m \in Nat \ {0} /\ k \notin Stored
  BY DEF SaveRow, DraftsCurrent, WrappingTypeOK, Master
<1>2. Planned' = Planned /\ draft' = [draft EXCEPT ![k] = NoDraft]
  BY DEF SaveRow, Planned
<1>3. CASE envelope' = envelope
  <2>1. Stored' = Stored
    BY <1>3 DEF Stored
  <2>2. WrappingTypeOK' /\ DraftsCurrent'
    BY <1>2, <1>3, <2>1 DEF SaveRow, WrappingTypeOK, DraftsCurrent, NoDraft
  <2>3. InUseHeld' /\ EnvelopesOpenable' /\ NoneNewer' /\ PlansOlder' /\ PlansLive' /\ ClearedMeans'
    BY <1>2, <1>3, <2>1 DEF SaveRow, InUseHeld, EnvelopesOpenable, CanOpen, NoneNewer,
       PlansOlder, PlansLive, Overtaken, ClearedMeans
  <2> QED
    BY <2>2, <2>3
<1>4. CASE envelope' = [envelope EXCEPT ![k] = Sealed(m, "first")]
  <2>1. /\ envelope'[k] = Sealed(m, "first") /\ \A j \in Row \ {k} : envelope'[j] = envelope[j]
        /\ Stored' = Stored \cup {k}
    BY <1>1, <1>4 DEF Stored, Sealed, NoRow, WrappingTypeOK
  <2>2. WrappingTypeOK'
    BY <1>1, <1>2, <1>4 DEF SaveRow, WrappingTypeOK, Sealed, NoDraft
  <2>3. DraftsCurrent'
    BY <1>2, <2>1 DEF SaveRow, DraftsCurrent, NoDraft, WrappingTypeOK
  <2>4. InUseHeld' /\ EnvelopesOpenable'
    BY <1>1, <2>1 DEF SaveRow, InUseHeld, EnvelopesOpenable, CanOpen, Sealed, Stored
  <2>5. NoneNewer'
    BY <1>1, <2>1 DEF SaveRow, NoneNewer, Sealed, Stored
  <2>6. ClearedMeans'
    BY <1>1, <2>1 DEF SaveRow, ClearedMeans, Sealed, Stored
  <2>7. PlansOlder'
    BY <1>2, <2>1 DEF SaveRow, PlansOlder
  <2>8. \A r \in Planned : \A p \in run[r].plan : p[1] \in Row \ {k}
    BY <1>1 DEF PlansOlder, Stored
  <2>9. PlansLive'
    BY <1>2, <2>1, <2>8 DEF SaveRow, PlansLive, Overtaken
  <2> QED
    BY <2>2, <2>3, <2>4, <2>5, <2>6, <2>7, <2>9
<1> QED
  BY <1>3, <1>4 DEF SaveRow

-----------------------------------------------------------------------------
(***************************************************************************)
(* The steps of the runs.                                                  *)
(***************************************************************************)

\* A run reads older envelopes than it will write: all servers use its master.
LEMMA PlanRewrapInv ==
  ASSUME WrappingInv, NEW r \in Run, NEW s \in Server, PlanRewrap(r, s)
  PROVE  WrappingInv'
<1> USE DEF WrappingInv
<1> DEFINE others == {k \in Stored : envelope[k].master # current[s]}
           plan == {<<k, envelope[k]>> : k \in others}
<1>1. /\ current[s] \in Nat \ {0} /\ \A t \in Server : current[t] = current[s]
      /\ \A k \in Stored : envelope[k].master \in Nat /\ envelope[k].master <= current[s]
  BY DEF PlanRewrap, NoneNewer, WrappingTypeOK, Master, Stored
<1>2. Stored' = Stored /\ \A q \in Run \ {r} : run'[q] = run[q]
  BY DEF PlanRewrap, Stored, WrappingTypeOK
<1>3. \/ run'[r] = [stage |-> "planned", master |-> current[s], plan |-> plan]
      \/ run'[r] = [Waiting EXCEPT !.stage = "ended"]
  BY DEF PlanRewrap, WrappingTypeOK
<1>4. /\ plan \in SUBSET (Row \X [master : Nat, seal : Run \cup {"none", "first"}])
      /\ \A p \in plan : p[1] \in Stored /\ p[2] = envelope[p[1]] /\ p[2].master < current[s]
  <2>1. ASSUME NEW k \in others
        PROVE  /\ <<k, envelope[k]>> \in Row \X [master : Nat, seal : Run \cup {"none", "first"}]
               /\ envelope[k].master < current[s] /\ k \in Stored
    <3>1. envelope[k] \in [master : Nat, seal : Run \cup {"none", "first"}] /\ k \in Row
      BY DEF WrappingTypeOK, Stored
    <3> QED
      BY <1>1, <3>1
  <2>2. plan \subseteq Row \X [master : Nat, seal : Run \cup {"none", "first"}]
    BY <2>1
  <2>3. \A p \in plan : p[1] \in Stored /\ p[2] = envelope[p[1]] /\ p[2].master < current[s]
    BY <2>1
  <2> QED
    BY <2>2, <2>3
<1>5. WrappingTypeOK'
  <2>1. run'[r] \in [stage : {"waiting", "planned", "ended"}, master : Nat,
                     plan : SUBSET (Row \X [master : Nat, seal : Run \cup {"none", "first"}])]
    BY <1>1, <1>3, <1>4 DEF Waiting
  <2>2. cleared' \in Nat
    BY <1>1 DEF PlanRewrap, WrappingTypeOK
  <2>3. run' = [run EXCEPT ![r] = run'[r]]
    BY DEF PlanRewrap, WrappingTypeOK
  <2> QED
    BY <2>1, <2>2, <2>3 DEF PlanRewrap, WrappingTypeOK
<1>6. InUseHeld' /\ DraftsCurrent' /\ NoneNewer' /\ EnvelopesOpenable'
  BY <1>2 DEF PlanRewrap, InUseHeld, DraftsCurrent, NoneNewer, EnvelopesOpenable, CanOpen
<1>7. ASSUME NEW q \in Planned'
      PROVE  \/ q # r /\ q \in Planned /\ run'[q] = run[q]
             \/ q = r /\ run'[q].master = current[s] /\ run'[q].plan = plan
  BY <1>2, <1>3 DEF Planned, Waiting
<1>8. PlansOlder'
  <2> SUFFICES ASSUME NEW q \in Planned'
               PROVE  /\ \A t \in Server : run'[q].master <= current[t]
                      /\ \A p \in run'[q].plan : p[1] \in Stored /\ p[2].master < run'[q].master
    BY <1>2 DEF PlanRewrap, PlansOlder
  <2>1. CASE q # r /\ q \in Planned /\ run'[q] = run[q]
    BY <2>1 DEF PlansOlder
  <2>2. CASE q = r /\ run'[q].master = current[s] /\ run'[q].plan = plan
    <3>1. \A t \in Server : run'[q].master <= current[t]
      BY <1>1, <2>2
    <3>2. \A p \in run'[q].plan : p[1] \in Stored /\ p[2].master < run'[q].master
      BY <1>4, <2>2
    <3> QED
      BY <3>1, <3>2
  <2> QED
    BY <1>7, <2>1, <2>2
<1>9. PlansLive'
  BY <1>1, <1>7 DEF PlanRewrap, PlansLive, InUseHeld, Overtaken
<1>10. ClearedMeans'
  BY <1>1, <1>2 DEF PlanRewrap, ClearedMeans
<1> QED
  BY <1>5, <1>6, <1>8, <1>9, <1>10

\* If the envelopes are as they were read, nobody has overtaken the run: every
\* server holds its master. Whatever it overtakes only grows newer.
LEMMA ApplyRewrapInv ==
  ASSUME WrappingInv, NEW r \in Run, ApplyRewrap(r)
  PROVE  WrappingInv'
<1> USE DEF WrappingInv
<1> DEFINE m == run[r].master
           Touched(k) == \E p \in run[r].plan : p[1] = k
<1>1. /\ r \in Planned /\ m \in Nat /\ \A s \in Server : m <= current[s]
      /\ \A q \in Run \ {r} : run'[q] = run[q]
      /\ Planned' = Planned \ {r}
  BY DEF ApplyRewrap, Planned, PlansOlder, WrappingTypeOK, Waiting
<1>2. run' \in [Run -> [stage : {"waiting", "planned", "ended"}, master : Nat,
                        plan : SUBSET (Row \X [master : Nat, seal : Run \cup {"none", "first"}])]]
  BY DEF ApplyRewrap, WrappingTypeOK, Waiting
<1>3. CASE envelope' = envelope
  <2>1. Stored' = Stored
    BY <1>3 DEF Stored
  <2>2. WrappingTypeOK'
    BY <1>2, <1>3 DEF ApplyRewrap, WrappingTypeOK
  <2>3. InUseHeld' /\ DraftsCurrent' /\ NoneNewer' /\ EnvelopesOpenable' /\ ClearedMeans'
    BY <1>3, <2>1 DEF ApplyRewrap, InUseHeld, DraftsCurrent, NoneNewer, EnvelopesOpenable,
       CanOpen, ClearedMeans
  <2>4. PlansOlder' /\ PlansLive'
    BY <1>1, <1>3, <2>1 DEF ApplyRewrap, PlansOlder, PlansLive, Overtaken, Planned
  <2> QED
    BY <2>2, <2>3, <2>4
<1>4. CASE Unchanged(r) /\ envelope' = [k \in Row |-> IF Touched(k) THEN Sealed(m, r) ELSE envelope[k]]
  <2>1. \A p \in run[r].plan : /\ p[1] \in Stored /\ envelope[p[1]] = p[2]
                               /\ p[2].master \in Nat /\ p[2].master < m
    BY <1>1, <1>4 DEF PlansOlder, Unchanged, WrappingTypeOK, Planned
  <2>2. \A k \in Row : /\ Touched(k) => k \in Stored /\ envelope[k].master < m /\ envelope'[k] = Sealed(m, r)
                       /\ ~Touched(k) => envelope'[k] = envelope[k]
    BY <1>4, <2>1
  <2>3. Stored' = Stored
    <3>1. Sealed(m, r) # NoRow \/ \A k \in Row : ~Touched(k)
      BY <1>1, <2>1 DEF Sealed, NoRow
    <3> QED
      BY <2>2, <3>1 DEF Stored
  <2>4. /\ \A k \in Row : envelope[k].master \in Nat /\ envelope'[k].master \in Nat
        /\ \A k \in Row : envelope[k].master <= envelope'[k].master
    <3> SUFFICES ASSUME NEW k \in Row
                 PROVE  /\ envelope[k].master \in Nat /\ envelope'[k].master \in Nat
                        /\ envelope[k].master <= envelope'[k].master
      OBVIOUS
    <3>1. envelope[k].master \in Nat
      BY DEF WrappingTypeOK
    <3>2. CASE Touched(k)
      BY <1>1, <2>2, <3>1, <3>2 DEF Sealed
    <3>3. CASE ~Touched(k)
      BY <2>2, <3>1, <3>3
    <3> QED
      BY <3>2, <3>3
  <2>5. WrappingTypeOK'
    BY <1>1, <1>2, <1>4 DEF ApplyRewrap, WrappingTypeOK, Sealed
  <2>6. (\E k \in Row : Touched(k)) => \A s \in Server : m \in ring[s]
    <3> SUFFICES ASSUME NEW p \in run[r].plan PROVE ~Overtaken(r)
      BY <1>1 DEF PlansLive
    <3> QED
      BY <2>1 DEF Overtaken
  <2>7. InUseHeld' /\ DraftsCurrent'
    BY <2>3 DEF ApplyRewrap, InUseHeld, DraftsCurrent
  <2>8. EnvelopesOpenable'
    BY <2>2, <2>3, <2>6 DEF ApplyRewrap, EnvelopesOpenable, CanOpen, Sealed, Stored
  <2>9. NoneNewer'
    BY <1>1, <2>2, <2>3 DEF ApplyRewrap, NoneNewer, Sealed, Stored
  <2>10. ClearedMeans'
    <3> SUFFICES ASSUME cleared # 0, NEW k \in Stored, Touched(k) PROVE FALSE
      BY <2>2, <2>3 DEF ApplyRewrap, ClearedMeans, Stored
    <3>1. envelope[k].master = cleared /\ cleared < m /\ cleared \in Nat
      BY <2>2 DEF ClearedMeans, Stored, WrappingTypeOK
    <3>2. \E s \in Server : envelope[k].master <= current[s]
      BY DEF NoneNewer
    <3> QED
      BY <1>1, <3>1, <3>2 DEF ClearedMeans
  <2>11. PlansOlder'
    BY <1>1, <2>3 DEF ApplyRewrap, PlansOlder, Planned
  <2>12. ASSUME NEW q \in Planned' PROVE Overtaken(q) => Overtaken(q)'
    <3>1. q \in Planned /\ run'[q] = run[q]
      BY <1>1 DEF Planned
    <3>2. \A p \in run[q].plan : p[1] \in Row /\ p[2].master \in Nat
      BY <3>1 DEF WrappingTypeOK, Planned
    <3> QED
      BY <2>4, <3>1, <3>2 DEF Overtaken
  <2>13. PlansLive'
    BY <1>1, <2>12 DEF ApplyRewrap, PlansLive, Planned
  <2> QED
    BY <2>5, <2>7, <2>8, <2>9, <2>10, <2>11, <2>13
<1> QED
  BY <1>3, <1>4 DEF ApplyRewrap

-----------------------------------------------------------------------------
(***************************************************************************)
(* The theorems.                                                           *)
(***************************************************************************)

LEMMA WrappingStepInv == WrappingInv /\ [WrappingNext]_wrapVars => WrappingInv'
<1> SUFFICES ASSUME WrappingInv, [WrappingNext]_wrapVars PROVE WrappingInv'
  OBVIOUS
<1>1. CASE \E s \in Server, m \in Master : AddMaster(s, m) \/ UseMaster(s, m) \/ RetireMaster(s, m)
  BY <1>1, AddMasterInv, UseMasterInv, RetireMasterInv
<1>2. CASE \E k \in Row : SaveRow(k) \/ \E s \in Server : ProvisionKey(k, s)
  BY <1>2, SaveRowInv, ProvisionKeyInv
<1>3. CASE \E r \in Run : ApplyRewrap(r) \/ \E s \in Server : PlanRewrap(r, s)
  BY <1>3, ApplyRewrapInv, PlanRewrapInv
<1>4. CASE UNCHANGED wrapVars
  BY <1>4 DEF wrapVars, WrappingInv, WrappingTypeOK, InUseHeld, DraftsCurrent, NoneNewer,
     PlansOlder, PlansLive, Overtaken, ClearedMeans, EnvelopesOpenable, CanOpen, Stored, Planned
<1> QED
  BY <1>1, <1>2, <1>3, <1>4 DEF WrappingNext

\* The invariant holds in every state, for any servers, keys, masters and runs.
THEOREM WrappingInvariant == WrappingSpec => []WrappingInv
<1> QED
  BY WrappingInitInv, WrappingStepInv, PTL DEF WrappingSpec

\* Keyrings, envelopes and runs stay well typed.
THEOREM WrappingTypeCorrect == WrappingSpec => []WrappingTypeOK
<1>1. WrappingInv => WrappingTypeOK
  BY DEF WrappingInv
<1> QED
  BY <1>1, WrappingInvariant, PTL

\* No rollout, run or retirement leaves a stored private key that some server
\* cannot open, however many runs overlap.
THEOREM EnvelopesOpenableHolds == WrappingSpec => []EnvelopesOpenable
<1>1. WrappingInv => EnvelopesOpenable
  BY DEF WrappingInv
<1> QED
  BY <1>1, WrappingInvariant, PTL
=============================================================================
