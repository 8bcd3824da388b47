----------------------------- MODULE IssuerKeys -----------------------------
(***************************************************************************)
(* The signing keys of one organization's issuers and the DID document     *)
(* that publishes them.  An issuer is created together with its first key; *)
(* later versions are saved as pending by a rotation, which has to name    *)
(* the version it was sealed for, and activated in place of the active     *)
(* one.  Triggers carry every change of a key, an issuer or the            *)
(* organization over to the verification methods and to the document.  The *)
(* first key can be downloaded once.                                       *)
(***************************************************************************)
EXTENDS Integers

CONSTANTS
  Issuer,      \* issuers the organization may create
  MaxVersion,  \* bound on the versions of a key
  Rotation,    \* IssuerKeyService.rotate calls
  Download     \* IssuerKeyService.download calls

ASSUME VersionsAssumption == MaxVersion \in Nat \ {0} /\ Rotation \cap Download = {}

VARIABLES
  org,         \* organizations.status, "deleted" once soft_deleted_at is set
  creating,    \* issuers about to be created: the organization was found active
  issuer,      \* issuers.status, "suspended" for both statuses that may be undone
  keyStatus,   \* issuer_keys.status
  sealed,      \* the version a key's envelope can be opened with, 0 when there is none
  method,      \* organization_verification_methods.status
  docMethods,  \* verificationMethod and assertionMethod of the DID document
  docAuth,     \* its authentication
  didActive,   \* organization_dids.status
  export,      \* the download of an issuer's first key
  pc,          \* where each call stands
  target,      \* the issuer it is about
  version,     \* the version a rotation has sealed its key for
  delivered    \* downloads that have returned the private key

Version == 1..MaxVersion
Key == Issuer \X Version

document == <<method, docMethods, docAuth, didActive>>
calls == <<pc, target, version, delivered>>
vars == <<org, creating, issuer, keyStatus, sealed, method, docMethods, docAuth, didActive,
          export, pc, target, version, delivered>>

Call == Rotation \cup Download

OrgStatus == {"active", "disabled", "deleted"}
IssuerStatus == {"none", "active", "suspended", "deleted"}
KeyStatus == {"none", "pending", "active", "retired"}

TypeOK ==
  /\ org \in OrgStatus /\ didActive \in BOOLEAN
  /\ creating \subseteq Issuer /\ issuer \in [Issuer -> IssuerStatus]
  /\ keyStatus \in [Key -> KeyStatus]
  /\ sealed \in [Key -> 0..MaxVersion]
  /\ method \in [Key -> {"none", "active", "inactive"}]
  /\ docMethods \subseteq Key /\ docAuth \subseteq Key
  /\ export \in [Issuer -> {"none", "open", "expired", "claimed"}]
  /\ pc \in [Call -> {"idle", "save", "claim", "done", "refused"}]
  /\ target \in [Call -> Issuer]
  /\ version \in [Rotation -> Version]
  /\ delivered \subseteq Download

Init ==
  /\ org = "active" /\ didActive = TRUE
  /\ creating = {} /\ issuer = [i \in Issuer |-> "none"]
  /\ keyStatus = [k \in Key |-> "none"]
  /\ sealed = [k \in Key |-> 0]
  /\ method = [k \in Key |-> "none"]
  /\ docMethods = {} /\ docAuth = {}
  /\ export = [i \in Issuer |-> "none"]
  /\ pc = [c \in Call |-> "idle"]
  /\ target \in [Call -> Issuer]
  /\ version = [r \in Rotation |-> 1]
  /\ delivered = {}

-----------------------------------------------------------------------------
(***************************************************************************)
(* Publication, inside the transaction of the change that causes it.       *)
(***************************************************************************)

\* The status phase4_sync_methods gives a method; a pending key has none.
MethodStatus(k) ==
  IF keyStatus[k] \notin {"active", "retired"} THEN "none"
  ELSE IF keyStatus[k] = "active" /\ issuer[k[1]] = "active" /\ org = "active"
  THEN "active" ELSE "inactive"

\* phase4_sync_methods and phase4_rebuild_document: a method stays in the
\* document once it is there, to authenticate with only while it is active.
Published ==
  /\ method' = [k \in Key |-> MethodStatus(k)']
  /\ didActive' = (org' = "active")
  /\ docMethods' = {k \in Key : method'[k] # "none"}
  /\ docAuth' = {k \in Key : method'[k] = "active"}

-----------------------------------------------------------------------------
(***************************************************************************)
(* Issuers and the organization.                                           *)
(***************************************************************************)

\* The organization is read without a lock, and may change before the commit.
BeginIssuer(i) ==
  /\ issuer[i] = "none" /\ org = "active"
  /\ creating' = creating \cup {i}
  /\ UNCHANGED <<org, issuer, keyStatus, sealed, document, export, calls>>

\* phase3_create_issuer: the first key is active at once and may be downloaded.
CreateIssuer(i, status) ==
  /\ i \in creating
  /\ creating' = creating \ {i}
  /\ issuer' = [issuer EXCEPT ![i] = status]
  /\ keyStatus' = [keyStatus EXCEPT ![<<i, 1>>] = "active"]
  /\ sealed' = [sealed EXCEPT ![<<i, 1>>] = 1]
  /\ export' = [export EXCEPT ![i] = "open"]
  /\ UNCHANGED <<org, calls>>
  /\ Published

\* Mutant of SetIssuer: no trigger on the issuers.
SetIssuerUnpublished(i, status) ==
  /\ issuer[i] \in {"active", "suspended"}
  /\ issuer' = [issuer EXCEPT ![i] = status]
  /\ UNCHANGED <<org, creating, keyStatus, sealed, document, export, calls>>

\* A deleted issuer is immutable.
SetIssuer(i, status) ==
  /\ issuer[i] \in {"active", "suspended"}
  /\ issuer' = [issuer EXCEPT ![i] = status]
  /\ UNCHANGED <<org, creating, keyStatus, sealed, export, calls>>
  /\ Published

\* OrganizationService.update: a deleted organization is out of its reach.
SetOrganization(status) ==
  /\ org # "deleted"
  /\ org' = status
  /\ UNCHANGED <<creating, issuer, keyStatus, sealed, export, calls>>
  /\ Published

-----------------------------------------------------------------------------
(***************************************************************************)
(* Rotation.                                                               *)
(***************************************************************************)

Goto(c, label) == pc' = [pc EXCEPT ![c] = label]

IsNext(i, v) == keyStatus[<<i, v>>] = "none" /\ \A w \in 1..v - 1 : keyStatus[<<i, w>>] # "none"

\* The newest version is read, and a key sealed for the one after it.
BeginRotation(r) ==
  LET i == target[r] IN
  /\ pc[r] = "idle"
  /\ \E v \in Version :
       /\ v > 1 /\ IsNext(i, v)
       /\ Goto(r, IF keyStatus[<<i, v - 1>>] = "pending" THEN "refused" ELSE "save")
       /\ version' = [version EXCEPT ![r] = v]
  /\ UNCHANGED <<org, creating, issuer, keyStatus, sealed, document, export, target, delivered>>

\* Mutant of SaveKey: the version is not compared with the one it was sealed for.
SaveKeyAsNext(r) ==
  LET i == target[r] IN
  /\ pc[r] = "save"
  /\ \E v \in Version :
       /\ v > 1 /\ IsNext(i, v)
       /\ keyStatus' = [keyStatus EXCEPT ![<<i, v>>] = "pending"]
       /\ sealed' = [sealed EXCEPT ![<<i, v>>] = version[r]]
  /\ Goto(r, "done")
  /\ UNCHANGED <<org, creating, issuer, export, target, version, delivered>>
  /\ Published

\* phase3_save_key, with the issuer's row locked: the version must still be the
\* next one, and one key at most may be pending.
SaveKey(r) ==
  LET i == target[r]
      k == <<i, version[r]>>
      accepted == /\ IsNext(i, version[r])
                  /\ issuer[i] = "active"
                  /\ \A v \in Version : keyStatus[<<i, v>>] # "pending"
  IN
  /\ pc[r] = "save"
  /\ UNCHANGED <<org, creating, issuer, export, target, version, delivered>>
  /\ IF accepted
       THEN /\ keyStatus' = [keyStatus EXCEPT ![k] = "pending"]
            /\ sealed' = [sealed EXCEPT ![k] = version[r]]
            /\ Goto(r, "done")
            /\ Published
       ELSE /\ Goto(r, "refused")
            /\ UNCHANGED <<keyStatus, sealed, document>>

\* The status of an issuer's keys when one of them becomes active.
Activated(i, v) ==
  [k \in Key |-> IF k = <<i, v>> THEN "active"
                 ELSE IF k[1] = i /\ keyStatus[k] = "active" THEN "retired" ELSE keyStatus[k]]

\* IssuerKeyService.activate opens the envelope first; phase4_activate_key
\* retires the active key in the transaction that activates the pending one.
ActivateKey(i, v) ==
  /\ keyStatus[<<i, v>>] = "pending" /\ sealed[<<i, v>>] = v
  /\ issuer[i] = "active" /\ didActive
  /\ keyStatus' = Activated(i, v)
  /\ UNCHANGED <<org, creating, issuer, sealed, export, calls>>
  /\ Published

-----------------------------------------------------------------------------
(***************************************************************************)
(* The download of the first key.                                          *)
(***************************************************************************)

Exportable(i) == export[i] = "open" /\ keyStatus[<<i, 1>>] # "retired"

\* The archive is built first and the claim made last.
BeginDownload(d) ==
  /\ pc[d] = "idle"
  /\ Goto(d, IF Exportable(target[d]) THEN "claim" ELSE "refused")
  /\ UNCHANGED <<org, creating, issuer, keyStatus, sealed, document, export, target, version, delivered>>

\* Mutant of ClaimExport: the archive is returned whoever claimed it.
ClaimExportTwice(d) ==
  /\ pc[d] = "claim"
  /\ Goto(d, "done")
  /\ delivered' = delivered \cup {d}
  /\ export' = [export EXCEPT ![target[d]] = "claimed"]
  /\ UNCHANGED <<org, creating, issuer, keyStatus, sealed, document, target, version>>

\* phase3_claim_export decides; without the claim the archive is destroyed.
ClaimExport(d) ==
  LET i == target[d] IN
  /\ pc[d] = "claim"
  /\ IF Exportable(i)
       THEN /\ Goto(d, "done")
            /\ export' = [export EXCEPT ![i] = "claimed"]
            /\ delivered' \in {delivered, delivered \cup {d}}  \* the answer may be lost
       ELSE /\ Goto(d, "refused")
            /\ UNCHANGED <<export, delivered>>
  /\ UNCHANGED <<org, creating, issuer, keyStatus, sealed, document, target, version>>

\* Ten minutes after the issuer was created.
ExpireExport(i) ==
  /\ export[i] = "open"
  /\ export' = [export EXCEPT ![i] = "expired"]
  /\ UNCHANGED <<org, creating, issuer, keyStatus, sealed, document, calls>>

Next ==
  \/ \E i \in Issuer :
       \/ \E s \in {"active", "suspended", "deleted"} : CreateIssuer(i, s) \/ SetIssuer(i, s)
       \/ \E v \in Version : ActivateKey(i, v)
       \/ BeginIssuer(i) \/ ExpireExport(i)
  \/ \E s \in OrgStatus : SetOrganization(s)
  \/ \E r \in Rotation : BeginRotation(r) \/ SaveKey(r)
  \/ \E d \in Download : BeginDownload(d) \/ ClaimExport(d)

Spec == Init /\ [][Next]_vars

-----------------------------------------------------------------------------
(***************************************************************************)
(* Properties.                                                             *)
(***************************************************************************)

\* Through creations, rotations and activations in any order, an issuer has one
\* active key, never none and never two, and one pending key at most.
OneSigningKey == \A i \in Issuer :
  /\ issuer[i] # "none" => \E v \in Version : keyStatus[<<i, v>>] = "active"
  /\ \A v, w \in Version : v # w =>
       /\ ~(keyStatus[<<i, v>>] = "active" /\ keyStatus[<<i, w>>] = "active")
       /\ ~(keyStatus[<<i, v>>] = "pending" /\ keyStatus[<<i, w>>] = "pending")

\* Every stored envelope opens with the version of its own row, although
\* concurrent rotations sealed theirs for versions they had read before.
KeysOpenable == \A k \in Key : keyStatus[k] # "none" => sealed[k] = k[2]

\* Whoever authenticates with the document does so with the active keys of
\* active issuers of an active organization, and with all of them; it verifies
\* with every key that was ever activated and with no pending one.
DocumentTracksKeys ==
  /\ docAuth = {k \in Key : keyStatus[k] = "active" /\ issuer[k[1]] = "active" /\ org = "active"}
  /\ docMethods = {k \in Key : keyStatus[k] \in {"active", "retired"}}

\* What was ever signed with stays verifiable: no method leaves the document,
\* whatever is rotated, suspended, deleted or reactivated.
HistoryRetained == [][docMethods \subseteq docMethods']_vars

\* A key that was retired or superseded never signs again.
RetiredIsFinal == [][\A k \in Key : keyStatus[k] = "retired" => keyStatus'[k] = "retired"]_vars

\* The first private key leaves the platform once, whoever downloads at once.
ExportedOnce == \A d, e \in delivered :
  d # e => target[d] # target[e]

\* The registry gives the readers of the DID document what they are promised.
Identity == INSTANCE ManagedIdentity WITH
  orgActive <- org = "active", active <- {i \in Issuer : issuer[i] = "active"},
  verifying <- docMethods, signing <- docAuth

ImplementsIdentity == Identity!Spec

=============================================================================
