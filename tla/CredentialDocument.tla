------------------------- MODULE CredentialDocument -------------------------
(***************************************************************************)
(* The document itself: how lib/trustvc.ts builds, completes, signs,       *)
(* hashes and verifies it.  A document is a function from the fields it    *)
(* has to their values, so that, as in canonicalJson, the order in which   *)
(* they were added is of no account, and its hash is the document.  The    *)
(* holder may hide every field the proof does not make mandatory; what a   *)
(* verification would answer at this moment is the operator Verified.      *)
(***************************************************************************)
EXTENDS Naturals, FiniteSets

CONSTANTS
  DefaultStore,  \* the deployment's Document Store, on Sepolia
  ProfileStore,  \* the one of the template's issuer profile, on Sepolia
  OwnStore,      \* the organization's active one, on another network
  Account        \* the address of the issuer's MetaMask account

ASSUME StoresAssumption == Cardinality({DefaultStore, ProfileStore, OwnStore}) = 3

Method == {"did", "ethereum"}
DocumentStore == {DefaultStore, ProfileStore, OwnStore}
IssuerDid == "issuer"

VARIABLES
  operator,    \* whether every hash is to be registered (isRegistered)
  configured,  \* the store issuance resolves: organization's, profile's or default
  issued,      \* the document handed out, {} before
  row,         \* its row: hash, methods, store and status, {} without one
  registrar,   \* who is to register the hash: "server", "wallet" or "none"
  registered,  \* <<store, hash>> pairs issued on chain
  revoked,     \* <<store, hash>> pairs revoked on chain
  clock        \* "before", "within" or "after" the validity period

chain == <<registered, revoked>>
docVars == <<operator, configured, issued, row, registrar, chain, clock>>

Without(doc, f) == [g \in DOMAIN doc \ {f} |-> doc[g]]
With(doc, f, value) == [g \in DOMAIN doc \cup {f} |-> IF g = f THEN value ELSE doc[g]]

-----------------------------------------------------------------------------
(***************************************************************************)
(* Building and signing.                                                   *)
(***************************************************************************)

\* buildVCPayload: its credentialStatus names the Document Store; "identity"
\* stands for the subject fields getMandatoryCredentialPointers lists, "details"
\* for the others.
BuildVCPayload(methods, until, issuer, store) ==
  LET base == [issuer |-> issuer, validFrom |-> "start", identity |-> "recipient", details |-> "course",
               credentialStatus |-> [type |-> "store", store |-> store],
               issuingMethods |-> IF methods = {} THEN {"did"} ELSE methods]
  IN IF until THEN With(base, "validUntil", "end") ELSE base

\* reserveManaged's two entries take the place of the store reference.
WithStatusLists(doc) == With(doc, "credentialStatus", [type |-> "lists"])

WithEmbeddedRenderMethod(doc) == With(doc, "renderMethod", "renderer")

StripExistingProof(doc) == Without(doc, "proof")

Hash(doc) == {doc}

\* injectTargetHash: the hash is committed to in the status before signing, and
\* is that of the document without the commitment.
InjectTargetHash(doc) ==
  LET status == doc["credentialStatus"]
      bare == With(doc, "credentialStatus", Without(status, "targetHash"))
  IN IF status["type"] = "store"
       THEN With(doc, "credentialStatus", With(Without(status, "targetHash"), "targetHash", Hash(bare)))
       ELSE doc

\* Mutant of MandatoryPointers: the status is left to the holder.
MandatoryPointersNoStatus(doc) ==
  {"id", "issuer", "identity"} \cup ({"validFrom", "validUntil", "renderMethod"} \cap DOMAIN doc)

\* getEcdsaSdMandatoryPointers and getMandatoryCredentialPointers; the id is the
\* subject of every statement selected.
MandatoryPointers(doc) ==
  {"id", "issuer", "identity"} \cup
  ({"validFrom", "validUntil", "credentialStatus", "renderMethod"} \cap DOMAIN doc)

\* signCredentialWithEcdsaSd2023: a new id is filled in, the hash committed, and
\* the base proof made over what results.
SignCredentialWithEcdsaSd2023(credential, did) ==
  LET doc == InjectTargetHash(With(credential, "id", "urn"))
  IN With(doc, "proof", [type |-> "sd", by |-> did, over |-> doc, mandatory |-> MandatoryPointers(doc)])

\* signDocumentWithDID with the issuer's own key: an earlier proof is dropped.
SignDocumentWithDID(credential) == SignCredentialWithEcdsaSd2023(StripExistingProof(credential), IssuerDid)

\* signCredentialWithEthereum: the wallet signs the canonical document, which
\* has neither id nor commitment.
SignCredentialWithEthereum(credential) ==
  LET doc == StripExistingProof(credential)
  IN With(doc, "proof", [type |-> "wallet", by |-> Account, over |-> doc, mandatory |-> DOMAIN doc])

\* Mutant of ComputeDocumentStoreHash: the commitment is not looked for.
ComputeDocumentStoreHashOfFile(doc) == Hash(doc)

\* computeDocumentStoreHash in mode "auto" of a document without an
\* OpenAttestation wrapper: the committed hash, or that of the whole file.
ComputeDocumentStoreHash(doc) ==
  IF "credentialStatus" \in DOMAIN doc /\ "targetHash" \in DOMAIN doc["credentialStatus"]
    THEN doc["credentialStatus"]["targetHash"]
    ELSE Hash(doc)

\* extractTargetHash of the issuing route.
ExtractTargetHash(doc) ==
  IF "targetHash" \in DOMAIN doc["credentialStatus"] THEN doc["credentialStatus"]["targetHash"] ELSE {}

-----------------------------------------------------------------------------
(***************************************************************************)
(* Verification.                                                           *)
(***************************************************************************)

\* getIssuingMethods: a document that does not say was issued under a DID.
GetIssuingMethods(doc) ==
  IF "issuingMethods" \in DOMAIN doc THEN doc["issuingMethods"] \cap Method ELSE {"did"}

\* Mutant of OnChain: revocations are not asked for.
OnChainIssued(store, hash) == <<store, hash>> \in registered

\* isIssued and not isRevoked.
OnChain(store, hash) == <<store, hash>> \in registered \ revoked

\* verifyDocumentOnChain asks the deployment's store, whatever the document names.
VerifyDocumentOnChain(doc) == OnChain(DefaultStore, ComputeDocumentStoreHash(doc))

\* The selective-disclosure proof holds of a part of what was signed that has
\* every mandatory field; a document that still is complete is derived first.
\* The method must be of the issuer named, whose key is published.
ProofHolds(doc) ==
  LET proof == doc["proof"]
      shown == StripExistingProof(doc)
  IN /\ "issuer" \in DOMAIN doc /\ doc["issuer"] = proof["by"]
     /\ proof["mandatory"] \subseteq DOMAIN shown
     /\ DOMAIN shown \subseteq DOMAIN proof["over"]
     /\ \A f \in DOMAIN shown : shown[f] = proof["over"][f]

WithinPeriod(doc) ==
  /\ "validFrom" \in DOMAIN doc => clock # "before"
  /\ "validUntil" \in DOMAIN doc => clock # "after"

\* The lists show the status of the row; they are for documents issued under a
\* DID alone.
ListsClear(doc) ==
  /\ "ethereum" \notin GetIssuingMethods(doc)
  /\ \A r \in row : r.status = "issued"

StoreConfirms(doc) ==
  LET status == doc["credentialStatus"] IN
  "targetHash" \in DOMAIN status /\ OnChain(status["store"], status["targetHash"])

\* verifyEcdsaCredential.
VerifyEcdsaCredential(doc) ==
  /\ ProofHolds(doc) /\ WithinPeriod(doc)
  /\ IF "credentialStatus" \notin DOMAIN doc
       THEN "ethereum" \in GetIssuingMethods(doc) => VerifyDocumentOnChain(doc)
       ELSE IF doc["credentialStatus"]["type"] = "lists" THEN ListsClear(doc) ELSE StoreConfirms(doc)

\* The wallet named signed everything but the proof.
VerifyWalletProof(doc) ==
  /\ doc["proof"]["by"] = Account
  /\ StripExistingProof(doc) = doc["proof"]["over"]
  /\ "ethereum" \in GetIssuingMethods(doc) => VerifyDocumentOnChain(doc)

IsIssuerVerificationMethodMatch(doc) == doc["issuer"] = doc["proof"]["by"]

\* A proof of another suite is left to the library, which knows no hidden parts.
VerifyOtherProof(doc) ==
  /\ StripExistingProof(doc) = doc["proof"]["over"]
  /\ IsIssuerVerificationMethodMatch(doc)
  /\ "ethereum" \in GetIssuingMethods(doc) => VerifyDocumentOnChain(doc)

\* verifyCredential: the required fields, then the kind of proof.
VerifyCredential(doc) ==
  /\ {"identity", "issuer", "proof"} \subseteq DOMAIN doc
  /\ LET type == doc["proof"]["type"] IN
     IF type = "wallet" THEN VerifyWalletProof(doc)
     ELSE IF type = "sd" THEN VerifyEcdsaCredential(doc) ELSE VerifyOtherProof(doc)

\* The row the verification route finds by the identifier in the file.
Found(doc) == IF "identity" \in DOMAIN doc /\ doc["identity"] = "recipient" THEN row ELSE {}

\* The verdict of POST /api/verify for a submitted file.
Verified(doc) ==
  /\ VerifyCredential(doc)
  /\ \A r \in Found(doc) : r.status = "issued" /\ (r.until => clock # "after")

\* The anchor that is reported for a row whose methods include ethereum: the
\* saved hash is asked for only if it is that of this very file.
AnchorReported(doc) ==
  IF ~ \E r \in Found(doc) : "ethereum" \in r.methods THEN "not required"
  ELSE LET r == CHOOSE r \in Found(doc) : TRUE IN
       IF r.hash # ComputeDocumentStoreHash(doc) THEN "unavailable"
       ELSE IF OnChain(r.store, r.hash) THEN "passed" ELSE "failed"

-----------------------------------------------------------------------------
(***************************************************************************)
(* Issuance, registration, revocation, time.                               *)
(***************************************************************************)

DocumentInit ==
  /\ operator \in BOOLEAN
  /\ configured \in DocumentStore
  /\ issued = {} /\ row = {} /\ registrar = "none"
  /\ registered = {} /\ revoked = {}
  /\ clock = "before"

\* The combinations POST /api/issue accepts.
Accepted(methods, profile, embedded) ==
  /\ profile = "trustvc" => "did" \in methods
  /\ profile = "bitstring" => methods = {"did"}
  /\ embedded => "did" \in methods

\* POST /api/issue signs and stores the document, and decides who registers its
\* hash: the server for an organization's store or after the response, or the
\* wallet.  A document with status lists keeps its anchor outside.
Issue(methods, profile, until, embedded) ==
  LET lists == profile # "legacy"
      payload == BuildVCPayload(IF profile = "trustvc" THEN {"did"} ELSE methods, until, IssuerDid, configured)
      published == IF lists THEN WithStatusLists(payload) ELSE payload
      doc == SignDocumentWithDID(IF embedded THEN WithEmbeddedRenderMethod(published) ELSE published)
      anchors == "ethereum" \in methods
      hash == IF profile = "trustvc" /\ anchors THEN ComputeDocumentStoreHash(doc) ELSE ExtractTargetHash(doc)
  IN
  /\ issued = {} /\ Accepted(methods, profile, embedded)
  /\ issued' = {doc}
  /\ row' = {[hash |-> hash, methods |-> methods, store |-> configured, status |-> "issued", until |-> until]}
  /\ registrar' = IF hash = {} THEN "none"
                  ELSE IF configured = OwnStore /\ anchors THEN "server"
                  ELSE IF profile # "trustvc" THEN IF anchors \/ operator THEN "server" ELSE "none"
                  ELSE "wallet"
  /\ UNCHANGED <<operator, configured, chain, clock>>

\* The pages' issuance by wallet alone: built in the browser for the default
\* store, signed by the wallet, and nowhere recorded.
IssueByWallet(until) ==
  /\ issued = {}
  /\ issued' = {SignCredentialWithEthereum(BuildVCPayload({"ethereum"}, until, "platform", DefaultStore))}
  /\ registrar' = "wallet"
  /\ UNCHANGED <<operator, configured, row, chain, clock>>

\* A document of another platform, signed with another suite over all it says.
Receive(methods) ==
  LET doc == [issuer |-> "elsewhere", validFrom |-> "start", identity |-> "someone", details |-> "course",
              id |-> "urn", issuingMethods |-> methods]
  IN
  /\ issued = {}
  /\ issued' = {With(doc, "proof", [type |-> "other", by |-> "elsewhere", over |-> doc, mandatory |-> DOMAIN doc])}
  /\ registrar' = IF "ethereum" \in methods THEN "wallet" ELSE "none"
  /\ UNCHANGED <<operator, configured, row, chain, clock>>

\* registerHash of the hash in the row, with the store in the row.
Register ==
  \E r \in row :
    /\ registrar = "server"
    /\ registered' = registered \cup {<<r.store, r.hash>>}
    /\ registrar' = "none"
    /\ UNCHANGED <<operator, configured, issued, row, revoked, clock>>

\* The store the wallet is given: that of the response, or without one the
\* default, which the files made in the browser name.
WalletStore == IF row # {} THEN (CHOOSE r \in row : TRUE).store ELSE DefaultStore

\* issueCertificateToEthereum of the file; wallets register on Sepolia only.
RegisterByWallet ==
  \E doc \in issued :
    /\ registrar = "wallet" /\ WalletStore # OwnStore
    /\ registered' = registered \cup {<<WalletStore, ComputeDocumentStoreHash(doc)>>}
    /\ registrar' = "none"
    /\ UNCHANGED <<operator, configured, issued, row, revoked, clock>>

\* RevocationService: first on chain, which fails of a hash not registered, if the
\* row has a store of its profile or organization and the document a hash there.
Revoke ==
  \E r \in row :
    LET anchored == r.store # DefaultStore /\ r.hash # {} IN
    /\ r.status = "issued"
    /\ anchored => <<r.store, r.hash>> \in registered
    /\ revoked' = IF anchored THEN revoked \cup {<<r.store, r.hash>>} ELSE revoked
    /\ row' = {[r EXCEPT !.status = "revoked"]}
    /\ UNCHANGED <<operator, configured, issued, registrar, registered, clock>>

\* revokeCertificateOnEthereum of the file, by its wallet.
RevokeByWallet ==
  \E doc \in issued :
    LET entry == <<WalletStore, ComputeDocumentStoreHash(doc)>> IN
    /\ entry \in registered \ revoked
    /\ revoked' = revoked \cup {entry}
    /\ UNCHANGED <<operator, configured, issued, row, registrar, registered, clock>>

PassTime ==
  /\ clock # "after"
  /\ clock' = IF clock = "before" THEN "within" ELSE "after"
  /\ UNCHANGED <<operator, configured, issued, row, registrar, chain>>

DocumentNext ==
  \/ \E methods \in SUBSET Method, profile \in {"legacy", "bitstring", "trustvc"}, until, embedded \in BOOLEAN :
       Issue(methods, profile, until, embedded)
  \/ \E until \in BOOLEAN : IssueByWallet(until)
  \/ \E methods \in SUBSET Method : Receive(methods)
  \/ Register \/ RegisterByWallet \/ Revoke \/ RevokeByWallet \/ PassTime

DocumentSpec == DocumentInit /\ [][DocumentNext]_docVars

-----------------------------------------------------------------------------
(***************************************************************************)
(* Properties.                                                             *)
(***************************************************************************)

\* What its holder may make of a document: a selective-disclosure proof lets
\* everything be hidden that it does not make mandatory.
Presentations(doc) ==
  {[f \in DOMAIN doc \ H |-> doc[f]] : H \in SUBSET (DOMAIN doc \ (doc["proof"]["mandatory"] \cup {"proof"}))}

\* The documents whose validity is decided on chain.
DocumentChainDecides(doc) ==
  \/ "credentialStatus" \in DOMAIN doc /\ doc["credentialStatus"]["type"] = "store"
  \/ "credentialStatus" \notin DOMAIN doc /\ "ethereum" \in doc["issuingMethods"]

\* Hiding fields changes nothing: every presentation of a document is answered
\* as the whole document is, at every time and after every registration and
\* revocation.  What decides the answer has to be mandatory, and what is read
\* where it is missing has to be what the document would have said.
HidingChangesNothing ==
  \A doc \in issued : \A p \in Presentations(doc) : Verified(p) = Verified(doc)

\* A document is verified from its registration, whoever registered it, until it
\* is revoked, from the row or from the file: the hash committed to before the
\* signature, the one in the row, the one registered, the one revoked and the one
\* computed from the file are the same, and the anchor reported for it agrees.
VerifiedUntilRevoked ==
  \A doc \in issued :
    LET decides == DocumentChainDecides(doc)
        withdrawn == (\E r \in row : r.status = "revoked") \/ (decides /\ revoked # {})
    IN
    /\ withdrawn => ~Verified(doc)
    /\ clock = "within" /\ ~withdrawn => Verified(doc) = (decides => registered # {})
    /\ clock = "within" /\ registered # {} /\ revoked = {}
         => AnchorReported(doc) \in {"passed", "not required"}

=============================================================================
