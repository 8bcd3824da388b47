---------------------------- MODULE Verification ----------------------------
(***************************************************************************)
(* POST /api/verify.  A request reads the credential's row, resolves the   *)
(* issuer's DID document once, and then asks whatever the document names   *)
(* for its status: two signed status lists, each a snapshot of the rows    *)
(* that is signed a moment later, or its Document Store.  These reads are  *)
(* made one after the other while statuses change, keys rotate and         *)
(* registrations are mined, and any of them may fail.  A failed lookup of  *)
(* the row is tolerated when the document itself was submitted.            *)
(***************************************************************************)
EXTENDS CredentialLifecycle

CONSTANTS
  Request,        \* POST /api/verify requests
  Recorded,       \* credentials with a row of credentials; others come from elsewhere
  Listed,         \* documents with a revocation and a suspension list entry
  Stored,         \* documents with an OpenAttestationDocumentStore status
  Legacy,         \* documents on the default store that name no status
  Wallet,         \* documents signed by a wallet, which no DID stands behind
  Anchored,       \* rows whose issuingMethods include ethereum
  SignedBy,       \* the version of the key that signed each document
  MaxMethods,     \* bound: verification methods of the DID document
  MaxTransitions  \* bound: administrative transitions of a credential

ASSUME DocumentsAssumption ==
  /\ Recorded \subseteq Credential /\ Listed \subseteq Recorded
  /\ Stored \subseteq Credential /\ Legacy \subseteq Credential
  /\ Anchored \subseteq Recorded
  /\ Listed \cap (Stored \cup Legacy) = {} /\ Stored \cap Legacy = {}
  /\ Wallet \subseteq Credential /\ Wallet \cap (Listed \cup Stored) = {}
  /\ SignedBy \in [Credential -> {1}]
  /\ MaxMethods \in Nat /\ MaxTransitions \in Nat

VARIABLES
  overdue,    \* credentials whose validUntil has passed
  anchor,     \* the hash of each document in its Document Store
  methods,    \* the DID document verifies with the keys 1..methods, the last is the newest
  pc,         \* where each request stands
  target,     \* the credential it asks about
  submitted,  \* whether it submits the document or only its identifier
  record,     \* the status of the row it found, "none" without one
  resolved,   \* the methods of the DID document it resolved
  purpose,    \* the status list it fetches
  bit,        \* its index in the snapshot the list is made from
  asked,      \* the questions the Document Store has answered
  yes,        \* those it answered with yes
  valid,      \* cryptographicResult.valid
  onChain,    \* details.blockchainVerification
  held,       \* history: the credential was issued at some moment of the request
  anchored,   \* history: its hash was registered and not revoked at some moment
  calm        \* history: nothing it reads has changed or failed since it began

world == <<status, journal, overdue, anchor, methods>>
asks == <<pc, target, submitted, record, resolved, purpose, bit, asked, yes, valid, onChain>>
history == <<held, anchored, calm>>
verVars == <<world, asks, history>>

\* The status of a document whose validity is decided on chain.
ChainDecides == Stored \cup Legacy

Ended == {"verified", "refused", "error"}
Running(r) == pc[r] \notin Ended \cup {"idle"}

VerificationTypeOK ==
  /\ TypeOK
  /\ overdue \subseteq Credential
  /\ anchor \in [Credential -> {"absent", "issued", "revoked"}]
  /\ methods \in 1..(MaxMethods + 1)
  /\ pc \in [Request -> {"idle", "lookup", "resolve", "list", "signed", "probe", "answer"} \cup Ended]
  /\ target \in [Request -> Credential]
  /\ submitted \in [Request -> BOOLEAN]
  /\ record \in [Request -> Status \cup {"none"}]
  /\ resolved \in [Request -> 0..(MaxMethods + 1)]
  /\ purpose \in [Request -> {"revocation", "suspension"}]
  /\ bit \in [Request -> BOOLEAN]
  /\ asked \in [Request -> SUBSET {"isIssued", "isRevoked"}]
  /\ yes \in [Request -> SUBSET {"isIssued", "isRevoked"}]
  /\ valid \in [Request -> BOOLEAN]
  /\ onChain \in [Request -> {"none", "not required", "passed", "failed", "unavailable"}]
  /\ held \in [Request -> BOOLEAN]
  /\ anchored \in [Request -> BOOLEAN]
  /\ calm \in [Request -> BOOLEAN]

\* Requests may begin at any time after the issuance of what they ask about.
VerificationInit ==
  /\ Init
  /\ overdue = {}
  /\ anchor = [c \in Credential |-> "absent"]
  /\ methods = 1
  /\ pc = [r \in Request |-> "idle"]
  /\ target \in [Request -> Credential]
  /\ submitted \in [Request -> BOOLEAN]
  /\ record = [r \in Request |-> "none"]
  /\ resolved = [r \in Request |-> 0]
  /\ purpose = [r \in Request |-> "revocation"]
  /\ bit = [r \in Request |-> FALSE]
  /\ asked = [r \in Request |-> {}]
  /\ yes = [r \in Request |-> {}]
  /\ valid = [r \in Request |-> FALSE]
  /\ onChain = [r \in Request |-> "none"]
  /\ held = [r \in Request |-> FALSE]
  /\ anchored = [r \in Request |-> FALSE]
  /\ calm = [r \in Request |-> TRUE]

Goto(r, label) == pc' = [pc EXCEPT ![r] = label]

-----------------------------------------------------------------------------
(***************************************************************************)
(* Steps of a request.                                                     *)
(***************************************************************************)

\* The rate limit and the body were accepted.
Begin(r) ==
  /\ pc[r] = "idle"
  /\ Goto(r, "lookup")
  /\ held' = [held EXCEPT ![r] = status[target[r]] = "issued"]
  /\ anchored' = [anchored EXCEPT ![r] = anchor[target[r]] = "issued"]
  /\ calm' = [calm EXCEPT ![r] = TRUE]
  /\ UNCHANGED <<world, target, submitted, record, resolved, purpose, bit, asked, yes, valid, onChain>>

\* 400, 413 or 429.
Reject(r) ==
  /\ pc[r] = "idle"
  /\ Goto(r, "error")
  /\ UNCHANGED <<world, target, submitted, record, resolved, purpose, bit, asked, yes, valid, onChain, history>>

\* What the row says of the credential, its valid_until compared at once.
RowSays(c) == IF c \in overdue THEN "expired" ELSE status[c]

\* findForPublicVerification.  Without a row only a submitted document is left
\* to verify.
Lookup(r) ==
  /\ pc[r] = "lookup"
  /\ record' = [record EXCEPT ![r] = IF target[r] \in Recorded THEN RowSays(target[r]) ELSE "none"]
  /\ Goto(r, IF submitted[r] \/ target[r] \in Recorded THEN "resolve" ELSE "refused")
  /\ UNCHANGED <<world, target, submitted, resolved, purpose, bit, asked, yes, valid, onChain, history>>

\* The lookup failed: 500, unless there is a submitted document to go on with.
LookupError(r) ==
  /\ pc[r] = "lookup"
  /\ Goto(r, IF submitted[r] THEN "resolve" ELSE "error")
  /\ calm' = [calm EXCEPT ![r] = FALSE]
  /\ UNCHANGED <<world, target, submitted, record, resolved, purpose, bit, asked, yes, valid, onChain,
                 held, anchored>>

\* Mutant of Authorized: only the newest key is accepted, as by a loader that
\* knows the key now in use and not the published history.
AuthorizedNewest(key, known) == key = known

\* The assertionMethod of the issuer's document authorizes the signing key.
Authorized(key, known) == key <= known

\* verifyEcdsaCredential up to the status: the issuer's document is resolved,
\* for this request once; key, signature and validity period are checked.
ResolveIssuer(r) ==
  LET c == target[r]
      proven == Authorized(SignedBy[c], methods) /\ c \notin overdue
      final == c \notin Listed \cup ChainDecides
  IN
  /\ pc[r] = "resolve" /\ c \notin Wallet
  /\ resolved' = [resolved EXCEPT ![r] = methods]
  /\ valid' = [valid EXCEPT ![r] = proven /\ final]
  /\ onChain' = [onChain EXCEPT ![r] = IF proven /\ final THEN "not required" ELSE "none"]
  /\ Goto(r, IF ~proven THEN "answer"
             ELSE IF c \in Listed THEN "list"
             ELSE IF c \in ChainDecides \/ (record[r] # "none" /\ c \in Anchored) THEN "probe"
             ELSE "answer")
  /\ UNCHANGED <<world, target, submitted, record, purpose, bit, asked, yes, history>>

\* A wallet's signature needs nobody's document; neither validity period nor
\* saved anchor is looked at.
RecoverWallet(r) ==
  LET c == target[r] IN
  /\ pc[r] = "resolve" /\ c \in Wallet
  /\ valid' = [valid EXCEPT ![r] = c \notin Legacy]
  /\ Goto(r, IF c \in Legacy THEN "probe" ELSE "answer")
  /\ UNCHANGED <<world, target, submitted, record, resolved, purpose, bit, asked, yes, onChain, history>>

\* Mutant of ListBit: each list shows its own status only.
ListBitOwnStatus(p, s) == s = IF p = "revocation" THEN "revoked" ELSE "suspended"

\* createStatusListDocument: a revoked credential is set in both lists.
ListBit(p, s) == s \in IF p = "revocation" THEN {"revoked"} ELSE {"suspended", "revoked"}

\* The issuer's platform publishes the list: it reads the rows first.
Snapshot(r) ==
  /\ pc[r] = "list"
  /\ bit' = [bit EXCEPT ![r] = ListBit(purpose[r], status[target[r]])]
  /\ Goto(r, "signed")
  /\ UNCHANGED <<world, target, submitted, record, resolved, purpose, asked, yes, valid, onChain, history>>

\* It signs the list with the newest key.  The verifier accepts it if that key
\* is in the DID document it resolved before, and then reads the bit; the lists
\* are taken in the order of the document's entries.
CheckList(r) ==
  LET passes == Authorized(methods, resolved[r]) /\ ~bit[r]
      last == purpose[r] = "suspension"
  IN
  /\ pc[r] = "signed"
  /\ purpose' = [purpose EXCEPT ![r] = "suspension"]
  /\ valid' = [valid EXCEPT ![r] = passes /\ last]
  /\ onChain' = [onChain EXCEPT ![r] = IF passes /\ last THEN "not required" ELSE "none"]
  /\ Goto(r, IF ~passes THEN "answer"
             ELSE IF ~last THEN "list"
             ELSE IF record[r] # "none" /\ target[r] \in Anchored THEN "probe"
             ELSE "answer")
  /\ UNCHANGED <<world, target, submitted, record, resolved, bit, asked, yes, history>>

\* DNS, redirects, a timeout, 404 or 503, a list older than a minute: the
\* credential is not verified.
FetchError(r) ==
  /\ pc[r] \in {"resolve", "list", "signed"} /\ target[r] \notin Wallet
  /\ calm' = [calm EXCEPT ![r] = FALSE]
  /\ Goto(r, "answer")
  /\ UNCHANGED <<world, target, submitted, record, resolved, purpose, bit, asked, yes, valid, onChain,
                 held, anchored>>

\* What the answers of the Document Store come to.  They decide the validity of
\* a document whose status is on chain; for one with a saved anchor they are
\* only reported.
Conclude(r) ==
  LET passed == yes'[r] = {"isIssued"} IN
  /\ onChain' = [onChain EXCEPT ![r] = IF passed THEN "passed" ELSE "failed"]
  /\ valid' = [valid EXCEPT ![r] = IF target[r] \in ChainDecides THEN passed ELSE @]
  /\ Goto(r, "answer")

\* isIssued, and without it nothing more is asked; verifyDocumentOnChain asks
\* both at once and takes the answers in any order.
ProbeIssued(r) ==
  LET issued == anchor[target[r]] # "absent" IN
  /\ pc[r] = "probe" /\ "isIssued" \notin asked[r]
  /\ asked' = [asked EXCEPT ![r] = @ \cup {"isIssued"}]
  /\ yes' = [yes EXCEPT ![r] = IF issued THEN @ \cup {"isIssued"} ELSE @]
  /\ IF (target[r] \notin Legacy /\ ~issued) \/ "isRevoked" \in asked[r]
       THEN Conclude(r)
       ELSE UNCHANGED <<pc, valid, onChain>>
  /\ UNCHANGED <<world, target, submitted, record, resolved, purpose, bit, history>>

\* Mutant of ProbeRevoked: the answer is taken for no.
ProbeRevokedIgnored(r) ==
  /\ pc[r] = "probe" /\ "isRevoked" \notin asked[r]
  /\ target[r] \in Legacy \/ "isIssued" \in asked[r]
  /\ asked' = [asked EXCEPT ![r] = @ \cup {"isRevoked"}]
  /\ UNCHANGED yes
  /\ IF "isIssued" \in asked[r] THEN Conclude(r) ELSE UNCHANGED <<pc, valid, onChain>>
  /\ UNCHANGED <<world, target, submitted, record, resolved, purpose, bit, history>>

ProbeRevoked(r) ==
  /\ pc[r] = "probe" /\ "isRevoked" \notin asked[r]
  /\ target[r] \in Legacy \/ "isIssued" \in asked[r]
  /\ asked' = [asked EXCEPT ![r] = @ \cup {"isRevoked"}]
  /\ yes' = [yes EXCEPT ![r] = IF anchor[target[r]] = "revoked" THEN @ \cup {"isRevoked"} ELSE @]
  /\ IF "isIssued" \in asked[r] THEN Conclude(r) ELSE UNCHANGED <<pc, valid, onChain>>
  /\ UNCHANGED <<world, target, submitted, record, resolved, purpose, bit, history>>

\* An RPC error refuses a document whose status is on chain, and leaves the
\* validity of one with a saved anchor as it is.
ProbeError(r) ==
  /\ pc[r] = "probe"
  /\ onChain' = [onChain EXCEPT ![r] = "unavailable"]
  /\ calm' = [calm EXCEPT ![r] = FALSE]
  /\ Goto(r, "answer")
  /\ UNCHANGED <<world, target, submitted, record, resolved, purpose, bit, asked, yes, valid, held, anchored>>

\* The verdict joins the proof and the row; it is logged and returned.
Answer(r) ==
  /\ pc[r] = "answer"
  /\ Goto(r, IF valid[r] /\ record[r] \in {"none", "issued"} THEN "verified" ELSE "refused")
  /\ UNCHANGED <<world, target, submitted, record, resolved, purpose, bit, asked, yes, valid, onChain, history>>

\* The instance is killed.
Crash(r) ==
  /\ Running(r)
  /\ Goto(r, "error")
  /\ UNCHANGED <<world, target, submitted, record, resolved, purpose, bit, asked, yes, valid, onChain, history>>

Step(r) ==
  \/ Begin(r) \/ Reject(r) \/ Lookup(r) \/ LookupError(r) \/ ResolveIssuer(r) \/ RecoverWallet(r)
  \/ Snapshot(r) \/ CheckList(r) \/ FetchError(r)
  \/ ProbeIssued(r) \/ ProbeRevoked(r) \/ ProbeError(r) \/ Answer(r) \/ Crash(r)

-----------------------------------------------------------------------------
(***************************************************************************)
(* What happens to the credentials meanwhile.                              *)
(***************************************************************************)

\* What running requests witness of a change to the credentials in C.
Witness(C) ==
  /\ held' = [r \in Request |-> held[r] \/ (Running(r) /\ status'[target[r]] = "issued")]
  /\ anchored' = [r \in Request |-> anchored[r] \/ (Running(r) /\ anchor'[target[r]] = "issued")]
  /\ calm' = [r \in Request |-> calm[r] /\ target[r] \notin C]
  /\ UNCHANGED asks

\* Bound: what happens to credentials no request asks about is left out.
AskedAbout == {target[r] : r \in Request}

\* A revocation call: on chain first, as AnchorRevokedFirst of Revocation says.
ChangeStatus(c, act) ==
  /\ c \in Recorded /\ Len(journal[c]) < MaxTransitions
  /\ act = "revoke" /\ c \in Anchored => anchor[c] = "revoked"
  /\ Transition(c, act)
  /\ UNCHANGED <<overdue, anchor, methods>>
  /\ Witness({c})

\* The expiry sweep of GET /api/credentials.
Sweep ==
  LET C == {c \in overdue \cap Recorded \cap AskedAbout : status[c] = "issued"} IN
  /\ C # {}
  /\ Expire(C)
  /\ UNCHANGED <<overdue, anchor, methods>>
  /\ Witness(C)

PassValidUntil(c) ==
  /\ c \notin overdue
  /\ overdue' = overdue \cup {c}
  /\ UNCHANGED <<status, journal, anchor, methods>>
  /\ Witness({c})

\* A registration or a revocation of the document's hash is mined.
Mine(c) ==
  /\ c \in Anchored \cup ChainDecides
  /\ anchor[c] # "revoked"
  /\ anchor' = [anchor EXCEPT ![c] = IF @ = "absent" THEN "issued" ELSE "revoked"]
  /\ UNCHANGED <<status, journal, overdue, methods>>
  /\ Witness({c})

\* The issuer's next key becomes active; ManagedIdentity keeps the others.
Rotate ==
  /\ methods <= MaxMethods
  /\ methods' = methods + 1
  /\ UNCHANGED <<status, journal, overdue, anchor>>
  /\ Witness(Credential)

VerificationNext ==
  \/ \E r \in Request : Step(r)
  \/ \E c \in AskedAbout : PassValidUntil(c) \/ Mine(c)
  \/ \E c \in AskedAbout, act \in RevocationAction : ChangeStatus(c, act)
  \/ Sweep \/ Rotate

VerificationSpec == VerificationInit /\ [][VerificationNext]_verVars

-----------------------------------------------------------------------------
(***************************************************************************)
(* Properties.                                                             *)
(***************************************************************************)

\* A credential whose row was read, or whose document names its status lists,
\* is reported verified only if it was in force at some moment of the request:
\* the two lists and the row are read at different times, and still no mixture
\* of an old and a new answer passes a credential that never was in force.
VerifiedWhileIssued ==
  \A r \in Request :
    pc[r] = "verified" /\ (record[r] # "none" \/ target[r] \in Listed) => held[r]

\* "passed" was true of the hash at some moment of the request, whichever of
\* the two answers came first and whatever was mined in between; a document the
\* chain decides about is verified on no other ground, so that a revocation
\* finished before the request is seen even when the row cannot be read.
PassedWasRegistered ==
  \A r \in Request :
    onChain[r] = "passed" \/ (pc[r] = "verified" /\ target[r] \in ChainDecides) => anchored[r]

\* What makes a credential verifiable, if nothing changes.
InForce(r) ==
  LET c == target[r] IN
  /\ status[c] = "issued" /\ c \notin overdue
  /\ c \in ChainDecides => anchor[c] = "issued"
  /\ c \in Recorded \/ submitted[r]

\* A refusal has a cause: if nothing the request reads has changed or failed
\* since it began, the credential is not in force.  Keys rotated between the
\* issuance and the request are no cause.
RefusedForCause ==
  \A r \in Request : pc[r] = "refused" /\ calm[r] => ~InForce(r)

\* What the route says of its verdict: "A credential that exists but is
\* revoked, suspended, or past its validity window must not be reported as
\* verified."  Without the row, and without a status in the document, it is.
ExistingOnlyWhileIssued ==
  \A r \in Request : pc[r] = "verified" /\ target[r] \in Recorded => held[r]

=============================================================================
