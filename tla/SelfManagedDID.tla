--------------------------- MODULE SelfManagedDID ---------------------------
(***************************************************************************)
(* An organization that serves its DID document from a domain of its own.  *)
(* The platform derives the document it expects there from the managed     *)
(* one, whose changes are those that ManagedIdentity promises; an          *)
(* administrator downloads it with a signed domain linkage, deploys both   *)
(* files, has them validated and selects the customer DID for new          *)
(* credentials.  Files are fetched outside every transaction, so each      *)
(* result is recorded against the revision it was obtained for.            *)
(***************************************************************************)
EXTENDS Integers

CONSTANTS
  Issuer,       \* issuers of the organization
  Version,      \* versions of their keys
  Filing,       \* SelfManagedDIDService.files calls
  Checking,     \* SelfManagedDIDService.validate and select calls
  Issuing,      \* issuances that bind a signing key and insert their credential
  MaxRevision   \* bound on the revisions of the configuration

ASSUME KeysAssumption == Issuer # {} /\ Version # {}

ASSUME CallsAssumption == /\ MaxRevision \in Nat \ {0}
                          /\ Filing \cap (Checking \cup Issuing) = {}
                          /\ Checking \cap Issuing = {}

VARIABLES
  orgActive, active, keyStatus, verifying, signing,   \* of ManagedIdentity
  configured,  \* the organization has a row in self_managed_dids
  selected, revision, expected, linkage, status,      \* its columns
  validated,   \* validated_revision
  expired,     \* linkage_expires_at has passed
  hostedDoc, hostedLink,   \* the two files the customer's site serves
  docServed, linkServed,   \* it has served the expected one since the last revision
  published,   \* the keys it has ever let authenticate
  pc,          \* where each call stands
  seen,        \* the configuration a call has read
  fetched,   \* the files a call has fetched and found as it had read them
  mode,        \* what a check is for
  key,         \* the key a filing or an issuance signs with
  row          \* the credential an issuance has inserted

Managed == INSTANCE ManagedIdentity

Key == Issuer \X Version
Call == Filing \cup Checking \cup Issuing

managed == <<orgActive, active, keyStatus, verifying, signing>>
configuration == <<configured, selected, revision, expected, linkage, status, validated, expired>>
site == <<hostedDoc, hostedLink, docServed, linkServed, published>>
calls == <<pc, seen, fetched, mode, key, row>>
vars == <<managed, configuration, site, calls>>

\* Documents are the keys they verify with and those they authenticate with; a
\* linkage is known by the revision it was saved as.
Document == (SUBSET Key) \X (SUBSET Key)
NoLinkage == [id |-> 0, key |-> CHOOSE k \in Key : TRUE]
Linkage == [id : 0..MaxRevision, key : Key]
Seen == [revision : 0..MaxRevision, doc : Document, linkage : Linkage]
Nothing == [revision |-> 0, doc |-> <<{}, {}>>, linkage |-> NoLinkage]
NoRow == [did |-> "none", key |-> NoLinkage.key]

TypeOK ==
  /\ configured \in BOOLEAN /\ selected \in BOOLEAN /\ expired \in BOOLEAN
  /\ revision \in 1..MaxRevision /\ validated \in 0..MaxRevision
  /\ expected \in Document /\ linkage \in Linkage
  /\ status \in {"pending", "valid", "invalid", "stale"}
  /\ hostedDoc \in Document /\ hostedLink \in Linkage
  /\ docServed \in BOOLEAN /\ linkServed \in BOOLEAN /\ published \subseteq Key
  /\ pc \in [Call -> {"idle", "sign", "save", "reread", "download", "done",
                      "fetch", "failed", "switch", "config", "row"}]
  /\ seen \in [Call -> Seen]
  /\ fetched \in [Call -> SUBSET {"document", "linkage"}]
  /\ mode \in [Call -> {"validate", "self-managed", "managed"}]
  /\ key \in [Call -> Key]
  /\ row \in [Issuing -> [did : {"none", "managed", "customer"}, key : Key]]

Init ==
  /\ Managed!Init
  /\ configured = FALSE /\ selected = FALSE
  /\ revision = 1 /\ validated = 0
  /\ expected = Nothing.doc /\ linkage = NoLinkage
  /\ status = "pending" /\ expired = FALSE
  /\ hostedDoc = Nothing.doc /\ hostedLink = NoLinkage
  /\ docServed = FALSE /\ linkServed = FALSE /\ published = {}
  /\ pc = [c \in Call |-> "idle"]
  /\ seen = [c \in Call |-> Nothing]
  /\ fetched = [c \in Call |-> {}]
  /\ mode = [c \in Call |-> "validate"]
  /\ key = [c \in Call |-> NoLinkage.key]
  /\ row = [s \in Issuing |-> NoRow]

Goto(c, label) == pc' = [pc EXCEPT ![c] = label]

\* A call that ends forgets what it has read.
Leave(c, label) ==
  /\ Goto(c, label)
  /\ seen' = IF label = "idle" THEN [seen EXCEPT ![c] = Nothing] ELSE seen
  /\ key' = IF label = "idle" THEN [key EXCEPT ![c] = NoLinkage.key] ELSE key
  /\ mode' = IF label = "idle" THEN [mode EXCEPT ![c] = "validate"] ELSE mode

\* The row as a call's SELECT returns it.
Current == [revision |-> revision, doc |-> expected, linkage |-> linkage]

\* What the site has served of the current revision.
IsServed(file, wanted, none) == file = wanted /\ file # none

Observed ==
  /\ docServed' = (IsServed(hostedDoc', expected', Nothing.doc) \/ (docServed /\ revision' = revision))
  /\ linkServed' = (IsServed(hostedLink', linkage', NoLinkage) \/ (linkServed /\ revision' = revision))
  /\ published' = published \cup hostedDoc'[2]

-----------------------------------------------------------------------------
(***************************************************************************)
(* The configuration and what makes it out of date.                        *)
(***************************************************************************)

\* Mutant of CustomerDocument: the retired methods are left out.
CustomerDocumentActiveOnly == <<signing, signing>>

\* phase5_document keeps every method and relationship of the managed document.
CustomerDocument == <<verifying, signing>>

\* phase5_did_action 'configure': once, and never undone.
Configure ==
  /\ ~configured
  /\ configured' = TRUE
  /\ expected' = CustomerDocument
  /\ UNCHANGED <<managed, selected, revision, linkage, status, validated, expired,
                 hostedDoc, hostedLink, calls>>
  /\ Observed

\* phase5_sync_document: a changed document is a new revision to be validated.
SyncDocument ==
  IF configured /\ CustomerDocument' # expected
    THEN /\ revision < MaxRevision
         /\ expected' = CustomerDocument'
         /\ revision' = revision + 1
         /\ status' = "stale"
    ELSE UNCHANGED <<expected, revision, status>>

\* Keys, issuers and the organization change as ManagedIdentity promises, and
\* the configuration follows in the same transaction.  What leaves the document
\* as it was is not seen here.
ChangeIdentity ==
  /\ orgActive' \in BOOLEAN /\ active' \in SUBSET Issuer
  /\ keyStatus' \in [Key -> DOMAIN Managed!Advance]
  /\ verifying' = Managed!MayVerify' /\ signing' = Managed!MaySign'
  /\ CustomerDocument' # CustomerDocument
  /\ Managed!Change
  /\ UNCHANGED <<configured, selected, linkage, validated, expired, hostedDoc, hostedLink, calls>>
  /\ SyncDocument
  /\ Observed

\* linkage_expires_at passes.
PassTime ==
  /\ linkage.id > 0 /\ expired' = TRUE
  /\ UNCHANGED <<managed, configured, selected, revision, expected, linkage, status, validated, site, calls>>

-----------------------------------------------------------------------------
(***************************************************************************)
(* Downloading the two files, and serving them.                            *)
(***************************************************************************)

\* A linkage that is missing, expired or unverifiable is renewed, and so is one
\* that has a day left: the model does not tell when that is.
ReadForFiles(f) ==
  /\ pc[f] \in {"idle", "done"} /\ configured
  /\ seen' = [seen EXCEPT ![f] = Current]
  /\ \/ Goto(f, "sign")
     \/ linkage.id > 0 /\ ~expired /\ linkage.key \in expected[1] /\ Goto(f, "download")
  /\ UNCHANGED <<managed, configuration, site, fetched, mode, key, row>>

\* The first active method is picked and its key, active still, signs; without
\* one the call ends.
SignLinkage(f) ==
  /\ pc[f] = "sign"
  /\ \/ \E k \in signing : key' = [key EXCEPT ![f] = k] /\ Goto(f, "save") /\ UNCHANGED <<seen, mode>>
     \/ signing = {} /\ Leave(f, "idle")
  /\ UNCHANGED <<managed, configuration, site, fetched, row>>

\* 'linkage', for the revision the call had read: a new one.
SaveLinkage(f) ==
  /\ pc[f] = "save"
  /\ IF seen[f].revision = revision
       THEN /\ revision < MaxRevision
            /\ revision' = revision + 1
            /\ linkage' = [id |-> revision + 1, key |-> key[f]]
            /\ expired' = FALSE /\ status' = "pending"
            /\ Leave(f, "reread")
       ELSE Leave(f, "idle") /\ UNCHANGED <<revision, linkage, expired, status>>
  /\ UNCHANGED <<managed, configured, selected, expected, validated, hostedDoc, hostedLink,
                 fetched, row>>
  /\ Observed

\* Mutant of Download: the revision is not compared.
DownloadAnyRevision(f) ==
  /\ pc[f] = "download"
  /\ Leave(f, IF ~expired /\ seen[f].linkage.key \in seen[f].doc[1] THEN "done" ELSE "idle")
  /\ UNCHANGED <<managed, configuration, site, fetched, row>>

\* 'download': the files are answered if they are still the current revision.
Download(f) ==
  /\ pc[f] = "download"
  /\ Leave(f, IF /\ seen[f].revision = revision
                /\ ~expired /\ seen[f].linkage.key \in seen[f].doc[1]
             THEN "done" ELSE "idle")
  /\ UNCHANGED <<managed, configuration, site, fetched, row>>

\* The administrator serves a downloaded file, or takes one down.
Serve(doc, link) ==
  /\ hostedDoc' = doc /\ hostedLink' = link
  /\ UNCHANGED <<managed, configuration, calls>>
  /\ Observed

ServeDownloaded(f) == pc[f] = "done" /\ (Serve(seen[f].doc, hostedLink) \/ Serve(hostedDoc, seen[f].linkage))
TakeDown == Serve(Nothing.doc, hostedLink) \/ Serve(hostedDoc, NoLinkage)

-----------------------------------------------------------------------------
(***************************************************************************)
(* assertCustomerDeployment: both files are fetched at once, in any order. *)
(***************************************************************************)

DocumentMatches(c) == hostedDoc = seen[c].doc /\ hostedDoc # Nothing.doc

\* Of an overwritten linkage the model forgets whether it has expired.
LinkageMatches(c) ==
  /\ hostedLink = seen[c].linkage /\ hostedLink.id > 0
  /\ hostedLink.key \in seen[c].doc[1]
  /\ hostedLink = linkage => ~expired

\* A fetch may always fail; Promise.all gives up with the first failure.
Fetch(c) ==
  /\ pc[c] = "fetch"
  /\ \/ \E file \in {"document", "linkage"} \ fetched[c] :
          /\ IF file = "document" THEN DocumentMatches(c) ELSE LinkageMatches(c)
          /\ fetched' = [fetched EXCEPT ![c] = @ \cup {file}]
          /\ UNCHANGED pc
     \/ Goto(c, "failed") /\ fetched' = [fetched EXCEPT ![c] = {}]
  /\ UNCHANGED <<managed, configuration, site, seen, mode, key, row>>

Settled(c) == pc[c] = "failed" \/ (pc[c] = "fetch" /\ fetched[c] = {"document", "linkage"})
Deployed(c) == pc[c] = "fetch"
Forget(c) == fetched' = [fetched EXCEPT ![c] = {}]

-----------------------------------------------------------------------------
(***************************************************************************)
(* Validating the deployment and selecting the identity to issue under.    *)
(***************************************************************************)

\* validate, select("self-managed") and select("managed") begin by reading the
\* configuration; without a linkage there is nothing to fetch.
BeginCheck(c) ==
  /\ pc[c] = "idle" /\ configured
  /\ seen' = [seen EXCEPT ![c] = Current]
  /\ \E m \in {"validate", "self-managed", "managed"} :
       /\ mode' = [mode EXCEPT ![c] = m]
       /\ Goto(c, IF m = "managed" THEN "switch" ELSE IF linkage.id = 0 THEN "failed" ELSE "fetch")
  /\ UNCHANGED <<managed, configuration, site, fetched, key, row>>

Verdict(c) == IF Deployed(c) THEN "valid" ELSE "invalid"

\* 'validate': the result counts for the revision that was read, a good one
\* only while the linkage has not expired.  A selection goes on from there.
RecordValidation(c) ==
  /\ Settled(c)
  /\ Forget(c)
  /\ IF /\ seen[c].revision = revision
        /\ Deployed(c) => linkage.id > 0 /\ ~expired
       THEN /\ status' = Verdict(c)
            /\ validated' = (IF Deployed(c) THEN revision ELSE validated)
            /\ Leave(c, IF Deployed(c) /\ mode[c] = "self-managed" THEN "reread" ELSE "idle")
       ELSE Leave(c, "idle") /\ UNCHANGED <<status, validated>>
  /\ UNCHANGED <<managed, configured, selected, revision, expected, linkage, expired, site, row>>

Reread(c) ==
  /\ pc[c] = "reread"
  /\ seen' = [seen EXCEPT ![c] = Current]
  /\ Goto(c, IF c \in Filing THEN "download" ELSE "switch")
  /\ UNCHANGED <<managed, configuration, site, fetched, mode, key, row>>

\* A validated deployment of the current revision with an unexpired linkage.
IsValid == status = "valid" /\ validated = revision /\ linkage.id > 0 /\ ~expired

\* Mutant of Switch: the state of the deployment is not looked at again.
SwitchUnchecked(c) ==
  /\ pc[c] = "switch"
  /\ selected' = (IF seen[c].revision = revision THEN mode[c] = "self-managed" ELSE selected)
  /\ Leave(c, "idle")
  /\ UNCHANGED <<managed, configured, revision, expected, linkage, status, validated, expired,
                 site, fetched, row>>

\* 'managed' needs only the revision; 'self-managed' also a validation of the
\* last ten minutes, and the model does not tell how old one is.
MaySwitch(c) ==
  /\ seen[c].revision = revision
  /\ mode[c] = "self-managed" => orgActive /\ IsValid

Switch(c) ==
  /\ pc[c] = "switch"
  /\ \/ MaySwitch(c) /\ selected' = (mode[c] = "self-managed")
     \/ (MaySwitch(c) => mode[c] = "self-managed") /\ UNCHANGED selected
  /\ Leave(c, "idle")
  /\ UNCHANGED <<managed, configured, revision, expected, linkage, status, validated, expired,
                 site, fetched, row>>

-----------------------------------------------------------------------------
(***************************************************************************)
(* Issuing under the identity that is selected.                            *)
(***************************************************************************)

\* IssuerKeyService.signer finds the active key and its active method.
BindKey(s) ==
  /\ pc[s] = "idle"
  /\ \E k \in signing : key' = [key EXCEPT ![s] = k]
  /\ Goto(s, "config")
  /\ row' = [row EXCEPT ![s] = NoRow]
  /\ UNCHANGED <<managed, configuration, site, seen, fetched, mode>>

\* ManagedDIDService.binding then reads the customer configuration: when it is
\* selected it has to be valid, and its deployment is looked at once more.
BindConfiguration(s) ==
  /\ pc[s] = "config"
  /\ \/ ~selected /\ Leave(s, "row")
     \/ selected /\ ~IsValid /\ Leave(s, "idle")
     \/ /\ selected /\ IsValid
        /\ seen' = [seen EXCEPT ![s] = Current]
        /\ Goto(s, "fetch") /\ UNCHANGED <<key, mode>>
  /\ UNCHANGED <<managed, configuration, site, fetched, row>>

Bind(s) ==
  /\ Settled(s)
  /\ Forget(s)
  /\ Leave(s, IF Deployed(s) THEN "row" ELSE "idle")
  /\ UNCHANGED <<managed, configuration, site, row>>

\* The DID that the credential was bound to.
BoundTo(s) == IF seen[s].revision = 0 THEN "managed" ELSE "customer"

\* Mutant of InsertRow: the trigger checks the customer DID only when the row has it.
InsertRowFallback(s) ==
  /\ pc[s] = "row"
  /\ row' = IF key[s] \in signing /\ (BoundTo(s) = "customer" => selected /\ IsValid)
            THEN [row EXCEPT ![s] = [did |-> BoundTo(s), key |-> key[s]]] ELSE row
  /\ Leave(s, "idle")
  /\ UNCHANGED <<managed, configuration, site, fetched>>

\* phase3_credential_key: the key must still be active, and the row's DID the
\* one that is selected now, the customer's only while it is valid.
InsertRow(s) ==
  /\ pc[s] = "row"
  /\ row' = IF /\ key[s] \in signing
               /\ BoundTo(s) = "customer" <=> selected
               /\ selected => IsValid
            THEN [row EXCEPT ![s] = [did |-> BoundTo(s), key |-> key[s]]] ELSE row
  /\ Leave(s, "idle")
  /\ UNCHANGED <<managed, configuration, site, fetched>>

Next ==
  \/ Configure \/ ChangeIdentity \/ PassTime \/ TakeDown
  \/ \E f \in Filing :
       \/ ReadForFiles(f) \/ SignLinkage(f) \/ SaveLinkage(f) \/ Download(f)
       \/ ServeDownloaded(f)
  \/ \E c \in Filing \cup Checking : Reread(c)
  \/ \E c \in Checking : BeginCheck(c) \/ RecordValidation(c) \/ Switch(c)
  \/ \E c \in Checking \cup Issuing : Fetch(c)
  \/ \E s \in Issuing : BindKey(s) \/ BindConfiguration(s) \/ Bind(s) \/ InsertRow(s)

Spec == Init /\ [][Next]_vars

-----------------------------------------------------------------------------
(***************************************************************************)
(* Properties.                                                             *)
(***************************************************************************)

\* A revision that counts as validated has really been served, both files of
\* it, whatever was changed, redeployed or taken down while it was looked at.
ValidatedWasDeployed ==
  configured /\ status = "valid" => validated = revision /\ docServed /\ linkServed

\* Issuance moves to the customer's domain only for a revision it has served.
SelectedWasDeployed ==
  [][~selected /\ selected' => docServed /\ linkServed]_vars

\* A credential is written under the identity selected at that moment: one bound
\* before the selection changed is not written, and there is no fallback.
WrittenUnderSelection ==
  [][\A s \in Issuing : row[s].did = "none" /\ row'[s].did # "none"
       => row'[s].did = IF selected THEN "customer" ELSE "managed"]_vars

\* Under the customer's DID a credential names a key that the customer's own
\* site has published, however keys rotate between deployment and issuance.
CustomerRowsPublished ==
  \A s \in Issuing : row[s].did = "customer" => row[s].key \in published

\* An administrator is handed two files of one revision, the one expected now.
FilesAreCurrent ==
  [][\A f \in Filing : pc[f] = "download" /\ pc'[f] = "done"
       => seen[f].doc = expected /\ seen[f].linkage = linkage]_vars

\* The saved linkage stays verifiable with the expected document: the key that
\* signed it may retire, but its method is never dropped.
LinkageVerifiable == linkage.id > 0 => linkage.key \in expected[1]

=============================================================================
