# Formal models of the certificate issuer

TLA+ models of the platform that issues, publishes, verifies and revokes certificates
(Next.js handlers and pages under `app`, React components under `components`, services
under `services` and `lib`, PL/pgSQL under `database/migrations`, an Ethereum Document
Store), TLC runs that check them on small instances, and theorems about them that TLAPS
proves for instances of any size.

On the server everything runs in short-lived function instances. No process holds state
between requests, no lock is held across two statements of a handler, and an instance may
be killed anywhere. What keeps the data right is which statements share a transaction,
which rows those lock, and what a trigger or a row policy checks again. The server's
models are therefore written at the level of statements: one action per database call,
transaction, chain call or external answer, and every other request may come in between.
In the browser a page is a set of React states and the requests it waits for; those models
have one action per click, per request served and per answer arriving.

To check a run: `tlc -config Revocation_calls.cfg MCRevocation` (section 3 names the
module of each configuration). To check the proofs: `tlapm RevocationProofs.tla`.

## 1. Inventory

| Component | State it keeps | Operations | Status |
| --- | --- | --- | --- |
| Revocation and status transitions | `credentials.status`, `revocations`, the hash in the Document Store | revoke, suspend, reinstate, expiry sweep | modelled, proved |
| Issuance (`POST /api/issue`) | `bitstring_status_allocations`, `credentials`, the chain, audit events | from the first read to the registration | partly, proved |
| Issuer keys and managed DID | `issuers`, `issuer_keys`, verification methods, the DID document | create, suspend, delete, rotate, activate, first download | partly, proved |
| Key import and re-encryption | envelopes of `issuer_keys`, each server's keyring | provision, roll out, rewrap, retire | partly, proved |
| Self-managed DID hosting | `self_managed_dids`, two files on the customer's site | configure, download, validate, select, bind | partly, proved |
| Public verification (`POST /api/verify`) | none; it reads rows, lists, DIDs and the chain | look up, resolve, fetch lists, probe, decide | partly, proved |
| Status lists | allocations, signed lists | reserve, snapshot, sign | partly |
| Credential building and signing | the document | build, complete, sign, hash, verify | partly, proved |
| Subscriptions and quotas | `subscriptions`, monthly usage, issuers and templates | show, assign, count a creation | partly, proved |
| Platform administrators, organizations | `users.roles`, `organizations` | grant, withdraw, disable, delete | partly, proved |
| Organization Document Stores | `organization_document_stores` | add, approve, test, activate, deactivate | modelled, proved |
| Issuer invitations | `users`, `issuers`, logins at the auth provider | reserve, invite, link | modelled, proved |
| Sign-in, sessions, rate limits | `auth_rate_limits`, sessions of the provider | the sliding-window limiter, the check of a caller | partly, proved |
| Memberships, permissions, row policies | memberships, assignments, `users.issuer_id` | resolve a caller, decide, write under a policy | partly, proved |
| Templates and issuer profiles | `templates`, `issuer_profiles` | save, deactivate, choose | partly, proved |
| Batch issuance in the browser | rows of a spreadsheet, the page | parse, issue all, clear, reload | modelled, proved |
| Wallet and Document Store client | the contract | issue, revoke, probe, wait | partly |
| Administration pages | the pages' lists, forms and changes | select, load, edit, change | partly, proved |
| Verify page | the page | paste, upload, follow a link, preview | modelled, proved |
| Credential records and email | the dashboard, messages sent | list, revoke, mail | partly, proved |
| Profile registry, template builder | the two pages | load, edit, choose, save, delete | modelled, proved |
| Audit log, AI assistant, marketing | append-only rows, chat history | | not modelled |

How they interact. `POST /api/issue` reads a template, the issuer and its organization,
the active Document Store and the active key, reserves a status index, signs, and inserts
the credential row; the triggers of that row (`phase2_credential_identity`,
`phase3_credential_key`, `organization_credential_store`, `subscription_enforce`) check
again, under row locks, what the handler read awaits before. The hash is registered on
chain afterwards, by the server or by the user's wallet. Revocation goes the other way,
first the chain and then the row. Keys, issuers and organizations publish themselves:
triggers rewrite the DID document in the transaction that changes any of them, and a
second trigger carries a changed document over to the customer's configuration when the
organization hosts its own DID. Verification reads all of that, one thing after the other.
Every handler resolves its caller with separate reads and decides; the row policies decide
again in the statement that writes. The pages call the handlers and keep copies of what
they answered.

What makes each component correct, and what makes that hard:

- *Revocation*: a revoked credential stays revoked, the journal says how it got there, and
  the chain is ahead of the database. Calls race each other, the expiry sweep and late
  transactions; a call may die after the chain step and be repeated.
- *Issuance*: nobody holds a signed document the platform does not know, no two documents
  share a status bit, and a row is written against the key and store of that moment. Keys
  rotate and stores switch between a read and the insert; the registration may be lost,
  late or overtaken by the wallet's.
- *Issuer keys*: one signing key per issuer at any time, every envelope can be opened, the
  document authenticates with exactly the keys that may sign and never forgets one that
  did. Rotations seal a key for a version they read before; triggers of overlapping
  transactions rebuild one shared document; masters are replaced while keys are sealed.
- *Self-managed DID*: issuance moves to the customer's domain only for files that were
  really served, and comes back when they are out of date. The files are fetched over the
  network, outside every transaction.
- *Verification*: what is reported valid was in force during the request, and what is
  refused had a reason. Row, lists, DID document and chain are read at different times,
  and each read may fail.
- *Documents*: the hash of the row, of the registration and of the file are one; hiding
  fields changes no verdict. Six kinds of document take six ways through the same code.
- *Administration*: nothing is created beyond the plan in force, a contract is replaced
  only by somebody who saw it, the last platform administrator stays, stores are activated
  after a probe, tests stay within their limit, only invited logins are linked. Permissions
  are checked before locks and probes, and answers of calls overtake each other.
- *Permissions*: two rules, in the application and in the policies, agree, and what is
  written is permitted when it is written, not when it was asked.
- *Pages*: what is shown, saved or handed out is of the issuer, document or credential it
  is shown for. Answers are late, lost or out of order, and the user clicks on.

`PROJECT.json` lists the hazards of the code at their lines, each with the properties that
would catch it.

## 2. Modules

| Module | Models | Checked by | Proofs |
| --- | --- | --- | --- |
| `CredentialLifecycle` | what is promised of a credential's status and journal | refined by `Revocation` | |
| `Revocation` | `RevocationService.apply`, `apply_bitstring_revocation`, `expireOverdue`, `revokeHash` | `MCRevocation` | `RevocationProofs` |
| `Issuance` | `POST /api/issue`, the triggers of `credentials`, `registerHash` | `MCIssuance` | `IssuanceProofs` |
| `ManagedIdentity` | what a managed DID promises to whoever resolves it | refined by the next two | |
| `IssuerKeys` | issuers, keys and the published document, one transaction a step | `MCIssuerKeys` | `IssuerKeysProofs` |
| `KeyTransactions` | the same transactions lock by lock | `MCKeyTransactions` | `KeyTransactionsProofs` |
| `KeyWrapping` | master keys of servers, provisioning, `migrate-issuer-keys.js --rewrap` | `MCIssuerKeys` | `IssuerKeysProofs` |
| `SelfManagedDID` | `SelfManagedDIDService`, `phase5_did_action`, `ManagedDIDService.binding` | `MCSelfManagedDID` | `SelfManagedDIDProofs` |
| `Verification` | `POST /api/verify`, the served status lists | `MCVerification`, `MCPlatform` | `VerificationProofs` |
| `CredentialDocument` | `lib/trustvc.ts`: building, signing, hashing, verifying a document | `MCVerification`, `MCPlatform` | `VerificationProofs` |
| `Subscriptions` | `022_saas_subscriptions.sql`, the billing dashboard, platform roles | `MCSubscriptions` | `SubscriptionsProofs` |
| `OrganizationAdmin` | Document Stores and their tests, invitations, the limiter | `MCOrganizationAdmin` | `AccessControlProofs` |
| `AccessControl` | `getCurrentIssuerUser`, `lib/permissions.ts`, the row policies | `MCPlatform` | `AccessControlProofs` |
| `IssuanceConsole` | `app/insurance/page.tsx`, `BatchIssuePanel.tsx`, the wallet | `MCIssuanceConsole` | `IssuanceProofs` |
| `AdminPages` | issuer directory, organizations and four panels | `MCPlatform` | `AccessControlProofs` |
| `VerifyPage` | `app/verify/page.tsx` and its preview | `MCPlatform` | `VerificationProofs` |
| `CredentialPages` | dashboard, `SendCertificateButton`, `POST /api/credentials/send` | `MCPlatform` | `RevocationProofs` |
| `ProfilePages` | `app/did/page.tsx`, `app/templates/builder/page.tsx` | `MCPlatform` | `RevocationProofs` |

What composes what. `ManagedIdentity` joins three modules: `IssuerKeys` and
`KeyTransactions` are each shown to implement it, and `SelfManagedDID` uses it as the only
thing it knows of the managed document: its `ChangeIdentity` step is any change that
`ManagedIdentity` allows. `Verification` extends `CredentialLifecycle`, which `Revocation`
implements for credentials with status lists: a request sees exactly the status changes
that are promised there. `MCIssuerKeys` and `MCPlatform` put modules that share no state
into one run: each behaviour is one of one part (`part`, chosen in the initial state) and
the other parts keep an initial state. The parts of `MCPlatform` are requests (with
`Verification`), documents, permissions, pages, visit, staff and profiles; those of
`MCIssuerKeys`, keys and wrapping.

### Revocation

State: the row's status, the journal, the hash of each credential in its store, and for
every call its program counter and the transaction it sent. `Lookup` is
`RevocationService.ts:57-93`; `Probe`, `Send`, `Receipt` and `ChainError` are
`revokeHash` (`lib/document-store.ts:241-265`) with its sixty-second wait; then either
`ApplyBitstring`, one transaction that locks the row (`009_profile_status_lists.sql:47-75`),
or `InsertLog` and `UpdateStatus`, two statements (`RevocationService.ts:131-146`).
`Listed`, `Anchored` and `Allocated` say which credentials take which path; they are fixed
by the stored document. `Crash` may strike anywhere, `Mine` executes a transaction at any
time, also after the call that sent it has ended. Requests ask for any action on any
credential, chosen in the initial state.

### Issuance

State: the allocations in order (their position is the index; gaps left by failed inserts
do not matter to any property), the rows, the chain, the audit events, and what each call
has read. The steps follow `app/api/issue/route.ts`: `Resolve`, `ReadStore`, `ReadSigner`,
`Reserve`, `Sign`, `Insert`, and `Probe`/`Receipt`/`RegistrationError` before `Answer`
when the organization has its own store and behind it otherwise. `Insert` is the statement
with all its triggers: `OwnersHold`, `KeyHolds`, `StoreHolds` and the unique identifier.
Around the calls keys are rotated, stores switched and tested, owners and templates
deactivated, and the user's wallet issues the same hash. Template, issuer and organization
are booleans, a document is known by the call that signed it. That `subscription_enforce`
may refuse an insert is modelled in `Subscriptions`.

### IssuerKeys and KeyTransactions

`IssuerKeys` has the issuers' and organization's status, each key's status and the version
its envelope is sealed for, the verification methods, the document and the export. Every
action that a trigger of `018_managed_organization_dids.sql` hangs on ends with
`Published`, the composition of `phase4_sync_methods` and `phase4_rebuild_document`.
`BeginIssuer`/`CreateIssuer`, `BeginRotation`/`SaveKey` and `BeginDownload`/`ClaimExport`
are separate steps because the code reads in one statement and writes in another.

That each transaction is one step is what `KeyTransactions` examines. A transaction there
takes the rows of its plan one by one in Postgres's lock modes, reads what is committed,
rebuilds the document from that and its own writes once it has the DID row, and publishes
with its commit. Before it goes on, `Audit` locks for key share every issuer that the audit
rows of `phase4_sync_methods` name, one by one; their order is that of the keys' ids, so
any. It may be cancelled anywhere, and Postgres breaks a circle of waiters. Such a circle
needs a rename, or a change of the organization's status with a save or an activation: the
former holds the DID and asks for an issuer that the latter has locked before asking for
the DID (`DeadlocksNeedOrganization`). The committed tables implement the same
`ManagedIdentity`.

### KeyWrapping

State: the masters each server's environment holds and the one it seals with, the master
and the author of every stored envelope, and what each run of the re-encryption script has
read. `ProvisionKey` and `SaveRow` are the sealing and the insert; `PlanRewrap` reads all
envelopes and seals those of older masters anew, `ApplyRewrap` is `phase3_rewrap_keys`
(`017_issuer_key_management.sql:267`), which replaces all of them or none. The operator
adds, uses and retires masters in the order of
`docs/PHASE3_KEY_MANAGEMENT_ARCHITECTURE.md:267-281`; an environment changes by a restart,
which ends whatever that server was doing.

### SelfManagedDID

State: the columns of `self_managed_dids`, the two files of the customer's site, what was
served, and for every call what it read and fetched. Documents are pairs of key sets, a
linkage is known by the revision it was saved as. `ReadForFiles`, `SignLinkage`,
`SaveLinkage`, `Reread` and `Download` are `SelfManagedDIDService.files`; `BeginCheck`,
`Fetch`, `RecordValidation`, `Reread` and `Switch` are `validate` and `select`; `BindKey`,
`BindConfiguration`, `Fetch`, `Bind` and `InsertRow` are an issuance from
`ManagedDIDService.binding` to the trigger. The administrator serves any downloaded file
and takes files down at any time; a fetch may fail whatever is served. `ChangeIdentity`
takes the steps that change the document, with `phase5_sync_document` in the same
transaction. Whether a linkage has a day left, and whether a validation is older than ten
minutes, is left open: the model allows either outcome where it matters.

`docServed`, `linkServed` and `published` are history variables: what the site has served
of the current revision, and the keys it has ever let authenticate.

### Verification and CredentialDocument

A request of `Verification` has its target, whether it submits the document or only its
identifier, and what it has found so far: the row's status, the methods of the DID
document, the bit of each status list, the two answers of the Document Store. The lists
are snapshots of the rows that are signed a step later (`StatusListService.ts`); the store
is asked two questions to a chain that moves on between them. `ChangeStatus`,
`PassValidUntil`, `Sweep`, `Mine` and `Rotate` come in between. `held`, `anchored` and
`calm` are history: whether the credential was issued, its hash registered, and nothing
changed or failed, since the request began.

`CredentialDocument` takes the document apart instead: a function from fields to values,
built by `Issue` or `IssueByWallet` for every combination of issuing methods, proof
profile and validity the routes accept, then registered, revoked, hidden in part and
verified. The hash of a document stands for exactly its fields and values, whatever their
order. `Verified` is what `lib/trustvc.ts` answers for a presentation at this moment.

### Subscriptions and OrganizationAdmin

`Subscriptions` has a dashboard per administrator (the organization selected, the
snapshots asked for, answered and shown, the assignment submitted with what was shown
then), the subscription rows with their versions, the counted creations, and the roles. An
assignment is authorized, has its role checked, is accepted against the version it names,
and is answered with a snapshot, four steps; a creation counts under the lock of the
subscription's row and commits a step later; a change of roles is permitted, queues for the
advisory lock, and counts the administrators that remain.

`OrganizationAdmin` has the stores, the counted attempts with the times of their
transactions, invitations with the logins of the provider, and per session the call and
its step. A test counts itself, probes the chain and records, in three transactions
(`OrganizationDocumentStoreService.ts`); an invitation looks, reserves, invites and links
(`IssuerService.ts`). Around them roles are lost, organizations suspended, contracts
changed, and logins created by their owners.

### AccessControl

One request is followed: `ReadOrganization`, `ReadMembership`, `ReadAssignments` and
`ReadIssuer` are the reads of `getCurrentIssuerUser` (`lib/auth.ts:178`), `ReadTarget`,
`ReadMapping` and `ReadProfile` those of the handler, `Write` the statement with its row
policy. `HasPermission` and `CanAccessIssuer` are the application's rule over what was
read, `OwnsOrganization` and `IssuerAccess` the policies' over the tables as they are
(migrations 015 and 016). Each operation's `…Rule` says who may and its `…After` what it
does. `OthersWrite` is the same operations by others, in between.

### IssuanceConsole and the pages

`IssuanceConsole` has the page (mode, single issue, list of batch credentials), the
mounted panel, the uploads, every click on an Issue button with how far it got, and what
the server and the stores hold of each credential. A run of the batch loop works on its
own copy of the rows and outlives the panel that started it. The display operators
(`RowsShown`, `FilesOffered`, `CurrentCredential`, `SignatureShown`, …) are what the page
renders of that state; `ShownIsReal` is stated over them.

`AdminPages` has, for one page at a time, the scope shown (issuer or organization), the
rows with the scope the server listed them for, the load, the form with the record that
filled it, the issuer whose organization the selector for a new issuer holds (`preset`: an
edit sets it, and it outlives the edit), and the change under way. The clicks differ from
page to page as the code does: which abort a load, which wait, which load again. The keys
and hosting panels report a change before they read the list again: `Fail` is then either
the whole answer or only that list, and `unseen` has the removals reported beside a list
that could not be read. `PanelsAreCurrent` excepts these, until there is a list.

`VerifyPage`, `CredentialPages` and `ProfilePages` follow the same pattern: one action per
click, per request served, per answer shown, and the changes of others. In
`CredentialPages` a behaviour chooses at first which credentials have status-list entries
(`backed`). The database refuses every step of these out of "revoked"; on others a late
suspension or reinstatement is written over a revocation (finding 1), which `overwritten`
remembers and `ReportedWasDone` excepts.

## 3. Runs

| Run | Module | Instance | What it shows |
| --- | --- | --- | --- |
| `revocation_calls` | `MCRevocation` | 2 calls, a status-list and a plain credential, both anchored; fair | `JournalTellsStatus`, `Lifecycle` for the first; `AnchorRevokedFirst` for both; `CallsEnd`; `RetryConverges`: a repeated revocation finishes what an interrupted one began |
| `revocation_race` | `MCRevocation` | 3 calls on a plain credential | finding 1 |
| `issuance_calls` | `MCIssuance` | 2 anchored status-list calls, 2 identifiers, 1 store, 1 rotation; fair | `IndexesOwned`, `AnsweredIsStored`, `WrittenAgainstCurrent`, `CallsEnd` |
| `issuance_profile` | `MCIssuance` | a status-list call for a profile's template | finding 2 |
| `issuer_keys_rotate` | `MCIssuerKeys` | 2 issuers, 3 versions, 2 rotations, 2 downloads; or 2 servers, 2 keys, 3 masters, 3 runs of the script | `KeysOpenable`, `ExportedOnce`, `ImplementsIdentity`; `EnvelopesOpenable` |
| `key_transactions_overlap` | `MCKeyTransactions` | 2 issuers, 2 versions, 3 sessions | `DeadlocksNeedOrganization`, `InsertsUnderSigner`, `ImplementsIdentity` |
| `self_managed_deploy` | `MCSelfManagedDID` | 1 issuer, 1 key, 3 revisions, one download, one check, one issuance | `LinkageVerifiable`, `SelectedWasDeployed`, `WrittenUnderSelection`, `FilesAreCurrent` |
| `platform_parts` | `MCPlatform` | seven parts, see below | eleven properties, see below |
| `verification_lookup` | `MCVerification` | a submitted document without a status of its own | finding 3 |
| `subscriptions_plans` | `MCSubscriptions` | 2 organizations, 2 administrators, 2 sessions, 4 calls, a ceiling of 1 | `AdministratorRemains`, `WithinPlan`, `ReplacesWhatWasShown` |
| `issuance_console` (`IssuanceConsole_runs.cfg`) | `MCIssuanceConsole` | 2 uploads, 2 clicks on Issue, 2 panels | `UploadIssuedOnce`, `NoSecondTransaction`, `ShownIsReal` |
| `organization_admin` (`OrganizationAdmin_calls.cfg`) | `MCOrganizationAdmin` | 2 administrators, 2 sessions, 2 contracts of which any were approved before, 3 calls or changes, a limit of 1 in a window of 2 | `LimitHolds`, `ActivatedAfterGoodProbe`, `LinkedWasInvited` |

The other configurations are named like their runs (`SelfManagedDID_deploy.cfg`,
`Platform_parts.cfg`, …). The parts of `platform_parts`:

| Part | Instance | Properties |
| --- | --- | --- |
| requests | one request about one of six kinds of document, 3 transitions, a rotation | `VerifiedWhileIssued`, `RefusedForCause` |
| documents | one document of every kind the routes make, all its presentations | `HidingChangesNothing`, `VerifiedUntilRevoked` |
| permissions | an administrator and a user of one organization with two issuers, one change by others | `RulesAgree`, `WrittenWhilePermitted` |
| pages | any of six pages, 2 scopes, 2 items, 4 clicks | `DirectoryFormSavedToSource`, `PanelsAreCurrent` |
| visit | 2 documents and a link | `VerdictOfWhatIsShown` |
| staff | 1 credential, with or without status-list entries, 2 message ids | `ReportedWasDone` |
| profiles | 3 profiles of 2 issuers, 3 acts | `AsksForItsOwn` |

Bounds. Every bound is a constant of the module. Two revocation calls are enough for one
to overtake the other between its lookup and its write, and for a retry after a crash; two
credentials, for a step on one to disturb the other. Two issuance calls suffice for every
race on an identifier, an index or a hash, since each of these is contended by pairs; one
rotation and one store besides none make every value a call has read stale. Three key
versions let a rotation seal for a version that two others have passed. Three masters and
three runs let a run that was overtaken twice be applied last. Three sessions are the
smallest circle beyond a pair, and an insert, an activation and a suspension at once.
Three revisions are the configured document, its first linkage, and one change that makes
a deployment stale; the check, the download and the issuance each see it at every point.
The run has one key, which never retires: that a linkage outlives the key that signed it is
checked for its issuer's changes only, and proved for any number of keys (section 5).
One verification request is enough, because requests share nothing they write; three
transitions suspend, reinstate and revoke between its reads. Four administrative calls
include two assignments of one contract with a creation and a deletion around them, or two
removals of roles that cross; a ceiling of one is the boundary. A limit of one in a window
of two has attempts stored under times before those that were counted. Two uploads, runs
and panels are what one run can return to that is not its own. Four clicks on a page select
one scope, begin a change, select another and come back; five were run once without an
error. On the profile pages one call of each kind is under way at a time. The theorems of
section 5 remove these bounds for what they state.

Initial states are those a deployed platform can be in: users with any role, stores that
were or were not approved, lists with any items. `MCPlatform` starts its permissions part
from the combinations of the user's membership, assignment and binding to the first issuer,
and its pages part, by symmetry, with whatever is listed listed first.

Symmetry is used on calls, sessions, issuers and addresses, only in runs of safety
properties. Deadlock checking is off where calls simply finish; `KeyTransactions` never
stops and keeps it on.

Type invariants have no run: those of the modules with proofs are theorems of section 5.

Fairness. `FairSpec` of `Revocation` and `Issuance` assumes weak fairness of each begun
call and nothing of the network, the chain or the platform: database calls return, and the
waits on the chain are bounded (`tx.wait(1, 60_000)`), which is why `ChainError` and
`RegistrationError` are among the steps of the call. Without the bound `CallsEnd` fails, as
its mutants show. A call that crashes has ended. All other specifications assume no
fairness: pages wait for answers that may never come, and transactions may be cancelled.

## 4. Findings

1. **A revoked credential can be reinstated.** `RevocationService.ts:142` updates the status of
   a credential without status-list entries unconditionally. A reinstate that looked it up
   while suspended, and writes after a concurrent revoke has finished, leaves it issued,
   though line 89 says "A revoked credential cannot be reinstated." Run
   `revocation_race`. The status-list path decides under the row lock and is not affected
   (`RevokedIsFinalHolds`).
2. **A status-list credential of an issuer profile's template cannot be revoked.**
   `StatusListService.ts:52` records the allocation without the profile, the row carries
   it, and `009_profile_status_lists.sql:69-73` asks for an allocation of the row's own
   profile. Run `issuance_profile`, against README.md:222.
3. **A revoked credential can be reported verified while its row cannot be read.**
   `app/api/verify/route.ts:166` says "A credential that exists but is revoked, suspended,
   or past its validity window must not be reported as verified." For a submitted document
   a failed lookup of the row is tolerated (`route.ts:117-125`); if the document has no
   status of its own, nothing else is asked. Run `verification_lookup`. Documents with
   status lists or a Document Store are not affected (`VerifiedWhileIssuedHolds`,
   `PassedWasRegisteredHolds`).

Observations. The models show, or reading for them showed, the following; no document or
test of the repository says otherwise, except where quoted.

*Issuance console and wallet*

- The batch form does not call `validateIssuingMethods`; with no method selected its rows
  succeed without a signature.
- A clear during a run makes the old rows reappear when the run ends, in place of a newer
  file. A row shown as failed may be stored; uploading it again issues it a second time.
- A change of the wallet's network reloads the page and loses the run. A wallet-only
  issuance whose confirmation fails keeps no signed credential, although its hash may be
  registered.
- A DID-only document of the default profile whose hash nobody registers never verifies.
  The hook `useCredentialVerification.ts` is not used. Files of equal names collide in the
  archive of `certificate.ts`.

*Administration*

- An invitation whose answer was lost can never be retried: the login exists. An older
  successful test of a store may be recorded after a newer failure.
- Whether the actor administers the platform is read before the subscription is locked.
- `metadataBody` of the issuer directory sends null for empty optional fields and
  `parseIssuerInput` rejects what is no string, so saving fails unless all are filled.
- The form of a new issuer offers the organization of the issuer edited before, until the
  user chooses another or presses "Create issuer". A key or hosting panel whose list cannot
  be read after a change shows the old list beside the report of success.
- A late answer may list members of one issuer or organization under the heading of
  another ("Membership changes apply only to this issuer.", `admin/page.tsx:428`); in the
  organizations page a status change of another organization during an edit selects it,
  and saving writes the form to it (`OrganizationWorkspace.tsx:57-78`). A removed member
  may reappear by a load that was answered before. "Create issuer" during a load leaves
  `detailLoading` set.
- The panels keep what `PanelsAreCurrent` says because they wait or abort;
  `DirectoryFormSavedToSource` holds of the issuer directory only.
- A rewrap by an old master after newer ones, or an import planned before a master's
  retirement, is prevented by the operator's order only.

*Templates, profiles, permissions*

- Template definitions are encoded twice (`TemplateService.ts:119,152`), so that they
  "can be reloaded" (`builder/page.tsx:231`) does not hold of their fields. A slug that is
  used again overwrites the template; saving without a profile can lose a mapping another
  save has made (`TemplateService.test.js:58`).
- An assignment outlives the removal from the organization and is in force again when the
  user is added again. For reading, the application allows more than the policies when
  `users.issuer_id` names an inactive issuer (`RulesAgree` says what agrees).
- A profile's active flag is checked before the upsert. Updates of profiles go through the
  service role.
- In the builder, loading a template whose profile is inactive shows the issuer's default
  while the saved profile is sent; overlapping reloads may show a deleted template;
  `addField` after a removal can repeat a key (`builder/page.tsx:196-210`). When the list of
  a single issuer arrives after another's template was loaded, the owner is overwritten and
  the profile is not (line 144); the model assumes that the list offers that issuer, and the
  server refuses such a save.
- In the registry, a load answered before a toggle may be shown after it, one toggle only is
  marked busy, and a saved edit closes whatever else is being edited by then.

*Pages about credentials*

- While a second document is verified, the verdict "Valid Certificate" stays beside the new
  document's labels and its certificate can be viewed (`verify/page.tsx:86-94`); a preview
  open when that verification fails leaves "View Certificate" without effect until a reload
  (lines 26-32); a verdict on unreadable input keeps the details before it.
  `VerdictOfWhatIsShown` is therefore stated of the page when nothing is loading.
- A mail whose answer is lost is sent again under the same id, unless a search or a reload
  of the list has unmounted the button. A second Revoke makes the first row's button
  reappear while its call runs. A list begun before a revocation may show the row as issued
  after it. Pages of the list by offset may repeat rows (`CredentialService.ts:94`). A
  refresh of the session during a refresh may show the older one.

## 5. Proofs

Eight modules hold 59 theorems that `PROJECT.json` lists, among them one for every safety
property of a passing run, for every value of the constants that satisfies the assumptions
named in the modules. These assumptions are bounds that are natural numbers, an issuer and
a version at the least, calls of different kinds that differ, files whose rows are told
apart by their numbers, and values that stand for nothing or for a lock's row (`None`,
`Nothing`, `Absent`, `"org"`) and are none of the things beside them: in the code these are
`null`, or rows of different tables. Modules that share a component share a module of proofs.

- `RevocationProofs`: `RevocationTypeCorrect`, `AnchorRevokedFirstHolds`,
  `JournalTellsStatusHolds`, `RevokedIsFinalHolds`, `ListedImplementsLifecycle`.
  `AnchorRevokedFirst` is not inductive: a call in front of its write could have passed the
  chain for no reason. `RevocationInv` adds `WritesWaitForAnchor` (a call revoking an
  anchored credential reaches its write, and holds a mined transaction, only when the hash
  is revoked) and `WritePaths` (each write belongs to one kind of credential). Refinement
  and finality then follow step by step, since only `ApplyBitstring` and the sweep touch
  a listed row.
  For `CredentialPages`: `ReportedWasDoneHolds`. A status shown as revoked is
  the row's or was written over, which happens to nothing with status-list entries
  (`RowsTrue`), and messages of one button that may yet be repeated are one message
  (`OneMessage`). For `ProfilePages`: `AsksForItsOwnHolds`. Every call remembers for whom
  it was asked, and what it carries still goes with that issuer (`CallMeant`,
  `ChoicesMeant`, `TemplatesMeant`).
- `IssuanceProofs`: `IssuanceTypeCorrect`, `AnsweredIsStoredHolds`, `AnchoredIsStoredHolds`,
  `RegisteredIsAnchoredHolds`, `IndexesOwnedHolds`, `WrittenAgainstCurrentHolds`.
  `IssuanceInv` adds that whatever a call does after its insert finds its own row, written
  with the store it had read (`RowsBehindCalls`), that claims of the audit trail and mined
  transactions are on chain (`ChainBehindEvents`), and that a call past its reservation
  holds the index of its identifier (`IndexHeld`). Rows are written once
  (`RowsWrittenOnce`, `StoredForever`) and allocations only grow (`AllocationsGrow`);
  with these lemmas index ownership follows from injectivity of the identifiers.
  For `IssuanceConsole`: `ConsoleTypeCorrect`, `UploadIssuedOnceHolds`,
  `NoSecondTransactionHolds`, `ShownIsRealHolds`. `ConsoleInv` has four parts. `RunsInv`: a
  click that goes on has the rows, the phase and the panel that its mode and methods allow,
  and exactly the row at hand is marked as being issued. `SendingInv`: a credential is
  asked for while its run is in that phase, nothing is asked or sent for a row still
  pending, and what waits for the wallet was not sent by the server. `OfferedInv`: of the
  runs that go on at most one shows its rows in the panel, which then does not offer the
  button; rows it does offer are of an upload no click has taken (`Fresh`). `ShownInv`:
  phases and outcomes are backed by what is stored and registered (`Evidence`), and so are
  panel, list and results. The next row is the least that is pending; that it exists is a
  lemma from well-foundedness (`MinOfSet`).
- `IssuerKeysProofs`: `IssuerKeysTypeCorrect`, `OneSigningKeyHolds`, `KeysOpenableHolds`,
  `DocumentTracksKeysHolds`, `ExportedOnceHolds`, `RetiredIsFinalHolds`,
  `HistoryRetainedHolds`, `ImplementsIdentityHolds`. `IssuerKeysInv` adds that methods and
  document are a function of keys and owners (`Publication`), that issuers not yet created
  have no key (`NoKeyBeforeIssuer`, `CreatingIsNew`), and that a delivered key was claimed
  (`DeliveredWasClaimed`). The refinement has one lemma per promise of `ManagedIdentity`.
  For `KeyWrapping`: `WrappingTypeCorrect`, `EnvelopesOpenableHolds`. Masters only grow:
  a server turns to a newer one, a run seals with a newer one than it read. `WrappingInv`
  says that masters in use are held everywhere (`InUseHeld`), that a draft is sealed with
  its server's master (`DraftsCurrent`), that no envelope is newer than all masters in use
  (`NoneNewer`), that a planned run replaces older envelopes (`PlansOlder`) and either still
  may or finds each of them newer (`PlansLive`, `Overtaken`), and what a run that found
  nothing to do has shown (`ClearedMeans`).
- `KeyTransactionsProofs`: `TransactionsTypeCorrect`, `InsertsUnderSignerHolds`,
  `TransactionsImplementIdentity`, `DeadlocksNeedOrganizationHolds`, for any number of sessions.
  The locks of two sessions on one row always go together (`LocksCompatible`). From the
  rows a session has locked (`HasOwn`, `HasOrg`, `HasDid`) it follows that nobody commits
  what would undo what it has required of them (`AllRequired`), nor changes what it has
  rebuilt the document from (`DraftsCurrent`). So a commit finds what the transaction
  read, and publishes the document of the tables it leaves (`Published`, `OneSigner`): it
  is a step of `ManagedIdentity` by the lemmas on which rows a commit spares
  (`CommitSpares`, `CommitRequired`, `CommitPublishes`, `CommitSigners`). For circles of
  waiters no transitive closure is needed. A transaction on one issuer changes no other's
  methods (`NamesOwnIssuer`, from `DraftsCurrent` and `Published`). So in a set each of
  whose sessions waits for another one of the set, one that holds the row of the DID waits
  either for an issuer, as the organization's transaction does for a save or an activation,
  or for the organization, which only a rename refuses; without these nobody waits for the
  DID, hence nobody for the subscription, hence nobody for the organization, hence nobody
  for an issuer.
- `SelfManagedDIDProofs`: `SelfManagedTypeCorrect`, `ValidatedWasDeployedHolds`,
  `LinkageVerifiableHolds`, `CustomerRowsPublishedHolds`, `SelectedWasDeployedHolds`,
  `WrittenUnderSelectionHolds`, `FilesAreCurrentHolds`. What a call does with a result
  rests on what it had read long before, so `SelfManagedInv` says of every call that a
  revision identifies its reading (`ReadsOfPast`), that what it fetched for the revision
  that is still current was served for it (`FetchedWasServed`), and that the key of a
  linkage about to be saved keeps its method (`SavesVerifiable`); of the configuration,
  that it equals the managed document (`DocumentExpected`), that what was served is
  published (`SiteObserved`), and that nothing has happened before it exists
  (`Untouched`, `ReadsConfigured`). One lemma (`CallStays`) carries a call that does not
  move over every step, of the same revision or to the next. That retiring a key never
  drops its method is taken from `ManagedIdentity`, which `ImplementsIdentityHolds`
  shows `IssuerKeys` to implement.
- `VerificationProofs`: `VerificationTypeCorrect`, `VerifiedWhileIssuedHolds`,
  `PassedWasRegisteredHolds`, `RefusedForCauseHolds`. `VerificationInv` has three parts for
  each request: what row and lists have shown it has witnessed (`Evidence`), what the store
  answered it was witnessed to answer (`Registration`), and as long as nothing disturbs a
  request about a credential in force it finds everything in order (`Order`). That nothing
  expires before its time (`ExpiredIsOverdue`) relates row and clock.
  For `VerifyPage`: `VerdictOfWhatIsShownHolds`. At most one answer is awaited, and it is
  about what the page names (`VisitInv`). For `CredentialDocument`:
  `HidingChangesNothingHolds`, `VerifiedUntilRevokedHolds`. `DocumentInv` says that what is
  handed out has one of three shapes, signed by the route, by the wallet or elsewhere
  (`Published`, `WalletSigned`, `Received`), and that only the hash computed from it is
  ever registered or revoked, with the store of its row (`RowMatches`, `ChainMatches`). One
  lemma reduces the answer to any presentation to period, store, lists and row
  (`PresentationAnswered`).
- `SubscriptionsProofs`: `SubscriptionsTypeCorrect`, `AdministratorRemainsHolds`,
  `ShowsSelectedHolds`, `WithinPlanHolds`, `ReplacesWhatWasShownHolds`. `RolesInv`: whoever
  holds the advisory lock holds it alone and leaves an administrator (`Turn`). `PlansInv`
  adds that a snapshot of the version in force shows the contract in force, on the dashboard
  and in everything submitted from it (`Shown`), and that a session with the lock has it
  alone and still has room (`Room`).
- `AccessControlProofs`: `AccessTypeCorrect`, `RulesAgreeHolds`, `WrittenWhilePermittedHolds`.
  `RulesAgree` is no consequence of the two rules alone: the policy looks at assignments in
  the issuer's organization, the application at all of them, so `AccessInv` adds that users
  are assigned only at home (`AssignedAtHome`). The two directions are lemmas
  (`PolicyImpliesRule`, `RuleImpliesPolicy`), and a third says that the policy of the
  statement is enough for the write (`PolicyIsEnough`).
  For `OrganizationAdmin`: `LimitAlwaysHolds`, `LinkedWasInvitedHolds`,
  `ActivatedAfterGoodProbeHolds`, `OneActiveStoreHolds`. `AdminInv` says of each call what
  its step means (`CallMeant`): what it has read, reserved, invited or probed. The limit is
  a counting argument. An attempt is recorded with the time its transaction began, and is
  allowed by a count of everything later than a window before that, also of what overtook
  it; so in every window it belongs to there are at most as many as the limit.
  For `AdminPages`: `DirectoryFormSavedToSourceHolds`, `PanelsAreCurrentHolds`. `PagesInv`
  relates the scope selected, the form, the rows, the load and the change under way
  (`DirectoryInv`, `PanelInv`), and says that what was removed is in no roster, in no
  answer on its way and in no row but the one about to go, or one in `unseen` (`GoneInv`).

Several theorems have no run of their own, since they were checked by TLC before they were
proved and a run would add nothing: the type invariants, `RevokedIsFinal`,
`AnchoredIsStored`, `RegisteredIsAnchored`, `OneSigningKey`, `DocumentTracksKeys`,
`RetiredIsFinal`, `HistoryRetained`, `ValidatedWasDeployed`, `CustomerRowsPublished`,
`PassedWasRegistered`, `ShowsSelected`, `OneActiveStore`.

Model-checked only: the liveness properties, `CallsEnd` of `Revocation` and of `Issuance`
and `RetryConverges`, since fairness and ENABLED are beyond the prover; and what the
violation runs show, which is a counterexample each. `ListedImplementsLifecycle` is proved
for credentials with status lists only, which is all that is true (finding 1).

## 6. What is not modelled

- Contents of documents, formats, canonicalization and cryptography: a signature is the key
  it names, an envelope the master it names. Proofs of older suites are not verified.
- Passwords, sessions and mail delivery belong to the provider; the models have a session
  that is there or not, a login that exists or not, and a message that was accepted or not.
- In `Issuance`, request validation and the registration of unanchored documents by an
  operator (`isRegistered`; a document's side of it is in `CredentialDocument`).
- The import's choice of the key an old issuer gets: a migration that reads tables before
  the program serves anybody. Its provisioning and sealing are those of any other key.
- Lists and historical status entries signed under a customer's domain; the encoding of
  lists.
- Requests for another plan, which change no contract; prices, renewals, metrics. Creating
  and editing organizations, issuers without a user, and profiles: single statements.
- The policies of tables only the service role writes; the directory of platform users.
- Audit rows, except those that claim an on-chain registration: nothing reads them back.
  The AI assistant shares no state with certificates. Marketing pages have none.
- A session of another user or organization that begins while a Document Store's change is
  under way (`SelectStores`), and issuer lists that lack the issuer of a loaded template
  (`OfferOwners`). A request that names one credential and submits another
  (verify/route.ts:114-119): the pages send one of them. Whether the provider invites an
  existing, unconfirmed login once more (`Invite` takes it to refuse).
- What the journal says of credentials without status-list entries: it is written apart
  from the status, and nothing keeps the two together.
- Layout, wording, dates and field contents of the pages.

Postgres is taken as its manual describes it (READ COMMITTED, row locks, deferred
constraints, advisory locks), React as running every handler to its end before the next,
the Document Store as a contract that issues and revokes a hash once.

## 7. Further work

1. The refinement of `Verification`'s status changes by `Revocation` itself, where rows
   without status lists do not keep to `CredentialLifecycle` (finding 1).
2. Lists signed under a customer's domain, on top of `SelfManagedDID`.
3. That transactions of `KeyTransactions` end: which circles of waiters there may be is
   known, but the fairness of Postgres's lock queues is not modelled.
