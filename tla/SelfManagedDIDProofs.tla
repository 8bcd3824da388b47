------------------------ MODULE SelfManagedDIDProofs ------------------------
(***************************************************************************)
(* Theorems about SelfManagedDID, for any issuers, versions, calls and     *)
(* number of revisions.                                                    *)
(***************************************************************************)
EXTENDS SelfManagedDID, TLAPS

\* What the managed identity brings along.
ManagedInv ==
  /\ Managed!Documented
  /\ keyStatus \in [Key -> DOMAIN Managed!Advance]

\* Before it is configured nothing has happened to the configuration.
Untouched ==
  ~configured => /\ ~selected /\ ~docServed /\ status = "pending"
                 /\ linkage.id = 0 /\ expected = Nothing.doc

\* What is hosted now has been observed, and what was served is published.
SiteObserved ==
  /\ IsServed(hostedDoc, expected, Nothing.doc) => docServed
  /\ IsServed(hostedLink, linkage, NoLinkage) => linkServed
  /\ hostedDoc[2] \subseteq published
  /\ docServed => expected[2] \subseteq published

\* The configuration follows the managed document without delay.
DocumentExpected == configured => expected = CustomerDocument

\* A call has nothing to read before there is a configuration.
ReadsConfigured(c) ==
  ~configured => seen[c].revision = 0 /\ pc[c] \in {"idle", "config", "row"}

\* A revision identifies what a call has read.
ReadsOfPast(c) ==
  /\ seen[c].revision \in 0..revision
  /\ seen[c].revision = revision => seen[c].doc = expected /\ seen[c].linkage = linkage

\* Files fetched for the revision that is current were served for it.
FetchedWasServed(c) ==
  /\ pc[c] # "fetch" => fetched[c] = {}
  /\ seen[c].revision = revision => /\ "document" \in fetched[c] => docServed
                                    /\ "linkage" \in fetched[c] => linkServed

\* A linkage about to be saved is signed with a key whose method stays.
SavesVerifiable(c) == c \in Filing /\ pc[c] = "save" => key[c] \in verifying

CallInv(c) ==
  ReadsConfigured(c) /\ ReadsOfPast(c) /\ FetchedWasServed(c) /\ SavesVerifiable(c)

SelfManagedInv ==
  /\ TypeOK
  /\ ManagedInv
  /\ Untouched
  /\ SiteObserved
  /\ DocumentExpected
  /\ \A c \in Call : CallInv(c)
  /\ ValidatedWasDeployed
  /\ LinkageVerifiable
  /\ CustomerRowsPublished

-----------------------------------------------------------------------------
(***************************************************************************)
(* The managed identity.                                                   *)
(***************************************************************************)

\* Whoever may sign is also verified.
LEMMA SignersVerify == ManagedInv => signing \subseteq verifying /\ verifying \subseteq Key
BY DEF ManagedInv, Managed!Documented, Managed!MaySign, Managed!MayVerify, Key, Managed!Key

\* A method once published stays in the document, whatever else changes.
LEMMA VerifyingGrows ==
  ASSUME ManagedInv, ChangeIdentity
  PROVE  ManagedInv' /\ verifying \subseteq verifying'
<1>1. ManagedInv'
  BY DEF ChangeIdentity, ManagedInv, Managed!Change, Managed!Documented
<1>2. ASSUME NEW k \in verifying PROVE k \in verifying'
  <2>1. k \in Key /\ keyStatus[k] \in {"active", "retired"}
    BY <1>2 DEF ManagedInv, Managed!Documented, Managed!MayVerify, Key, Managed!Key
  <2>2. keyStatus'[k] \in Managed!Advance[keyStatus[k]]
    BY <2>1 DEF ChangeIdentity, Managed!Change, Key, Managed!Key
  <2>3. /\ Managed!Advance["active"] = {"active", "retired"}
        /\ Managed!Advance["retired"] = {"retired"}
    BY DEF Managed!Advance
  <2>4. keyStatus'[k] \in {"active", "retired"}
    BY <2>1, <2>2, <2>3
  <2>. QED
    BY <1>1, <2>1, <2>4 DEF ManagedInv, Managed!Documented, Managed!MayVerify, Key, Managed!Key
<1>. QED
  BY <1>1, <1>2

-----------------------------------------------------------------------------
(***************************************************************************)
(* Type correctness.                                                       *)
(***************************************************************************)

\* What stands for nothing is well typed.
LEMMA NothingType == Nothing \in Seen /\ NoLinkage \in Linkage /\ NoLinkage.key \in Key
<1>1. Key # {}
  <2>1. PICK i \in Issuer, v \in Version : TRUE
    BY KeysAssumption
  <2>2. <<i, v>> \in Key
    BY DEF Key
  <2>. QED
    BY <2>2
<1>2. NoLinkage.key \in Key
  BY <1>1 DEF NoLinkage
<1>. QED
  BY <1>2, CallsAssumption DEF Nothing, Seen, Document, Linkage, NoLinkage

\* The customer document is one of the documents.
LEMMA DocumentType == ManagedInv => CustomerDocument \in Document
BY SignersVerify DEF CustomerDocument, Document

\* Reading the row yields a well-typed reading.
LEMMA CurrentType == TypeOK => Current \in Seen
BY DEF TypeOK, Current, Seen

\* Types hold before anything is configured.
LEMMA InitType == Init => TypeOK /\ ManagedInv
<1> SUFFICES ASSUME Init PROVE TypeOK /\ ManagedInv
  OBVIOUS
<1>1. TypeOK
  <2>1. Nothing.doc \in Document /\ Nothing.doc[2] = {}
    BY DEF Nothing, Document
  <2>2. revision \in 1..MaxRevision /\ validated \in 0..MaxRevision
    BY CallsAssumption DEF Init
  <2>3. row \in [Issuing -> [did : {"none", "managed", "customer"}, key : Key]]
    BY NothingType DEF Init, NoRow
  <2>4. pc \in [Call -> {"idle", "sign", "save", "reread", "download", "done",
                        "fetch", "failed", "switch", "config", "row"}]
    BY DEF Init
  <2>5. /\ seen \in [Call -> Seen] /\ key \in [Call -> Key]
        /\ fetched \in [Call -> SUBSET {"document", "linkage"}]
        /\ mode \in [Call -> {"validate", "self-managed", "managed"}]
    BY NothingType DEF Init
  <2>. QED
    BY <2>1, <2>2, <2>3, <2>4, <2>5, NothingType DEF Init, TypeOK
<1>2. ManagedInv
  BY DEF Init, ManagedInv, Managed!Init, Managed!Documented, Managed!MaySign,
         Managed!MayVerify, Managed!Advance, Key, Managed!Key
<1>. QED
  BY <1>1, <1>2

\* Leaving is well typed for the labels the calls leave to.
LEMMA LeaveType ==
  ASSUME TypeOK, NEW c \in Call, NEW label \in {"idle", "reread", "done", "row"}, Leave(c, label)
  PROVE  /\ pc' \in [Call -> {"idle", "sign", "save", "reread", "download", "done",
                              "fetch", "failed", "switch", "config", "row"}]
         /\ seen' \in [Call -> Seen]
         /\ mode' \in [Call -> {"validate", "self-managed", "managed"}]
         /\ key' \in [Call -> Key]
BY NothingType DEF Leave, Goto, TypeOK

\* What is observed of the site is well typed.
LEMMA ObservedType ==
  ASSUME published \subseteq Key, hostedDoc' \in Document, Observed
  PROVE  docServed' \in BOOLEAN /\ linkServed' \in BOOLEAN /\ published' \subseteq Key
BY DEF Observed, Document, IsServed

\* Types: every step keeps them.
LEMMA StepType == TypeOK /\ ManagedInv /\ [Next]_vars => TypeOK' /\ ManagedInv'
<1> SUFFICES ASSUME TypeOK, ManagedInv, [Next]_vars PROVE TypeOK' /\ ManagedInv'
  OBVIOUS
<1> USE DEF managed, configuration, site, Goto
<1>a. Filing \subseteq Call /\ Checking \subseteq Call /\ Issuing \subseteq Call
  BY DEF Call
<1>b. UNCHANGED managed => ManagedInv'
  BY DEF ManagedInv, Managed!Documented, Managed!MaySign, Managed!MayVerify, Managed!Key
<1>1. CASE Configure
  <2>1. CustomerDocument \in Document
    BY DocumentType
  <2>2. docServed' \in BOOLEAN /\ linkServed' \in BOOLEAN /\ published' \subseteq Key
    BY <1>1, ObservedType DEF Configure, TypeOK
  <2>. QED
    BY <1>1, <1>b, <2>1, <2>2 DEF Configure, TypeOK, calls
<1>2. CASE ChangeIdentity
  <2>1. ManagedInv' /\ CustomerDocument' \in Document
    <3>1. ManagedInv'
      BY <1>2, VerifyingGrows
    <3>2. signing' \subseteq Key /\ verifying' \subseteq Key
      BY <3>1 DEF ManagedInv, Managed!Documented, Managed!MaySign, Managed!MayVerify, Key, Managed!Key
    <3>. QED
      BY <3>1, <3>2 DEF CustomerDocument, Document
  <2>2. docServed' \in BOOLEAN /\ linkServed' \in BOOLEAN /\ published' \subseteq Key
    BY <1>2, ObservedType DEF ChangeIdentity, TypeOK
  <2>3. /\ expected' \in Document /\ revision' \in 1..MaxRevision
        /\ status' \in {"pending", "valid", "invalid", "stale"}
    BY <1>2, <2>1, CallsAssumption DEF ChangeIdentity, SyncDocument, TypeOK
  <2>. QED
    BY <1>2, <2>1, <2>2, <2>3 DEF ChangeIdentity, TypeOK, calls
<1>3. CASE PassTime
  BY <1>3, <1>b DEF PassTime, TypeOK, calls
<1>4. ASSUME NEW doc \in Document, NEW link \in Linkage, Serve(doc, link)
      PROVE  TypeOK' /\ ManagedInv'
  <2>1. docServed' \in BOOLEAN /\ linkServed' \in BOOLEAN /\ published' \subseteq Key
    BY <1>4, ObservedType DEF Serve, TypeOK
  <2>. QED
    BY <1>4, <1>b, <2>1 DEF Serve, TypeOK, calls
<1>5. CASE TakeDown
  BY <1>5, <1>4, NothingType DEF TakeDown, TypeOK, Seen
<1>6. ASSUME NEW f \in Filing, ServeDownloaded(f) PROVE TypeOK' /\ ManagedInv'
  BY <1>6, <1>4, <1>a DEF ServeDownloaded, TypeOK, Seen
<1>7. ASSUME NEW f \in Filing, ReadForFiles(f) PROVE TypeOK' /\ ManagedInv'
  BY <1>7, <1>a, <1>b, CurrentType DEF ReadForFiles, TypeOK
<1>8. ASSUME NEW f \in Filing, SignLinkage(f) PROVE TypeOK' /\ ManagedInv'
  <2>1. CASE signing = {} /\ Leave(f, "idle")
    BY <1>8, <2>1, <1>a, <1>b, LeaveType DEF SignLinkage, TypeOK
  <2>2. CASE \E k \in signing : key' = [key EXCEPT ![f] = k] /\ Goto(f, "save") /\ UNCHANGED <<seen, mode>>
    BY <1>8, <2>2, <1>a, <1>b, SignersVerify DEF SignLinkage, TypeOK
  <2>. QED
    BY <1>8, <2>1, <2>2 DEF SignLinkage
<1>9. ASSUME NEW f \in Filing, SaveLinkage(f) PROVE TypeOK' /\ ManagedInv'
  <2>1. /\ linkage' \in Linkage /\ revision' \in 1..MaxRevision
        /\ status' \in {"pending", "valid", "invalid", "stale"} /\ expired' \in BOOLEAN
    <3>1. CASE seen[f].revision = revision
      <4>1. revision + 1 \in 1..MaxRevision /\ key[f] \in Key
        BY <1>9, <1>a, <3>1, CallsAssumption DEF SaveLinkage, TypeOK
      <4>2. linkage' = [id |-> revision + 1, key |-> key[f]]
        BY <1>9, <3>1 DEF SaveLinkage
      <4>3. linkage' \in Linkage
        BY <4>1, <4>2 DEF Linkage
      <4>. QED
        BY <1>9, <3>1, <4>1, <4>3 DEF SaveLinkage, TypeOK
    <3>2. CASE seen[f].revision # revision
      BY <1>9, <3>2 DEF SaveLinkage, TypeOK
    <3>. QED
      BY <3>1, <3>2
  <2>2. docServed' \in BOOLEAN /\ linkServed' \in BOOLEAN /\ published' \subseteq Key
    BY <1>9, ObservedType DEF SaveLinkage, TypeOK
  <2>3. \E label \in {"reread", "idle"} : Leave(f, label)
    BY <1>9 DEF SaveLinkage
  <2>. QED
    BY <1>9, <1>a, <1>b, <2>1, <2>2, <2>3, LeaveType DEF SaveLinkage, TypeOK
<1>10. ASSUME NEW f \in Filing, Download(f) PROVE TypeOK' /\ ManagedInv'
  <2>1. \E label \in {"done", "idle"} : Leave(f, label)
    BY <1>10 DEF Download
  <2>. QED
    BY <1>10, <1>a, <1>b, <2>1, LeaveType DEF Download, TypeOK
<1>11. ASSUME NEW c \in Call, Reread(c) PROVE TypeOK' /\ ManagedInv'
  BY <1>11, <1>b, CurrentType DEF Reread, TypeOK
<1>12. ASSUME NEW c \in Checking, BeginCheck(c) PROVE TypeOK' /\ ManagedInv'
  BY <1>12, <1>a, <1>b, CurrentType DEF BeginCheck, TypeOK
<1>13. ASSUME NEW c \in Call, Fetch(c) PROVE TypeOK' /\ ManagedInv'
  BY <1>13, <1>b DEF Fetch, TypeOK
<1>14. ASSUME NEW c \in Checking, RecordValidation(c) PROVE TypeOK' /\ ManagedInv'
  <2>1. /\ validated' \in 0..MaxRevision
        /\ status' \in {"pending", "valid", "invalid", "stale"}
    BY <1>14, CallsAssumption DEF RecordValidation, TypeOK, Verdict
  <2>2. \E label \in {"reread", "idle"} : Leave(c, label)
    BY <1>14 DEF RecordValidation
  <2>. QED
    BY <1>14, <1>a, <1>b, <2>1, <2>2, LeaveType DEF RecordValidation, TypeOK, Forget
<1>15. ASSUME NEW c \in Checking, Switch(c) PROVE TypeOK' /\ ManagedInv'
  BY <1>15, <1>a, <1>b, LeaveType DEF Switch, TypeOK
<1>16. ASSUME NEW s \in Issuing, BindKey(s) PROVE TypeOK' /\ ManagedInv'
  BY <1>16, <1>a, <1>b, SignersVerify, NothingType DEF BindKey, TypeOK, NoRow
<1>17. ASSUME NEW s \in Issuing, BindConfiguration(s) PROVE TypeOK' /\ ManagedInv'
  <2>1. CASE \E label \in {"row", "idle"} : Leave(s, label)
    BY <1>17, <1>a, <1>b, <2>1, LeaveType DEF BindConfiguration, TypeOK
  <2>2. CASE seen' = [seen EXCEPT ![s] = Current] /\ Goto(s, "fetch") /\ UNCHANGED <<key, mode>>
    BY <1>17, <1>a, <1>b, <2>2, CurrentType DEF BindConfiguration, TypeOK
  <2>. QED
    BY <1>17, <2>1, <2>2 DEF BindConfiguration
<1>18. ASSUME NEW s \in Issuing, Bind(s) PROVE TypeOK' /\ ManagedInv'
  <2>1. \E label \in {"row", "idle"} : Leave(s, label)
    BY <1>18 DEF Bind
  <2>. QED
    BY <1>18, <1>a, <1>b, <2>1, LeaveType DEF Bind, TypeOK, Forget
<1>19. ASSUME NEW s \in Issuing, InsertRow(s) PROVE TypeOK' /\ ManagedInv'
  <2>1. row' \in [Issuing -> [did : {"none", "managed", "customer"}, key : Key]]
    BY <1>19, <1>a DEF InsertRow, BoundTo, TypeOK
  <2>. QED
    BY <1>19, <1>a, <1>b, <2>1, LeaveType DEF InsertRow, TypeOK
<1>20. CASE UNCHANGED vars
  BY <1>20, <1>b DEF vars, calls, TypeOK
<1>. QED
  BY <1>a, <1>1, <1>2, <1>3, <1>5, <1>6, <1>7, <1>8, <1>9, <1>10, <1>11, <1>12, <1>13, <1>14,
     <1>15, <1>16, <1>17, <1>18, <1>19, <1>20 DEF Next

-----------------------------------------------------------------------------
(***************************************************************************)
(* What the steps leave as it was.                                         *)
(***************************************************************************)

\* Nothing that call d has read or holds changes.
Stays(d) == pc'[d] = pc[d] /\ seen'[d] = seen[d] /\ fetched'[d] = fetched[d] /\ key'[d] = key[d]

\* The revision is the same, and so is what it stands for.
SameRevision ==
  /\ revision' = revision /\ expected' = expected /\ linkage' = linkage
  /\ docServed => docServed'
  /\ linkServed => linkServed'

\* A call that stays keeps its invariant, in the same revision and in the next.
LEMMA CallStays ==
  ASSUME TypeOK, NEW d \in Call, CallInv(d), Stays(d),
         configured => configured', verifying \subseteq verifying',
         SameRevision \/ revision' = revision + 1
  PROVE  CallInv(d)'
<1>1. seen[d].revision \in 0..revision /\ revision \in Nat
  BY CallsAssumption DEF TypeOK, CallInv, ReadsOfPast
<1>2. ReadsConfigured(d)' /\ SavesVerifiable(d)'
  BY DEF CallInv, ReadsConfigured, SavesVerifiable, Stays
<1>3. CASE SameRevision
  BY <1>2, <1>3 DEF CallInv, ReadsOfPast, FetchedWasServed, Stays, SameRevision
<1>4. CASE revision' = revision + 1
  <2>1. seen'[d].revision \in 0..revision' /\ seen'[d].revision # revision'
    BY <1>1, <1>4 DEF Stays
  <2>2. pc'[d] # "fetch" => fetched'[d] = {}
    BY DEF CallInv, FetchedWasServed, Stays
  <2>. QED
    BY <1>2, <2>1, <2>2 DEF CallInv, ReadsOfPast, FetchedWasServed
<1>. QED
  BY <1>3, <1>4

\* What the site has served of a revision stays served while it is current.
LEMMA ObservedStays ==
  ASSUME Observed
  PROVE  /\ published \subseteq published'
         /\ revision' = revision => (docServed => docServed') /\ (linkServed => linkServed')
BY DEF Observed

\* A site that has been observed meets its invariant, if what was served is published.
LEMMA ObservedSite ==
  ASSUME Observed, SiteObserved, revision' = revision => expected' = expected
  PROVE  SiteObserved'
<1>1. hostedDoc'[2] \subseteq published' /\ published \subseteq published'
  BY DEF Observed
<1>2. IsServed(hostedDoc, expected, Nothing.doc)' => docServed'
  BY DEF Observed, IsServed, Nothing
<1>3. IsServed(hostedLink, linkage, NoLinkage)' => linkServed'
  BY DEF Observed, IsServed, NoLinkage
<1>4. docServed' => expected'[2] \subseteq published'
  BY <1>1 DEF Observed, IsServed, SiteObserved
<1>. QED
  BY <1>1, <1>2, <1>3, <1>4 DEF SiteObserved

\* Who leaves forgets what it has read when it ends, and the others stay.
LEMMA LeaveCall ==
  ASSUME TypeOK, NEW c \in Call, NEW label, Leave(c, label)
  PROVE  /\ pc'[c] = label
         /\ label = "idle" => seen'[c].revision = 0
         /\ label # "idle" => seen'[c] = seen[c] /\ key'[c] = key[c]
         /\ \A d \in Call \ {c} : pc'[d] = pc[d] /\ seen'[d] = seen[d] /\ key'[d] = key[d]
BY DEF Leave, Goto, TypeOK, Nothing

\* The invariant beyond the types and the calls.
Shared ==
  Untouched /\ SiteObserved /\ DocumentExpected /\ ValidatedWasDeployed /\ LinkageVerifiable

\* Steps of a call on its own.
LEMMA QuietStep ==
  ASSUME SelfManagedInv, UNCHANGED <<managed, configuration, site>>
  PROVE  Shared' /\ (UNCHANGED row => CustomerRowsPublished')
BY DEF SelfManagedInv, Shared, managed, configuration, site, Untouched, SiteObserved, DocumentExpected,
       ValidatedWasDeployed, LinkageVerifiable, CustomerRowsPublished, CustomerDocument, IsServed,
       Nothing, NoLinkage

\* A call that moves on its own disturbs no other.
LEMMA QuietCalls ==
  ASSUME SelfManagedInv, UNCHANGED <<managed, configuration, site>>,
         NEW c \in Call, \A d \in Call \ {c} : Stays(d), CallInv(c)'
  PROVE  \A d \in Call : CallInv(d)'
<1> SUFFICES ASSUME NEW d \in Call, d # c PROVE CallInv(d)'
  OBVIOUS
<1>1. SameRevision /\ configured' = configured /\ verifying' = verifying
  BY DEF SameRevision, managed, configuration, site
<1>. QED
  BY <1>1, CallStays DEF SelfManagedInv

-----------------------------------------------------------------------------
(***************************************************************************)
(* Every step keeps the invariant: the configuration and the site.         *)
(***************************************************************************)

\* Steps that no call takes.
LEMMA ConfigurationStep ==
  ASSUME SelfManagedInv, TypeOK', ManagedInv',
         Configure \/ ChangeIdentity \/ PassTime \/ (\E doc, link : Serve(doc, link)) \/ UNCHANGED vars
  PROVE  SelfManagedInv'
<1>a. revision \in Nat /\ revision # 0
  BY CallsAssumption DEF SelfManagedInv, TypeOK
<1>b. /\ Untouched /\ SiteObserved /\ DocumentExpected /\ ValidatedWasDeployed
      /\ LinkageVerifiable /\ CustomerRowsPublished /\ TypeOK /\ \A c \in Call : CallInv(c)
  BY DEF SelfManagedInv
<1>c. UNCHANGED calls => \A d \in Call : Stays(d)
  BY DEF calls, Stays
<1>1. CASE Configure
  <2>1. /\ ~configured /\ configured' /\ expected' = CustomerDocument /\ Observed
        /\ UNCHANGED <<managed, revision, linkage, status, calls>>
    BY <1>1 DEF Configure
  <2>2. SiteObserved'
    <3>1. hostedDoc'[2] \subseteq published' /\ published \subseteq published'
      BY <2>1 DEF Observed
    <3>2. docServed' => IsServed(hostedDoc', expected', Nothing.doc)
      BY <1>b, <2>1 DEF Untouched, Observed
    <3>. QED
      BY <2>1, <3>1, <3>2 DEF SiteObserved, Observed, IsServed, Nothing, NoLinkage
  <2>3. DocumentExpected' /\ Untouched' /\ ValidatedWasDeployed' /\ LinkageVerifiable' /\ CustomerRowsPublished'
    BY <1>b, <2>1, ObservedStays
       DEF DocumentExpected, Untouched, ValidatedWasDeployed, LinkageVerifiable, CustomerRowsPublished,
           CustomerDocument, managed, calls
  <2>4. ASSUME NEW c \in Call PROVE CallInv(c)'
    BY <1>a, <1>b, <2>1
       DEF CallInv, ReadsConfigured, ReadsOfPast, FetchedWasServed, SavesVerifiable, managed, calls
  <2>. QED
    BY <2>2, <2>3, <2>4 DEF SelfManagedInv
<1>2. CASE ChangeIdentity
  <2>1. /\ Observed /\ UNCHANGED <<configured, selected, linkage, validated, expired, hostedDoc, hostedLink, calls>>
        /\ CustomerDocument' # CustomerDocument /\ SyncDocument
    BY <1>2 DEF ChangeIdentity
  <2>2. verifying \subseteq verifying'
    BY <1>2, VerifyingGrows DEF SelfManagedInv
  <2>3. CASE configured
    <3>1. expected' = CustomerDocument' /\ revision' = revision + 1 /\ status' = "stale"
      BY <1>b, <2>1, <2>3 DEF SyncDocument, DocumentExpected
    <3>2. SiteObserved'
      BY <1>a, <1>b, <2>1, <3>1, ObservedSite
    <3>3. DocumentExpected' /\ Untouched' /\ ValidatedWasDeployed' /\ CustomerRowsPublished'
      BY <1>b, <2>1, <2>3, <3>1, ObservedStays
         DEF DocumentExpected, Untouched, ValidatedWasDeployed, CustomerRowsPublished, calls
    <3>4. LinkageVerifiable'
      BY <1>b, <2>1, <2>2, <2>3, <3>1 DEF LinkageVerifiable, DocumentExpected, CustomerDocument
    <3>5. \A c \in Call : CallInv(c)'
      BY <1>b, <1>c, <2>1, <2>2, <3>1, CallStays
    <3>. QED
      BY <3>2, <3>3, <3>4, <3>5 DEF SelfManagedInv
  <2>4. CASE ~configured
    <3>1. UNCHANGED <<expected, revision, status>>
      BY <2>1, <2>4 DEF SyncDocument
    <3>2. SiteObserved'
      BY <1>b, <2>1, <3>1, ObservedSite
    <3>3. ~docServed'
      BY <1>b, <2>1, <2>4, <3>1 DEF Untouched, Observed, IsServed
    <3>4. DocumentExpected' /\ Untouched' /\ ValidatedWasDeployed' /\ CustomerRowsPublished' /\ LinkageVerifiable'
      BY <1>b, <2>1, <2>4, <3>1, <3>3, ObservedStays
         DEF DocumentExpected, Untouched, ValidatedWasDeployed, CustomerRowsPublished, LinkageVerifiable, calls
    <3>5. SameRevision
      BY <2>1, <3>1, ObservedStays DEF SameRevision
    <3>6. \A c \in Call : CallInv(c)'
      BY <1>b, <1>c, <2>1, <2>2, <3>5, CallStays
    <3>. QED
      BY <3>2, <3>4, <3>6 DEF SelfManagedInv
  <2>. QED
    BY <2>3, <2>4
<1>3. CASE PassTime \/ UNCHANGED vars
  <2>1. /\ UNCHANGED <<managed, configured, selected, revision, expected, linkage, status, validated>>
        /\ UNCHANGED site /\ UNCHANGED calls
    BY <1>3 DEF PassTime, vars, configuration
  <2>2. Shared' /\ CustomerRowsPublished'
    BY <1>b, <2>1
       DEF Shared, managed, site, calls, Untouched, SiteObserved, DocumentExpected, ValidatedWasDeployed,
           LinkageVerifiable, CustomerRowsPublished, CustomerDocument, IsServed, Nothing, NoLinkage
  <2>3. SameRevision /\ configured' = configured /\ verifying' = verifying
    BY <2>1 DEF SameRevision, managed, site
  <2>4. \A c \in Call : CallInv(c)'
    BY <1>b, <1>c, <2>1, <2>3, CallStays
  <2>. QED
    BY <2>2, <2>4 DEF SelfManagedInv, Shared
<1>4. CASE \E doc, link : Serve(doc, link)
  <2>1. UNCHANGED managed /\ UNCHANGED configuration /\ UNCHANGED calls /\ Observed
    BY <1>4 DEF Serve
  <2>2. SiteObserved'
    BY <1>b, <2>1, ObservedSite DEF configuration
  <2>3. ~configured => ~docServed'
    BY <1>b, <2>1 DEF Untouched, Observed, IsServed, configuration
  <2>4. /\ DocumentExpected' /\ Untouched' /\ ValidatedWasDeployed' /\ CustomerRowsPublished'
        /\ LinkageVerifiable'
    BY <1>b, <2>1, <2>3, ObservedStays
       DEF DocumentExpected, Untouched, ValidatedWasDeployed, CustomerRowsPublished, LinkageVerifiable,
           CustomerDocument, managed, configuration, calls
  <2>5. SameRevision /\ configured' = configured /\ verifying' = verifying
    BY <2>1, ObservedStays DEF SameRevision, managed, configuration
  <2>6. \A c \in Call : CallInv(c)'
    BY <1>b, <1>c, <2>1, <2>5, CallStays
  <2>. QED
    BY <2>2, <2>4, <2>6 DEF SelfManagedInv
<1>. QED
  BY <1>1, <1>2, <1>3, <1>4

-----------------------------------------------------------------------------
(***************************************************************************)
(* Every step keeps the invariant: the calls.                              *)
(***************************************************************************)

\* What every call relies on.
LEMMA CallFacts ==
  ASSUME SelfManagedInv
  PROVE  /\ TypeOK /\ Untouched /\ SiteObserved /\ DocumentExpected /\ ValidatedWasDeployed
         /\ LinkageVerifiable /\ CustomerRowsPublished
         /\ \A c \in Call : CallInv(c)
         /\ revision \in Nat /\ revision # 0
         /\ signing \subseteq verifying
BY CallsAssumption, SignersVerify DEF SelfManagedInv, TypeOK

\* The steps of a call that leave the rows alone need only its own invariant.
LEMMA QuietInv ==
  ASSUME SelfManagedInv, TypeOK', ManagedInv', UNCHANGED <<managed, configuration, site, row>>,
         NEW c \in Call, \A d \in Call \ {c} : Stays(d), CallInv(c)'
  PROVE  SelfManagedInv'
BY QuietStep, QuietCalls DEF SelfManagedInv, Shared

\* What has been fetched for the current revision was served for it.
LEMMA FetchedServed ==
  ASSUME SelfManagedInv, NEW c \in Call, seen[c].revision = revision
  PROVE  /\ pc[c] = "fetch" /\ DocumentMatches(c) => docServed
         /\ pc[c] = "fetch" /\ LinkageMatches(c) => linkServed
<1>1. seen[c].doc = expected /\ seen[c].linkage = linkage
  BY CallFacts DEF CallInv, ReadsOfPast
<1>2. pc[c] = "fetch" /\ DocumentMatches(c) => docServed
  BY <1>1, CallFacts DEF DocumentMatches, SiteObserved, IsServed
<1>3. hostedLink.id > 0 => hostedLink # NoLinkage
  BY DEF NoLinkage
<1>4. pc[c] = "fetch" /\ LinkageMatches(c) => linkServed
  BY <1>1, <1>3, CallFacts DEF LinkageMatches, SiteObserved, IsServed
<1>. QED
  BY <1>2, <1>4

\* A download reads, signs and answers.
LEMMA FilingStep ==
  ASSUME SelfManagedInv, TypeOK', ManagedInv', NEW f \in Filing,
         ReadForFiles(f) \/ SignLinkage(f) \/ Download(f)
  PROVE  SelfManagedInv'
<1>a. f \in Call
  BY DEF Call
<1>1. CASE ReadForFiles(f)
  <2>1. \A d \in Call \ {f} : Stays(d)
    BY <1>1, <1>a, CallFacts DEF ReadForFiles, Stays, Goto, TypeOK
  <2>2. /\ seen'[f] = Current /\ configured' /\ pc'[f] \in {"sign", "download"} /\ fetched'[f] = fetched[f]
        /\ pc[f] # "fetch"
    BY <1>1, <1>a, CallFacts DEF ReadForFiles, Goto, TypeOK, configuration
  <2>3. CallInv(f)'
    BY <1>1, <1>a, <2>2, CallFacts
       DEF CallInv, ReadsConfigured, ReadsOfPast, FetchedWasServed, SavesVerifiable, Current,
           ReadForFiles, configuration
  <2>. QED
    BY <1>1, <1>a, <2>1, <2>3, QuietInv DEF ReadForFiles
<1>2. CASE SignLinkage(f)
  <2>1. /\ pc[f] = "sign" /\ configured' /\ UNCHANGED <<managed, configuration, site, fetched, row>>
    BY <1>2, <1>a, CallFacts DEF SignLinkage, CallInv, ReadsConfigured, configuration
  <2>2. CASE Leave(f, "idle")
    <3>1. \A d \in Call \ {f} : Stays(d)
      BY <1>a, <2>1, <2>2, CallFacts, LeaveCall DEF Stays
    <3>2. CallInv(f)'
      BY <1>a, <2>1, <2>2, CallFacts, LeaveCall
         DEF CallInv, ReadsConfigured, ReadsOfPast, FetchedWasServed, SavesVerifiable, configuration
    <3>. QED
      BY <1>a, <2>1, <3>1, <3>2, QuietInv
  <2>3. CASE \E k \in signing : key' = [key EXCEPT ![f] = k] /\ Goto(f, "save") /\ UNCHANGED <<seen, mode>>
    <3>1. PICK k \in signing : key' = [key EXCEPT ![f] = k] /\ Goto(f, "save") /\ UNCHANGED <<seen, mode>>
      BY <2>3
    <3>2. key'[f] \in verifying' /\ \A d \in Call \ {f} : Stays(d)
      BY <1>a, <2>1, <3>1, CallFacts DEF Stays, Goto, TypeOK, managed
    <3>3. CallInv(f)'
      BY <1>a, <2>1, <3>1, <3>2, CallFacts
         DEF CallInv, ReadsConfigured, ReadsOfPast, FetchedWasServed, SavesVerifiable, configuration, site
    <3>. QED
      BY <1>a, <2>1, <3>2, <3>3, QuietInv
  <2>. QED
    BY <1>2, <2>2, <2>3 DEF SignLinkage
<1>3. CASE Download(f)
  <2>1. /\ pc[f] = "download" /\ configured' /\ UNCHANGED <<managed, configuration, site, fetched, row>>
        /\ \E label \in {"done", "idle"} : Leave(f, label)
    BY <1>3, <1>a, CallFacts DEF Download, CallInv, ReadsConfigured, configuration
  <2>2. PICK label \in {"done", "idle"} : Leave(f, label)
    BY <2>1
  <2>3. \A d \in Call \ {f} : Stays(d)
    BY <1>a, <2>1, <2>2, CallFacts, LeaveCall DEF Stays
  <2>4. CallInv(f)'
    BY <1>a, <2>1, <2>2, CallFacts, LeaveCall
       DEF CallInv, ReadsConfigured, ReadsOfPast, FetchedWasServed, SavesVerifiable, configuration, site
  <2>. QED
    BY <1>a, <2>1, <2>3, <2>4, QuietInv
<1>. QED
  BY <1>1, <1>2, <1>3

\* A download saves the linkage it signed, or finds the revision changed.
LEMMA SaveStep ==
  ASSUME SelfManagedInv, TypeOK', ManagedInv', NEW f \in Filing, SaveLinkage(f)
  PROVE  SelfManagedInv'
<1>a. f \in Call
  BY DEF Call
<1>b. /\ pc[f] = "save" /\ configured /\ configured' /\ Observed /\ fetched[f] = {}
      /\ UNCHANGED <<managed, configured, selected, expected, validated, hostedDoc, hostedLink, fetched, row>>
  BY <1>a, CallFacts DEF SaveLinkage, CallInv, ReadsConfigured, FetchedWasServed
<1>c. verifying' = verifying /\ signing' = signing /\ CustomerDocument' = CustomerDocument
  BY <1>b DEF managed, CustomerDocument
<1>d. PICK label \in {"reread", "idle"} : Leave(f, label)
  BY DEF SaveLinkage
<1>e. \A d \in Call \ {f} : Stays(d)
  BY <1>a, <1>b, <1>d, CallFacts, LeaveCall DEF Stays
<1>f. SiteObserved' /\ published \subseteq published'
  BY <1>b, CallFacts, ObservedSite, ObservedStays
<1>g. DocumentExpected' /\ Untouched' /\ CustomerRowsPublished'
  BY <1>b, <1>c, <1>f, CallFacts DEF DocumentExpected, Untouched, CustomerRowsPublished
<1>1. CASE seen[f].revision = revision
  <2>1. /\ revision' = revision + 1 /\ linkage' = [id |-> revision + 1, key |-> key[f]]
        /\ status' = "pending"
    BY <1>1 DEF SaveLinkage
  <2>2. ValidatedWasDeployed' /\ LinkageVerifiable'
    BY <1>a, <1>b, <1>c, <2>1, CallFacts
       DEF ValidatedWasDeployed, LinkageVerifiable, CallInv, SavesVerifiable, DocumentExpected, CustomerDocument
  <2>3. ASSUME NEW d \in Call, d # f PROVE CallInv(d)'
    BY <1>b, <1>c, <1>e, <2>1, <2>3, CallFacts, CallStays
  <2>4. seen'[f].revision \in 0..revision /\ pc'[f] = label
    BY <1>a, <1>d, CallFacts, LeaveCall DEF CallInv, ReadsOfPast
  <2>5. CallInv(f)'
    BY <1>b, <2>1, <2>4, CallFacts
       DEF CallInv, ReadsConfigured, ReadsOfPast, FetchedWasServed, SavesVerifiable
  <2>. QED
    BY <1>f, <1>g, <2>2, <2>3, <2>5 DEF SelfManagedInv
<1>2. CASE seen[f].revision # revision
  <2>1. Leave(f, "idle") /\ UNCHANGED <<revision, linkage, expired, status>>
    BY <1>2 DEF SaveLinkage
  <2>2. SameRevision
    BY <1>b, <2>1, ObservedStays DEF SameRevision
  <2>3. ValidatedWasDeployed' /\ LinkageVerifiable'
    BY <1>b, <2>1, <2>2, CallFacts DEF ValidatedWasDeployed, LinkageVerifiable, SameRevision
  <2>4. ASSUME NEW d \in Call, d # f PROVE CallInv(d)'
    BY <1>b, <1>c, <1>e, <2>2, <2>4, CallFacts, CallStays
  <2>5. seen'[f].revision = 0 /\ pc'[f] = "idle"
    BY <1>a, <2>1, CallFacts, LeaveCall
  <2>6. CallInv(f)'
    BY <1>b, <2>1, <2>5, CallFacts
       DEF CallInv, ReadsConfigured, ReadsOfPast, FetchedWasServed, SavesVerifiable
  <2>. QED
    BY <1>f, <1>g, <2>3, <2>4, <2>6 DEF SelfManagedInv
<1>. QED
  BY <1>1, <1>2

\* A call reads the configuration.
LEMMA ReadingStep ==
  ASSUME SelfManagedInv, TypeOK', ManagedInv', NEW c \in Call, Reread(c) \/ (c \in Checking /\ BeginCheck(c))
  PROVE  SelfManagedInv'
<1>1. /\ configured /\ seen' = [seen EXCEPT ![c] = Current]
      /\ UNCHANGED <<managed, configuration, site, fetched, row, key>>
      /\ \E label \in {"download", "switch", "failed", "fetch"} : Goto(c, label)
      /\ pc[c] \in {"reread", "idle"}
  BY CallFacts DEF Reread, BeginCheck, CallInv, ReadsConfigured
<1>2. PICK label \in {"download", "switch", "failed", "fetch"} : Goto(c, label)
  BY <1>1
<1>3. \A d \in Call \ {c} : Stays(d)
  BY <1>1, <1>2, CallFacts DEF Stays, Goto, TypeOK
<1>4. seen'[c] = Current /\ pc'[c] = label /\ fetched'[c] = {} /\ configured' = configured
  BY <1>1, <1>2, CallFacts DEF Goto, TypeOK, CallInv, FetchedWasServed, configuration
<1>5. CallInv(c)'
  BY <1>1, <1>4, CallFacts
     DEF CallInv, ReadsConfigured, ReadsOfPast, FetchedWasServed, SavesVerifiable, Current, configuration
<1>. QED
  BY <1>1, <1>3, <1>5, QuietInv

\* A call fetches one of the two files, or fails to.
LEMMA FetchStep ==
  ASSUME SelfManagedInv, TypeOK', ManagedInv', NEW c \in Call, Fetch(c)
  PROVE  SelfManagedInv'
<1>1. /\ pc[c] = "fetch" /\ configured /\ UNCHANGED <<managed, configuration, site, seen, mode, key, row>>
  BY CallFacts DEF Fetch, CallInv, ReadsConfigured
<1>2. CASE Goto(c, "failed") /\ fetched' = [fetched EXCEPT ![c] = {}]
  <2>1. \A d \in Call \ {c} : Stays(d)
    BY <1>1, <1>2, CallFacts DEF Stays, Goto, TypeOK
  <2>2. pc'[c] = "failed" /\ fetched'[c] = {}
    BY <1>2, CallFacts DEF Goto, TypeOK
  <2>3. CallInv(c)'
    BY <1>1, <2>2, CallFacts
       DEF CallInv, ReadsConfigured, ReadsOfPast, FetchedWasServed, SavesVerifiable, configuration, site
  <2>. QED
    BY <1>1, <2>1, <2>3, QuietInv
<1>3. ASSUME NEW file \in {"document", "linkage"},
             IF file = "document" THEN DocumentMatches(c) ELSE LinkageMatches(c),
             fetched' = [fetched EXCEPT ![c] = @ \cup {file}], UNCHANGED pc
      PROVE  SelfManagedInv'
  <2>1. \A d \in Call \ {c} : Stays(d)
    BY <1>1, <1>3, CallFacts DEF Stays, TypeOK
  <2>2. fetched'[c] = fetched[c] \cup {file}
    BY <1>3, CallFacts DEF TypeOK
  <2>3. seen[c].revision = revision => ("document" \in fetched'[c] => docServed)
                                       /\ ("linkage" \in fetched'[c] => linkServed)
    BY <1>1, <1>3, <2>2, CallFacts, FetchedServed DEF CallInv, FetchedWasServed
  <2>4. CallInv(c)'
    BY <1>1, <1>3, <2>3, CallFacts
       DEF CallInv, ReadsConfigured, ReadsOfPast, FetchedWasServed, SavesVerifiable, configuration, site
  <2>. QED
    BY <1>1, <2>1, <2>4, QuietInv
<1>. QED
  BY <1>2, <1>3 DEF Fetch

\* A validation records its result.
LEMMA ValidationStep ==
  ASSUME SelfManagedInv, TypeOK', ManagedInv', NEW c \in Checking, RecordValidation(c)
  PROVE  SelfManagedInv'
<1>a. c \in Call
  BY DEF Call
<1>b. /\ Settled(c) /\ configured
      /\ UNCHANGED <<managed, configured, selected, revision, expected, linkage, expired, site, row>>
  BY <1>a, CallFacts DEF RecordValidation, Settled, CallInv, ReadsConfigured
<1>c. PICK label \in {"reread", "idle"} : Leave(c, label)
  BY DEF RecordValidation
<1>d. fetched' = [fetched EXCEPT ![c] = {}]
  BY DEF RecordValidation, Forget
<1>e. \A d \in Call \ {c} : Stays(d)
  BY <1>a, <1>c, <1>d, CallFacts, LeaveCall DEF Stays, TypeOK
<1>f. SameRevision /\ verifying' = verifying
  BY <1>b DEF SameRevision, managed, site
<1>1. /\ SiteObserved' /\ DocumentExpected' /\ Untouched' /\ CustomerRowsPublished'
      /\ LinkageVerifiable'
  BY <1>b, CallFacts
     DEF SiteObserved, DocumentExpected, Untouched, CustomerRowsPublished, LinkageVerifiable,
         CustomerDocument, managed, site, IsServed, Nothing, NoLinkage
<1>2. ValidatedWasDeployed'
  <2>1. CASE seen[c].revision = revision /\ Deployed(c)
    <3>1. docServed /\ linkServed
      BY <1>a, <1>b, <2>1, CallFacts DEF Settled, Deployed, CallInv, FetchedWasServed
    <3>2. status' = "valid" => validated' = revision
      BY <1>b, <2>1, CallFacts DEF RecordValidation, ValidatedWasDeployed
    <3>. QED
      BY <1>b, <3>1, <3>2 DEF ValidatedWasDeployed, site
  <2>2. CASE ~(seen[c].revision = revision /\ Deployed(c))
    <3>1. status' = "invalid" \/ UNCHANGED <<status, validated>>
      BY <2>2 DEF RecordValidation, Verdict
    <3>. QED
      BY <1>b, <3>1, CallFacts DEF ValidatedWasDeployed, site
  <2>. QED
    BY <2>1, <2>2
<1>3. ASSUME NEW d \in Call, d # c PROVE CallInv(d)'
  BY <1>b, <1>e, <1>f, <1>3, CallFacts, CallStays
<1>4. pc'[c] = label /\ fetched'[c] = {} /\ (seen'[c] = seen[c] \/ seen'[c].revision = 0)
  BY <1>a, <1>c, <1>d, CallFacts, LeaveCall DEF TypeOK
<1>5. CallInv(c)'
  BY <1>a, <1>b, <1>4, CallFacts
     DEF CallInv, ReadsConfigured, ReadsOfPast, FetchedWasServed, SavesVerifiable
<1>. QED
  BY <1>1, <1>2, <1>3, <1>5 DEF SelfManagedInv

\* Leaving to the end without touching what was fetched.
LEMMA EndingCall ==
  ASSUME SelfManagedInv, NEW c \in Call, Leave(c, "idle"), UNCHANGED fetched, pc[c] # "fetch",
         SameRevision, configured' = configured, verifying' = verifying
  PROVE  \A d \in Call : CallInv(d)'
<1>1. seen'[c].revision = 0 /\ pc'[c] = "idle" /\ fetched'[c] = {}
  BY CallFacts, LeaveCall DEF CallInv, FetchedWasServed
<1>2. CallInv(c)'
  BY <1>1, CallFacts
     DEF CallInv, ReadsConfigured, ReadsOfPast, FetchedWasServed, SavesVerifiable, SameRevision
<1>3. ASSUME NEW d \in Call, d # c PROVE CallInv(d)'
  <2>1. Stays(d)
    BY <1>3, CallFacts, LeaveCall DEF Stays
  <2>. QED
    BY <2>1, CallFacts, CallStays
<1>. QED
  BY <1>2, <1>3

\* A selection is written, or refused.
LEMMA SwitchStep ==
  ASSUME SelfManagedInv, TypeOK', ManagedInv', NEW c \in Checking, Switch(c)
  PROVE  SelfManagedInv'
<1>a. c \in Call
  BY DEF Call
<1>b. /\ pc[c] = "switch" /\ configured /\ Leave(c, "idle")
      /\ UNCHANGED <<managed, configured, revision, expected, linkage, status, validated, expired, site,
                     fetched, row>>
  BY <1>a, CallFacts DEF Switch, CallInv, ReadsConfigured
<1>c. SameRevision /\ configured' = configured /\ verifying' = verifying
  BY <1>b DEF SameRevision, managed, site
<1>1. Shared' /\ CustomerRowsPublished'
  BY <1>b, CallFacts
     DEF Shared, SiteObserved, DocumentExpected, Untouched, CustomerRowsPublished, LinkageVerifiable,
         ValidatedWasDeployed, CustomerDocument, managed, site, IsServed, Nothing, NoLinkage
<1>2. \A d \in Call : CallInv(d)'
  BY <1>a, <1>b, <1>c, EndingCall
<1>. QED
  BY <1>1, <1>2 DEF SelfManagedInv, Shared

\* An issuance binds its key and looks at the deployment.
LEMMA BindingStep ==
  ASSUME SelfManagedInv, TypeOK', ManagedInv', NEW s \in Issuing,
         BindKey(s) \/ BindConfiguration(s) \/ Bind(s)
  PROVE  SelfManagedInv'
<1>a. s \in Call /\ s \notin Filing
  BY CallsAssumption DEF Call
<1>1. CASE BindKey(s)
  <2>1. /\ pc[s] = "idle" /\ Goto(s, "config") /\ row' = [row EXCEPT ![s] = NoRow]
        /\ UNCHANGED <<managed, configuration, site, seen, fetched, mode>>
        /\ \E k \in signing : key' = [key EXCEPT ![s] = k]
    BY <1>1 DEF BindKey
  <2>2. \A d \in Call \ {s} : Stays(d)
    BY <1>a, <2>1, CallFacts DEF Stays, Goto, TypeOK
  <2>3. pc'[s] = "config"
    BY <1>a, <2>1, CallFacts DEF Goto, TypeOK
  <2>4. CallInv(s)'
    BY <1>a, <2>1, <2>3, CallFacts
       DEF CallInv, ReadsConfigured, ReadsOfPast, FetchedWasServed, SavesVerifiable, configuration, site
  <2>5. CustomerRowsPublished'
    BY <2>1, CallFacts DEF CustomerRowsPublished, TypeOK, NoRow, site
  <2>. QED
    BY <1>a, <2>1, <2>2, <2>4, <2>5, QuietStep, QuietCalls DEF SelfManagedInv, Shared
<1>2. CASE BindConfiguration(s)
  <2>1. pc[s] = "config" /\ UNCHANGED <<managed, configuration, site, fetched, row>> /\ fetched[s] = {}
    BY <1>2, <1>a, CallFacts DEF BindConfiguration, CallInv, FetchedWasServed
  <2>2. ASSUME NEW label \in {"row", "idle"}, Leave(s, label) PROVE SelfManagedInv'
    <3>1. \A d \in Call \ {s} : Stays(d)
      BY <1>a, <2>1, <2>2, CallFacts, LeaveCall DEF Stays
    <3>2. pc'[s] = label /\ (seen'[s] = seen[s] \/ seen'[s].revision = 0)
      BY <1>a, <2>2, CallFacts, LeaveCall
    <3>3. CallInv(s)'
      BY <1>a, <2>1, <3>2, CallFacts
         DEF CallInv, ReadsConfigured, ReadsOfPast, FetchedWasServed, SavesVerifiable, configuration, site
    <3>. QED
      BY <1>a, <2>1, <3>1, <3>3, QuietInv
  <2>3. CASE selected /\ seen' = [seen EXCEPT ![s] = Current] /\ Goto(s, "fetch") /\ UNCHANGED <<key, mode>>
    <3>1. \A d \in Call \ {s} : Stays(d)
      BY <1>a, <2>1, <2>3, CallFacts DEF Stays, Goto, TypeOK
    <3>2. seen'[s] = Current /\ pc'[s] = "fetch" /\ configured
      BY <1>a, <2>3, CallFacts DEF Goto, TypeOK, Untouched
    <3>3. CallInv(s)'
      BY <1>a, <2>1, <3>2, CallFacts
         DEF CallInv, ReadsConfigured, ReadsOfPast, FetchedWasServed, SavesVerifiable, Current, configuration
    <3>. QED
      BY <1>a, <2>1, <3>1, <3>3, QuietInv
  <2>. QED
    BY <1>2, <2>2, <2>3 DEF BindConfiguration
<1>3. CASE Bind(s)
  <2>1. /\ configured /\ fetched' = [fetched EXCEPT ![s] = {}]
        /\ UNCHANGED <<managed, configuration, site, row>>
        /\ \E label \in {"row", "idle"} : Leave(s, label)
    BY <1>3, <1>a, CallFacts DEF Bind, Forget, Settled, CallInv, ReadsConfigured
  <2>2. PICK label \in {"row", "idle"} : Leave(s, label)
    BY <2>1
  <2>3. \A d \in Call \ {s} : Stays(d)
    BY <1>a, <2>1, <2>2, CallFacts, LeaveCall DEF Stays, TypeOK
  <2>4. pc'[s] = label /\ fetched'[s] = {} /\ (seen'[s] = seen[s] \/ seen'[s].revision = 0)
    BY <1>a, <2>1, <2>2, CallFacts, LeaveCall DEF TypeOK
  <2>5. CallInv(s)'
    BY <1>a, <2>1, <2>4, CallFacts
       DEF CallInv, ReadsConfigured, ReadsOfPast, FetchedWasServed, SavesVerifiable, configuration, site
  <2>. QED
    BY <1>a, <2>1, <2>3, <2>5, QuietInv
<1>. QED
  BY <1>1, <1>2, <1>3

\* A row under the customer's DID names a key of the document that was served.
LEMMA RowStep ==
  ASSUME SelfManagedInv, TypeOK', ManagedInv', NEW s \in Issuing, InsertRow(s)
  PROVE  SelfManagedInv'
<1>a. s \in Call
  BY DEF Call
<1>b. pc[s] = "row" /\ Leave(s, "idle") /\ UNCHANGED <<managed, configuration, site, fetched>>
  BY DEF InsertRow
<1>c. SameRevision /\ configured' = configured /\ verifying' = verifying
  BY <1>b DEF SameRevision, managed, configuration, site
<1>1. ASSUME selected, IsValid, key[s] \in signing PROVE key[s] \in published
  <2>1. configured /\ docServed
    BY <1>1, CallFacts DEF IsValid, Untouched, ValidatedWasDeployed
  <2>2. expected[2] = signing
    BY <2>1, CallFacts DEF DocumentExpected, CustomerDocument
  <2>. QED
    BY <1>1, <2>1, <2>2, CallFacts DEF SiteObserved
<1>2. CustomerRowsPublished'
  <2>1. published' = published
    BY <1>b DEF site
  <2>2. CASE row' = row
    BY <2>1, <2>2, CallFacts DEF CustomerRowsPublished
  <2>3. CASE /\ key[s] \in signing
             /\ BoundTo(s) = "customer" <=> selected
             /\ selected => IsValid
             /\ row' = [row EXCEPT ![s] = [did |-> BoundTo(s), key |-> key[s]]]
    <3>1. row'[s] = [did |-> BoundTo(s), key |-> key[s]] /\ \A t \in Issuing \ {s} : row'[t] = row[t]
      BY <2>3, CallFacts DEF TypeOK
    <3>. QED
      BY <1>1, <2>1, <2>3, <3>1, CallFacts DEF CustomerRowsPublished
  <2>. QED
    BY <2>2, <2>3 DEF InsertRow
<1>3. \A d \in Call : CallInv(d)'
  BY <1>a, <1>b, <1>c, EndingCall
<1>. QED
  BY <1>b, <1>2, <1>3, QuietStep DEF SelfManagedInv, Shared

\* Every step keeps the invariant.
LEMMA StepInv == SelfManagedInv /\ [Next]_vars => SelfManagedInv'
<1> SUFFICES ASSUME SelfManagedInv, [Next]_vars PROVE SelfManagedInv'
  OBVIOUS
<1>a. TypeOK' /\ ManagedInv'
  BY StepType DEF SelfManagedInv
<1>b. Filing \subseteq Call /\ Checking \subseteq Call /\ Issuing \subseteq Call
  BY DEF Call
<1>1. CASE Configure \/ ChangeIdentity \/ PassTime \/ TakeDown \/ UNCHANGED vars
  <2>1. TakeDown => \E doc, link : Serve(doc, link)
    BY DEF TakeDown
  <2>. QED
    BY <1>a, <1>1, <2>1, ConfigurationStep
<1>2. ASSUME NEW f \in Filing, ServeDownloaded(f) PROVE SelfManagedInv'
  <2>1. \E doc, link : Serve(doc, link)
    BY <1>2 DEF ServeDownloaded
  <2>. QED
    BY <1>a, <2>1, ConfigurationStep
<1>3. ASSUME NEW f \in Filing, ReadForFiles(f) \/ SignLinkage(f) \/ SaveLinkage(f) \/ Download(f)
      PROVE  SelfManagedInv'
  BY <1>a, <1>3, FilingStep, SaveStep
<1>4. ASSUME NEW c \in Filing \cup Checking, Reread(c) PROVE SelfManagedInv'
  BY <1>a, <1>b, <1>4, ReadingStep
<1>5. ASSUME NEW c \in Checking, BeginCheck(c) \/ RecordValidation(c) \/ Switch(c) PROVE SelfManagedInv'
  BY <1>a, <1>b, <1>5, ReadingStep, ValidationStep, SwitchStep
<1>6. ASSUME NEW c \in Checking \cup Issuing, Fetch(c) PROVE SelfManagedInv'
  BY <1>a, <1>b, <1>6, FetchStep
<1>7. ASSUME NEW s \in Issuing, BindKey(s) \/ BindConfiguration(s) \/ Bind(s) \/ InsertRow(s)
      PROVE  SelfManagedInv'
  BY <1>a, <1>7, BindingStep, RowStep
<1>. QED
  BY <1>1, <1>2, <1>3, <1>4, <1>5, <1>6, <1>7 DEF Next

\* The invariant holds before anything is configured.
LEMMA InitInv == Init => SelfManagedInv
<1> SUFFICES ASSUME Init PROVE SelfManagedInv
  OBVIOUS
<1>1. TypeOK /\ ManagedInv
  BY InitType
<1>2. /\ ~configured /\ ~selected /\ ~docServed /\ ~linkServed /\ status = "pending"
      /\ linkage = NoLinkage /\ linkage.id = 0 /\ expected = Nothing.doc
      /\ hostedDoc = Nothing.doc /\ hostedLink = NoLinkage /\ hostedDoc[2] = {}
      /\ revision = 1
  BY DEF Init, NoLinkage, Nothing
<1>3. Shared
  BY <1>2 DEF Shared, Untouched, SiteObserved, DocumentExpected, ValidatedWasDeployed,
              LinkageVerifiable, IsServed
<1>4. ASSUME NEW c \in Call PROVE CallInv(c)
  <2>1. seen[c].revision = 0 /\ pc[c] = "idle" /\ fetched[c] = {}
    BY DEF Init, Nothing
  <2>. QED
    BY <1>2, <2>1 DEF CallInv, ReadsConfigured, ReadsOfPast, FetchedWasServed, SavesVerifiable
<1>5. CustomerRowsPublished
  BY DEF Init, CustomerRowsPublished, NoRow
<1>. QED
  BY <1>1, <1>3, <1>4, <1>5 DEF SelfManagedInv, Shared

\* The invariant, in every state.
LEMMA Invariance == Spec => []SelfManagedInv
BY InitInv, StepInv, PTL DEF Spec

-----------------------------------------------------------------------------
(***************************************************************************)
(* Theorems.                                                               *)
(***************************************************************************)

\* The configuration and the calls keep the shapes that the columns of
\* self_managed_dids and the variables of SelfManagedDIDService have.
THEOREM SelfManagedTypeCorrect == Spec => []TypeOK
<1>1. SelfManagedInv => TypeOK
  BY DEF SelfManagedInv
<1>. QED
  BY <1>1, Invariance, PTL

\* phase5_did_action records a good validation only for a revision whose two
\* files the customer's site has served.
THEOREM ValidatedWasDeployedHolds == Spec => []ValidatedWasDeployed
<1>1. SelfManagedInv => ValidatedWasDeployed
  BY DEF SelfManagedInv
<1>. QED
  BY <1>1, Invariance, PTL

\* The linkage that phase5_did_action saved verifies with the document that
\* phase5_document expects, however keys rotate and issuers come and go.
THEOREM LinkageVerifiableHolds == Spec => []LinkageVerifiable
<1>1. SelfManagedInv => LinkageVerifiable
  BY DEF SelfManagedInv
<1>. QED
  BY <1>1, Invariance, PTL

\* phase3_credential_key lets no credential in under the customer's DID whose
\* key the customer's site has not published.
THEOREM CustomerRowsPublishedHolds == Spec => []CustomerRowsPublished
<1>1. SelfManagedInv => CustomerRowsPublished
  BY DEF SelfManagedInv
<1>. QED
  BY <1>1, Invariance, PTL

\* Actions other than a call's switch leave the selection as it was.
LEMMA OnlySwitchSelects ==
  ASSUME Next PROVE (\E c \in Checking : Switch(c)) \/ UNCHANGED selected
BY DEF Next, Configure, ChangeIdentity, PassTime, TakeDown, ReadForFiles, SignLinkage, SaveLinkage,
       Download, ServeDownloaded, Serve, Reread, BeginCheck, RecordValidation, Fetch, BindKey,
       BindConfiguration, Bind, InsertRow, configuration

\* SelfManagedDIDService.select moves issuance to the customer's domain only
\* for a revision whose two files it has served.
THEOREM SelectedWasDeployedHolds == Spec => SelectedWasDeployed
<1>1. ASSUME SelfManagedInv, [Next]_vars
      PROVE  [~selected /\ selected' => docServed /\ linkServed]_vars
  <2>1. ASSUME ~selected, selected' PROVE docServed /\ linkServed
    <3>1. PICK c \in Checking : Switch(c)
      BY <1>1, <2>1, OnlySwitchSelects DEF vars, configuration
    <3>2. MaySwitch(c) /\ mode[c] = "self-managed"
      BY <2>1, <3>1 DEF Switch
    <3>3. IsValid /\ configured
      BY <3>1, <3>2, <1>1, CallFacts DEF MaySwitch, Switch, CallInv, ReadsConfigured, Call
    <3>. QED
      BY <3>3, <1>1, CallFacts DEF IsValid, ValidatedWasDeployed
  <2>. QED
    BY <2>1
<1>. QED
  BY <1>1, Invariance, PTL DEF Spec, SelectedWasDeployed

\* Rows change only when an issuance begins or inserts.
LEMMA OnlyInsertsWrite ==
  ASSUME Next PROVE (\E s \in Issuing : BindKey(s) \/ InsertRow(s)) \/ UNCHANGED row
BY DEF Next, Configure, ChangeIdentity, PassTime, TakeDown, ReadForFiles, SignLinkage, SaveLinkage,
       Download, ServeDownloaded, Serve, Reread, BeginCheck, RecordValidation, Switch, Fetch,
       BindConfiguration, Bind, calls

\* phase3_credential_key writes a credential under the DID selected then.
THEOREM WrittenUnderSelectionHolds == Spec => WrittenUnderSelection
<1>1. ASSUME SelfManagedInv, [Next]_vars, NEW s \in Issuing, row[s].did = "none", row'[s].did # "none"
      PROVE  row'[s].did = IF selected THEN "customer" ELSE "managed"
  <2>1. PICK t \in Issuing : BindKey(t) \/ InsertRow(t)
    BY <1>1, OnlyInsertsWrite DEF vars, calls
  <2>2. ~BindKey(t)
    BY <1>1, CallFacts DEF BindKey, TypeOK, NoRow
  <2>3. InsertRow(t) /\ row' # row
    BY <1>1, <2>1, <2>2
  <2>4. /\ BoundTo(t) = "customer" <=> selected
        /\ row' = [row EXCEPT ![t] = [did |-> BoundTo(t), key |-> key[t]]]
    BY <2>3 DEF InsertRow
  <2>5. s = t /\ row'[s].did = BoundTo(t)
    BY <1>1, <2>4, CallFacts DEF TypeOK
  <2>. QED
    BY <2>4, <2>5 DEF BoundTo
<1>2. SelfManagedInv /\ [Next]_vars
      => [\A s \in Issuing : row[s].did = "none" /\ row'[s].did # "none"
            => row'[s].did = IF selected THEN "customer" ELSE "managed"]_vars
  BY <1>1
<1>. QED
  BY <1>2, Invariance, PTL DEF Spec, WrittenUnderSelection

\* Calls other than a download do not get from "download" to "done".
LEMMA OnlyDownloadAnswers ==
  ASSUME SelfManagedInv, Next, NEW f \in Filing, pc[f] = "download", pc'[f] = "done"
  PROVE  Download(f)
<1>a. Filing \subseteq Call /\ Checking \subseteq Call /\ Issuing \subseteq Call
  BY DEF Call
<1>b. TypeOK /\ pc' # pc /\ f \in Call
  BY <1>a, CallFacts
<1>1. ASSUME NEW c \in Call, NEW label, Goto(c, label) PROVE c = f /\ label = "done"
  BY <1>b, <1>1 DEF Goto, TypeOK
<1>2. ASSUME NEW c \in Call, NEW label, Leave(c, label) PROVE c = f /\ label = "done"
  BY <1>1, <1>2 DEF Leave
<1>3. ~(Configure \/ ChangeIdentity \/ PassTime \/ TakeDown \/ \E g \in Filing : ServeDownloaded(g))
  BY <1>b DEF Configure, ChangeIdentity, PassTime, TakeDown, ServeDownloaded, Serve, calls
<1>4. ASSUME NEW g \in Filing
      PROVE  ~ReadForFiles(g) /\ ~SignLinkage(g) /\ ~SaveLinkage(g) /\ (Download(g) => g = f)
  <2>1. ~ReadForFiles(g)
    BY <1>a, <1>1 DEF ReadForFiles
  <2>2. ~SignLinkage(g)
    BY <1>a, <1>1, <1>2 DEF SignLinkage
  <2>3. ~SaveLinkage(g)
    BY <1>a, <1>2 DEF SaveLinkage
  <2>4. Download(g) => g = f
    BY <1>a, <1>2 DEF Download
  <2>. QED
    BY <2>1, <2>2, <2>3, <2>4
<1>5. ASSUME NEW c \in Call PROVE ~Reread(c)
  BY <1>1 DEF Reread
<1>6. ASSUME NEW c \in Checking PROVE ~BeginCheck(c) /\ ~RecordValidation(c) /\ ~Switch(c)
  <2>1. ~BeginCheck(c)
    BY <1>a, <1>1 DEF BeginCheck
  <2>2. ~RecordValidation(c)
    BY <1>a, <1>2 DEF RecordValidation
  <2>3. ~Switch(c)
    BY <1>a, <1>2 DEF Switch
  <2>. QED
    BY <2>1, <2>2, <2>3
<1>7. ASSUME NEW c \in Call PROVE ~Fetch(c)
  BY <1>b, <1>1 DEF Fetch
<1>8. ASSUME NEW s \in Issuing PROVE ~BindKey(s) /\ ~BindConfiguration(s) /\ ~Bind(s) /\ ~InsertRow(s)
  <2>1. ~BindKey(s)
    BY <1>a, <1>1 DEF BindKey
  <2>2. ~BindConfiguration(s)
    BY <1>a, <1>1, <1>2 DEF BindConfiguration
  <2>3. ~Bind(s) /\ ~InsertRow(s)
    BY <1>a, <1>2 DEF Bind, InsertRow
  <2>. QED
    BY <2>1, <2>2, <2>3
<1>. QED
  BY <1>a, <1>3, <1>4, <1>5, <1>6, <1>7, <1>8 DEF Next

\* SelfManagedDIDService.files answers with the two files of the current
\* revision, whatever was configured while the linkage was signed.
THEOREM FilesAreCurrentHolds == Spec => FilesAreCurrent
<1>1. ASSUME SelfManagedInv, [Next]_vars, NEW f \in Filing, pc[f] = "download", pc'[f] = "done"
      PROVE  seen[f].doc = expected /\ seen[f].linkage = linkage
  <2>1. Next /\ f \in Call
    BY <1>1 DEF vars, calls, Call
  <2>2. Download(f)
    BY <1>1, <2>1, OnlyDownloadAnswers
  <2>3. seen[f].revision = revision
    BY <1>1, <2>1, <2>2, CallFacts, LeaveCall DEF Download
  <2>. QED
    BY <1>1, <2>1, <2>3, CallFacts DEF CallInv, ReadsOfPast
<1>2. SelfManagedInv /\ [Next]_vars
      => [\A f \in Filing : pc[f] = "download" /\ pc'[f] = "done"
            => seen[f].doc = expected /\ seen[f].linkage = linkage]_vars
  BY <1>1
<1>. QED
  BY <1>2, Invariance, PTL DEF Spec, FilesAreCurrent

=============================================================================
