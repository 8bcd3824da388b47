------------------------------ MODULE Issuance ------------------------------
(***************************************************************************)
(* POST /api/issue, run by concurrent calls for one issuer.  A call reads  *)
(* the template, the issuer, the active Document Store and the active      *)
(* signing key, reserves a status index, signs, and only then inserts the  *)
(* credential row, whose triggers check again what the call read.  The     *)
(* document's hash is registered on chain afterwards, before the answer    *)
(* when the organization has a store of its own and behind it otherwise.   *)
(* Meanwhile keys are rotated, stores switched and failing their tests,    *)
(* owners and templates deactivated, and the call itself may die.          *)
(***************************************************************************)
EXTENDS Integers, Sequences

CONSTANTS
  Request,    \* POST /api/issue calls
  ExternalId, \* the credential identifiers they may ask for
  Store,      \* the organization's approved Document Stores
  NoStore,    \* no store of the organization is active: profile or platform store
  MaxKey,     \* bound on key versions, one more per rotation
  Listed,     \* calls that ask for status-list entries
  Anchored,   \* calls that select ethereum and whose document has a target hash
  Profiled    \* calls whose template names an issuer profile

ASSUME CallsAssumption ==
  /\ Listed \subseteq Request
  /\ Anchored \subseteq Request
  /\ Profiled \subseteq Request
  /\ "none" \notin Request

ASSUME BoundsAssumption == NoStore \notin Store /\ MaxKey \in Nat \ {0}

VARIABLES
  owner,        \* the issuer and its organization are active
  template,     \* the template is active
  activeKey,    \* version of the issuer's active signing key
  activeStore,  \* the organization's active store
  storeOk,      \* whose last connection test succeeded
  allocations,  \* bitstring_status_allocations in order: the position is the index
  rows,         \* credentials, by external_id
  chain,        \* calls whose document hash is issued in the store it names
  pc,           \* where each call stands
  external,     \* the identifier a call asks for
  sawKey,       \* the key version a call has read, 0 before
  sawStore,     \* the store a call has read
  index,        \* the status index of a call's document
  tx,           \* the registration transaction a call has sent
  answered,     \* calls that have returned their signed document
  log           \* the last registration event audited for a call

world == <<owner, template, activeKey, activeStore, storeOk>>
tables == <<allocations, rows>>
seen == <<sawKey, sawStore>>
vars == <<owner, template, activeKey, activeStore, storeOk, allocations, rows, chain,
          pc, external, sawKey, sawStore, index, tx, answered, log>>

Ended == {"done", "refused", "failed", "dead"}
Labels == {"idle", "store", "signer", "reserve", "sign", "insert", "answer",
           "probe", "await"} \cup Ended

Allocation == [id : ExternalId, profiled : BOOLEAN]
NoRow == [call |-> "none"]
Row == [call : Request, key : 1..MaxKey, store : Store \cup {NoStore},
        listed : BOOLEAN, profiled : BOOLEAN]

TypeOK ==
  /\ owner \in BOOLEAN /\ template \in BOOLEAN /\ storeOk \in BOOLEAN
  /\ activeKey \in 1..MaxKey
  /\ activeStore \in Store \cup {NoStore}
  /\ allocations \in Seq(Allocation)
  /\ rows \in [ExternalId -> Row \cup {NoRow}]
  /\ chain \subseteq Request
  /\ pc \in [Request -> Labels]
  /\ external \in [Request -> ExternalId]
  /\ sawKey \in [Request -> 0..MaxKey]
  /\ sawStore \in [Request -> Store \cup {NoStore}]
  /\ index \in [Request -> Nat]
  /\ tx \in [Request -> {"none", "sent", "mined", "reverted"}]
  /\ answered \subseteq Request
  /\ log \in [Request -> {"none", "submitted", "registered", "failed"}]

Init ==
  /\ owner = TRUE /\ template = TRUE /\ storeOk = TRUE
  /\ activeKey = 1
  /\ activeStore \in Store \cup {NoStore}
  /\ allocations = <<>>
  /\ rows = [e \in ExternalId |-> NoRow]
  /\ chain = {}
  /\ pc = [r \in Request |-> "idle"]
  /\ external \in [Request -> ExternalId]
  /\ sawKey = [r \in Request |-> 0]
  /\ sawStore = [r \in Request |-> NoStore]
  /\ index = [r \in Request |-> 0]
  /\ tx = [r \in Request |-> "none"]
  /\ answered = {}
  /\ log = [r \in Request |-> "none"]

Goto(r, label) == pc' = [pc EXCEPT ![r] = label]

\* AuditService.record swallows its errors: the event may be missing.
Audit(r, event) == log' \in {log, [log EXCEPT ![r] = event]}

Stored(r) == rows[external[r]].call = r

-----------------------------------------------------------------------------
(***************************************************************************)
(* The calls.                                                              *)
(***************************************************************************)

\* Template, issuer and organization, as the call first reads them.
Resolve(r) ==
  /\ pc[r] = "idle"
  /\ Goto(r, IF owner /\ template THEN "store" ELSE "refused")
  /\ UNCHANGED <<world, tables, chain, external, seen, index, tx, answered, log>>

\* The active store is refused, not replaced, when its last test failed.
ReadStore(r) ==
  /\ pc[r] = "store"
  /\ Goto(r, IF activeStore = NoStore \/ storeOk THEN "signer" ELSE "refused")
  /\ sawStore' = [sawStore EXCEPT ![r] = activeStore]
  /\ UNCHANGED <<world, tables, chain, external, sawKey, index, tx, answered, log>>

\* The active key and its published method, active as long as its owners are.
ReadSigner(r) ==
  /\ pc[r] = "signer"
  /\ Goto(r, IF ~owner THEN "refused" ELSE IF r \in Listed THEN "reserve" ELSE "sign")
  /\ sawKey' = [sawKey EXCEPT ![r] = activeKey]
  /\ UNCHANGED <<world, tables, chain, external, sawStore, index, tx, answered, log>>

Reserved(e) == \E i \in 1..Len(allocations) : allocations[i].id = e

\* Mutant of Reserve: an index counts as taken only once a stored row holds it.
ReserveUnstored(r) ==
  LET used == {index[q] : q \in {q \in Listed : Stored(q)}} IN
  /\ pc[r] = "reserve"
  /\ IF ~owner \/ Reserved(external[r])
       THEN Goto(r, "refused") /\ UNCHANGED <<tables, index>>
       ELSE /\ allocations' = Append(allocations, [id |-> external[r], profiled |-> FALSE])
            /\ \E i \in 1..(Len(allocations) + 1) :
                 i \notin used /\ index' = [index EXCEPT ![r] = i]
            /\ Goto(r, "sign")
            /\ UNCHANGED rows
  /\ UNCHANGED <<world, chain, external, seen, tx, answered, log>>

\* phase4_reserve_status: one index per identifier, for ever, and never one of
\* an issuer profile.
Reserve(r) ==
  /\ pc[r] = "reserve"
  /\ IF ~owner \/ Reserved(external[r])
       THEN Goto(r, "refused") /\ UNCHANGED <<tables, index>>
       ELSE /\ allocations' = Append(allocations, [id |-> external[r], profiled |-> FALSE])
            /\ index' = [index EXCEPT ![r] = Len(allocations) + 1]
            /\ Goto(r, "sign")
            /\ UNCHANGED rows
  /\ UNCHANGED <<world, chain, external, seen, tx, answered, log>>

\* Signing changes nothing; a document that could not be signed ends the call.
Sign(r) ==
  /\ pc[r] = "sign"
  /\ \E label \in {"insert", "failed"} : Goto(r, label)
  /\ UNCHANGED <<world, tables, chain, external, seen, index, tx, answered, log>>

\* Mutant of StoreHolds: the store the call read is trusted.
StoreHeld(r) == activeStore # NoStore => storeOk

\* What the triggers of the row check: owners and template still active, the
\* key the active one, the store the active one and its test not failed.
OwnersHold == owner /\ template
KeyHolds(r) == sawKey[r] = activeKey
StoreHolds(r) ==
  /\ sawStore[r] = activeStore
  /\ activeStore # NoStore => storeOk

\* The hash goes to the organization's store before the answer, to another one
\* behind it; a status-list document without the former is left to the wallet.
RegistersFirst(r) == r \in Anchored /\ sawStore[r] # NoStore
RegistersBehind(r) == r \in Anchored \ Listed /\ sawStore[r] = NoStore

NewRow(r) == [call |-> r, key |-> sawKey[r], store |-> sawStore[r],
              listed |-> r \in Listed, profiled |-> r \in Profiled]

\* Mutant of Insert: the error of the store is swallowed, the document answered.
InsertErrorSwallowed(r) ==
  LET e == external[r] IN
  /\ pc[r] = "insert"
  /\ IF OwnersHold /\ KeyHolds(r) /\ StoreHolds(r) /\ rows[e] = NoRow
       THEN /\ rows' = [rows EXCEPT ![e] = NewRow(r)]
            /\ Goto(r, IF RegistersFirst(r) THEN "probe" ELSE "answer")
       ELSE UNCHANGED rows /\ Goto(r, "answer")
  /\ UNCHANGED <<world, allocations, chain, external, seen, index, tx, answered, log>>

Insert(r) ==
  LET e == external[r] IN
  /\ pc[r] = "insert"
  /\ IF OwnersHold /\ KeyHolds(r) /\ StoreHolds(r) /\ rows[e] = NoRow
       THEN /\ rows' = [rows EXCEPT ![e] = NewRow(r)]
            /\ Goto(r, IF RegistersFirst(r) THEN "probe" ELSE "answer")
       ELSE UNCHANGED rows /\ Goto(r, "refused")
  /\ UNCHANGED <<world, allocations, chain, external, seen, index, tx, answered, log>>

Answer(r) ==
  /\ pc[r] = "answer"
  /\ answered' = answered \cup {r}
  /\ Goto(r, IF RegistersBehind(r) THEN "probe" ELSE "done")
  /\ UNCHANGED <<world, tables, chain, external, seen, index, tx, log>>

\* Registration over, for better or worse: answer, unless that is done already.
EndRegistration(r) == Goto(r, IF r \in answered THEN "done" ELSE "answer")

\* registerHash: a hash that is issued already needs no transaction.
Probe(r) ==
  /\ pc[r] = "probe"
  /\ IF r \in chain
       THEN Audit(r, "registered") /\ EndRegistration(r) /\ UNCHANGED tx
       ELSE Audit(r, "submitted") /\ Goto(r, "await") /\ tx' = [tx EXCEPT ![r] = "sent"]
  /\ UNCHANGED <<world, tables, chain, external, seen, index, answered>>

Receipt(r) ==
  /\ pc[r] = "await"
  /\ tx[r] \in {"mined", "reverted"}
  /\ Audit(r, IF tx[r] = "mined" THEN "registered" ELSE "failed")
  /\ EndRegistration(r)
  /\ UNCHANGED <<world, tables, chain, external, seen, index, tx, answered>>

\* Mutant of RegistrationError: no limit on the wait for the receipt.
RegistrationErrorAtProbe(r) ==
  /\ pc[r] = "probe"
  /\ Audit(r, "failed")
  /\ EndRegistration(r)
  /\ UNCHANGED <<world, tables, chain, external, seen, index, tx, answered>>

\* An RPC error, or no receipt within a minute; the transaction may be mined yet.
RegistrationError(r) ==
  /\ pc[r] \in {"probe", "await"}
  /\ Audit(r, "failed")
  /\ EndRegistration(r)
  /\ UNCHANGED <<world, tables, chain, external, seen, index, tx, answered>>

CallStep(r) ==
  \/ Resolve(r) \/ ReadStore(r) \/ ReadSigner(r) \/ Reserve(r) \/ Sign(r)
  \/ Insert(r) \/ Answer(r) \/ Probe(r) \/ Receipt(r) \/ RegistrationError(r)

-----------------------------------------------------------------------------
(***************************************************************************)
(* What goes on around them.                                               *)
(***************************************************************************)

\* The instance is killed or a statement fails, wherever the call stands.
Crash(r) ==
  /\ pc[r] \notin Ended \cup {"idle"}
  /\ Goto(r, "dead")
  /\ UNCHANGED <<world, tables, chain, external, seen, index, tx, answered, log>>

\* The contract issues a hash once; a second transaction for it reverts.
Mine(r) ==
  /\ tx[r] = "sent"
  /\ tx' = [tx EXCEPT ![r] = IF r \in chain THEN "reverted" ELSE "mined"]
  /\ chain' = chain \cup {r}
  /\ UNCHANGED <<world, tables, pc, external, seen, index, answered, log>>

\* The user's wallet issues the hash of the document the call returned.
WalletIssue(r) ==
  /\ r \in answered \cap Anchored
  /\ sawStore[r] = NoStore
  /\ r \notin chain
  /\ chain' = chain \cup {r}
  /\ UNCHANGED <<world, tables, pc, external, seen, index, tx, answered, log>>

\* phase4_activate_key retires the active key in favour of the next version.
RotateKey ==
  /\ owner
  /\ activeKey < MaxKey
  /\ activeKey' = activeKey + 1
  /\ UNCHANGED <<owner, template, activeStore, storeOk, tables, chain,
                 pc, external, seen, index, tx, answered, log>>

\* organization_store_action: activation needs a fresh successful test.
SwitchStore(s) ==
  /\ activeStore # s
  /\ activeStore' = s
  /\ storeOk' = TRUE
  /\ UNCHANGED <<owner, template, activeKey, tables, chain,
                 pc, external, seen, index, tx, answered, log>>

\* A later test records its outcome without deactivating the store.
TestStore ==
  /\ activeStore # NoStore
  /\ storeOk' = ~storeOk
  /\ UNCHANGED <<owner, template, activeKey, activeStore, tables, chain,
                 pc, external, seen, index, tx, answered, log>>

SetOwner ==
  /\ owner' = ~owner
  /\ UNCHANGED <<template, activeKey, activeStore, storeOk, tables, chain,
                 pc, external, seen, index, tx, answered, log>>

SetTemplate ==
  /\ template' = ~template
  /\ UNCHANGED <<owner, activeKey, activeStore, storeOk, tables, chain,
                 pc, external, seen, index, tx, answered, log>>

Environment ==
  \/ \E r \in Request : Crash(r) \/ Mine(r) \/ WalletIssue(r)
  \/ RotateKey \/ TestStore \/ SetOwner \/ SetTemplate
  \/ \E s \in Store \cup {NoStore} : SwitchStore(s)

Next == (\E r \in Request : CallStep(r)) \/ Environment

Spec == Init /\ [][Next]_vars

\* A call that has begun is run until it answers: each of its waits is bounded.
FairSpec == Spec /\ \A r \in Request : WF_vars(pc[r] # "idle" /\ CallStep(r))

-----------------------------------------------------------------------------
(***************************************************************************)
(* Properties.                                                             *)
(***************************************************************************)

\* A document that has been returned is the one stored under its identifier,
\* however many calls asked for the identifier at once: nobody holds a signed
\* document that the platform does not know.
AnsweredIsStored == \A r \in answered : Stored(r)

\* A hash is on chain only if its document is stored, with the store it was
\* read with: registration never runs ahead of the row that records it.
AnchoredIsStored ==
  \A r \in chain : Stored(r) /\ rows[external[r]].store = sawStore[r]

\* The index in a stored status-list document is that of its own identifier, so
\* that no two documents share a bit and the list reads this row for it.
IndexesOwned ==
  \A r \in Listed : Stored(r) =>
    /\ index[r] \in 1..Len(allocations)
    /\ allocations[index[r]].id = external[r]
    /\ \A q \in Listed \ {r} : Stored(q) => index[q] # index[r]

\* The audit trail claims a registration only for a hash that is on chain,
\* whatever transaction was lost, reverted or overtaken by the wallet's.
RegisteredIsAnchored == \A r \in Request : log[r] = "registered" => r \in chain

\* A row is written once, and with the key and the store active at that moment,
\* though the call read them several awaits earlier.
WrittenAgainstCurrent ==
  [][\A e \in ExternalId : rows'[e] # rows[e] =>
       /\ rows[e] = NoRow
       /\ rows'[e].key = activeKey
       /\ rows'[e].store = activeStore
       /\ activeStore # NoStore => storeOk]_vars

\* Every call that has begun ends, whatever becomes of its transaction.
CallsEnd == \A r \in Request : (pc[r] # "idle") ~> (pc[r] \in Ended)

\* "Revoking a profile Bitstring credential updates both its saved Document
\* Store and its status-list state": apply_bitstring_revocation needs an
\* allocation of the row's own profile, and reserveManaged never records one.
ListedRowsRevocable == \A e \in ExternalId :
  rows[e] # NoRow /\ rows[e].listed =>
    \E i \in 1..Len(allocations) :
      allocations[i] = [id |-> e, profiled |-> rows[e].profiled]

=============================================================================
