--------------------------- MODULE IssuanceProofs ---------------------------
(*****************************************************************************)
(* Theorems about the issuing call (Issuance), for any sets of calls,        *)
(* identifiers and stores and any number of key rotations, and about the     *)
(* browser console that makes it (IssuanceConsole), for any files, uploads,  *)
(* clicks and panels.                                                        *)
(*****************************************************************************)
EXTENDS Issuance, IssuanceConsole, SequenceTheorems, WellFoundedInduction, TLAPS

\* Everything a call does after its insert finds its row, which it wrote with
\* the store it had read; a call whose row is there is past its insert.
RowBehind(r) ==
  /\ (pc[r] \in {"answer", "probe", "await", "done"} \/ r \in answered) => Stored(r)
  /\ (tx[r] # "none" \/ r \in chain) => Stored(r)
  /\ Stored(r) => /\ pc[r] \in {"answer", "probe", "await", "done", "dead"}
                  /\ rows[external[r]].store = sawStore[r]

RowsBehindCalls == \A r \in Request : RowBehind(r)

\* A registration is claimed or mined only when the hash is on chain.
ChainBehindEvents ==
  \A r \in Request : (tx[r] = "mined" \/ log[r] = "registered") => r \in chain

\* A call past its reservation, and for good once its row is stored, holds the
\* index of the identifier it asked for.
IndexHeld ==
  \A r \in Listed :
    (pc[r] \in {"sign", "insert"} \/ Stored(r)) =>
      /\ index[r] \in 1..Len(allocations)
      /\ allocations[index[r]].id = external[r]

IssuanceInv == TypeOK /\ RowsBehindCalls /\ ChainBehindEvents /\ IndexHeld

-----------------------------------------------------------------------------
(***************************************************************************)
(* Type correctness.                                                       *)
(***************************************************************************)

\* Types: every step keeps them.
LEMMA StepType == TypeOK /\ [Next]_vars => TypeOK'
<1> SUFFICES ASSUME TypeOK, [Next]_vars PROVE TypeOK'
  OBVIOUS
<1> USE CallsAssumption, BoundsAssumption
    DEF TypeOK, Labels, Ended, Goto, Audit, EndRegistration, world, tables, seen
<1>1. ASSUME NEW r \in Request, CallStep(r) PROVE TypeOK'
  <2>1. CASE Resolve(r)
    BY <2>1 DEF Resolve
  <2>2. CASE ReadStore(r)
    BY <2>2 DEF ReadStore
  <2>3. CASE ReadSigner(r)
    BY <2>3 DEF ReadSigner
  <2>4. CASE Reserve(r)
    <3>1. external[r] \in ExternalId /\ Len(allocations) \in Nat
      BY LenProperties
    <3>2. Append(allocations, [id |-> external[r], profiled |-> FALSE]) \in Seq(Allocation)
      BY <3>1, AppendProperties DEF Allocation
    <3>3. index' \in [Request -> Nat]
      <4>1. Len(allocations) + 1 \in Nat
        BY <3>1
      <4>2. index' = index \/ index' = [index EXCEPT ![r] = Len(allocations) + 1]
        BY <2>4 DEF Reserve
      <4>. QED
        BY <4>1, <4>2
    <3>4. allocations' \in Seq(Allocation) /\ rows' = rows
      BY <2>4, <3>2 DEF Reserve
    <3>. QED
      BY <2>4, <3>3, <3>4 DEF Reserve
  <2>5. CASE Sign(r)
    BY <2>5 DEF Sign
  <2>6. CASE Insert(r)
    <3>1. KeyHolds(r) => NewRow(r) \in Row
      BY DEF KeyHolds, NewRow, Row
    <3>2. CASE rows' = rows
      BY <2>6, <3>2 DEF Insert
    <3>3. CASE NewRow(r) \in Row /\ rows' = [rows EXCEPT ![external[r]] = NewRow(r)]
      <4>1. rows' \in [ExternalId -> Row \cup {NoRow}]
        BY <3>3
      <4>. QED
        BY <2>6, <4>1 DEF Insert
    <3>. QED
      BY <2>6, <3>1, <3>2, <3>3 DEF Insert
  <2>7. CASE Answer(r)
    BY <2>7 DEF Answer
  <2>8. CASE Probe(r)
    BY ZenonT(60), <2>8 DEF Probe
  <2>9. CASE Receipt(r)
    BY <2>9 DEF Receipt
  <2>10. CASE RegistrationError(r)
    BY <2>10 DEF RegistrationError
  <2>. QED
    BY <1>1, <2>1, <2>2, <2>3, <2>4, <2>5, <2>6, <2>7, <2>8, <2>9, <2>10 DEF CallStep
<1>2. ASSUME NEW r \in Request, Crash(r) \/ Mine(r) \/ WalletIssue(r) PROVE TypeOK'
  BY <1>2 DEF Crash, Mine, WalletIssue
<1>3. CASE RotateKey \/ TestStore \/ SetOwner \/ SetTemplate
  <2>1. CASE RotateKey
    BY <2>1 DEF RotateKey
  <2>2. CASE TestStore
    BY <2>2 DEF TestStore, seen
  <2>3. CASE SetOwner
    BY <2>3 DEF SetOwner, seen
  <2>4. CASE SetTemplate
    BY <2>4 DEF SetTemplate, seen
  <2>. QED
    BY <1>3, <2>1, <2>2, <2>3, <2>4
<1>4. ASSUME NEW s \in Store \cup {NoStore}, SwitchStore(s) PROVE TypeOK'
  BY <1>4 DEF SwitchStore
<1>5. CASE UNCHANGED vars
  BY <1>5 DEF vars
<1>. QED
  BY <1>1, <1>2, <1>3, <1>4, <1>5 DEF Next, Environment

\* Types hold at first.
LEMMA InitType == Init => TypeOK
BY CallsAssumption, BoundsAssumption DEF Init, TypeOK, Labels, Ended

\* The state of every behaviour is well typed.
THEOREM IssuanceTypeCorrect == Spec => []TypeOK
BY InitType, StepType, PTL DEF Spec

-----------------------------------------------------------------------------
(***************************************************************************)
(* What no step undoes.                                                    *)
(***************************************************************************)

\* No step but a call's own insert touches a row, and that only where there is
\* none; what a call asked for is never changed.
LEMMA RowsWrittenOnce ==
  ASSUME TypeOK, [Next]_vars
  PROVE  /\ external' = external
         /\ \A e \in ExternalId : rows'[e] # rows[e] =>
              /\ rows[e] = NoRow
              /\ \E r \in Request : Insert(r) /\ external[r] = e
<1>1. ASSUME NEW r \in Request, Insert(r)
      PROVE  /\ external' = external
             /\ \A e \in ExternalId : rows'[e] # rows[e] => rows[e] = NoRow /\ external[r] = e
  BY <1>1 DEF Insert, TypeOK
<1>2. ASSUME NEW r \in Request, CallStep(r), ~Insert(r) PROVE UNCHANGED <<external, rows>>
  BY <1>2 DEF CallStep, Resolve, ReadStore, ReadSigner, Reserve, Sign, Answer, Probe,
              Receipt, RegistrationError, tables
<1>3. CASE Environment
  BY <1>3 DEF Environment, Crash, Mine, WalletIssue, RotateKey, TestStore, SetOwner,
              SetTemplate, SwitchStore, tables
<1>4. CASE UNCHANGED vars
  BY <1>4 DEF vars
<1>. QED
  BY <1>1, <1>2, <1>3, <1>4 DEF Next

\* A request that has its row stored keeps it, as it was written.
LEMMA StoredForever ==
  ASSUME TypeOK, [Next]_vars, NEW r \in Request, Stored(r)
  PROVE  Stored(r)' /\ rows'[external'[r]] = rows[external[r]]
<1>1. external[r] \in ExternalId /\ rows[external[r]] # NoRow
  BY CallsAssumption DEF TypeOK, Stored, NoRow
<1>. QED
  BY <1>1, RowsWrittenOnce DEF Stored

\* A call's row appears only by its own insert.
LEMMA StoredByInsert ==
  ASSUME TypeOK, [Next]_vars, NEW r \in Request, ~Stored(r), Stored(r)'
  PROVE  Insert(r)
<1>1. rows'[external[r]] # rows[external[r]] /\ external[r] \in ExternalId
  BY RowsWrittenOnce DEF Stored, TypeOK
<1>2. PICK q \in Request : Insert(q) /\ external[q] = external[r]
  BY <1>1, RowsWrittenOnce
<1>3. rows'[external[r]].call = q
  BY <1>1, <1>2 DEF Insert, NewRow, TypeOK
<1>. QED
  BY <1>2, <1>3, RowsWrittenOnce DEF Stored

-----------------------------------------------------------------------------
(***************************************************************************)
(* The parts of the invariant, step by step.                               *)
(***************************************************************************)

\* No step separates a call from the row it inserted.
LEMMA StepRows == TypeOK /\ RowsBehindCalls /\ [Next]_vars => RowsBehindCalls'
<1> SUFFICES ASSUME TypeOK, RowsBehindCalls, [Next]_vars, NEW q \in Request
             PROVE  RowBehind(q)'
  BY DEF RowsBehindCalls
<1> USE DEF TypeOK, RowsBehindCalls, RowBehind, Stored, Goto, EndRegistration, Ended, tables, seen
<1>1. ASSUME NEW r \in Request, CallStep(r) PROVE RowBehind(q)'
  <2>1. CASE Resolve(r)
    BY <2>1 DEF Resolve
  <2>2. CASE ReadStore(r)
    BY <2>2 DEF ReadStore
  <2>3. CASE ReadSigner(r)
    BY <2>3 DEF ReadSigner
  <2>4. CASE Reserve(r)
    BY <2>4 DEF Reserve
  <2>5. CASE Sign(r)
    BY <2>5 DEF Sign
  <2>6. CASE Insert(r) /\ rows' = rows
    <3>1. rows[external[r]] = NoRow => rows'[external[r]] # NewRow(r)
      BY <2>6, CallsAssumption DEF NewRow, NoRow
    <3>2. Goto(r, "refused") /\ UNCHANGED <<external, chain, sawStore, tx, answered>>
      BY <2>6, <3>1 DEF Insert
    <3>3. ~Stored(r) /\ tx[r] = "none" /\ r \notin chain \cup answered
      BY <2>6 DEF Insert
    <3>. QED
      BY <2>6, <3>2, <3>3
  <2>7. CASE Insert(r) /\ rows' # rows
    <3>1. /\ rows' = [rows EXCEPT ![external[r]] = NewRow(r)]
          /\ rows[external[r]] = NoRow
          /\ pc' = [pc EXCEPT ![r] = IF RegistersFirst(r) THEN "probe" ELSE "answer"]
          /\ UNCHANGED <<external, chain, sawStore, tx, answered>>
      BY <2>7 DEF Insert
    <3>2. NewRow(r).call = r /\ NewRow(r).store = sawStore[r] /\ NoRow.call = "none"
      BY DEF NewRow, NoRow
    <3>3. CASE q = r
      BY <3>1, <3>2, <3>3
    <3>4. CASE q # r
      <4>1. pc'[q] = pc[q]
        BY <3>1, <3>4
      <4>2. CASE external[q] = external[r]
        BY <3>1, <3>2, <3>4, <4>1, <4>2, CallsAssumption
      <4>3. CASE external[q] # external[r]
        BY <3>1, <3>4, <4>1, <4>3
      <4>. QED
        BY <4>2, <4>3
    <3>. QED
      BY <3>3, <3>4
  <2>8. CASE Answer(r)
    BY <2>8 DEF Answer
  <2>9. CASE Probe(r)
    <3>1. Stored(r) /\ UNCHANGED <<external, rows, chain, sawStore, answered>>
      BY <2>9 DEF Probe
    <3>2. pc' = [pc EXCEPT ![r] = pc'[r]] /\ pc'[r] \in {"await", "done", "answer"}
      BY <2>9 DEF Probe
    <3>3. q # r => tx'[q] = tx[q]
      BY <2>9 DEF Probe
    <3>. QED
      BY <3>1, <3>2, <3>3
  <2>10. CASE Receipt(r)
    BY <2>10 DEF Receipt
  <2>11. CASE RegistrationError(r)
    BY <2>11 DEF RegistrationError
  <2>. QED
    BY <1>1, <2>1, <2>2, <2>3, <2>4, <2>5, <2>6, <2>7, <2>8, <2>9, <2>10, <2>11 DEF CallStep
<1>2. ASSUME NEW r \in Request, Crash(r) \/ Mine(r) \/ WalletIssue(r) PROVE RowBehind(q)'
  BY <1>2 DEF Crash, Mine, WalletIssue
<1>3. CASE RotateKey \/ TestStore \/ SetOwner \/ SetTemplate \/ UNCHANGED vars
  <2>1. UNCHANGED <<pc, external, rows, chain, sawStore, tx, answered>>
    <3>1. CASE RotateKey
      BY <3>1 DEF RotateKey
    <3>2. CASE TestStore
      BY <3>2 DEF TestStore
    <3>3. CASE SetOwner
      BY <3>3 DEF SetOwner
    <3>4. CASE SetTemplate
      BY <3>4 DEF SetTemplate
    <3>. QED
      BY <1>3, <3>1, <3>2, <3>3, <3>4 DEF vars
  <2>. QED
    BY <2>1
<1>4. ASSUME NEW s \in Store \cup {NoStore}, SwitchStore(s) PROVE RowBehind(q)'
  BY <1>4 DEF SwitchStore
<1>. QED
  BY <1>1, <1>2, <1>3, <1>4 DEF Next, Environment

\* No step claims a registration that is not on chain.
LEMMA StepChain == TypeOK /\ ChainBehindEvents /\ [Next]_vars => ChainBehindEvents'
<1> SUFFICES ASSUME TypeOK, ChainBehindEvents, [Next]_vars, NEW q \in Request,
                    (tx[q] = "mined" \/ log[q] = "registered")'
             PROVE  q \in chain'
  BY DEF ChainBehindEvents
<1> USE DEF TypeOK, ChainBehindEvents, Audit
<1>1. ASSUME NEW r \in Request, CallStep(r) PROVE q \in chain'
  <2>1. CASE Probe(r)
    <3>1. chain' = chain /\ (tx'[q] = "mined" => tx[q] = "mined")
      BY <2>1 DEF Probe
    <3>2. log'[q] = "registered" => q \in chain
      BY <2>1 DEF Probe
    <3>. QED
      BY <3>1, <3>2
  <2>2. CASE Receipt(r)
    BY <2>2 DEF Receipt
  <2>3. CASE RegistrationError(r)
    BY <2>3 DEF RegistrationError
  <2>4. CASE UNCHANGED <<chain, tx, log>>
    BY <2>4
  <2>. QED
    BY <1>1, <2>1, <2>2, <2>3, <2>4
    DEF CallStep, Resolve, ReadStore, ReadSigner, Reserve, Sign, Insert, Answer
<1>2. ASSUME NEW r \in Request, Mine(r) PROVE q \in chain'
  BY <1>2 DEF Mine
<1>3. ASSUME NEW r \in Request, Crash(r) \/ WalletIssue(r) PROVE q \in chain'
  BY <1>3 DEF Crash, WalletIssue
<1>4. CASE RotateKey \/ TestStore \/ SetOwner \/ SetTemplate \/ UNCHANGED vars
  <2>1. UNCHANGED <<chain, tx, log>>
    <3>1. CASE RotateKey
      BY <3>1 DEF RotateKey
    <3>2. CASE TestStore
      BY <3>2 DEF TestStore
    <3>3. CASE SetOwner
      BY <3>3 DEF SetOwner
    <3>4. CASE SetTemplate
      BY <3>4 DEF SetTemplate
    <3>. QED
      BY <1>4, <3>1, <3>2, <3>3, <3>4 DEF vars
  <2>. QED
    BY <2>1
<1>5. ASSUME NEW s \in Store \cup {NoStore}, SwitchStore(s) PROVE q \in chain'
  BY <1>5 DEF SwitchStore
<1>. QED
  BY <1>1, <1>2, <1>3, <1>4, <1>5 DEF Next, Environment

\* Allocations are only ever added to: the position of one is its index for good.
LEMMA AllocationsGrow ==
  ASSUME TypeOK, [Next]_vars, NEW i \in 1..Len(allocations)
  PROVE  i \in 1..Len(allocations') /\ allocations'[i] = allocations[i]
<1>1. ASSUME NEW r \in Request, Reserve(r)
      PROVE  \/ allocations' = allocations
             \/ allocations' = Append(allocations, [id |-> external[r], profiled |-> FALSE])
  BY <1>1 DEF Reserve, tables
<1>2. ASSUME NEW r \in Request, CallStep(r), ~Reserve(r) PROVE allocations' = allocations
  BY <1>2 DEF CallStep, Resolve, ReadStore, ReadSigner, Sign, Insert, Answer, Probe,
              Receipt, RegistrationError, tables
<1>3. CASE Environment \/ UNCHANGED vars
  BY <1>3 DEF Environment, Crash, Mine, WalletIssue, RotateKey, TestStore, SetOwner,
              SetTemplate, SwitchStore, tables, vars
<1>4. ASSUME NEW r \in Request,
             allocations' = Append(allocations, [id |-> external[r], profiled |-> FALSE])
      PROVE  i \in 1..Len(allocations') /\ allocations'[i] = allocations[i]
  <2>1. allocations \in Seq(Allocation)
        /\ [id |-> external[r], profiled |-> FALSE] \in Allocation
    BY DEF TypeOK, Allocation
  <2>. QED
    BY <1>4, <2>1, AppendProperties, LenProperties
<1>. QED
  BY <1>1, <1>2, <1>3, <1>4 DEF Next

\* No step takes from a call the index its identifier reserved.
LEMMA StepIndex == TypeOK /\ RowsBehindCalls /\ IndexHeld /\ [Next]_vars => IndexHeld'
<1> SUFFICES ASSUME TypeOK, RowsBehindCalls, IndexHeld, [Next]_vars, NEW q \in Listed,
                    (pc[q] \in {"sign", "insert"} \/ Stored(q))'
             PROVE  /\ index'[q] \in 1..Len(allocations')
                    /\ allocations'[index'[q]].id = external'[q]
  BY DEF IndexHeld
<1>0. q \in Request /\ external' = external
  BY RowsWrittenOnce, CallsAssumption
<1>1. CASE /\ pc[q] \in {"sign", "insert"} \/ Stored(q)
           /\ index'[q] = index[q]
  BY <1>0, <1>1, AllocationsGrow DEF IndexHeld
<1>2. CASE Reserve(q) /\ pc'[q] = "sign"
  <2>1. /\ allocations' = Append(allocations, [id |-> external[q], profiled |-> FALSE])
        /\ index' = [index EXCEPT ![q] = Len(allocations) + 1]
    BY <1>0, <1>2 DEF Reserve, Goto, TypeOK
  <2>2. allocations \in Seq(Allocation)
        /\ [id |-> external[q], profiled |-> FALSE] \in Allocation
    BY <1>0 DEF TypeOK, Allocation
  <2>3. /\ Len(allocations') = Len(allocations) + 1
        /\ allocations'[Len(allocations) + 1] = [id |-> external[q], profiled |-> FALSE]
    BY <2>1, <2>2, AppendProperties
  <2>4. index'[q] = Len(allocations) + 1 /\ Len(allocations) \in Nat
    BY <1>0, <2>1, <2>2, LenProperties DEF TypeOK
  <2>. QED
    BY <1>0, <2>3, <2>4
<1>3. pc[q] # "reserve" => index'[q] = index[q]
  <2>1. ASSUME NEW r \in Request, Reserve(r), pc[q] # "reserve" PROVE index'[q] = index[q]
    BY <1>0, <2>1 DEF Reserve, TypeOK
  <2>2. ASSUME NEW r \in Request, CallStep(r), ~Reserve(r) PROVE index' = index
    BY <2>2 DEF CallStep, Resolve, ReadStore, ReadSigner, Sign, Insert, Answer, Probe,
                Receipt, RegistrationError
  <2>3. CASE Environment \/ UNCHANGED vars
    BY <2>3 DEF Environment, Crash, Mine, WalletIssue, RotateKey, TestStore, SetOwner,
                SetTemplate, SwitchStore, vars
  <2>. QED
    BY <2>1, <2>2, <2>3 DEF Next
<1>4. pc[q] = "reserve" => ~Stored(q) /\ ~Insert(q)
  BY <1>0 DEF RowsBehindCalls, RowBehind, Insert
<1>5. Stored(q)' => Stored(q) \/ pc[q] = "insert"
  BY <1>0, StoredByInsert DEF Insert
<1>6. pc'[q] \in {"sign", "insert"} => pc[q] \in {"sign", "insert"} \/ Reserve(q)
  <2> USE <1>0 DEF TypeOK, Goto, EndRegistration, Ended
  <2>1. ASSUME NEW r \in Request, CallStep(r), r # q PROVE pc'[q] = pc[q]
    BY <2>1 DEF CallStep, Resolve, ReadStore, ReadSigner, Reserve, Sign, Insert, Answer, Probe,
                Receipt, RegistrationError
  <2>2. CASE CallStep(q)
    BY <2>2 DEF CallStep, Resolve, ReadStore, ReadSigner, Reserve, Sign, Insert, Answer, Probe,
                Receipt, RegistrationError
  <2>3. CASE Environment \/ UNCHANGED vars
    BY <2>3 DEF Environment, Crash, Mine, WalletIssue, RotateKey, TestStore, SetOwner,
                SetTemplate, SwitchStore, vars
  <2>. QED
    BY <2>1, <2>2, <2>3 DEF Next
<1>7. Reserve(q) => pc[q] = "reserve" /\ pc'[q] # "insert"
  BY <1>0 DEF Reserve, Goto, TypeOK
<1>. QED
  <2>1. CASE pc[q] = "reserve"
    BY <2>1, <1>2, <1>4, <1>5, <1>6, <1>7
  <2>2. CASE pc[q] # "reserve"
    BY <2>2, <1>1, <1>3, <1>5, <1>6, <1>7
  <2>. QED
    BY <2>1, <2>2

-----------------------------------------------------------------------------
(***************************************************************************)
(* The invariant, and what it says of the platform.                        *)
(***************************************************************************)

\* The invariant holds before anything is issued.
LEMMA InitInv == Init => IssuanceInv
<1> SUFFICES ASSUME Init PROVE RowsBehindCalls /\ ChainBehindEvents /\ IndexHeld
  BY InitType DEF IssuanceInv
<1>1. TypeOK /\ \A r \in Request : ~Stored(r)
  BY InitType, CallsAssumption DEF Init, TypeOK, Stored, NoRow
<1>. QED
  BY <1>1, CallsAssumption DEF Init, RowsBehindCalls, RowBehind, ChainBehindEvents, IndexHeld

\* The invariant holds in every reachable state.
THEOREM IssuanceInvariant == Spec => []IssuanceInv
<1>1. IssuanceInv /\ [Next]_vars => IssuanceInv'
  BY StepType, StepRows, StepChain, StepIndex DEF IssuanceInv
<1>. QED
  BY <1>1, InitInv, PTL DEF Spec

\* No answered document is missing from the table, or overwritten in it.
THEOREM AnsweredIsStoredHolds == Spec => []AnsweredIsStored
<1>1. IssuanceInv => AnsweredIsStored
  BY DEF IssuanceInv, TypeOK, RowsBehindCalls, RowBehind, AnsweredIsStored
<1>. QED
  BY <1>1, IssuanceInvariant, PTL

\* No hash is on chain before its row, and none in another store than the row's.
THEOREM AnchoredIsStoredHolds == Spec => []AnchoredIsStored
<1>1. IssuanceInv => AnchoredIsStored
  BY DEF IssuanceInv, TypeOK, RowsBehindCalls, RowBehind, AnchoredIsStored
<1>. QED
  BY <1>1, IssuanceInvariant, PTL

\* No registration event claims a hash that the contract does not know.
THEOREM RegisteredIsAnchoredHolds == Spec => []RegisteredIsAnchored
<1>1. IssuanceInv => RegisteredIsAnchored
  BY DEF IssuanceInv, ChainBehindEvents, RegisteredIsAnchored
<1>. QED
  BY <1>1, IssuanceInvariant, PTL

\* No two stored documents share a status-list index.
THEOREM IndexesOwnedHolds == Spec => []IndexesOwned
<1>1. IssuanceInv => IndexesOwned
  <2> SUFFICES ASSUME IssuanceInv, NEW r \in Listed, Stored(r)
               PROVE  /\ index[r] \in 1..Len(allocations)
                      /\ allocations[index[r]].id = external[r]
                      /\ \A q \in Listed \ {r} : Stored(q) => index[q] # index[r]
    BY DEF IndexesOwned
  <2>1. \A q \in Listed : Stored(q) => /\ index[q] \in 1..Len(allocations)
                                      /\ allocations[index[q]].id = external[q]
    BY DEF IssuanceInv, IndexHeld
  <2>2. \A q \in Listed \ {r} : Stored(q) => external[q] # external[r]
    BY DEF Stored
  <2>. QED
    BY <2>1, <2>2
<1>. QED
  BY <1>1, IssuanceInvariant, PTL

\* Every row is written against the key, the store and the test result current
\* at that moment, and written once.
THEOREM WrittenAgainstCurrentHolds == Spec => WrittenAgainstCurrent
<1>1. TypeOK /\ [Next]_vars =>
        [\A e \in ExternalId : rows'[e] # rows[e] =>
           /\ rows[e] = NoRow
           /\ rows'[e].key = activeKey
           /\ rows'[e].store = activeStore
           /\ activeStore # NoStore => storeOk]_vars
  <2> SUFFICES ASSUME TypeOK, [Next]_vars, NEW e \in ExternalId, rows'[e] # rows[e]
               PROVE  /\ rows[e] = NoRow
                      /\ rows'[e].key = activeKey
                      /\ rows'[e].store = activeStore
                      /\ activeStore # NoStore => storeOk
    OBVIOUS
  <2>1. PICK r \in Request : Insert(r) /\ external[r] = e
    BY RowsWrittenOnce
  <2>2. KeyHolds(r) /\ StoreHolds(r) /\ rows' = [rows EXCEPT ![e] = NewRow(r)]
    BY <2>1 DEF Insert
  <2>3. rows'[e].key = sawKey[r] /\ rows'[e].store = sawStore[r]
    BY <2>2 DEF NewRow, TypeOK
  <2>. QED
    BY <2>2, <2>3, RowsWrittenOnce DEF KeyHolds, StoreHolds
<1>. QED
  BY <1>1, IssuanceTypeCorrect, PTL DEF Spec, WrittenAgainstCurrent

-----------------------------------------------------------------------------

(*****************************************************************************)
(* The console.  A run that is going on works on the rows of one upload, in  *)
(* the order of their numbers: a row is behind it when its answer was taken, *)
(* and nothing was asked, sent or shown yet for a row ahead of it.           *)
(*****************************************************************************)

\* A click that goes on, and one that works on a batch.
Live(r) == run[r] # None /\ run[r].phase # "over"
Loops(r) == Live(r) /\ Batch(r)

\* What a click is about, and what it is doing, make sense.
Sensible(r) ==
  run[r] # None =>
    /\ run[r].upload \in 0..Len(uploads) /\ run[r].mount <= panel.mount
    /\ Live(r) =>
         /\ run[r].methods # {}
         /\ IF Batch(r) THEN /\ run[r].row \in DOMAIN run[r].status /\ run[r].upload # 0
                             /\ \A i \in DOMAIN run[r].status : run[r].status[i] = "issuing" <=> i = run[r].row
            ELSE run[r].row = 0 /\ run[r].upload = 0 /\ DOMAIN run[r].status = {}
         /\ run[r].phase \in {"registered", "unregistered", "wallet", "preview"} => "ethereum" \in run[r].methods
         /\ run[r].phase = "signed" => "ethereum" \notin run[r].methods

\* Rows that no run of the panel is issuing have all been issued, or none has.
PanelSensible ==
  panel.rows # None =>
    /\ panel.rows.upload \in DOMAIN uploads
    /\ \/ panel.issuing
       \/ \A i \in DOMAIN panel.rows.status : panel.rows.status[i] \in {"success", "error"}
       \/ \A i \in DOMAIN panel.rows.status : panel.rows.status[i] = "pending"

RunsInv ==
  /\ ConsoleTypeOK /\ PanelSensible
  /\ panel.parsing \subseteq DOMAIN uploads
  /\ \A r \in Run : Sensible(r)

-----------------------------------------------------------------------------

\* A set of numbers that is not empty holds its least one.
LEMMA MinOfSet == ASSUME NEW S \in SUBSET Nat, S # {} PROVE Min(S) \in S
<1>1. IsWellFoundedOn(OpToRel(<, Nat), Nat)
  BY NatLessThanWellFounded
<1>2. PICK n \in S : \A m \in S : <<m, n>> \notin OpToRel(<, Nat)
  BY <1>1, WFMin
<1>3. \A m \in S : ~(m < n)
  BY <1>2 DEF OpToRel
<1>4. \A m \in S : n <= m
  BY <1>3
<1>. QED
  BY <1>2, <1>4 DEF Min

\* The outcomes of no rows.
LEMMA NoRows == <<>> \in Table /\ DOMAIN <<>> = {}
<1> DEFINE Outcome == {"pending", "issuing", "success", "error"}
<1>1. <<>> \in Seq(Outcome) /\ Len(<<>>) = 0
  BY EmptySeq
<1>2. <<>> \in [1..0 -> Outcome]
  BY <1>1, LenProperties
<1>3. 1..0 = {}
  OBVIOUS
<1>4. <<>> \in [{} -> Outcome]
  BY <1>2, <1>3
<1>. QED
  BY <1>4 DEF Table

\* The outcomes of the rows of a file, after one or all of them have changed.
LEMMA RowsOfTable ==
  ASSUME NEW t \in Table
  PROVE  /\ DOMAIN t \in SUBSET (Nat \ {0})
         /\ \A i \in DOMAIN t : t[i] \in {"pending", "issuing", "success", "error"}
         /\ [i \in DOMAIN t |-> "success"] \in Table
         /\ \A i \in DOMAIN t, o \in {"pending", "issuing", "success", "error"} :
              /\ [t EXCEPT ![i] = o] \in Table /\ DOMAIN [t EXCEPT ![i] = o] = DOMAIN t
              /\ \A j \in DOMAIN t : [t EXCEPT ![i] = o][j] = IF j = i THEN o ELSE t[j]
<1> DEFINE Outcome == {"pending", "issuing", "success", "error"}
<1>1. PICK valid \in {{}} \cup {ValidRow[f] : f \in File} : t \in [valid -> Outcome]
  BY DEF Table
<1>2. \A u \in [valid -> Outcome] : u \in Table
  BY <1>1 DEF Table
<1>3. DOMAIN t = valid /\ valid \subseteq Nat \ {0}
  BY <1>1, FilesAssumption
<1>4. [i \in DOMAIN t |-> "success"] \in [valid -> Outcome]
  BY <1>3
<1>5. \A i \in DOMAIN t, o \in Outcome : [t EXCEPT ![i] = o] \in [valid -> Outcome]
  BY <1>1
<1>. QED
  BY <1>1, <1>2, <1>3, <1>4, <1>5

\* A run that ended: its upload and methods are remembered.
LEMMA OverRemembers ==
  ASSUME NEW x \in IssueRun
  PROVE  /\ Over(x) \in IssueRun /\ Over(x) # None
         /\ Over(x).phase = "over" /\ Over(x).mount = 0
         /\ Over(x).upload = x.upload /\ Over(x).methods = x.methods /\ Over(x).mode = x.mode
<1>1. Over(x) \in IssueRun
  BY NoRows DEF Over, IssueRun
<1>2. /\ Over(x).phase = "over" /\ Over(x).mount = 0
      /\ Over(x).upload = x.upload /\ Over(x).methods = x.methods /\ Over(x).mode = x.mode
  BY DEF Over, IssueRun
<1>. QED
  BY <1>1, <1>2, NoneAssumption

\* The run of one click becomes another record.
LEMMA RunBecomes ==
  ASSUME run \in [Run -> IssueRun \cup {None}], NEW r \in Run, NEW x \in IssueRun,
         run' = [run EXCEPT ![r] = x]
  PROVE  /\ run' \in [Run -> IssueRun \cup {None}]
         /\ run'[r] = x /\ run'[r] # None /\ \A s \in Run \ {r} : run'[s] = run[s]
BY NoneAssumption

\* A run takes its next step.
LEMMA RunMoves ==
  ASSUME run \in [Run -> IssueRun \cup {None}], NEW r \in Run, run[r] # None,
         NEW phase \in {"preview", "post", "signing", "mining", "over"} \cup Reply, Moves(r, phase)
  PROVE  \E x \in IssueRun :
           /\ run' = [run EXCEPT ![r] = x]
           /\ x.mode = run[r].mode /\ x.mount = run[r].mount /\ x.upload = run[r].upload
           /\ x.methods = run[r].methods /\ x.row = run[r].row /\ x.status = run[r].status
           /\ x.phase = phase
<1> DEFINE x == [run[r] EXCEPT !.phase = phase]
<1>1. run[r] \in IssueRun
  OBVIOUS
<1>2. x \in IssueRun
  BY <1>1 DEF IssueRun
<1>3. /\ x.mode = run[r].mode /\ x.mount = run[r].mount /\ x.upload = run[r].upload
      /\ x.methods = run[r].methods /\ x.row = run[r].row /\ x.status = run[r].status
      /\ x.phase = phase
  BY <1>1 DEF IssueRun
<1>4. run' = [run EXCEPT ![r] = x]
  BY <1>1 DEF Moves
<1>. QED
  BY <1>2, <1>3, <1>4

-----------------------------------------------------------------------------

\* The two ways in which a row of a batch ends: it was the last one, or the next
\* one is begun.
Outcomes(r, outcome) == [run[r].status EXCEPT ![run[r].row] = outcome]
Begun(r, outcome, next) == [Outcomes(r, outcome) EXCEPT ![next] = "issuing"]

\* The rows of a run are shown by the panel that started it, and by no other.
Shows(r, copy, more) ==
  panel' = IF ~Mounted(r) THEN panel
           ELSE [panel EXCEPT !.rows = [upload |-> run[r].upload, status |-> copy], !.issuing = more]

LastRow(r, outcome) ==
  /\ \A i \in DOMAIN run[r].status : Outcomes(r, outcome)[i] \in {"success", "error"}
  /\ run' = [run EXCEPT ![r] = Over(run[r])]
  /\ Shows(r, Outcomes(r, outcome), FALSE)
  /\ page' = EndOfBatch(r, Outcomes(r, outcome))
  /\ requests' = requests

NextRow(r, outcome, next) ==
  /\ run[r].status[next] = "pending" /\ next # run[r].row
  /\ run' = [run EXCEPT ![r] = [run[r] EXCEPT !.status = Begun(r, outcome, next), !.row = next,
                                              !.phase = FirstPhase(run[r].methods)]]
  /\ Shows(r, Begun(r, outcome, next), TRUE)
  /\ page' = page
  /\ Sends(r, next, FirstPhase(run[r].methods))

LEMMA RowEndsEither ==
  ASSUME ConsoleTypeOK, NEW r \in Run, Sensible(r), Loops(r),
         NEW outcome \in {"success", "error"}, RowEnds(r, outcome)
  PROVE  LastRow(r, outcome) \/ \E next \in DOMAIN run[r].status : NextRow(r, outcome, next)
<1> DEFINE done == Outcomes(r, outcome)
           left == {i \in DOMAIN done : done[i] = "pending"}
           last == left = {}
           next == IF last THEN run[r].row ELSE Min(left)
           copy == IF last THEN done ELSE [done EXCEPT ![next] = "issuing"]
           phase == IF last THEN "over" ELSE FirstPhase(run[r].methods)
<1>1. /\ run[r] \in IssueRun /\ run[r].status \in Table /\ run[r].row \in DOMAIN run[r].status
      /\ \A i \in DOMAIN run[r].status : run[r].status[i] = "issuing" <=> i = run[r].row
  BY DEF ConsoleTypeOK, Loops, Live, Sensible, IssueRun
<1>2. /\ DOMAIN done = DOMAIN run[r].status /\ DOMAIN done \in SUBSET Nat
      /\ \A i \in DOMAIN done : done[i] = IF i = run[r].row THEN outcome ELSE run[r].status[i]
  BY <1>1, RowsOfTable DEF Outcomes
<1>3. \A i \in DOMAIN run[r].status : run[r].status[i] \in {"pending", "issuing", "success", "error"}
  BY <1>1, RowsOfTable
<1>4. /\ run' = [run EXCEPT ![r] = IF last THEN Over(run[r])
                                   ELSE [run[r] EXCEPT !.status = copy, !.row = next, !.phase = phase]]
      /\ panel' = IF ~Mounted(r) THEN panel
                  ELSE [panel EXCEPT !.rows = [upload |-> run[r].upload, status |-> copy],
                                     !.issuing = ~last]
      /\ page' = IF last THEN EndOfBatch(r, done) ELSE page
      /\ Sends(r, next, phase)
  BY DEF RowEnds, Outcomes, ConsoleTypeOK
<1>5. CASE last
  <2>1. \A i \in DOMAIN run[r].status : done[i] \in {"success", "error"}
    BY <1>1, <1>2, <1>3, <1>5
  <2>2. copy = done /\ phase = "over"
    BY <1>5
  <2>3. run' = [run EXCEPT ![r] = Over(run[r])] /\ page' = EndOfBatch(r, done)
    BY <1>4, <1>5
  <2>4. Shows(r, done, FALSE)
    BY <1>4, <1>5, <2>2 DEF Shows
  <2>5. requests' = requests
    BY <1>4, <2>2 DEF Sends
  <2>. QED
    BY <2>1, <2>3, <2>4, <2>5 DEF LastRow
<1>6. CASE ~last
  <2>1. next \in left
    BY <1>2, <1>6, MinOfSet
  <2>2. next \in DOMAIN run[r].status /\ next # run[r].row /\ run[r].status[next] = "pending"
    BY <1>2, <2>1
  <2>3. copy = Begun(r, outcome, next) /\ phase = FirstPhase(run[r].methods)
    BY <1>6 DEF Begun
  <2>4. run' = [run EXCEPT ![r] = [run[r] EXCEPT !.status = copy, !.row = next, !.phase = phase]]
        /\ page' = page
    BY <1>4, <1>6
  <2>5. Shows(r, copy, TRUE)
    BY <1>4, <1>6 DEF Shows
  <2> HIDE DEF next, copy, phase
  <2>6. NextRow(r, outcome, next)
    BY <1>4, <2>2, <2>3, <2>4, <2>5 DEF NextRow
  <2>. QED
    BY <2>2, <2>6
<1>. QED
  BY <1>5, <1>6

\* What the run of a batch is after its last row, and after another one.
LEMMA LastRowLeaves ==
  ASSUME ConsoleTypeOK, NEW r \in Run, Loops(r), NEW outcome, LastRow(r, outcome)
  PROVE  \E x \in IssueRun :
           /\ run' = [run EXCEPT ![r] = x]
           /\ x.phase = "over" /\ x.mount = 0 /\ x.mode = run[r].mode
           /\ x.upload = run[r].upload /\ x.methods = run[r].methods
<1>1. run[r] \in IssueRun
  BY DEF ConsoleTypeOK, Loops, Live
<1>. QED
  BY <1>1, OverRemembers DEF LastRow

LEMMA NextRowLeaves ==
  ASSUME ConsoleTypeOK, NEW r \in Run, Sensible(r), Loops(r), NEW outcome \in {"success", "error"},
         NEW next \in DOMAIN run[r].status, NextRow(r, outcome, next)
  PROVE  \E x \in IssueRun :
           /\ run' = [run EXCEPT ![r] = x]
           /\ x.mode = run[r].mode /\ x.mount = run[r].mount
           /\ x.upload = run[r].upload /\ x.methods = run[r].methods
           /\ x.phase = FirstPhase(run[r].methods) /\ x.row = next
           /\ x.status = Begun(r, outcome, next)
           /\ DOMAIN x.status = DOMAIN run[r].status
           /\ \A i \in DOMAIN x.status :
                x.status[i] = IF i = next THEN "issuing"
                              ELSE IF i = run[r].row THEN outcome ELSE run[r].status[i]
<1> DEFINE copy == Begun(r, outcome, next)
           x == [run[r] EXCEPT !.status = copy, !.row = next, !.phase = FirstPhase(run[r].methods)]
<1>1. /\ run[r] \in IssueRun /\ run[r].status \in Table /\ run[r].row \in DOMAIN run[r].status
  BY DEF ConsoleTypeOK, Loops, Live, Sensible, IssueRun
<1>2. /\ Outcomes(r, outcome) \in Table /\ DOMAIN Outcomes(r, outcome) = DOMAIN run[r].status
      /\ \A i \in DOMAIN run[r].status :
           Outcomes(r, outcome)[i] = IF i = run[r].row THEN outcome ELSE run[r].status[i]
  BY <1>1, RowsOfTable DEF Outcomes
<1>3. /\ copy \in Table /\ DOMAIN copy = DOMAIN run[r].status
      /\ \A i \in DOMAIN copy : copy[i] = IF i = next THEN "issuing" ELSE Outcomes(r, outcome)[i]
  BY <1>2, RowsOfTable DEF Begun
<1>4. next \in Nat
  BY <1>1, RowsOfTable
<1> HIDE DEF copy
<1>5. FirstPhase(run[r].methods) \in {"preview", "post"}
  BY DEF FirstPhase
<1>6. x \in IssueRun
  BY <1>1, <1>3, <1>4, <1>5 DEF IssueRun
<1>7. /\ x.mode = run[r].mode /\ x.mount = run[r].mount
      /\ x.upload = run[r].upload /\ x.methods = run[r].methods
      /\ x.phase = FirstPhase(run[r].methods) /\ x.row = next /\ x.status = copy
  BY <1>1 DEF IssueRun
<1>8. run' = [run EXCEPT ![r] = x]
  BY DEF NextRow, copy
<1> HIDE DEF x
<1>9. /\ x.status = Begun(r, outcome, next) /\ DOMAIN x.status = DOMAIN run[r].status
      /\ \A i \in DOMAIN x.status :
           x.status[i] = IF i = next THEN "issuing"
                         ELSE IF i = run[r].row THEN outcome ELSE run[r].status[i]
  <2>1. x.status = copy
    BY <1>7
  <2>. QED
    BY <2>1, <1>2, <1>3 DEF copy
<1>. QED
  BY <1>6, <1>7, <1>8, <1>9

-----------------------------------------------------------------------------

\* What the phases of a click say of its credential, and the rows it has issued.
Evidence(r) ==
  Live(r) =>
    /\ run[r].phase = "registered" => Current(r) \in registered
    /\ run[r].phase \in {"registered", "signed", "wallet", "unregistered"} => Current(r) \in stored
    /\ run[r].phase \in {"signing", "mining"} /\ "did" \in run[r].methods => Current(r) \in stored
    /\ \A i \in DOMAIN run[r].status : run[r].status[i] = "success" => Fulfilled(<<r, i>>)

\* The steps of a click, by their effects: it goes on, ends a row of its batch, or
\* ends the single issue.
StepOf(r) ==
  \/ \E store \in {"server", "wallet", "failed"} : Preview(r, store)
  \/ TakeAnswer(r) \/ Lose(r) \/ WalletSends(r) \/ WalletRefuses(r)
  \/ \E receipt \in {"succeeded", "reverted", "none"} : TransactionEnds(r, receipt)

\* The steps of a click that goes on: it asks the server, then the wallet, then
\* waits for the transaction.
AsksServer(r) ==
  /\ At(r, "preview") /\ Moves(r, "post")
  /\ requests' = requests \cup {Current(r)} /\ UNCHANGED <<page, walletSent>>

AsksWallet(r) ==
  /\ At(r, "wallet") \/ (At(r, "preview") /\ "did" \notin run[r].methods)
  /\ Moves(r, "signing") /\ UNCHANGED <<requests, walletSent>>
  /\ page' = page \/ (~Batch(r) /\ At(r, "wallet") /\ page' = [page EXCEPT !.did = r])

WaitsForMining(r) ==
  /\ At(r, "signing") /\ Moves(r, "mining")
  /\ walletSent' = walletSent \cup {Current(r)} /\ UNCHANGED <<requests, page>>

GoesOn(r) ==
  /\ AsksServer(r) \/ AsksWallet(r) \/ WaitsForMining(r)
  /\ Live(r) /\ UNCHANGED <<panel, stored, registered, serverSent>>

\* An outcome is a success only if what the click promised is done.
Settles(r, success) ==
  /\ Live(r) /\ UNCHANGED <<stored, serverSent, walletSent>>
  /\ registered' \in {registered, registered \cup {Current(r)}}
  /\ success => /\ "did" \in run[r].methods => Current(r) \in stored
                /\ "ethereum" \in run[r].methods => Current(r) \in registered'

\* A click whose row, or whose single issue, ends.
EndsRow(r, outcome) == Batch(r) /\ RowEnds(r, outcome) /\ Settles(r, outcome = "success")

Results(r, p) ==
  \/ p = page
  \/ /\ p.issued = r /\ p.did \in {page.did, r} /\ (p.did = r => page.did = r \/ Current(r) \in stored)
     /\ \/ p.ethereum = None
        \/ \E confirmed \in BOOLEAN : /\ p.ethereum = [run |-> r, confirmed |-> confirmed]
                                      /\ confirmed => Current(r) \in registered'
     /\ p.mode = page.mode /\ p.list = page.list

EndsSingle(r, p) == ~Batch(r) /\ SingleEnds(r, p) /\ Results(r, p) /\ Settles(r, FALSE)

LEMMA StepsOfRun ==
  ASSUME ConsoleTypeOK, NEW r \in Run, Sensible(r), Evidence(r), StepOf(r)
  PROVE  /\ UNCHANGED <<catalog, uploads>>
         /\ \/ GoesOn(r)
            \/ \E outcome \in {"success", "error"} : EndsRow(r, outcome)
            \/ \E p \in PageState : EndsSingle(r, p)
<1> DEFINE Same == UNCHANGED <<stored, registered, serverSent, walletSent>>
<1>0. page \in PageState
  BY DEF ConsoleTypeOK
<1>1. ASSUME Live(r), Same, Fails(r)
      PROVE  \/ \E outcome \in {"success", "error"} : EndsRow(r, outcome)
             \/ \E p \in PageState : EndsSingle(r, p)
  <2>1. Settles(r, FALSE)
    BY <1>1 DEF Settles
  <2>2. CASE Batch(r)
    BY <1>1, <2>1, <2>2 DEF Fails, EndsRow
  <2>3. CASE ~Batch(r)
    BY <1>0, <1>1, <2>1, <2>3 DEF Fails, EndsSingle, Results
  <2>. QED
    BY <2>2, <2>3
<1>2. ASSUME NEW store \in {"server", "wallet", "failed"}, Preview(r, store)
      PROVE  UNCHANGED <<catalog, uploads>> /\ (GoesOn(r) \/ (Fails(r) /\ Live(r) /\ Same))
  <2>1. Live(r) /\ Same /\ UNCHANGED <<catalog, uploads>>
    BY <1>2 DEF Preview, At, Live
  <2> DEFINE allowed == IF store = "server" THEN "did" \in run[r].methods
                        ELSE store = "wallet" /\ run[r].connected
  <2>2. CASE ~allowed
    BY <1>2, <2>1, <2>2 DEF Preview
  <2>3. CASE allowed /\ "did" \in run[r].methods
    <3>1. AsksServer(r) /\ panel' = panel
      BY <1>2, <2>1, <2>3 DEF Preview, AsksServer, Sends, Current
    <3>. QED
      BY <2>1, <3>1 DEF GoesOn
  <2>4. CASE allowed /\ "did" \notin run[r].methods
    <3>1. AsksWallet(r) /\ panel' = panel
      BY <1>2, <2>1, <2>4 DEF Preview, AsksWallet, Sends
    <3>. QED
      BY <2>1, <3>1 DEF GoesOn
  <2>. QED
    BY <2>1, <2>2, <2>3, <2>4
<1>3. ASSUME TakeAnswer(r)
      PROVE  /\ UNCHANGED <<catalog, uploads>>
             /\ \/ GoesOn(r) \/ (Fails(r) /\ Live(r) /\ Same)
                \/ \E outcome \in {"success", "error"} : EndsRow(r, outcome)
                \/ \E p \in PageState : EndsSingle(r, p)
  <2>1. Live(r) /\ Same /\ UNCHANGED <<catalog, uploads>> /\ run[r].phase \in Reply
    BY <1>3 DEF TakeAnswer, Live, Reply
  <2>2. CASE run[r].phase = "refused"
    BY <1>3, <2>1, <2>2 DEF TakeAnswer
  <2>3. CASE run[r].phase = "wallet"
    <3>1. AsksWallet(r) /\ panel' = panel
      BY <1>3, <2>1, <2>3 DEF TakeAnswer, NeedsWallet, At, AsksWallet, Live
    <3>. QED
      BY <2>1, <3>1 DEF GoesOn
  <2>4. CASE run[r].phase \in {"registered", "unregistered", "signed"} /\ Batch(r)
    <3> DEFINE outcome == IF run[r].phase = "unregistered" THEN "error" ELSE "success"
    <3>1. RowEnds(r, outcome)
      BY <1>3, <2>4 DEF TakeAnswer, NeedsWallet, At
    <3>2. Settles(r, outcome = "success")
      BY <2>1, <2>4 DEF Settles, Evidence, Sensible, Live
    <3>. QED
      BY <2>1, <2>4, <3>1, <3>2 DEF EndsRow
  <2>5. CASE run[r].phase \in {"registered", "unregistered", "signed"} /\ ~Batch(r)
    <3> DEFINE result == IF run[r].phase = "signed" THEN None
                         ELSE [run |-> r, confirmed |-> run[r].phase = "registered"]
               p == [page EXCEPT !.did = r, !.issued = r, !.ethereum = result]
    <3>1. SingleEnds(r, p)
      BY <1>3, <2>5, <1>0 DEF TakeAnswer, NeedsWallet, At, PageState
    <3>2. result \in Registration \cup {None}
      BY DEF Registration
    <3>3. p \in PageState
      BY <1>0, <3>2 DEF PageState
    <3>4. Settles(r, FALSE) /\ Current(r) \in stored /\ (run[r].phase = "registered" => Current(r) \in registered')
      BY <2>1, <2>5 DEF Settles, Evidence
    <3>5. p.issued = r /\ p.did = r /\ p.ethereum = result /\ p.mode = page.mode /\ p.list = page.list
      BY <1>0 DEF PageState
    <3>6. Results(r, p)
      <4> HIDE DEF p
      <4>. QED
        BY <3>4, <3>5 DEF Results
    <3>. QED
      BY <2>1, <2>5, <3>1, <3>3, <3>4, <3>6 DEF EndsSingle
  <2>. QED
    BY <2>1, <2>2, <2>3, <2>4, <2>5 DEF Reply
<1>4. ASSUME Lose(r)
      PROVE  UNCHANGED <<catalog, uploads>> /\ Fails(r) /\ Live(r) /\ Same
  BY <1>4 DEF Lose, Live, Reply
<1>5. ASSUME WalletSends(r)
      PROVE  UNCHANGED <<catalog, uploads>> /\ GoesOn(r)
  <2>1. WaitsForMining(r) /\ Live(r) /\ UNCHANGED <<panel, stored, registered, serverSent, catalog, uploads>>
    BY <1>5 DEF WalletSends, WaitsForMining, At, Live, browser
  <2>. QED
    BY <2>1 DEF GoesOn
<1>6. ASSUME NEW confirmed \in BOOLEAN, WalletEnds(r, confirmed), Settles(r, confirmed),
             confirmed => Current(r) \in registered'
      PROVE  \/ \E outcome \in {"success", "error"} : EndsRow(r, outcome)
             \/ \E p \in PageState : EndsSingle(r, p)
  <2>1. CASE Batch(r)
    <3> DEFINE outcome == IF confirmed THEN "success" ELSE "error"
    <3>1. RowEnds(r, outcome) /\ Settles(r, outcome = "success")
      BY <1>6, <2>1 DEF WalletEnds, Settles
    <3>. QED
      BY <2>1, <3>1 DEF EndsRow
  <2>2. CASE ~Batch(r)
    <3> DEFINE p == [page EXCEPT !.issued = r, !.ethereum = [run |-> r, confirmed |-> confirmed]]
    <3>1. SingleEnds(r, p)
      BY <1>6, <2>2 DEF WalletEnds
    <3>2. p \in PageState
      BY <1>0 DEF PageState, Registration
    <3>3. p.issued = r /\ p.did = page.did /\ p.ethereum = [run |-> r, confirmed |-> confirmed]
          /\ p.mode = page.mode /\ p.list = page.list
      BY <1>0 DEF PageState
    <3> HIDE DEF p
    <3>4. Results(r, p) /\ Settles(r, FALSE)
      BY <1>6, <3>3 DEF Results, Settles
    <3>. QED
      BY <2>2, <3>1, <3>2, <3>4 DEF EndsSingle
  <2>. QED
    BY <2>1, <2>2
<1>7. ASSUME WalletRefuses(r)
      PROVE  UNCHANGED <<catalog, uploads>> /\ WalletEnds(r, FALSE) /\ Settles(r, FALSE)
  BY <1>7 DEF WalletRefuses, Settles, At, Live
<1>8. ASSUME NEW receipt \in {"succeeded", "reverted", "none"}, TransactionEnds(r, receipt)
      PROVE  /\ UNCHANGED <<catalog, uploads>> /\ WalletEnds(r, Confirmed(receipt))
             /\ Settles(r, Confirmed(receipt)) /\ (Confirmed(receipt) => Current(r) \in registered')
  BY <1>8 DEF TransactionEnds, Settles, At, Live, Confirmed, Evidence
<1>9. \A receipt : Confirmed(receipt) \in BOOLEAN
  BY DEF Confirmed
<1>. QED
  <2>1. CASE \E store \in {"server", "wallet", "failed"} : Preview(r, store)
    BY <2>1, <1>1, <1>2
  <2>2. CASE TakeAnswer(r)
    BY <2>2, <1>1, <1>3
  <2>3. CASE Lose(r)
    BY <2>3, <1>1, <1>4
  <2>4. CASE WalletSends(r)
    BY <2>4, <1>5
  <2>5. CASE WalletRefuses(r)
    BY <2>5, <1>6, <1>7
  <2>6. CASE \E receipt \in {"succeeded", "reverted", "none"} : TransactionEnds(r, receipt)
    BY <2>6, <1>6, <1>8, <1>9
  <2>. QED
    BY <2>1, <2>2, <2>3, <2>4, <2>5, <2>6 DEF StepOf

-----------------------------------------------------------------------------

\* Whatever happens to a click, its mode, upload and methods are remembered.
Recalled ==
  \A s \in Run : run[s] # None =>
    /\ run'[s] # None /\ run'[s].methods = run[s].methods
    /\ run'[s].upload = run[s].upload /\ run'[s].mode = run[s].mode

\* A run that is written with its upload, and with a mount it had, changes nothing
\* else for the panel.
LEMMA OneRunChanges ==
  ASSUME RunsInv, NEW r \in Run, NEW x \in IssueRun, run' = [run EXCEPT ![r] = x], run[r] # None,
         x.mode = run[r].mode, x.upload = run[r].upload, x.methods = run[r].methods,
         x.mount \in {0, run[r].mount}, UNCHANGED uploads, panel'.mount = panel.mount,
         x.phase # "over" => Sensible(r)'
  PROVE  Recalled /\ run' \in [Run -> IssueRun \cup {None}] /\ \A s \in Run : Sensible(s)'
<1>1. run \in [Run -> IssueRun \cup {None}] /\ panel.mount \in Nat
  BY DEF RunsInv, ConsoleTypeOK, PanelState
<1>2. /\ run' \in [Run -> IssueRun \cup {None}]
      /\ run'[r] = x /\ run'[r] # None /\ \A s \in Run \ {r} : run'[s] = run[s]
  BY <1>1, RunBecomes
<1>3. ASSUME NEW s \in Run, s # r PROVE Sensible(s)'
  <2>1. run'[s] = run[s] /\ Sensible(s)
    BY <1>2, <1>3 DEF RunsInv
  <2>. QED
    BY <2>1 DEF Sensible, Live, Batch
<1>4. Sensible(r)'
  BY <1>1, <1>2 DEF Sensible, Live, RunsInv
<1>5. Recalled
  BY <1>2 DEF Recalled
<1>. QED
  BY <1>2, <1>3, <1>4, <1>5

\* What the panel shows of a run.
LEMMA ShowsTyped ==
  ASSUME RunsInv, NEW r \in Run, Loops(r), NEW copy \in Table, NEW more \in BOOLEAN, Shows(r, copy, more)
  PROVE  /\ panel' \in PanelState /\ panel'.mount = panel.mount /\ panel'.parsing = panel.parsing
         /\ ~Mounted(r) => panel' = panel
         /\ Mounted(r) => /\ panel'.rows = [upload |-> run[r].upload, status |-> copy]
                          /\ panel'.issuing = more /\ panel'.rows # None
         /\ run[r].upload \in DOMAIN uploads
<1>1. panel \in PanelState /\ run[r] \in IssueRun
  BY DEF RunsInv, ConsoleTypeOK, Loops, Live
<1> DEFINE part == [upload |-> run[r].upload, status |-> copy]
<1>2. part \in PanelRows
  BY <1>1 DEF PanelRows, IssueRun
<1>3. part # None
  BY <1>2, NoneAssumption
<1>4. run[r].upload \in 1..Len(uploads) /\ DOMAIN uploads = 1..Len(uploads)
  <2>1. uploads \in Seq(File)
    BY DEF RunsInv, ConsoleTypeOK
  <2>2. Len(uploads) \in Nat /\ DOMAIN uploads = 1..Len(uploads)
    BY <2>1, LenProperties
  <2>3. run[r].upload \in 0..Len(uploads) /\ run[r].upload # 0
    BY DEF RunsInv, Sensible, Loops, Live
  <2>. QED
    BY <2>2, <2>3
<1> HIDE DEF part
<1>5. CASE Mounted(r)
  <2>1. panel' = [panel EXCEPT !.rows = part, !.issuing = more]
    BY <1>5 DEF Shows, part
  <2>. QED
    BY <1>1, <1>2, <1>3, <1>4, <1>5, <2>1 DEF PanelState, part
<1>6. CASE ~Mounted(r)
  BY <1>1, <1>4, <1>6 DEF Shows, PanelState
<1>. QED
  BY <1>5, <1>6

LEMMA GoesOnTyped ==
  ASSUME RunsInv, NEW r \in Run, GoesOn(r), UNCHANGED <<catalog, uploads>>
  PROVE  RunsInv' /\ Recalled
<1>1. /\ run \in [Run -> IssueRun \cup {None}] /\ run[r] # None /\ Sensible(r) /\ Live(r)
      /\ page \in PageState /\ panel \in PanelState
  BY DEF RunsInv, ConsoleTypeOK, GoesOn, Live
<1>2. PICK phase \in {"post", "signing", "mining"} : Moves(r, phase)
  BY DEF GoesOn, AsksServer, AsksWallet, WaitsForMining
<1>3. PICK x \in IssueRun :
         /\ run' = [run EXCEPT ![r] = x]
         /\ x.mode = run[r].mode /\ x.mount = run[r].mount /\ x.upload = run[r].upload
         /\ x.methods = run[r].methods /\ x.row = run[r].row /\ x.status = run[r].status
         /\ x.phase = phase
  BY <1>1, <1>2, RunMoves
<1>4. run'[r] = x /\ run'[r] # None
  BY <1>1, <1>3, RunBecomes
<1>5. Sensible(r)'
  BY <1>1, <1>3, <1>4 DEF Sensible, Live, Batch, GoesOn
<1>6. Recalled /\ run' \in [Run -> IssueRun \cup {None}] /\ \A s \in Run : Sensible(s)'
  BY <1>1, <1>3, <1>5, OneRunChanges DEF GoesOn
<1>7. page' \in PageState
  BY <1>1 DEF GoesOn, AsksServer, AsksWallet, WaitsForMining, PageState
<1>8. Current(r) \in Credential
  BY <1>1 DEF Current, Credential, IssueRun
<1>9. requests' \subseteq Credential /\ walletSent' \subseteq Credential
  BY <1>8 DEF GoesOn, AsksServer, AsksWallet, WaitsForMining, RunsInv, ConsoleTypeOK
<1>10. PanelSensible'
  BY DEF PanelSensible, RunsInv, GoesOn
<1>. QED
  BY <1>6, <1>7, <1>9, <1>10 DEF RunsInv, ConsoleTypeOK, GoesOn

LEMMA EndsRowTyped ==
  ASSUME RunsInv, NEW r \in Run, NEW outcome \in {"success", "error"}, EndsRow(r, outcome),
         UNCHANGED <<catalog, uploads>>
  PROVE  RunsInv' /\ Recalled
<1>1. /\ run \in [Run -> IssueRun \cup {None}] /\ run[r] # None /\ Sensible(r) /\ Loops(r)
      /\ page \in PageState /\ panel \in PanelState /\ run[r] \in IssueRun /\ ConsoleTypeOK
      /\ run[r].row \in DOMAIN run[r].status /\ run[r].status \in Table
  BY DEF RunsInv, ConsoleTypeOK, EndsRow, Settles, Live, Loops, Sensible, IssueRun
<1>2. Outcomes(r, outcome) \in Table /\ DOMAIN Outcomes(r, outcome) = DOMAIN run[r].status
  BY <1>1, RowsOfTable DEF Outcomes
<1>3. Current(r) \in Credential /\ \A i \in DOMAIN run[r].status : <<r, i>> \in Credential
  BY <1>1, RowsOfTable DEF Current, Credential, IssueRun
<1>4. registered' \subseteq Credential /\ UNCHANGED <<stored, serverSent, walletSent>>
  BY <1>1, <1>3 DEF EndsRow, Settles, ConsoleTypeOK
<1>5. CASE LastRow(r, outcome)
  <2>1. PICK x \in IssueRun :
           /\ run' = [run EXCEPT ![r] = x]
           /\ x.phase = "over" /\ x.mount = 0 /\ x.mode = run[r].mode
           /\ x.upload = run[r].upload /\ x.methods = run[r].methods
    BY <1>1, <1>5, LastRowLeaves
  <2>2. /\ panel' \in PanelState /\ panel'.mount = panel.mount /\ panel'.parsing = panel.parsing
        /\ PanelSensible'
    <3>1. Shows(r, Outcomes(r, outcome), FALSE)
      BY <1>5 DEF LastRow
    <3>2. /\ panel' \in PanelState /\ panel'.mount = panel.mount /\ panel'.parsing = panel.parsing
          /\ ~Mounted(r) => panel' = panel
          /\ Mounted(r) => panel'.rows = [upload |-> run[r].upload, status |-> Outcomes(r, outcome)]
          /\ run[r].upload \in DOMAIN uploads
      BY <1>1, <1>2, <3>1, ShowsTyped
    <3>3. ASSUME Mounted(r)
          PROVE  /\ panel'.rows.upload = run[r].upload
                 /\ panel'.rows.status = Outcomes(r, outcome)
      BY <3>2, <3>3
    <3>4. \A i \in DOMAIN Outcomes(r, outcome) : Outcomes(r, outcome)[i] \in {"success", "error"}
      BY <1>2, <1>5 DEF LastRow
    <3>5. PanelSensible'
      BY <3>2, <3>3, <3>4 DEF PanelSensible, RunsInv
    <3>. QED
      BY <3>2, <3>3, <3>5
  <2>3. Recalled /\ run' \in [Run -> IssueRun \cup {None}] /\ \A s \in Run : Sensible(s)'
    BY <1>1, <2>1, <2>2, OneRunChanges
  <2>4. {<<r, i>> : i \in {j \in DOMAIN Outcomes(r, outcome) : Outcomes(r, outcome)[j] = "success"}}
          \subseteq Credential
    BY <1>2, <1>3
  <2>5. page' \in PageState
    BY <1>1, <1>5, <2>4 DEF LastRow, EndOfBatch, PageState
  <2>. QED
    BY <1>4, <1>5, <2>2, <2>3, <2>5 DEF RunsInv, ConsoleTypeOK, LastRow
<1>6. ASSUME NEW next \in DOMAIN run[r].status, NextRow(r, outcome, next) PROVE RunsInv' /\ Recalled
  <2>1. PICK x \in IssueRun :
           /\ run' = [run EXCEPT ![r] = x]
           /\ x.mode = run[r].mode /\ x.mount = run[r].mount
           /\ x.upload = run[r].upload /\ x.methods = run[r].methods
           /\ x.phase = FirstPhase(run[r].methods) /\ x.row = next
           /\ x.status = Begun(r, outcome, next)
           /\ DOMAIN x.status = DOMAIN run[r].status
           /\ \A i \in DOMAIN x.status :
                x.status[i] = IF i = next THEN "issuing"
                              ELSE IF i = run[r].row THEN outcome ELSE run[r].status[i]
    BY <1>1, <1>6, NextRowLeaves
  <2>2. /\ panel' \in PanelState /\ panel'.mount = panel.mount /\ panel'.parsing = panel.parsing
        /\ PanelSensible'
    <3>1. Begun(r, outcome, next) \in Table
      BY <2>1 DEF IssueRun
    <3>2. Shows(r, Begun(r, outcome, next), TRUE)
      BY <1>6 DEF NextRow
    <3>3. /\ panel' \in PanelState /\ panel'.mount = panel.mount /\ panel'.parsing = panel.parsing
          /\ ~Mounted(r) => panel' = panel
          /\ Mounted(r) => /\ panel'.rows = [upload |-> run[r].upload, status |-> Begun(r, outcome, next)]
                           /\ panel'.issuing = TRUE
          /\ run[r].upload \in DOMAIN uploads
      BY <1>1, <3>1, <3>2, ShowsTyped
    <3>4. Mounted(r) => panel'.rows.upload = run[r].upload
      BY <3>3
    <3>5. PanelSensible'
      BY <3>3, <3>4 DEF PanelSensible, RunsInv
    <3>. QED
      BY <3>3, <3>4, <3>5
  <2>3. run'[r] = x /\ run'[r] # None
    BY <1>1, <2>1, RunBecomes
  <2>4. Sensible(r)'
    BY <1>1, <2>1, <2>2, <2>3 DEF Sensible, Live, Loops, Batch, FirstPhase
  <2>5. Recalled /\ run' \in [Run -> IssueRun \cup {None}] /\ \A s \in Run : Sensible(s)'
    BY <1>1, <2>1, <2>2, <2>4, OneRunChanges
  <2>6. requests' \subseteq Credential
    BY <1>1, <1>3, <1>6 DEF NextRow, Sends, ConsoleTypeOK
  <2>. QED
    BY <1>4, <1>6, <2>2, <2>5, <2>6 DEF RunsInv, ConsoleTypeOK, NextRow
<1>. QED
  BY <1>1, <1>5, <1>6, RowEndsEither DEF EndsRow

LEMMA EndsSingleTyped ==
  ASSUME RunsInv, NEW r \in Run, NEW p \in PageState, EndsSingle(r, p), UNCHANGED <<catalog, uploads>>
  PROVE  RunsInv' /\ Recalled
<1>1. /\ run \in [Run -> IssueRun \cup {None}] /\ run[r] # None /\ Sensible(r) /\ Live(r)
      /\ run[r] \in IssueRun /\ Current(r) \in Credential
  BY DEF RunsInv, ConsoleTypeOK, EndsSingle, Settles, Live, Current, Credential, IssueRun
<1>2. run' = [run EXCEPT ![r] = Over(run[r])]
  BY <1>1 DEF EndsSingle, SingleEnds
<1>3. Recalled /\ run' \in [Run -> IssueRun \cup {None}] /\ \A s \in Run : Sensible(s)'
  BY <1>1, <1>2, OverRemembers, OneRunChanges DEF EndsSingle, SingleEnds
<1>4. page' \in PageState
  BY DEF EndsSingle, SingleEnds, PageState
<1>5. PanelSensible'
  BY DEF PanelSensible, RunsInv, EndsSingle, SingleEnds
<1>. QED
  BY <1>1, <1>3, <1>4, <1>5 DEF RunsInv, ConsoleTypeOK, EndsSingle, SingleEnds, Settles

-----------------------------------------------------------------------------

\* A batch that is started: its rows are those of the panel, none of which was
\* begun before, or all of them at once if no method is selected.
Started(r, methods, x, copy) ==
  /\ CanIssueAll /\ Unused(r)
  /\ x.mode = "batch" /\ x.methods = methods /\ x.upload = panel.rows.upload
  /\ run' = [run EXCEPT ![r] = x]
  /\ panel'.rows = [upload |-> panel.rows.upload, status |-> copy]
  /\ panel' \in PanelState /\ panel'.issuing = (methods # {})
  /\ panel'.mount = panel.mount /\ panel'.parsing = panel.parsing
  /\ DOMAIN copy = DOMAIN panel.rows.status
  /\ \A i \in DOMAIN panel.rows.status : panel.rows.status[i] = "pending"
  /\ \/ /\ methods = {} /\ x.phase = "over" /\ x.mount = 0 /\ requests' = requests
        /\ \A i \in DOMAIN copy : copy[i] = "success"
     \/ /\ methods # {} /\ x.phase = FirstPhase(methods) /\ x.mount = panel.mount
        /\ x.row \in DOMAIN copy /\ x.status = copy /\ Sends(r, x.row, x.phase)
        /\ \A i \in DOMAIN copy : copy[i] = IF i = x.row THEN "issuing" ELSE "pending"

LEMMA IssueAllStarts ==
  ASSUME RunsInv, NEW r \in Run, NEW methods \in SUBSET IssuingMethod, NEW connected \in BOOLEAN,
         IssueAll(r, methods, connected)
  PROVE  \E x \in IssueRun, copy \in Table : Started(r, methods, x, copy)
<1> DEFINE status == panel.rows.status
           first == Min(DOMAIN status)
           copy == IF methods = {} THEN [i \in DOMAIN status |-> "success"]
                   ELSE [status EXCEPT ![first] = "issuing"]
           started == [mode |-> "batch", mount |-> panel.mount, upload |-> panel.rows.upload,
                       methods |-> methods, connected |-> connected,
                       phase |-> FirstPhase(methods), row |-> first, status |-> copy]
           x == IF methods = {} THEN Over(started) ELSE started
<1>1. /\ panel \in PanelState /\ panel.rows \in PanelRows /\ panel.mount \in Nat
      /\ panel.rows.upload \in Nat /\ status \in Table /\ DOMAIN status # {}
  BY DEF IssueAll, CanIssueAll, ClearOffered, RunsInv, ConsoleTypeOK, PanelState, PanelRows
<1>2. DOMAIN status \in SUBSET Nat /\ first \in DOMAIN status
  BY <1>1, RowsOfTable, MinOfSet
<1>3. \A i \in DOMAIN status : status[i] = "pending"
  BY DEF IssueAll, CanIssueAll, IsComplete, ClearOffered, RowsShown, RunsInv, PanelSensible
<1>4. /\ copy \in Table /\ DOMAIN copy = DOMAIN status
      /\ IF methods = {} THEN \A i \in DOMAIN copy : copy[i] = "success"
         ELSE \A i \in DOMAIN copy : copy[i] = IF i = first THEN "issuing" ELSE "pending"
  <2>1. CASE methods = {}
    BY <1>1, <2>1, RowsOfTable
  <2>2. CASE methods # {}
    BY <1>1, <1>2, <1>3, <2>2, RowsOfTable
  <2>. QED
    BY <2>1, <2>2
<1>5. /\ run' = [run EXCEPT ![r] = x]
      /\ panel' = [panel EXCEPT !.issuing = methods # {}, !.rows.status = copy]
      /\ IF methods = {} THEN UNCHANGED requests ELSE Sends(r, first, FirstPhase(methods))
      /\ CanIssueAll /\ Unused(r)
  BY DEF IssueAll
<1> HIDE DEF copy, first
<1>6. started \in IssueRun
  BY <1>1, <1>2, <1>4 DEF IssueRun, FirstPhase
<1>7. /\ started.mode = "batch" /\ started.mount = panel.mount /\ started.upload = panel.rows.upload
      /\ started.methods = methods /\ started.phase = FirstPhase(methods)
      /\ started.row = first /\ started.status = copy
  OBVIOUS
<1>8. /\ x \in IssueRun /\ x.mode = "batch" /\ x.methods = methods /\ x.upload = panel.rows.upload
      /\ IF methods = {} THEN x.phase = "over" /\ x.mount = 0
         ELSE /\ x.phase = FirstPhase(methods) /\ x.mount = panel.mount
              /\ x.row = first /\ x.status = copy
  <2> HIDE DEF started
  <2>. QED
    BY <1>6, <1>7, OverRemembers
<1>9. /\ panel'.rows = [upload |-> panel.rows.upload, status |-> copy]
      /\ panel' \in PanelState /\ panel'.issuing = (methods # {})
      /\ panel'.mount = panel.mount /\ panel'.parsing = panel.parsing
  <2>1. [panel.rows EXCEPT !.status = copy] = [upload |-> panel.rows.upload, status |-> copy]
    BY <1>1 DEF PanelRows
  <2>2. [upload |-> panel.rows.upload, status |-> copy] \in PanelRows
    BY <1>1, <1>4 DEF PanelRows
  <2>3. panel' = [panel EXCEPT !.issuing = methods # {}, !.rows = [panel.rows EXCEPT !.status = copy]]
    BY <1>1, <1>5 DEF PanelState
  <2>4. (methods # {}) \in BOOLEAN
    OBVIOUS
  <2>. QED
    BY <1>1, <2>1, <2>2, <2>3, <2>4 DEF PanelState
<1> HIDE DEF x
<1>10. \/ /\ methods = {} /\ x.phase = "over" /\ x.mount = 0 /\ requests' = requests
          /\ \A i \in DOMAIN copy : copy[i] = "success"
       \/ /\ methods # {} /\ x.phase = FirstPhase(methods) /\ x.mount = panel.mount
          /\ x.row \in DOMAIN copy /\ x.status = copy /\ Sends(r, x.row, x.phase)
          /\ \A i \in DOMAIN copy : copy[i] = IF i = x.row THEN "issuing" ELSE "pending"
  BY <1>2, <1>4, <1>5, <1>8
<1>11. Started(r, methods, x, copy)
  BY <1>3, <1>4, <1>5, <1>8, <1>9, <1>10 DEF Started
<1>. QED
  BY <1>4, <1>8, <1>11

\* A click that was not made before says nothing about the others.
LEMMA OneRunBegins ==
  ASSUME RunsInv, NEW r \in Run, NEW x \in IssueRun, run' = [run EXCEPT ![r] = x], run[r] = None,
         UNCHANGED uploads, panel'.mount = panel.mount, Sensible(r)'
  PROVE  /\ Recalled /\ run' \in [Run -> IssueRun \cup {None}] /\ \A s \in Run : Sensible(s)'
         /\ run'[r] = x /\ run'[r] # None /\ \A s \in Run \ {r} : run'[s] = run[s]
<1>1. /\ run' \in [Run -> IssueRun \cup {None}]
      /\ run'[r] = x /\ run'[r] # None /\ \A s \in Run \ {r} : run'[s] = run[s]
  BY RunBecomes DEF RunsInv, ConsoleTypeOK
<1>2. ASSUME NEW s \in Run, s # r PROVE Sensible(s)'
  <2>1. run'[s] = run[s] /\ Sensible(s)
    BY <1>1, <1>2 DEF RunsInv
  <2>. QED
    BY <2>1 DEF Sensible, Live, Batch
<1>3. Recalled
  BY <1>1 DEF Recalled
<1>. QED
  BY <1>1, <1>2, <1>3

LEMMA IssueAllTyped ==
  ASSUME RunsInv, NEW r \in Run, NEW methods \in SUBSET IssuingMethod, NEW connected \in BOOLEAN,
         IssueAll(r, methods, connected)
  PROVE  RunsInv' /\ Recalled
<1>1. PICK x \in IssueRun, copy \in Table : Started(r, methods, x, copy)
  BY IssueAllStarts
<1> USE <1>1 DEF Started
<1>2. /\ run[r] = None /\ run' = [run EXCEPT ![r] = x] /\ UNCHANGED uploads
      /\ panel.rows # None /\ page \in PageState /\ panel.mount \in Nat
      /\ run \in [Run -> IssueRun \cup {None}]
  BY <1>1 DEF Started, Unused, CanIssueAll, ClearOffered, IssueAll, RunsInv, ConsoleTypeOK, PanelState
<1>3. /\ panel.rows.upload \in DOMAIN uploads /\ panel.rows.upload \in 1..Len(uploads)
      /\ Len(uploads) \in Nat
  BY <1>2, LenProperties DEF RunsInv, PanelSensible, ConsoleTypeOK
<1>4. run'[r] = x /\ run'[r] # None
  BY <1>2, RunBecomes
<1>5. Sensible(r)'
  <2>1. /\ x.upload = panel.rows.upload /\ x.methods = methods /\ x.mode = "batch"
        /\ uploads' = uploads
    BY <1>1, <1>2 DEF Started
  <2>2. x.mount <= panel'.mount
    BY <1>1, <1>2
  <2>3. /\ x.upload \in 0..Len(uploads) /\ x.upload # 0
    BY <1>3, <2>1
  <2>4. x.phase # "over" =>
           /\ x.methods # {} /\ x.row \in DOMAIN x.status
           /\ \A i \in DOMAIN x.status : x.status[i] = "issuing" <=> i = x.row
           /\ x.phase \in {"registered", "unregistered", "wallet", "preview"} => "ethereum" \in x.methods
           /\ x.phase # "signed"
    BY <1>1, <2>1 DEF FirstPhase
  <2>. QED
    BY <1>4, <2>1, <2>2, <2>3, <2>4 DEF Sensible, Live, Batch
<1>6. Recalled /\ run' \in [Run -> IssueRun \cup {None}] /\ \A s \in Run : Sensible(s)'
  BY <1>1, <1>2, <1>5, OneRunBegins
<1>7. \A i \in DOMAIN panel.rows.status : <<r, i>> \in Credential
  <2>1. panel.rows.status \in Table
    BY <1>2 DEF RunsInv, ConsoleTypeOK, PanelState, PanelRows
  <2>. QED
    BY <2>1, RowsOfTable DEF Credential
<1>8. page' \in PageState
  <2> DEFINE list == IF methods = {} THEN {<<r, i>> : i \in DOMAIN panel.rows.status} ELSE {}
  <2>1. page' = [page EXCEPT !.batchIssuing = methods # {}, !.list = list]
    BY DEF IssueAll
  <2>2. list \in SUBSET Credential /\ (methods # {}) \in BOOLEAN
    BY <1>7
  <2> HIDE DEF list
  <2>. QED
    BY <1>2, <2>1, <2>2 DEF PageState
<1>9. requests' \subseteq Credential
  BY <1>1, <1>7 DEF Sends, RunsInv, ConsoleTypeOK
<1>10. PanelSensible'
  <2>1. panel'.rows.upload = panel.rows.upload /\ panel'.rows.status = copy
    BY <1>1
  <2>. QED
    BY <1>1, <1>2, <1>3, <2>1 DEF PanelSensible
<1>11. UNCHANGED <<catalog, uploads, stored, registered, serverSent, walletSent>>
  BY DEF IssueAll
<1>. QED
  BY <1>1, <1>6, <1>8, <1>9, <1>10, <1>11 DEF RunsInv, ConsoleTypeOK

LEMMA IssueSingleTyped ==
  ASSUME RunsInv, NEW r \in Run, NEW methods \in SUBSET IssuingMethod, NEW connected \in BOOLEAN,
         IssueSingle(r, methods, connected)
  PROVE  RunsInv' /\ Recalled
<1> DEFINE x == [mode |-> "single", mount |-> panel.mount, upload |-> 0, methods |-> methods,
                 connected |-> connected, phase |-> FirstPhase(methods), row |-> 0, status |-> <<>>]
<1>1. /\ run[r] = None /\ run' = [run EXCEPT ![r] = x] /\ UNCHANGED <<uploads, panel>>
      /\ page \in PageState /\ panel.mount \in Nat /\ methods # {}
      /\ run \in [Run -> IssueRun \cup {None}] /\ Len(uploads) \in Nat
  BY LenProperties DEF Unused, IssueSingle, RunsInv, ConsoleTypeOK, PanelState
<1>2. x \in IssueRun
  BY <1>1, NoRows DEF IssueRun, FirstPhase
<1>3. /\ x.mode = "single" /\ x.mount = panel.mount /\ x.upload = 0 /\ x.methods = methods
      /\ x.phase = FirstPhase(methods) /\ x.row = 0 /\ DOMAIN x.status = {}
  BY NoRows
<1> HIDE DEF x
<1>4. run'[r] = x /\ run'[r] # None
  BY <1>1, <1>2, RunBecomes
<1>5. Sensible(r)'
  BY <1>1, <1>3, <1>4 DEF Sensible, Live, Batch, FirstPhase
<1>6. Recalled /\ run' \in [Run -> IssueRun \cup {None}] /\ \A s \in Run : Sensible(s)'
  BY <1>1, <1>2, <1>5, OneRunBegins
<1>7. page' \in PageState
  BY <1>1 DEF IssueSingle, Cleared, PageState
<1>8. requests' \subseteq Credential
  BY DEF IssueSingle, Sends, RunsInv, ConsoleTypeOK, Credential
<1>9. PanelSensible'
  BY <1>1 DEF PanelSensible, RunsInv
<1>10. UNCHANGED <<catalog, panel, uploads, stored, registered, serverSent, walletSent>>
  BY DEF IssueSingle
<1>. QED
  BY <1>6, <1>7, <1>8, <1>9, <1>10 DEF RunsInv, ConsoleTypeOK

LEMMA ServePostTyped ==
  ASSUME RunsInv, NEW c \in requests, NEW reply \in Reply, ServePost(c, reply)
  PROVE  RunsInv' /\ Recalled
<1> DEFINE r == c[1]
<1>1. /\ r \in Run /\ c \in Credential /\ run \in [Run -> IssueRun \cup {None}]
      /\ UNCHANGED <<catalog, page, panel, uploads, walletSent>>
  BY DEF RunsInv, ConsoleTypeOK, Credential, ServePost, browser
<1>2. /\ stored' \subseteq Credential /\ registered' \subseteq Credential
      /\ requests' \subseteq Credential /\ serverSent' \subseteq Credential
  BY <1>1 DEF ServePost, RunsInv, ConsoleTypeOK
<1>3. PanelSensible'
  BY <1>1 DEF PanelSensible, RunsInv
<1>4. CASE At(r, "post") /\ Current(r) = c
  <2>1. Moves(r, reply) /\ run[r] # None
    BY <1>4 DEF ServePost, Moves, At
  <2>2. PICK x \in IssueRun :
           /\ run' = [run EXCEPT ![r] = x]
           /\ x.mode = run[r].mode /\ x.mount = run[r].mount /\ x.upload = run[r].upload
           /\ x.methods = run[r].methods /\ x.row = run[r].row /\ x.status = run[r].status
           /\ x.phase = reply
    <3> HIDE DEF r
    <3>. QED
      BY <1>1, <2>1, RunMoves
  <2>3. run'[r] = x /\ run'[r] # None
    BY <1>1, <2>2, RunBecomes
  <2>4. reply \in (IF "ethereum" \in run[r].methods THEN Reply \ {"signed"} ELSE {"refused", "signed"})
    BY DEF ServePost
  <2>5. Sensible(r)'
    BY <1>1, <1>4, <2>2, <2>3, <2>4 DEF RunsInv, Sensible, Live, Batch, At
  <2>6. Recalled /\ run' \in [Run -> IssueRun \cup {None}] /\ \A s \in Run : Sensible(s)'
    <3> HIDE DEF r
    <3>. QED
      BY <1>1, <2>1, <2>2, <2>5, OneRunChanges
  <2>. QED
    BY <1>1, <1>2, <1>3, <2>6 DEF RunsInv, ConsoleTypeOK
<1>5. CASE ~(At(r, "post") /\ Current(r) = c)
  <2>1. run' = run
    BY <1>5 DEF ServePost
  <2>2. Recalled /\ \A s \in Run : Sensible(s)'
    BY <1>1, <2>1 DEF Recalled, RunsInv, Sensible, Live, Batch
  <2>. QED
    BY <1>1, <1>2, <1>3, <2>1, <2>2 DEF RunsInv, ConsoleTypeOK
<1>. QED
  BY <1>4, <1>5

\* The steps of the page and the panel themselves.
PageStep ==
  \/ LoadTemplates \/ OpenBatch \/ OpenSingle \/ Clear \/ Reload
  \/ \E f \in File : UploadFile(f)
  \/ \E u \in Upload : Parse(u)

LEMMA PageStepTyped == ASSUME RunsInv, PageStep PROVE RunsInv' /\ Recalled /\ UNCHANGED outside
<1>0. /\ page \in PageState /\ panel \in PanelState /\ uploads \in Seq(File)
      /\ run \in [Run -> IssueRun \cup {None}] /\ panel.mount \in Nat /\ Len(uploads) \in Nat
      /\ DOMAIN uploads = 1..Len(uploads)
  BY LenProperties DEF RunsInv, ConsoleTypeOK, PanelState
<1>1. ASSUME UNCHANGED <<run, outside>>, page' \in PageState, panel' \in PanelState,
             catalog' \in {"loading", "ready", "failed"}, uploads' \in Seq(File),
             Len(uploads') >= Len(uploads), panel'.mount >= panel.mount,
             PanelSensible', panel'.parsing \subseteq DOMAIN uploads'
      PROVE  RunsInv' /\ Recalled
  <2>1. Recalled
    BY <1>1 DEF Recalled
  <2>2. ASSUME NEW s \in Run PROVE Sensible(s)'
    <3>1. Sensible(s) /\ run'[s] = run[s]
      BY <1>1 DEF RunsInv
    <3>2. run[s] # None => run[s].upload \in Nat /\ run[s].mount \in Nat
      BY <1>0 DEF IssueRun
    <3>3. Len(uploads') \in Nat /\ panel'.mount \in Nat
      BY <1>1, LenProperties DEF PanelState
    <3>. QED
      BY <1>0, <1>1, <3>1, <3>2, <3>3 DEF Sensible, Live, Batch
  <2>. QED
    BY <1>1, <2>1, <2>2 DEF RunsInv, ConsoleTypeOK, outside
<1>2. CASE LoadTemplates
  BY <1>0, <1>1, <1>2 DEF LoadTemplates, RunsInv, PanelSensible
<1>3. NewPage \in PageState /\ NewPage.mode = "single"
  BY DEF NewPage, PageState
<1>4. \A n \in Nat : /\ NewPanel(n) \in PanelState /\ NewPanel(n).mount = n
                     /\ NewPanel(n).rows = None /\ NewPanel(n).parsing = {} /\ ~NewPanel(n).issuing
  BY DEF NewPanel, PanelState
<1>5. CASE OpenBatch
  <2>1. /\ panel' = NewPanel(panel.mount + 1) /\ page' = [page EXCEPT !.mode = "batch", !.batchIssuing = FALSE]
        /\ UNCHANGED <<catalog, uploads, run, outside>>
    BY <1>5 DEF OpenBatch
  <2>2. page' \in PageState
    BY <1>0, <2>1 DEF PageState
  <2>3. panel.mount + 1 \in Nat /\ panel.mount + 1 >= panel.mount
    BY <1>0
  <2>4. PanelSensible' /\ panel'.parsing \subseteq DOMAIN uploads' /\ panel'.mount >= panel.mount
        /\ panel' \in PanelState
    BY <1>4, <2>1, <2>3 DEF PanelSensible
  <2>. QED
    BY <1>0, <1>1, <2>1, <2>2, <2>4 DEF RunsInv, ConsoleTypeOK
<1>6. CASE OpenSingle
  <2>1. /\ panel' = NewPanel(panel.mount) /\ page' = [page EXCEPT !.mode = "single"]
        /\ UNCHANGED <<catalog, uploads, run, outside>>
    BY <1>6 DEF OpenSingle
  <2>2. page' \in PageState
    BY <1>0, <2>1 DEF PageState
  <2>3. PanelSensible' /\ panel'.parsing \subseteq DOMAIN uploads' /\ panel'.mount >= panel.mount
        /\ panel' \in PanelState
    BY <1>0, <1>4, <2>1 DEF PanelSensible
  <2>. QED
    BY <1>0, <1>1, <2>1, <2>2, <2>3 DEF RunsInv, ConsoleTypeOK
<1>7. CASE Clear
  <2>1. /\ panel' = [panel EXCEPT !.rows = None] /\ page' = [page EXCEPT !.list = {}, !.batchIssuing = FALSE]
        /\ UNCHANGED <<catalog, uploads, run, outside>>
    BY <1>7 DEF Clear
  <2>2. page' \in PageState
    BY <1>0, <2>1 DEF PageState
  <2>3. /\ panel' \in PanelState /\ panel'.rows = None /\ panel'.mount = panel.mount
        /\ panel'.parsing = panel.parsing
    BY <1>0, <2>1 DEF PanelState
  <2>4. PanelSensible'
    BY <2>3 DEF PanelSensible
  <2>. QED
    BY <1>0, <1>1, <2>1, <2>2, <2>3, <2>4 DEF RunsInv, ConsoleTypeOK
<1>8. CASE \E f \in File : UploadFile(f)
  <2>1. PICK f \in File : UploadFile(f)
    BY <1>8
  <2>2. /\ uploads' = Append(uploads, f) /\ panel' = [panel EXCEPT !.parsing = @ \cup {Len(uploads) + 1}]
        /\ page' = [page EXCEPT !.list = {}] /\ UNCHANGED <<catalog, run, outside>>
    BY <2>1 DEF UploadFile
  <2>3. /\ uploads' \in Seq(File) /\ Len(uploads') = Len(uploads) + 1
        /\ DOMAIN uploads' = 1..Len(uploads')
    BY <1>0, <2>2, AppendProperties, LenProperties
  <2>4. page' \in PageState
    BY <1>0, <2>2 DEF PageState
  <2>5. /\ panel' \in PanelState /\ panel'.rows = panel.rows /\ panel'.mount = panel.mount
        /\ panel'.parsing = panel.parsing \cup {Len(uploads) + 1} /\ panel'.issuing = panel.issuing
    BY <1>0, <2>2 DEF PanelState
  <2>6. DOMAIN uploads \subseteq DOMAIN uploads' /\ Len(uploads) + 1 \in DOMAIN uploads'
    BY <1>0, <2>3
  <2>7. PanelSensible' /\ panel'.parsing \subseteq DOMAIN uploads'
    BY <2>5, <2>6 DEF PanelSensible, RunsInv
  <2>. QED
    BY <1>0, <1>1, <2>2, <2>3, <2>4, <2>5, <2>7 DEF RunsInv, ConsoleTypeOK
<1>9. CASE \E u \in Upload : Parse(u)
  <2>1. PICK u \in Upload : Parse(u)
    BY <1>9
  <2> DEFINE part == [upload |-> u, status |-> [i \in FileRows(u) |-> "pending"]]
  <2>2. \/ panel' = [panel EXCEPT !.parsing = @ \ {u}]
        \/ panel' = [panel EXCEPT !.parsing = @ \ {u}, !.rows = part]
    <3>1. PICK broken \in BOOLEAN :
             panel' = [panel EXCEPT !.parsing = @ \ {u},
                   !.rows = IF broken \/ FileRows(u) \cup InvalidRow[uploads[u]] = {} THEN @ ELSE part]
      BY <2>1 DEF Parse
    <3>2. CASE broken \/ FileRows(u) \cup InvalidRow[uploads[u]] = {}
      BY <1>0, <3>1, <3>2 DEF PanelState
    <3>3. CASE ~(broken \/ FileRows(u) \cup InvalidRow[uploads[u]] = {})
      BY <3>1, <3>3
    <3>. QED
      BY <3>2, <3>3
  <2>3. UNCHANGED <<catalog, page, uploads, run, outside>>
    BY <2>1 DEF Parse
  <2>4. part \in PanelRows /\ part.upload = u /\ \A i \in DOMAIN part.status : part.status[i] = "pending"
    <3>1. uploads[u] \in File /\ u \in Nat
      BY <1>0, ElementOfSeq DEF Upload
    <3>2. [i \in FileRows(u) |-> "pending"] \in Table
      BY <3>1 DEF FileRows, Table
    <3>. QED
      BY <3>1, <3>2 DEF PanelRows
  <2> HIDE DEF part
  <2>5. /\ panel' \in PanelState /\ panel'.mount = panel.mount /\ panel'.issuing = panel.issuing
        /\ panel'.rows \in {panel.rows, part} /\ panel'.parsing \subseteq panel.parsing
    <3>1. CASE panel' = [panel EXCEPT !.parsing = @ \ {u}]
      BY <1>0, <3>1 DEF PanelState
    <3>2. CASE panel' = [panel EXCEPT !.parsing = @ \ {u}, !.rows = part]
      BY <1>0, <2>4, <3>2 DEF PanelState
    <3>. QED
      BY <2>2, <3>1, <3>2
  <2>6. PanelSensible'
    BY <2>3, <2>4, <2>5 DEF PanelSensible, RunsInv, Upload
  <2>. QED
    BY <1>0, <1>1, <2>3, <2>5, <2>6 DEF RunsInv, ConsoleTypeOK
<1>10. CASE Reload
  <2>1. /\ catalog' = "loading" /\ page' = NewPage /\ panel' = NewPanel(panel.mount)
        /\ UNCHANGED <<uploads, outside>>
        /\ run' = [r \in Run |-> IF run[r] = None THEN None ELSE Over(run[r])]
    BY <1>10 DEF Reload
  <2>2. ASSUME NEW s \in Run
        PROVE  /\ run'[s] \in IssueRun \cup {None} /\ Sensible(s)'
               /\ run[s] # None => /\ run'[s] # None /\ run'[s].methods = run[s].methods
                                   /\ run'[s].upload = run[s].upload /\ run'[s].mode = run[s].mode
    <3>1. CASE run[s] = None
      BY <2>1, <3>1 DEF Sensible
    <3>2. CASE run[s] # None
      <4>1. run[s] \in IssueRun /\ run'[s] = Over(run[s])
        BY <1>0, <2>1, <3>2
      <4>2. /\ run'[s] \in IssueRun /\ run'[s] # None
            /\ run'[s].phase = "over" /\ run'[s].mount = 0 /\ run'[s].upload = run[s].upload
            /\ run'[s].methods = run[s].methods /\ run'[s].mode = run[s].mode
        BY <4>1, OverRemembers
      <4>3. panel'.mount = panel.mount
        BY <1>0, <1>4, <2>1
      <4>. QED
        BY <1>0, <2>1, <3>2, <4>2, <4>3 DEF Sensible, Live, RunsInv
    <3>. QED
      BY <3>1, <3>2
  <2>3. run' \in [Run -> IssueRun \cup {None}]
    BY <2>1, <2>2
  <2>4. PanelSensible' /\ panel'.parsing \subseteq DOMAIN uploads' /\ panel' \in PanelState
    BY <1>0, <1>4, <2>1 DEF PanelSensible
  <2>. QED
    BY <1>3, <2>1, <2>2, <2>3, <2>4 DEF RunsInv, ConsoleTypeOK, Recalled, outside
<1>11. UNCHANGED outside
  BY DEF PageStep, LoadTemplates, OpenBatch, OpenSingle, Clear, Reload, UploadFile, Parse
<1>. QED
  BY <1>2, <1>5, <1>6, <1>7, <1>8, <1>9, <1>10, <1>11 DEF PageStep

-----------------------------------------------------------------------------
(***************************************************************************)
(* Nothing is sent twice.  The row at hand and the rows to come are what   *)
(* nobody has touched; a request is under way for the row at hand only     *)
(* while its run waits for it, and what is sent was requested once.        *)
(***************************************************************************)

\* A credential of a click that was made, and one that no call was made for.
Named(c) == c \in Credential /\ run[c[1]] # None

Untouched(c) == c \notin requests /\ c \notin serverSent /\ c \notin walletSent

SendsOnce(r) ==
  Live(r) =>
    /\ run[r].phase = "preview" => Untouched(Current(r))
    /\ run[r].phase \in {"wallet", "signing", "mining"} => Current(r) \notin requests /\ Current(r) \notin serverSent
    /\ Current(r) \in requests <=> run[r].phase = "post"
    /\ \A i \in DOMAIN run[r].status : run[r].status[i] = "pending" => Untouched(<<r, i>>)

AllNamed == \A c \in requests \cup stored \cup registered \cup serverSent \cup walletSent : Named(c)

SendingInv ==
  /\ AllNamed /\ NoSecondTransaction
  /\ \A c \in requests : c \notin serverSent /\ c \notin walletSent
  /\ \A r \in Run : SendsOnce(r)

\* What happens to the credentials of one run does not concern another.
LEMMA OthersSend ==
  ASSUME NEW r \in Run, NEW s \in Run, s # r, run'[s] = run[s], SendsOnce(s),
         \A c : c[1] # r => (c \in requests' <=> c \in requests) /\ (c \in serverSent' <=> c \in serverSent)
                              /\ (c \in walletSent' <=> c \in walletSent)
  PROVE  SendsOnce(s)'
<1>1. \A i : <<s, i>>[1] # r
  OBVIOUS
<1>2. \A i : /\ <<s, i>> \in requests' <=> <<s, i>> \in requests
             /\ <<s, i>> \in serverSent' <=> <<s, i>> \in serverSent
             /\ <<s, i>> \in walletSent' <=> <<s, i>> \in walletSent
  BY <1>1
<1>. QED
  BY <1>2 DEF SendsOnce, Live, Current, Untouched

LEMMA NamedLasts == ASSUME RunsInv, Recalled, NEW c, Named(c) PROVE Named(c)'
BY DEF Recalled, Named, Credential

LEMMA PageStepSends == ASSUME RunsInv, RunsInv', SendingInv, PageStep PROVE SendingInv'
<1>1. Recalled /\ UNCHANGED outside
  BY PageStepTyped
<1>2. AllNamed'
  BY <1>1, NamedLasts DEF AllNamed, SendingInv, outside
<1>3. run' = run \/ \A s \in Run : ~Live(s)'
  <2>1. CASE Reload
    <3>1. ASSUME NEW s \in Run PROVE ~Live(s)'
      <4>1. CASE run[s] = None
        BY <2>1, <4>1 DEF Reload, Live
      <4>2. CASE run[s] # None
        BY <2>1, <4>2, OverRemembers DEF Reload, Live, RunsInv, ConsoleTypeOK
      <4>. QED
        BY <4>1, <4>2
    <3>. QED
      BY <3>1
  <2>. QED
    BY <2>1 DEF PageStep, LoadTemplates, OpenBatch, OpenSingle, Clear, UploadFile, Parse
<1>4. \A s \in Run : SendsOnce(s)'
  BY <1>1, <1>3 DEF SendingInv, SendsOnce, Live, Current, Untouched, outside
<1>. QED
  BY <1>1, <1>2, <1>4 DEF SendingInv, NoSecondTransaction, outside

LEMMA GoesOnSends ==
  ASSUME RunsInv, RunsInv', Recalled, SendingInv, NEW r \in Run, GoesOn(r) PROVE SendingInv'
<1>1. /\ run \in [Run -> IssueRun \cup {None}] /\ run[r] # None /\ Sensible(r) /\ Live(r) /\ SendsOnce(r)
      /\ run[r] \in IssueRun /\ Current(r) = <<r, run[r].row>> /\ Named(Current(r))
  BY DEF RunsInv, ConsoleTypeOK, GoesOn, Live, SendingInv, Current, Named, Credential, IssueRun
<1>2. PICK phase \in {"post", "signing", "mining"} :
         /\ Moves(r, phase)
         /\ phase = "post" <=> AsksServer(r)
         /\ phase = "mining" <=> WaitsForMining(r)
         /\ AsksServer(r) \/ AsksWallet(r) \/ WaitsForMining(r)
  BY <1>1 DEF GoesOn, AsksServer, AsksWallet, WaitsForMining, At
<1>3. PICK x \in IssueRun :
         /\ run' = [run EXCEPT ![r] = x]
         /\ x.mode = run[r].mode /\ x.mount = run[r].mount /\ x.upload = run[r].upload
         /\ x.methods = run[r].methods /\ x.row = run[r].row /\ x.status = run[r].status
         /\ x.phase = phase
  BY <1>1, <1>2, RunMoves
<1>4. run'[r] = x /\ run'[r] # None /\ \A s \in Run \ {r} : run'[s] = run[s]
  BY <1>1, <1>3, RunBecomes
<1>5. /\ requests' = IF phase = "post" THEN requests \cup {Current(r)} ELSE requests
      /\ walletSent' = IF phase = "mining" THEN walletSent \cup {Current(r)} ELSE walletSent
      /\ UNCHANGED <<stored, registered, serverSent>>
  BY <1>2 DEF GoesOn, AsksServer, AsksWallet, WaitsForMining
<1>6. /\ phase = "post" => Untouched(Current(r))
      /\ phase # "post" => Current(r) \notin requests /\ Current(r) \notin serverSent
  BY <1>1, <1>2 DEF AsksServer, AsksWallet, WaitsForMining, At, SendsOnce, Untouched
<1>7. AllNamed'
  <2>1. \A c : Named(c) => Named(c)'
    BY NamedLasts
  <2>. QED
    BY <1>1, <1>5, <2>1 DEF AllNamed, SendingInv
<1>8. NoSecondTransaction' /\ \A c \in requests' : c \notin serverSent' /\ c \notin walletSent'
  BY <1>5, <1>6 DEF SendingInv, NoSecondTransaction, Untouched
<1>9. ASSUME NEW s \in Run, s # r PROVE SendsOnce(s)'
  <2>1. \A c : c[1] # r => (c \in requests' <=> c \in requests) /\ (c \in serverSent' <=> c \in serverSent)
                              /\ (c \in walletSent' <=> c \in walletSent)
    BY <1>1, <1>5
  <2>. QED
    BY <1>4, <1>9, <2>1, OthersSend DEF SendingInv
<1>10. SendsOnce(r)'
  <2>1. Current(r)' = Current(r)
    BY <1>3, <1>4 DEF Current
  <2>2. ASSUME NEW i \in DOMAIN run[r].status, run[r].status[i] = "pending" PROVE Untouched(<<r, i>>)'
    <3>1. i # run[r].row
      BY <1>1, <2>2 DEF Sensible, Batch
    <3>2. Untouched(<<r, i>>) /\ <<r, i>> # Current(r)
      BY <1>1, <2>2, <3>1 DEF SendsOnce
    <3>. QED
      BY <1>5, <3>2 DEF Untouched
  <2>. QED
    BY <1>3, <1>4, <1>5, <1>6, <2>1, <2>2 DEF SendsOnce, Untouched
<1>. QED
  BY <1>7, <1>8, <1>9, <1>10 DEF SendingInv

\* A run that ended sends nothing any more.
LEMMA EndedSends ==
  ASSUME RunsInv, Recalled, SendingInv, NEW r \in Run, run[r] # None, ~Live(r)',
         \A s \in Run \ {r} : run'[s] = run[s],
         UNCHANGED <<requests, stored, serverSent, walletSent>>,
         registered' \subseteq registered \cup {Current(r)}, Current(r) \in Credential
  PROVE  SendingInv'
<1>1. Named(Current(r))
  BY DEF Named, Current
<1>2. AllNamed'
  <2>1. \A c : Named(c) => Named(c)'
    BY NamedLasts
  <2>. QED
    BY <1>1, <2>1 DEF AllNamed, SendingInv
<1>3. \A s \in Run : SendsOnce(s)'
  BY DEF SendingInv, SendsOnce, Live, Current, Untouched
<1>. QED
  BY <1>2, <1>3 DEF SendingInv, NoSecondTransaction

LEMMA EndsSingleSends ==
  ASSUME RunsInv, RunsInv', Recalled, SendingInv, NEW r \in Run, NEW p \in PageState, EndsSingle(r, p)
  PROVE  SendingInv'
<1>1. /\ run \in [Run -> IssueRun \cup {None}] /\ run[r] # None
      /\ run[r] \in IssueRun /\ Current(r) \in Credential
  BY DEF RunsInv, ConsoleTypeOK, EndsSingle, Settles, Live, Current, Credential, IssueRun
<1>2. run'[r] = Over(run[r]) /\ \A s \in Run \ {r} : run'[s] = run[s]
  BY <1>1 DEF EndsSingle, SingleEnds
<1>3. ~Live(r)'
  BY <1>1, <1>2, OverRemembers DEF Live
<1>. QED
  BY <1>1, <1>2, <1>3, EndedSends DEF EndsSingle, SingleEnds, Settles

LEMMA EndsRowSends ==
  ASSUME RunsInv, RunsInv', Recalled, SendingInv, NEW r \in Run,
         NEW outcome \in {"success", "error"}, EndsRow(r, outcome)
  PROVE  SendingInv'
<1>1. /\ run \in [Run -> IssueRun \cup {None}] /\ run[r] # None /\ Sensible(r) /\ Loops(r)
      /\ run[r] \in IssueRun /\ ConsoleTypeOK /\ SendsOnce(r) /\ Live(r)
      /\ run[r].row \in DOMAIN run[r].status /\ run[r].status \in Table
  BY DEF RunsInv, ConsoleTypeOK, EndsRow, Settles, Live, Loops, Sensible, IssueRun, SendingInv
<1>2. Current(r) \in Credential /\ \A i \in DOMAIN run[r].status : <<r, i>> \in Credential
  BY <1>1, RowsOfTable DEF Current, Credential, IssueRun
<1>3. UNCHANGED <<stored, serverSent, walletSent>> /\ registered' \subseteq registered \cup {Current(r)}
  BY DEF EndsRow, Settles
<1>4. CASE LastRow(r, outcome)
  <2>1. run'[r] = Over(run[r]) /\ \A s \in Run \ {r} : run'[s] = run[s]
    BY <1>1, <1>4 DEF LastRow
  <2>2. ~Live(r)'
    BY <1>1, <2>1, OverRemembers DEF Live
  <2>. QED
    BY <1>1, <1>2, <1>3, <1>4, <2>1, <2>2, EndedSends DEF LastRow
<1>5. ASSUME NEW next \in DOMAIN run[r].status, NextRow(r, outcome, next) PROVE SendingInv'
  <2>1. PICK x \in IssueRun :
           /\ run' = [run EXCEPT ![r] = x]
           /\ x.mode = run[r].mode /\ x.mount = run[r].mount
           /\ x.upload = run[r].upload /\ x.methods = run[r].methods
           /\ x.phase = FirstPhase(run[r].methods) /\ x.row = next
           /\ x.status = Begun(r, outcome, next)
           /\ DOMAIN x.status = DOMAIN run[r].status
           /\ \A i \in DOMAIN x.status :
                x.status[i] = IF i = next THEN "issuing"
                              ELSE IF i = run[r].row THEN outcome ELSE run[r].status[i]
    BY <1>1, <1>5, NextRowLeaves
  <2>2. run'[r] = x /\ run'[r] # None /\ \A s \in Run \ {r} : run'[s] = run[s]
    BY <1>1, <2>1, RunBecomes
  <2>3. /\ requests' = IF x.phase = "post" THEN requests \cup {<<r, next>>} ELSE requests
        /\ x.phase \in {"preview", "post"} /\ run[r].status[next] = "pending"
    BY <1>5, <2>1 DEF NextRow, Sends, FirstPhase
  <2>4. Untouched(<<r, next>>)
    BY <1>1, <2>3 DEF SendsOnce
  <2>5. Named(<<r, next>>) /\ Named(Current(r))
    BY <1>1, <1>2 DEF Named, Current
  <2>6. AllNamed'
    <3>1. \A c : Named(c) => Named(c)'
      BY NamedLasts
    <3>. QED
      BY <1>3, <2>3, <2>5, <3>1 DEF AllNamed, SendingInv
  <2>7. NoSecondTransaction' /\ \A c \in requests' : c \notin serverSent' /\ c \notin walletSent'
    BY <1>3, <2>3, <2>4 DEF SendingInv, NoSecondTransaction, Untouched
  <2>8. ASSUME NEW s \in Run, s # r PROVE SendsOnce(s)'
    <3>1. \A c : c[1] # r => (c \in requests' <=> c \in requests) /\ (c \in serverSent' <=> c \in serverSent)
                                /\ (c \in walletSent' <=> c \in walletSent)
      BY <1>3, <2>3
    <3>. QED
      BY <2>2, <2>8, <3>1, OthersSend DEF SendingInv
  <2>9. SendsOnce(r)'
    <3>1. Current(r)' = <<r, next>>
      BY <2>1, <2>2 DEF Current
    <3>2. ASSUME NEW i \in DOMAIN x.status, x.status[i] = "pending" PROVE Untouched(<<r, i>>)'
      <4>1. i # next /\ run[r].status[i] = "pending"
        BY <2>1, <3>2
      <4>2. Untouched(<<r, i>>) /\ <<r, i>> # <<r, next>>
        BY <1>1, <2>1, <4>1 DEF SendsOnce
      <4>. QED
        BY <1>3, <2>3, <4>2 DEF Untouched
    <3>. QED
      BY <1>3, <2>2, <2>3, <2>4, <3>1, <3>2 DEF SendsOnce, Untouched
  <2>. QED
    BY <2>6, <2>7, <2>8, <2>9 DEF SendingInv
<1>. QED
  BY <1>1, <1>4, <1>5, RowEndsEither DEF EndsRow

\* A click that was not made before begins with credentials nobody has touched.
LEMMA BeginSends ==
  ASSUME RunsInv, Recalled, SendingInv, NEW r \in Run, run[r] = None, run'[r] # None,
         NEW x \in IssueRun, run'[r] = x, \A s \in Run \ {r} : run'[s] = run[s],
         UNCHANGED <<stored, registered, serverSent, walletSent>>,
         x.phase \in {"preview", "post", "over"},
         \A i \in DOMAIN x.status : x.status[i] = "pending" => i # x.row,
         requests' = IF x.phase = "post" THEN requests \cup {<<r, x.row>>} ELSE requests
  PROVE  SendingInv'
<1>1. \A i : Untouched(<<r, i>>)
  BY DEF Untouched, SendingInv, AllNamed, Named
<1>2. <<r, x.row>> \in Credential
  BY DEF Credential, IssueRun
<1>3. AllNamed'
  <2>1. \A c : Named(c) => Named(c)'
    BY NamedLasts
  <2>2. Named(<<r, x.row>>)'
    BY <1>2 DEF Named
  <2>. QED
    BY <2>1, <2>2 DEF AllNamed, SendingInv
<1>4. NoSecondTransaction' /\ \A c \in requests' : c \notin serverSent' /\ c \notin walletSent'
  BY <1>1 DEF SendingInv, NoSecondTransaction, Untouched
<1>5. ASSUME NEW s \in Run, s # r PROVE SendsOnce(s)'
  <2>1. \A c : c[1] # r => (c \in requests' <=> c \in requests) /\ (c \in serverSent' <=> c \in serverSent)
                              /\ (c \in walletSent' <=> c \in walletSent)
    OBVIOUS
  <2>. QED
    BY <1>5, <2>1, OthersSend DEF SendingInv
<1>6. SendsOnce(r)'
  <2>1. CASE x.phase = "over"
    BY <2>1 DEF SendsOnce, Live
  <2>2. CASE x.phase # "over"
    <3>1. Current(r)' = <<r, x.row>>
      BY DEF Current
    <3>2. \A i \in DOMAIN x.status : x.status[i] = "pending" => Untouched(<<r, i>>)'
      BY <1>1 DEF Untouched
    <3>. QED
      BY <1>1, <2>2, <3>1, <3>2 DEF SendsOnce, Untouched
  <2>. QED
    BY <2>1, <2>2
<1>. QED
  BY <1>3, <1>4, <1>5, <1>6 DEF SendingInv

LEMMA IssueAllSends ==
  ASSUME RunsInv, RunsInv', Recalled, SendingInv, NEW r \in Run,
         NEW methods \in SUBSET IssuingMethod, NEW connected \in BOOLEAN, IssueAll(r, methods, connected)
  PROVE  SendingInv'
<1>1. PICK x \in IssueRun, copy \in Table : Started(r, methods, x, copy)
  BY IssueAllStarts
<1>2. run[r] = None /\ run' = [run EXCEPT ![r] = x] /\ run \in [Run -> IssueRun \cup {None}]
  BY <1>1 DEF Started, Unused, RunsInv, ConsoleTypeOK
<1>3. run'[r] = x /\ run'[r] # None /\ \A s \in Run \ {r} : run'[s] = run[s]
  BY <1>2, RunBecomes
<1>4. UNCHANGED <<stored, registered, serverSent, walletSent>>
  BY DEF IssueAll
<1>5. CASE methods # {}
  <2>1. /\ x.phase \in {"preview", "post", "over"}
        /\ requests' = IF x.phase = "post" THEN requests \cup {<<r, x.row>>} ELSE requests
        /\ \A i \in DOMAIN x.status : x.status[i] = "pending" => i # x.row
    BY <1>1, <1>5 DEF Started, Sends, FirstPhase
  <2>. QED
    BY <1>2, <1>3, <1>4, <2>1, BeginSends
<1>6. CASE methods = {}
  <2>1. x.phase = "over" /\ requests' = requests
    BY <1>1, <1>6 DEF Started
  <2>2. ~Live(r)'
    BY <1>3, <2>1 DEF Live
  <2>3. AllNamed'
    <3>1. \A c : Named(c) => Named(c)'
      BY NamedLasts
    <3>. QED
      BY <1>4, <2>1, <3>1 DEF AllNamed, SendingInv
  <2>4. \A s \in Run : SendsOnce(s)'
    BY <1>3, <1>4, <2>1, <2>2 DEF SendingInv, SendsOnce, Live, Current, Untouched
  <2>. QED
    BY <1>4, <2>1, <2>3, <2>4 DEF SendingInv, NoSecondTransaction
<1>. QED
  BY <1>5, <1>6

LEMMA IssueSingleSends ==
  ASSUME RunsInv, RunsInv', Recalled, SendingInv, NEW r \in Run,
         NEW methods \in SUBSET IssuingMethod, NEW connected \in BOOLEAN, IssueSingle(r, methods, connected)
  PROVE  SendingInv'
<1> DEFINE x == [mode |-> "single", mount |-> panel.mount, upload |-> 0, methods |-> methods,
                 connected |-> connected, phase |-> FirstPhase(methods), row |-> 0, status |-> <<>>]
<1>1. /\ run[r] = None /\ run' = [run EXCEPT ![r] = x] /\ panel.mount \in Nat
      /\ run \in [Run -> IssueRun \cup {None}]
  BY DEF Unused, IssueSingle, RunsInv, ConsoleTypeOK, PanelState
<1>2. x \in IssueRun
  BY <1>1, NoRows DEF IssueRun, FirstPhase
<1>3. x.phase = FirstPhase(methods) /\ x.row = 0 /\ DOMAIN x.status = {}
  BY NoRows
<1> HIDE DEF x
<1>4. run'[r] = x /\ run'[r] # None /\ \A s \in Run \ {r} : run'[s] = run[s]
  BY <1>1, <1>2, RunBecomes
<1>5. /\ x.phase \in {"preview", "post", "over"}
      /\ requests' = IF x.phase = "post" THEN requests \cup {<<r, x.row>>} ELSE requests
      /\ UNCHANGED <<stored, registered, serverSent, walletSent>>
  BY <1>3 DEF IssueSingle, Sends, FirstPhase
<1>. QED
  BY <1>1, <1>2, <1>3, <1>4, <1>5, BeginSends

LEMMA ServePostSends ==
  ASSUME RunsInv, RunsInv', Recalled, SendingInv, NEW c \in requests, NEW reply \in Reply, ServePost(c, reply)
  PROVE  SendingInv'
<1> DEFINE r == c[1]
<1>1. /\ r \in Run /\ c \in Credential /\ run \in [Run -> IssueRun \cup {None}] /\ c = <<r, c[2]>>
      /\ Named(c) /\ walletSent' = walletSent /\ requests' = requests \ {c}
      /\ run[r] \in IssueRun /\ c \notin serverSent /\ c \notin walletSent
  BY DEF RunsInv, ConsoleTypeOK, Credential, ServePost, SendingInv, AllNamed, Named
<1>2. /\ serverSent' = serverSent \/ serverSent' = serverSent \cup {c}
      /\ reply = "wallet" => serverSent' = serverSent
      /\ stored' \subseteq stored \cup {c} /\ registered' \subseteq registered \cup {c}
  BY DEF ServePost
<1>3. AllNamed'
  <2>1. \A d : Named(d) => Named(d)'
    BY NamedLasts
  <2>. QED
    BY <1>1, <1>2, <2>1 DEF AllNamed, SendingInv
<1>4. NoSecondTransaction' /\ \A d \in requests' : d \notin serverSent' /\ d \notin walletSent'
  BY <1>1, <1>2 DEF SendingInv, NoSecondTransaction
<1>5. \A d : Untouched(d) => Untouched(d)'
  BY <1>1, <1>2 DEF Untouched
<1>6. CASE At(r, "post") /\ Current(r) = c
  <2>1. Moves(r, reply) /\ run[r] # None
    BY <1>6 DEF ServePost, Moves, At
  <2>2. PICK x \in IssueRun :
           /\ run' = [run EXCEPT ![r] = x]
           /\ x.mode = run[r].mode /\ x.mount = run[r].mount /\ x.upload = run[r].upload
           /\ x.methods = run[r].methods /\ x.row = run[r].row /\ x.status = run[r].status
           /\ x.phase = reply
    <3>1. r \in Run /\ run \in [Run -> IssueRun \cup {None}]
      BY <1>1
    <3> HIDE DEF r
    <3>. QED
      BY <2>1, <3>1, RunMoves
  <2>3. run'[r] = x /\ run'[r] # None /\ \A s \in Run \ {r} : run'[s] = run[s]
    <3> HIDE DEF r
    <3>. QED
      BY <1>1, <2>2, RunBecomes
  <2>4. ASSUME NEW s \in Run, s # r PROVE SendsOnce(s)'
    <3>1. \A d : d[1] # r => (d \in requests' <=> d \in requests) /\ (d \in serverSent' <=> d \in serverSent)
                                /\ (d \in walletSent' <=> d \in walletSent)
      BY <1>1, <1>2
    <3> HIDE DEF r
    <3>. QED
      BY <1>1, <2>3, <2>4, <3>1, OthersSend DEF SendingInv
  <2>5. SendsOnce(r)'
    <3>1. Current(r)' = c
      BY <1>6, <2>2, <2>3 DEF Current
    <3>2. Live(r) /\ SendsOnce(r)
      BY <1>1, <1>6 DEF At, Live, SendingInv
    <3>3. \A i \in DOMAIN x.status : x.status[i] = "pending" => Untouched(<<r, i>>)'
      BY <1>5, <2>2, <3>2 DEF SendsOnce
    <3>4. c \notin requests'
      BY <1>1
    <3> HIDE DEF r
    <3>. QED
      BY <1>1, <1>2, <2>2, <2>3, <3>1, <3>3, <3>4 DEF SendsOnce, Reply
  <2>. QED
    BY <1>3, <1>4, <2>4, <2>5 DEF SendingInv
<1>7. CASE ~(At(r, "post") /\ Current(r) = c)
  <2>1. run' = run
    BY <1>7 DEF ServePost
  <2>2. ASSUME NEW s \in Run PROVE SendsOnce(s)'
    <3>1. SendsOnce(s)
      BY DEF SendingInv
    <3>2. Live(s) => Current(s) # c
      BY <1>7, <3>1 DEF SendsOnce, At, Live, Current
    <3>3. \A d : d # c => (d \in requests' <=> d \in requests) /\ (d \in serverSent' <=> d \in serverSent)
      BY <1>1, <1>2
    <3>4. Current(s)' = Current(s) /\ Live(s)' = Live(s)
      BY <2>1 DEF Current, Live
    <3>. QED
      BY <1>5, <2>1, <3>1, <3>2, <3>3, <3>4 DEF SendsOnce
  <2>. QED
    BY <1>3, <1>4, <2>2 DEF SendingInv
<1>. QED
  BY <1>6, <1>7

-----------------------------------------------------------------------------
(***************************************************************************)
(* No upload is issued twice.  A panel that says that it issues nothing is *)
(* the panel of no run that goes on, and offers rows that no run has seen. *)
(***************************************************************************)

\* An upload whose rows no click has issued; a batch in the panel it was started in.
Fresh(u) == \A r \in Run : run[r] # None => run[r].upload # u

InPanel(r) == Loops(r) /\ Mounted(r)

OfferedInv ==
  /\ UploadIssuedOnce
  /\ \A r \in Run : InPanel(r) => panel.issuing
  /\ \A r, s \in Run : InPanel(r) /\ InPanel(s) => r = s
  /\ \A u \in panel.parsing : Fresh(u) /\ (panel.rows # None => panel.rows.upload # u)
  /\ panel.rows # None =>
       \/ panel.issuing \/ Fresh(panel.rows.upload)
       \/ \A i \in DOMAIN panel.rows.status : panel.rows.status[i] \in {"success", "error"}

\* No run begins, and those that go on are in the panel they were in.
Later ==
  \A s \in Run : /\ run[s] = None => run'[s] = None
                 /\ Live(s)' => Live(s) /\ run'[s].mount = run[s].mount

LEMMA LaterOffers ==
  ASSUME Recalled, OfferedInv, Later
  PROVE  /\ UploadIssuedOnce' /\ \A u : Fresh(u) => Fresh(u)'
         /\ \A s \in Run : page'.mode = page.mode /\ panel'.mount = panel.mount /\ InPanel(s)' => InPanel(s)
<1>1. \A s \in Run : run'[s] # None => run[s] # None /\ run'[s].upload = run[s].upload
                                       /\ run'[s].mode = run[s].mode
  BY DEF Recalled, Later
<1>2. UploadIssuedOnce' /\ \A u : Fresh(u) => Fresh(u)'
  BY <1>1 DEF OfferedInv, UploadIssuedOnce, Fresh
<1>3. ASSUME NEW s \in Run, page'.mode = page.mode, panel'.mount = panel.mount, InPanel(s)'
      PROVE  InPanel(s)
  <2>1. Live(s)' /\ run'[s] # None
    BY <1>3 DEF InPanel, Loops, Live
  <2>. QED
    BY <1>1, <1>3, <2>1 DEF InPanel, Loops, Batch, Mounted, Later
<1>. QED
  BY <1>2, <1>3

LEMMA QuietOffers ==
  ASSUME Recalled, OfferedInv, Later, panel' = panel, page'.mode = page.mode PROVE OfferedInv'
BY LaterOffers DEF OfferedInv

LEMMA GoesOnOffers ==
  ASSUME RunsInv, Recalled, OfferedInv, NEW r \in Run, GoesOn(r) PROVE OfferedInv'
<1>1. /\ run \in [Run -> IssueRun \cup {None}] /\ run[r] # None /\ page \in PageState /\ Live(r)
  BY DEF RunsInv, ConsoleTypeOK, GoesOn, Live
<1>2. PICK phase \in {"post", "signing", "mining"} : Moves(r, phase)
  BY DEF GoesOn, AsksServer, AsksWallet, WaitsForMining
<1>3. PICK x \in IssueRun :
         /\ run' = [run EXCEPT ![r] = x]
         /\ x.mode = run[r].mode /\ x.mount = run[r].mount /\ x.upload = run[r].upload
         /\ x.methods = run[r].methods /\ x.row = run[r].row /\ x.status = run[r].status
         /\ x.phase = phase
  BY <1>1, <1>2, RunMoves
<1>4. run'[r] = x /\ \A s \in Run \ {r} : run'[s] = run[s]
  BY <1>1, <1>3, RunBecomes
<1>5. Later
  BY <1>1, <1>3, <1>4 DEF Later, Live
<1>6. page'.mode = page.mode
  BY <1>1 DEF GoesOn, AsksServer, AsksWallet, WaitsForMining, PageState
<1>. QED
  BY <1>5, <1>6, QuietOffers DEF GoesOn

LEMMA EndsSingleOffers ==
  ASSUME RunsInv, Recalled, OfferedInv, NEW r \in Run, NEW p \in PageState, EndsSingle(r, p)
  PROVE  OfferedInv'
<1>1. /\ run \in [Run -> IssueRun \cup {None}] /\ run[r] # None /\ run[r] \in IssueRun
  BY DEF RunsInv, ConsoleTypeOK, EndsSingle, Settles, Live
<1>2. run'[r] = Over(run[r]) /\ \A s \in Run \ {r} : run'[s] = run[s]
  BY <1>1 DEF EndsSingle, SingleEnds
<1>3. Later
  BY <1>1, <1>2, OverRemembers DEF Live, Later
<1>4. page'.mode = page.mode
  BY DEF EndsSingle, SingleEnds, Results, PageState
<1>. QED
  BY <1>3, <1>4, QuietOffers DEF EndsSingle, SingleEnds

LEMMA ServePostOffers ==
  ASSUME RunsInv, Recalled, OfferedInv, NEW c \in requests, NEW reply \in Reply, ServePost(c, reply)
  PROVE  OfferedInv'
<1>1. /\ c[1] \in Run /\ run \in [Run -> IssueRun \cup {None}] /\ UNCHANGED <<page, panel>>
  BY DEF RunsInv, ConsoleTypeOK, Credential, ServePost, browser
<1>2. CASE At(c[1], "post") /\ Current(c[1]) = c
  <2>0. PICK r \in Run : r = c[1]
    BY <1>1
  <2>1. /\ Moves(r, reply) /\ run[r] # None /\ Live(r)
        /\ reply \in {"preview", "post", "signing", "mining", "over"} \cup Reply
    BY <1>2, <2>0 DEF ServePost, Moves, At, Live
  <2>2. PICK x \in IssueRun :
           /\ run' = [run EXCEPT ![r] = x]
           /\ x.mode = run[r].mode /\ x.mount = run[r].mount /\ x.upload = run[r].upload
           /\ x.methods = run[r].methods /\ x.row = run[r].row /\ x.status = run[r].status
           /\ x.phase = reply
    BY <1>1, <2>1, RunMoves
  <2>3. run'[r] = x /\ \A s \in Run \ {r} : run'[s] = run[s]
    BY <1>1, <2>2, RunBecomes
  <2>4. Later
    BY <2>1, <2>2, <2>3 DEF Later, Live
  <2>. QED
    BY <1>1, <2>4, QuietOffers
<1>3. CASE ~(At(c[1], "post") /\ Current(c[1]) = c)
  <2>1. run' = run
    BY <1>3 DEF ServePost
  <2>. QED
    BY <1>1, <2>1, QuietOffers DEF Later, Live
<1>. QED
  BY <1>2, <1>3

LEMMA EndsRowOffers ==
  ASSUME RunsInv, Recalled, OfferedInv, NEW r \in Run,
         NEW outcome \in {"success", "error"}, EndsRow(r, outcome)
  PROVE  OfferedInv'
<1>1. /\ run \in [Run -> IssueRun \cup {None}] /\ run[r] # None /\ Sensible(r) /\ Loops(r) /\ Live(r)
      /\ run[r] \in IssueRun /\ ConsoleTypeOK /\ page \in PageState
      /\ run[r].row \in DOMAIN run[r].status /\ run[r].status \in Table
  BY DEF RunsInv, ConsoleTypeOK, EndsRow, Settles, Live, Loops, Sensible, IssueRun
<1>2. Outcomes(r, outcome) \in Table /\ DOMAIN Outcomes(r, outcome) = DOMAIN run[r].status
  BY <1>1, RowsOfTable DEF Outcomes
<1>3. CASE LastRow(r, outcome)
  <2>1. run'[r] = Over(run[r]) /\ \A s \in Run \ {r} : run'[s] = run[s]
    BY <1>1, <1>3 DEF LastRow
  <2>2. ~Live(r)' /\ Later
    BY <1>1, <2>1, OverRemembers DEF Live, Later
  <2>3. page'.mode = page.mode
    BY <1>1, <1>3 DEF LastRow, EndOfBatch, PageState
  <2>4. CASE ~Mounted(r)
    BY <1>3, <2>2, <2>3, <2>4, QuietOffers DEF LastRow, Shows
  <2>5. CASE Mounted(r)
    <3>1. Shows(r, Outcomes(r, outcome), FALSE)
      BY <1>3 DEF LastRow
    <3>2. /\ panel'.rows = [upload |-> run[r].upload, status |-> Outcomes(r, outcome)]
          /\ panel'.mount = panel.mount /\ panel'.parsing = panel.parsing
      BY <1>1, <1>2, <2>5, <3>1, ShowsTyped
    <3>3. /\ panel'.rows.upload = run[r].upload /\ panel'.rows.status = Outcomes(r, outcome)
      BY <3>2
    <3>4. \A s \in Run : ~InPanel(s)'
      <4>1. InPanel(r)
        BY <1>1, <2>5 DEF InPanel
      <4>2. ASSUME NEW s \in Run, InPanel(s)' PROVE FALSE
        <5>1. InPanel(s) /\ Live(s)'
          BY <2>2, <2>3, <3>2, <4>2, LaterOffers DEF InPanel, Loops
        <5>. QED
          BY <2>2, <4>1, <5>1 DEF OfferedInv
      <4>. QED
        BY <4>2
    <3>5. \A i \in DOMAIN Outcomes(r, outcome) : Outcomes(r, outcome)[i] \in {"success", "error"}
      BY <1>2, <1>3 DEF LastRow
    <3>6. \A u \in panel'.parsing : Fresh(u)' /\ panel'.rows.upload # u
      <4>1. \A u \in panel.parsing : Fresh(u) /\ Fresh(u)'
        BY <2>2, LaterOffers DEF OfferedInv
      <4>. QED
        BY <1>1, <3>2, <3>3, <4>1 DEF Fresh
    <3>7. UploadIssuedOnce'
      BY <2>2, LaterOffers
    <3>. QED
      BY <3>3, <3>4, <3>5, <3>6, <3>7 DEF OfferedInv
  <2>. QED
    BY <2>4, <2>5
<1>4. ASSUME NEW next \in DOMAIN run[r].status, NextRow(r, outcome, next) PROVE OfferedInv'
  <2>1. PICK x \in IssueRun :
           /\ run' = [run EXCEPT ![r] = x]
           /\ x.mode = run[r].mode /\ x.mount = run[r].mount
           /\ x.upload = run[r].upload /\ x.methods = run[r].methods
           /\ x.phase = FirstPhase(run[r].methods) /\ x.row = next
           /\ x.status = Begun(r, outcome, next)
           /\ DOMAIN x.status = DOMAIN run[r].status
           /\ \A i \in DOMAIN x.status :
                x.status[i] = IF i = next THEN "issuing"
                              ELSE IF i = run[r].row THEN outcome ELSE run[r].status[i]
    BY <1>1, <1>4, NextRowLeaves
  <2>2. run'[r] = x /\ run'[r] # None /\ \A s \in Run \ {r} : run'[s] = run[s]
    BY <1>1, <2>1, RunBecomes
  <2>3. Later
    BY <1>1, <2>1, <2>2 DEF Live, Later
  <2>4. page' = page
    BY <1>4 DEF NextRow
  <2>5. CASE ~Mounted(r)
    BY <1>4, <2>3, <2>4, <2>5, QuietOffers DEF NextRow, Shows
  <2>6. CASE Mounted(r)
    <3>1. Shows(r, Begun(r, outcome, next), TRUE) /\ Begun(r, outcome, next) \in Table
      BY <1>4, <2>1 DEF NextRow, IssueRun
    <3>2. /\ panel'.rows = [upload |-> run[r].upload, status |-> Begun(r, outcome, next)]
          /\ panel'.mount = panel.mount /\ panel'.parsing = panel.parsing /\ panel'.issuing = TRUE
      BY <1>1, <2>6, <3>1, ShowsTyped
    <3>3. panel'.rows.upload = run[r].upload
      BY <3>2
    <3>4. \A s, t \in Run : InPanel(s)' /\ InPanel(t)' => s = t
      BY <2>3, <2>4, <3>2, LaterOffers DEF OfferedInv
    <3>5. \A u \in panel'.parsing : Fresh(u)' /\ panel'.rows.upload # u
      <4>1. \A u \in panel.parsing : Fresh(u) /\ Fresh(u)'
        BY <2>3, LaterOffers DEF OfferedInv
      <4>. QED
        BY <1>1, <3>2, <3>3, <4>1 DEF Fresh
    <3>6. UploadIssuedOnce'
      BY <2>3, LaterOffers
    <3>. QED
      BY <3>2, <3>4, <3>5, <3>6 DEF OfferedInv
  <2>. QED
    BY <2>5, <2>6
<1>. QED
  BY <1>1, <1>3, <1>4, RowEndsEither DEF EndsRow

LEMMA IssueSingleOffers ==
  ASSUME RunsInv, Recalled, OfferedInv, NEW r \in Run,
         NEW methods \in SUBSET IssuingMethod, NEW connected \in BOOLEAN, IssueSingle(r, methods, connected)
  PROVE  OfferedInv'
<1> DEFINE x == [mode |-> "single", mount |-> panel.mount, upload |-> 0, methods |-> methods,
                 connected |-> connected, phase |-> FirstPhase(methods), row |-> 0, status |-> <<>>]
<1>1. /\ run[r] = None /\ run' = [run EXCEPT ![r] = x] /\ panel' = panel /\ panel.mount \in Nat
      /\ run \in [Run -> IssueRun \cup {None}] /\ page \in PageState /\ page'.mode = page.mode
  BY DEF Unused, IssueSingle, Cleared, RunsInv, ConsoleTypeOK, PanelState, PageState
<1>2. x \in IssueRun
  BY <1>1, NoRows DEF IssueRun, FirstPhase
<1>3. x.upload = 0 /\ x.mode = "single"
  OBVIOUS
<1> HIDE DEF x
<1>4. run'[r] = x /\ run'[r] # None /\ \A s \in Run \ {r} : run'[s] = run[s]
  BY <1>1, <1>2, RunBecomes
<1>5. \A u \in DOMAIN uploads : u # 0
  BY LenProperties DEF RunsInv, ConsoleTypeOK
<1>6. \A u \in DOMAIN uploads : Fresh(u) => Fresh(u)'
  BY <1>3, <1>4, <1>5 DEF Fresh
<1>7. \A s \in Run : InPanel(s)' => InPanel(s)
  BY <1>1, <1>3, <1>4 DEF InPanel, Loops, Live, Batch, Mounted
<1>8. UploadIssuedOnce'
  BY <1>3, <1>4 DEF OfferedInv, UploadIssuedOnce
<1>9. panel.rows # None => panel.rows.upload \in DOMAIN uploads
  BY DEF RunsInv, PanelSensible
<1>. QED
  BY <1>1, <1>6, <1>7, <1>8, <1>9 DEF OfferedInv, RunsInv

LEMMA IssueAllOffers ==
  ASSUME RunsInv, Recalled, OfferedInv, NEW r \in Run,
         NEW methods \in SUBSET IssuingMethod, NEW connected \in BOOLEAN, IssueAll(r, methods, connected)
  PROVE  OfferedInv'
<1>1. PICK x \in IssueRun, copy \in Table : Started(r, methods, x, copy)
  BY IssueAllStarts
<1>2. /\ run[r] = None /\ run' = [run EXCEPT ![r] = x] /\ run \in [Run -> IssueRun \cup {None}]
      /\ page \in PageState /\ ~panel.issuing /\ panel.rows # None /\ page.mode = "batch"
      /\ x.upload = panel.rows.upload
  BY <1>1 DEF Started, Unused, CanIssueAll, ClearOffered, RunsInv, ConsoleTypeOK
<1>3. run'[r] = x /\ run'[r] # None /\ \A s \in Run \ {r} : run'[s] = run[s]
  BY <1>2, RunBecomes
<1>4. Fresh(panel.rows.upload)
  <2>1. PICK i \in DOMAIN panel.rows.status : panel.rows.status[i] = "pending"
    BY <1>1 DEF Started, CanIssueAll
  <2>. QED
    BY <1>2, <2>1 DEF OfferedInv
<1>5. UploadIssuedOnce'
  BY <1>2, <1>3, <1>4 DEF OfferedInv, UploadIssuedOnce, Fresh
<1>6. \A s \in Run : InPanel(s)' => s = r
  <2>1. page'.mode = page.mode
    BY <1>2 DEF IssueAll, PageState
  <2>2. panel'.mount = panel.mount
    BY <1>1 DEF Started
  <2>3. ASSUME NEW s \in Run, s # r, InPanel(s)' PROVE FALSE
    <3>1. InPanel(s)
      BY <1>3, <2>1, <2>2, <2>3 DEF InPanel, Loops, Live, Batch, Mounted
    <3>. QED
      BY <1>2, <3>1 DEF OfferedInv
  <2>. QED
    BY <2>3
<1>7. /\ panel'.rows.upload = panel.rows.upload /\ panel'.rows.status = copy
      /\ panel'.parsing = panel.parsing /\ panel'.issuing = (methods # {})
  BY <1>1 DEF Started
<1>8. methods = {} => ~Live(r)' /\ \A i \in DOMAIN copy : copy[i] = "success"
  BY <1>1, <1>3 DEF Started, Live
<1>9. \A u \in panel'.parsing : Fresh(u)' /\ panel'.rows.upload # u
  <2>1. \A u \in panel.parsing : Fresh(u) /\ u # panel.rows.upload
    BY <1>2 DEF OfferedInv
  <2>. QED
    BY <1>2, <1>3, <1>7, <2>1 DEF Fresh
<1>10. \A s \in Run : InPanel(s)' => panel'.issuing
  BY <1>6, <1>7, <1>8 DEF InPanel, Loops
<1>. QED
  BY <1>5, <1>6, <1>7, <1>8, <1>9, <1>10 DEF OfferedInv

LEMMA PageStepOffers == ASSUME RunsInv, RunsInv', Recalled, OfferedInv, PageStep PROVE OfferedInv'
<1>0. /\ page \in PageState /\ panel \in PanelState /\ uploads \in Seq(File)
      /\ run \in [Run -> IssueRun \cup {None}] /\ panel.mount \in Nat /\ Len(uploads) \in Nat
      /\ DOMAIN uploads = 1..Len(uploads)
  BY LenProperties DEF RunsInv, ConsoleTypeOK, PanelState
<1>1. \A n \in Nat : /\ NewPanel(n).mount = n /\ NewPanel(n).rows = None
                     /\ NewPanel(n).parsing = {} /\ ~NewPanel(n).issuing
  BY DEF NewPanel
<1>2. CASE LoadTemplates
  <2>1. UNCHANGED <<page, panel, run>>
    BY <1>2 DEF LoadTemplates
  <2>. QED
    BY <2>1, QuietOffers DEF Later, Live
<1>3. ASSUME panel'.rows = None, panel'.parsing = {}, \A s \in Run : ~InPanel(s)', Later PROVE OfferedInv'
  BY <1>3, LaterOffers DEF OfferedInv
<1>4. CASE OpenBatch
  <2>1. panel' = NewPanel(panel.mount + 1) /\ run' = run
    BY <1>4 DEF OpenBatch
  <2>2. ASSUME NEW s \in Run, InPanel(s)' PROVE FALSE
    <3>1. run[s] # None /\ run[s].mount = panel.mount + 1
      BY <1>0, <1>1, <2>1, <2>2 DEF InPanel, Loops, Live, Mounted
    <3>2. run[s].mount <= panel.mount /\ run[s].mount \in Nat
      BY <1>0, <3>1 DEF RunsInv, Sensible, IssueRun
    <3>. QED
      BY <1>0, <3>1, <3>2
  <2>3. panel'.rows = None /\ panel'.parsing = {}
    BY <1>0, <1>1, <2>1
  <2>. QED
    BY <1>3, <2>1, <2>2, <2>3 DEF Later, Live
<1>5. CASE OpenSingle
  <2>1. panel' = NewPanel(panel.mount) /\ run' = run /\ page'.mode = "single"
    BY <1>0, <1>5 DEF OpenSingle, PageState
  <2>. QED
    BY <1>0, <1>1, <1>3, <2>1 DEF Later, Live, InPanel, Mounted
<1>6. CASE Reload
  <2>1. panel' = NewPanel(panel.mount) /\ page'.mode = "single"
    BY <1>6 DEF Reload, NewPage
  <2>2. Later
    <3>1. ASSUME NEW s \in Run PROVE (run[s] = None => run'[s] = None) /\ ~Live(s)'
      BY <1>0, <1>6, OverRemembers DEF Reload, Live
    <3>. QED
      BY <3>1 DEF Later
  <2>. QED
    BY <1>0, <1>1, <1>3, <2>1, <2>2 DEF InPanel, Mounted
<1>7. ASSUME run' = run, panel'.mount = panel.mount, panel'.issuing = panel.issuing, page'.mode = page.mode
      PROVE  /\ UploadIssuedOnce' /\ \A u : Fresh(u) => Fresh(u)'
             /\ \A s \in Run : InPanel(s)' => panel'.issuing
             /\ \A s, t \in Run : InPanel(s)' /\ InPanel(t)' => s = t
  BY <1>7, LaterOffers DEF OfferedInv, Later, Live
<1>8. CASE Clear
  <2>1. /\ run' = run /\ panel'.mount = panel.mount /\ panel'.issuing = panel.issuing
        /\ page'.mode = page.mode /\ panel'.rows = None /\ panel'.parsing = panel.parsing
    BY <1>0, <1>8 DEF Clear, PageState, PanelState
  <2>. QED
    BY <1>7, <2>1 DEF OfferedInv
<1>9. CASE \E f \in File : UploadFile(f)
  <2>1. /\ run' = run /\ panel'.mount = panel.mount /\ panel'.issuing = panel.issuing
        /\ page'.mode = page.mode /\ panel'.rows = panel.rows
        /\ panel'.parsing = panel.parsing \cup {Len(uploads) + 1}
    BY <1>0, <1>9 DEF UploadFile, PageState, PanelState
  <2>2. Fresh(Len(uploads) + 1)
    <3>1. ASSUME NEW s \in Run, run[s] # None PROVE run[s].upload # Len(uploads) + 1
      <4>1. run[s].upload \in 0..Len(uploads)
        BY <3>1 DEF RunsInv, Sensible
      <4>. QED
        BY <1>0, <4>1
    <3>. QED
      BY <3>1 DEF Fresh
  <2>3. panel.rows # None => panel.rows.upload # Len(uploads) + 1
    <3>1. panel.rows # None => panel.rows.upload \in 1..Len(uploads)
      BY <1>0 DEF RunsInv, PanelSensible
    <3>. QED
      BY <1>0, <3>1
  <2>4. \A u \in panel'.parsing : Fresh(u)' /\ (panel'.rows # None => panel'.rows.upload # u)
    BY <1>7, <2>1, <2>2, <2>3 DEF OfferedInv
  <2>. QED
    BY <1>7, <2>1, <2>4 DEF OfferedInv
<1>10. CASE \E u \in Upload : Parse(u)
  <2>1. PICK u \in Upload : Parse(u)
    BY <1>10
  <2> DEFINE part == [upload |-> u, status |-> [i \in FileRows(u) |-> "pending"]]
  <2>2. /\ run' = run /\ panel'.mount = panel.mount /\ panel'.issuing = panel.issuing
        /\ page'.mode = page.mode /\ panel'.rows \in {panel.rows, part}
        /\ panel'.parsing = panel.parsing \ {u} /\ u \in panel.parsing
    BY <1>0, <2>1 DEF Parse, PanelState
  <2>3. part.upload = u
    OBVIOUS
  <2> HIDE DEF part
  <2>4. Fresh(u) /\ \A v \in panel.parsing : Fresh(v) /\ (panel.rows # None => panel.rows.upload # v)
    BY <2>2 DEF OfferedInv
  <2>5. \A v \in panel'.parsing : Fresh(v)' /\ (panel'.rows # None => panel'.rows.upload # v)
    BY <1>7, <2>2, <2>3, <2>4
  <2>6. CASE panel'.rows = part
    BY <1>7, <2>2, <2>3, <2>4, <2>5, <2>6 DEF OfferedInv
  <2>7. CASE panel'.rows = panel.rows
    BY <1>7, <2>2, <2>5, <2>7 DEF OfferedInv
  <2>. QED
    BY <2>2, <2>6, <2>7
<1>. QED
  BY <1>2, <1>4, <1>5, <1>6, <1>8, <1>9, <1>10 DEF PageStep

-----------------------------------------------------------------------------
(***************************************************************************)
(* What is shown is real.  A row is a success, a file is listed and a      *)
(* result is kept only of what is stored or registered, and the results    *)
(* of the single issue are those of the last click.                        *)
(***************************************************************************)

\* What the rows of the panel, the list beside it and the results below the form
\* say is done has been done; one click at most issues the form.
PanelTrue ==
  panel.rows # None =>
    \A i \in DOMAIN panel.rows.status : panel.rows.status[i] = "success" =>
      \E r \in Run : run[r] # None /\ run[r].upload = panel.rows.upload /\ Fulfilled(<<r, i>>)

ListTrue == \A c \in page.list : Named(c) /\ Fulfilled(c)

ResultsTrue ==
  /\ page.did # None => <<page.did, 0>> \in stored
  /\ page.ethereum # None => /\ page.ethereum.run = page.issued
                             /\ page.ethereum.confirmed => <<page.issued, 0>> \in registered
  /\ page.did # None /\ page.issued # None => page.did = page.issued

Issues(r) == Live(r) /\ ~Batch(r)

SingleTrue ==
  /\ \A r \in Run : Issues(r) => /\ page.issuing /\ page.issued = None /\ page.ethereum = None
                                 /\ page.did \in {None, r}
  /\ \A r, s \in Run : Issues(r) /\ Issues(s) => r = s

ShownInv == (\A r \in Run : Evidence(r)) /\ PanelTrue /\ ListTrue /\ ResultsTrue /\ SingleTrue

Grows == Recalled /\ stored \subseteq stored' /\ registered \subseteq registered'

LEMMA FulfilledLasts == ASSUME Grows, NEW c, Named(c), Fulfilled(c) PROVE Fulfilled(c)' /\ Named(c)'
BY DEF Grows, Recalled, Named, Fulfilled, Credential

\* Evidence, rows and files outlast every step that leaves them alone.
LEMMA EvidenceLasts ==
  ASSUME RunsInv, Grows, NEW s \in Run, Evidence(s), run'[s] = run[s] PROVE Evidence(s)'
<1>1. ASSUME Live(s), NEW i \in DOMAIN run[s].status, Fulfilled(<<s, i>>) PROVE Fulfilled(<<s, i>>)'
  <2>1. run[s].status \in Table /\ run[s] # None
    BY <1>1 DEF RunsInv, ConsoleTypeOK, IssueRun, Live
  <2>2. Named(<<s, i>>)
    BY <2>1, <1>1, RowsOfTable DEF Named, Credential
  <2>. QED
    BY <1>1, <2>2, FulfilledLasts
<1>2. Current(s)' = Current(s) /\ Live(s)' = Live(s)
  BY DEF Current, Live
<1>. QED
  BY <1>1, <1>2 DEF Evidence, Grows

LEMMA RowsLast == ASSUME RunsInv, Grows, PanelTrue, panel'.rows = panel.rows PROVE PanelTrue'
<1>1. ASSUME panel.rows # None, NEW i \in DOMAIN panel.rows.status, NEW r \in Run, run[r] # None,
             run[r].upload = panel.rows.upload, Fulfilled(<<r, i>>)
      PROVE  run'[r] # None /\ run'[r].upload = panel.rows.upload /\ Fulfilled(<<r, i>>)'
  <2>1. panel.rows.status \in Table
    BY <1>1 DEF RunsInv, ConsoleTypeOK, PanelState, PanelRows
  <2>2. Named(<<r, i>>)
    BY <2>1, <1>1, RowsOfTable DEF Named, Credential
  <2>. QED
    BY <1>1, <2>2, FulfilledLasts DEF Grows, Recalled
<1>. QED
  BY <1>1 DEF PanelTrue

LEMMA ListLasts == ASSUME Grows, ListTrue, page'.list \subseteq page.list PROVE ListTrue'
BY FulfilledLasts DEF ListTrue

LEMMA ResultsLast ==
  ASSUME Grows, ResultsTrue, UNCHANGED <<page.did, page.issued, page.ethereum>> PROVE ResultsTrue'
BY DEF ResultsTrue, Grows

\* The single issue outlasts every step in which none begins.
LEMMA SingleLasts ==
  ASSUME SingleTrue, UNCHANGED <<page.did, page.issued, page.ethereum, page.issuing>>,
         \A s \in Run : Issues(s)' => Issues(s)
  PROVE  SingleTrue'
BY DEF SingleTrue

LEMMA GoesOnShows ==
  ASSUME RunsInv, Recalled, ShownInv, NEW r \in Run, GoesOn(r) PROVE ShownInv'
<1>1. /\ run \in [Run -> IssueRun \cup {None}] /\ run[r] # None /\ page \in PageState /\ Live(r)
      /\ Sensible(r) /\ Evidence(r)
  BY DEF RunsInv, ConsoleTypeOK, GoesOn, Live, ShownInv
<1>2. Grows
  BY DEF Grows, GoesOn
<1>3. PICK phase \in {"post", "signing", "mining"} :
         /\ Moves(r, phase)
         /\ phase = "signing" => At(r, "wallet") \/ "did" \notin run[r].methods
         /\ phase = "mining" => At(r, "signing")
  BY DEF GoesOn, AsksServer, AsksWallet, WaitsForMining
<1>4. PICK x \in IssueRun :
         /\ run' = [run EXCEPT ![r] = x]
         /\ x.mode = run[r].mode /\ x.mount = run[r].mount /\ x.upload = run[r].upload
         /\ x.methods = run[r].methods /\ x.row = run[r].row /\ x.status = run[r].status
         /\ x.phase = phase
  BY <1>1, <1>3, RunMoves
<1>5. run'[r] = x /\ run'[r] # None /\ \A s \in Run \ {r} : run'[s] = run[s]
  BY <1>1, <1>4, RunBecomes
<1>6. Evidence(r)'
  <2>1. Current(r)' = Current(r)
    BY <1>4, <1>5 DEF Current
  <2>2. ASSUME NEW i \in DOMAIN run[r].status, run[r].status[i] = "success" PROVE Fulfilled(<<r, i>>)'
    <3>1. run[r].status \in Table
      BY <1>1 DEF IssueRun
    <3>2. Named(<<r, i>>) /\ Fulfilled(<<r, i>>)
      BY <1>1, <2>2, <3>1, RowsOfTable DEF Named, Credential, Evidence
    <3>. QED
      BY <1>2, <3>2, FulfilledLasts
  <2>3. phase \in {"signing", "mining"} /\ "did" \in run[r].methods => Current(r) \in stored
    BY <1>1, <1>3 DEF Evidence, At
  <2>. QED
    BY <1>2, <1>4, <1>5, <2>1, <2>2, <2>3 DEF Evidence, Grows
<1>7. \A s \in Run : Evidence(s)'
  BY <1>2, <1>5, <1>6, EvidenceLasts DEF ShownInv
<1>8. PanelTrue'
  BY <1>2, RowsLast DEF ShownInv, GoesOn
<1>9. \A s \in Run : Issues(s)' => Issues(s)
  BY <1>1, <1>4, <1>5 DEF Issues, Live, Batch
<1>10. CASE page' = page
  BY <1>2, <1>7, <1>8, <1>9, <1>10, ListLasts, ResultsLast, SingleLasts DEF ShownInv
<1>11. CASE ~Batch(r) /\ At(r, "wallet") /\ page' = [page EXCEPT !.did = r]
  <2>1. /\ page'.did = r /\ page'.list = page.list
        /\ UNCHANGED <<page.issued, page.ethereum, page.issuing>>
    BY <1>1, <1>11 DEF PageState
  <2>2. Issues(r) /\ Current(r) = <<r, 0>>
    BY <1>1, <1>11 DEF Issues, Sensible, Current
  <2>3. Current(r) \in stored'
    BY <1>1, <1>2, <1>11 DEF Evidence, At, Grows
  <2>4. page.issued = None /\ page.ethereum = None /\ page.issuing
    BY <2>2 DEF ShownInv, SingleTrue
  <2>5. ResultsTrue'
    BY <2>1, <2>2, <2>3, <2>4 DEF ResultsTrue
  <2>6. SingleTrue'
    BY <1>9, <2>1, <2>2, <2>4 DEF ShownInv, SingleTrue
  <2>7. ListTrue'
    BY <1>2, <2>1, ListLasts DEF ShownInv
  <2>. QED
    BY <1>7, <1>8, <2>5, <2>6, <2>7 DEF ShownInv
<1>. QED
  BY <1>10, <1>11 DEF GoesOn, AsksServer, AsksWallet, WaitsForMining

LEMMA EndsSingleShows ==
  ASSUME RunsInv, Recalled, ShownInv, NEW r \in Run, NEW p \in PageState, EndsSingle(r, p)
  PROVE  ShownInv'
<1>1. /\ run \in [Run -> IssueRun \cup {None}] /\ run[r] # None /\ run[r] \in IssueRun
      /\ Sensible(r) /\ Live(r) /\ Issues(r) /\ Current(r) = <<r, 0>> /\ r # None
  BY NoneAssumption DEF RunsInv, ConsoleTypeOK, EndsSingle, Settles, Live, Issues, Sensible, Current
<1>2. run'[r] = Over(run[r]) /\ \A s \in Run \ {r} : run'[s] = run[s]
  BY <1>1 DEF EndsSingle, SingleEnds
<1>3. ~Live(r)'
  BY <1>1, <1>2, OverRemembers DEF Live
<1>4. Grows
  BY DEF Grows, EndsSingle, Settles
<1>5. \A s \in Run : Evidence(s)'
  BY <1>2, <1>3, <1>4, EvidenceLasts DEF ShownInv, Evidence
<1>6. PanelTrue'
  BY <1>4, RowsLast DEF ShownInv, EndsSingle, SingleEnds
<1>7. /\ page'.did = p.did /\ page'.issued = p.issued /\ page'.ethereum = p.ethereum
      /\ page'.list = p.list
  BY DEF EndsSingle, SingleEnds, PageState
<1>8. ListTrue'
  BY <1>4, <1>7, ListLasts DEF ShownInv, EndsSingle, Results
<1>9. SingleTrue'
  <2>1. ASSUME NEW s \in Run, Issues(s)' PROVE FALSE
    <3>1. s # r
      BY <1>3, <2>1 DEF Issues
    <3>2. Issues(s)
      BY <1>2, <2>1, <3>1 DEF Issues, Live, Batch
    <3>. QED
      BY <1>1, <3>1, <3>2 DEF ShownInv, SingleTrue
  <2>. QED
    BY <2>1 DEF SingleTrue
<1>10. ResultsTrue'
  <2>1. CASE p = page
    BY <1>4, <1>7, <2>1, ResultsLast DEF ShownInv
  <2>2. CASE p # page
    <3>1. page.did \in {None, r} /\ (page.did = r => <<r, 0>> \in stored)
      BY <1>1 DEF ShownInv, SingleTrue, ResultsTrue
    <3>2. p.issued = r /\ p.did \in {page.did, r} /\ (p.did = r => page.did = r \/ <<r, 0>> \in stored)
      BY <1>1, <2>2 DEF EndsSingle, Results
    <3>3. p.ethereum = None \/ (p.ethereum.run = r /\ (p.ethereum.confirmed => <<r, 0>> \in registered'))
      <4>1. \/ p.ethereum = None
            \/ \E confirmed \in BOOLEAN : /\ p.ethereum = [run |-> r, confirmed |-> confirmed]
                                          /\ confirmed => <<r, 0>> \in registered'
        BY <1>1, <2>2 DEF EndsSingle, Results
      <4>2. ASSUME NEW confirmed \in BOOLEAN, p.ethereum = [run |-> r, confirmed |-> confirmed],
                   confirmed => <<r, 0>> \in registered'
            PROVE  p.ethereum.run = r /\ (p.ethereum.confirmed => <<r, 0>> \in registered')
        BY <4>2
      <4>. QED
        BY <4>1, <4>2
    <3>. QED
      BY <1>4, <1>7, <3>1, <3>2, <3>3 DEF ResultsTrue, Grows
  <2>. QED
    BY <2>1, <2>2
<1>. QED
  BY <1>5, <1>6, <1>8, <1>9, <1>10 DEF ShownInv

LEMMA EndsRowShows ==
  ASSUME RunsInv, RunsInv', Recalled, ShownInv, NEW r \in Run,
         NEW outcome \in {"success", "error"}, EndsRow(r, outcome)
  PROVE  ShownInv'
<1>1. /\ run \in [Run -> IssueRun \cup {None}] /\ run[r] # None /\ Sensible(r) /\ Loops(r) /\ Live(r)
      /\ run[r] \in IssueRun /\ ConsoleTypeOK /\ Evidence(r) /\ page \in PageState
      /\ run[r].row \in DOMAIN run[r].status /\ run[r].status \in Table
  BY DEF RunsInv, ConsoleTypeOK, EndsRow, Settles, Live, Loops, Sensible, IssueRun, ShownInv
<1>2. Outcomes(r, outcome) \in Table /\ DOMAIN Outcomes(r, outcome) = DOMAIN run[r].status
      /\ \A i \in DOMAIN run[r].status :
           Outcomes(r, outcome)[i] = IF i = run[r].row THEN outcome ELSE run[r].status[i]
  BY <1>1, RowsOfTable DEF Outcomes
<1>3. Grows
  BY DEF Grows, EndsRow, Settles
<1>4. \A i \in DOMAIN run[r].status : Named(<<r, i>>)
  BY <1>1, RowsOfTable DEF Named, Credential
<1>5. run'[r] # None /\ run'[r].upload = run[r].upload /\ run'[r].methods = run[r].methods
  BY <1>1 DEF Recalled
<1>6. ASSUME NEW i \in DOMAIN run[r].status, Outcomes(r, outcome)[i] = "success"
      PROVE  Fulfilled(<<r, i>>)' /\ Named(<<r, i>>)'
  <2>1. CASE i = run[r].row
    <3>1. outcome = "success" /\ Current(r) = <<r, i>>
      BY <1>2, <1>6, <2>1 DEF Current
    <3>2. /\ "did" \in run[r].methods => <<r, i>> \in stored'
          /\ "ethereum" \in run[r].methods => <<r, i>> \in registered'
      BY <1>3, <3>1 DEF EndsRow, Settles, Grows
    <3>. QED
      BY <1>4, <1>5, <3>2 DEF Fulfilled, Named
  <2>2. CASE i # run[r].row
    <3>1. run[r].status[i] = "success"
      BY <1>2, <1>6, <2>2
    <3>. QED
      BY <1>1, <1>3, <1>4, <3>1, FulfilledLasts DEF Evidence
  <2>. QED
    BY <2>1, <2>2
<1>7. ASSUME NEW copy \in Table, NEW more \in BOOLEAN, Shows(r, copy, more), DOMAIN copy = DOMAIN run[r].status,
             \A i \in DOMAIN copy : copy[i] = "success" => Outcomes(r, outcome)[i] = "success"
      PROVE  PanelTrue'
  <2>1. CASE Mounted(r)
    <3>1. panel'.rows = [upload |-> run[r].upload, status |-> copy]
      BY <1>1, <1>7, <2>1, ShowsTyped
    <3>2. panel'.rows.upload = run[r].upload /\ panel'.rows.status = copy
      BY <3>1
    <3>. QED
      BY <1>5, <1>6, <1>7, <3>2 DEF PanelTrue
  <2>2. CASE ~Mounted(r)
    <3>1. panel'.rows = panel.rows
      BY <1>7, <2>2 DEF Shows
    <3>. QED
      BY <1>3, <3>1, RowsLast DEF ShownInv
  <2>. QED
    BY <2>1, <2>2
<1>8. CASE LastRow(r, outcome)
  <2>1. run'[r] = Over(run[r]) /\ \A s \in Run \ {r} : run'[s] = run[s]
    BY <1>1, <1>8 DEF LastRow
  <2>2. ~Live(r)'
    BY <1>1, <2>1, OverRemembers DEF Live
  <2>3. \A s \in Run : Evidence(s)'
    BY <1>3, <2>1, <2>2, EvidenceLasts DEF ShownInv, Evidence
  <2>4. PanelTrue'
    BY <1>2, <1>7, <1>8 DEF LastRow
  <2>5. /\ page'.list = {<<r, i>> : i \in {j \in DOMAIN run[r].status : Outcomes(r, outcome)[j] = "success"}}
        /\ UNCHANGED <<page.did, page.issued, page.ethereum, page.issuing>>
    BY <1>1, <1>2, <1>8 DEF LastRow, EndOfBatch, PageState
  <2>6. ListTrue'
    BY <1>6, <2>5 DEF ListTrue
  <2>7. \A s \in Run : Issues(s)' => Issues(s)
    BY <2>1, <2>2 DEF Issues, Live, Batch
  <2>. QED
    BY <1>3, <2>3, <2>4, <2>5, <2>6, <2>7, ResultsLast, SingleLasts DEF ShownInv
<1>9. ASSUME NEW next \in DOMAIN run[r].status, NextRow(r, outcome, next) PROVE ShownInv'
  <2>1. PICK x \in IssueRun :
           /\ run' = [run EXCEPT ![r] = x]
           /\ x.mode = run[r].mode /\ x.mount = run[r].mount
           /\ x.upload = run[r].upload /\ x.methods = run[r].methods
           /\ x.phase = FirstPhase(run[r].methods) /\ x.row = next
           /\ x.status = Begun(r, outcome, next)
           /\ DOMAIN x.status = DOMAIN run[r].status
           /\ \A i \in DOMAIN x.status :
                x.status[i] = IF i = next THEN "issuing"
                              ELSE IF i = run[r].row THEN outcome ELSE run[r].status[i]
    BY <1>1, <1>9, NextRowLeaves
  <2>2. run'[r] = x /\ run'[r] # None /\ \A s \in Run \ {r} : run'[s] = run[s]
    BY <1>1, <2>1, RunBecomes
  <2>3. \A i \in DOMAIN x.status : x.status[i] = "success" => Outcomes(r, outcome)[i] = "success"
    BY <1>2, <2>1
  <2>4. Evidence(r)'
    BY <1>6, <2>1, <2>2, <2>3 DEF Evidence, FirstPhase
  <2>5. \A s \in Run : Evidence(s)'
    BY <1>3, <2>2, <2>4, EvidenceLasts DEF ShownInv
  <2>6. PanelTrue'
    <3>1. x.status \in Table /\ Shows(r, x.status, TRUE)
      BY <1>9, <2>1 DEF NextRow, IssueRun
    <3>. QED
      BY <1>7, <2>1, <2>3, <3>1
  <2>7. page' = page
    BY <1>9 DEF NextRow
  <2>8. \A s \in Run : Issues(s)' => Issues(s)
    BY <1>1, <2>1, <2>2 DEF Issues, Live, Batch, Loops
  <2>. QED
    BY <1>3, <2>5, <2>6, <2>7, <2>8, ListLasts, ResultsLast, SingleLasts DEF ShownInv
<1>. QED
  BY <1>1, <1>8, <1>9, RowEndsEither DEF EndsRow

LEMMA ServePostShows ==
  ASSUME RunsInv, Recalled, ShownInv, NEW c \in requests, NEW reply \in Reply, ServePost(c, reply)
  PROVE  ShownInv'
<1>1. /\ c[1] \in Run /\ run \in [Run -> IssueRun \cup {None}] /\ UNCHANGED <<page, panel>>
  BY DEF RunsInv, ConsoleTypeOK, Credential, ServePost, browser
<1>2. Grows
  BY DEF Grows, ServePost
<1>3. PanelTrue' /\ ListTrue' /\ ResultsTrue'
  BY <1>1, <1>2, RowsLast, ListLasts, ResultsLast DEF ShownInv
<1>4. CASE At(c[1], "post") /\ Current(c[1]) = c
  <2>0. PICK r \in Run : r = c[1]
    BY <1>1
  <2>1. /\ Moves(r, reply) /\ run[r] # None /\ Live(r) /\ Evidence(r)
        /\ reply \in {"preview", "post", "signing", "mining", "over"} \cup Reply
    BY <1>1, <1>4, <2>0 DEF ServePost, Moves, At, Live, ShownInv
  <2>2. PICK x \in IssueRun :
           /\ run' = [run EXCEPT ![r] = x]
           /\ x.mode = run[r].mode /\ x.mount = run[r].mount /\ x.upload = run[r].upload
           /\ x.methods = run[r].methods /\ x.row = run[r].row /\ x.status = run[r].status
           /\ x.phase = reply
    BY <1>1, <2>1, RunMoves
  <2>3. run'[r] = x /\ run'[r] # None /\ \A s \in Run \ {r} : run'[s] = run[s]
    BY <1>1, <2>2, RunBecomes
  <2>4. Current(r)' = c
    BY <1>4, <2>0, <2>2, <2>3 DEF Current
  <2>5. /\ reply # "refused" => c \in stored'
        /\ reply = "registered" => c \in registered'
    BY DEF ServePost
  <2>6. ASSUME NEW i \in DOMAIN run[r].status, run[r].status[i] = "success" PROVE Fulfilled(<<r, i>>)'
    <3>1. run[r].status \in Table
      BY <1>1, <2>1 DEF IssueRun
    <3>2. Named(<<r, i>>) /\ Fulfilled(<<r, i>>)
      BY <1>1, <2>1, <2>6, <3>1, RowsOfTable DEF Named, Credential, Evidence
    <3>. QED
      BY <1>2, <3>2, FulfilledLasts
  <2>7. Evidence(r)'
    BY <2>2, <2>3, <2>4, <2>5, <2>6 DEF Evidence, Reply
  <2>8. \A s \in Run : Evidence(s)'
    BY <1>2, <2>3, <2>7, EvidenceLasts DEF ShownInv
  <2>9. \A s \in Run : Issues(s)' => Issues(s)
    BY <2>1, <2>2, <2>3 DEF Issues, Live, Batch
  <2>. QED
    BY <1>1, <1>3, <2>8, <2>9, SingleLasts DEF ShownInv
<1>5. CASE ~(At(c[1], "post") /\ Current(c[1]) = c)
  <2>1. run' = run
    BY <1>5 DEF ServePost
  <2>2. \A s \in Run : Evidence(s)'
    BY <1>2, <2>1, EvidenceLasts DEF ShownInv
  <2>3. \A s \in Run : Issues(s)' => Issues(s)
    BY <2>1 DEF Issues, Live, Batch
  <2>. QED
    BY <1>1, <1>3, <2>2, <2>3, SingleLasts DEF ShownInv
<1>. QED
  BY <1>4, <1>5

LEMMA IssueAllShows ==
  ASSUME RunsInv, Recalled, ShownInv, NEW r \in Run,
         NEW methods \in SUBSET IssuingMethod, NEW connected \in BOOLEAN, IssueAll(r, methods, connected)
  PROVE  ShownInv'
<1>1. PICK x \in IssueRun, copy \in Table : Started(r, methods, x, copy)
  BY IssueAllStarts
<1>2. /\ run[r] = None /\ run' = [run EXCEPT ![r] = x] /\ run \in [Run -> IssueRun \cup {None}]
      /\ page \in PageState /\ x.upload = panel.rows.upload /\ x.methods = methods /\ x.mode = "batch"
      /\ panel.rows # None /\ panel.rows \in PanelRows
  BY <1>1 DEF Started, Unused, CanIssueAll, ClearOffered, RunsInv, ConsoleTypeOK, PanelState
<1>3. run'[r] = x /\ run'[r] # None /\ \A s \in Run \ {r} : run'[s] = run[s]
  BY <1>2, RunBecomes
<1>4. Grows
  BY DEF Grows, IssueAll
<1>5. /\ panel'.rows.upload = panel.rows.upload /\ panel'.rows.status = copy
      /\ DOMAIN copy = DOMAIN panel.rows.status
  BY <1>1 DEF Started
<1>6. \A i \in DOMAIN copy : <<r, i>> \in Credential
  BY <1>2, <1>5, RowsOfTable DEF Credential
<1>7. Evidence(r)'
  <2>1. CASE methods = {}
    BY <1>1, <1>3, <2>1 DEF Started, Evidence, Live
  <2>2. CASE methods # {}
    <3>1. x.phase \in {"preview", "post"} /\ \A i \in DOMAIN x.status : x.status[i] # "success"
      BY <1>1, <2>2 DEF Started, FirstPhase
    <3>. QED
      BY <1>3, <3>1 DEF Evidence
  <2>. QED
    BY <2>1, <2>2
<1>8. \A s \in Run : Evidence(s)'
  BY <1>3, <1>4, <1>7, EvidenceLasts DEF ShownInv
<1>9. methods = {} => \A i \in DOMAIN copy : Fulfilled(<<r, i>>)' /\ Named(<<r, i>>)'
  BY <1>2, <1>3, <1>6 DEF Fulfilled, Named
<1>10. PanelTrue'
  <2>1. CASE methods = {}
    BY <1>2, <1>3, <1>5, <1>9, <2>1 DEF PanelTrue
  <2>2. CASE methods # {}
    <3>1. \A i \in DOMAIN copy : copy[i] # "success"
      BY <1>1, <2>2 DEF Started
    <3>. QED
      BY <1>5, <3>1 DEF PanelTrue
  <2>. QED
    BY <2>1, <2>2
<1>11. /\ page'.list = IF methods = {} THEN {<<r, i>> : i \in DOMAIN panel.rows.status} ELSE {}
       /\ UNCHANGED <<page.did, page.issued, page.ethereum, page.issuing>>
  BY <1>2 DEF IssueAll, PageState
<1>12. ListTrue'
  BY <1>5, <1>9, <1>11 DEF ListTrue
<1>13. \A s \in Run : Issues(s)' => Issues(s)
  BY <1>2, <1>3 DEF Issues, Live, Batch
<1>. QED
  BY <1>4, <1>8, <1>10, <1>11, <1>12, <1>13, ResultsLast, SingleLasts DEF ShownInv

LEMMA IssueSingleShows ==
  ASSUME RunsInv, Recalled, ShownInv, NEW r \in Run,
         NEW methods \in SUBSET IssuingMethod, NEW connected \in BOOLEAN, IssueSingle(r, methods, connected)
  PROVE  ShownInv'
<1> DEFINE x == [mode |-> "single", mount |-> panel.mount, upload |-> 0, methods |-> methods,
                 connected |-> connected, phase |-> FirstPhase(methods), row |-> 0, status |-> <<>>]
<1>1. /\ run[r] = None /\ run' = [run EXCEPT ![r] = x] /\ panel' = panel /\ panel.mount \in Nat
      /\ run \in [Run -> IssueRun \cup {None}] /\ page \in PageState /\ ~page.issuing
      /\ page'.issuing /\ page'.issued = None /\ page'.did = None /\ page'.ethereum = None
      /\ page'.list = page.list
  BY DEF Unused, IssueSingle, Cleared, CanIssue, RunsInv, ConsoleTypeOK, PanelState, PageState
<1>2. x \in IssueRun
  BY <1>1, NoRows DEF IssueRun, FirstPhase
<1>3. x.phase \in {"preview", "post"} /\ DOMAIN x.status = {} /\ x.mode = "single"
  BY NoRows DEF FirstPhase
<1> HIDE DEF x
<1>4. run'[r] = x /\ run'[r] # None /\ \A s \in Run \ {r} : run'[s] = run[s]
  BY <1>1, <1>2, RunBecomes
<1>5. Grows
  BY DEF Grows, IssueSingle
<1>6. Evidence(r)'
  BY <1>3, <1>4 DEF Evidence
<1>7. \A s \in Run : Evidence(s)'
  BY <1>4, <1>5, <1>6, EvidenceLasts DEF ShownInv
<1>8. PanelTrue' /\ ListTrue' /\ ResultsTrue'
  BY <1>1, <1>5, RowsLast, ListLasts DEF ShownInv, ResultsTrue
<1>9. \A s \in Run : Issues(s)' => s = r
  BY <1>1, <1>4 DEF Issues, Live, Batch, ShownInv, SingleTrue
<1>10. SingleTrue'
  BY <1>1, <1>9 DEF SingleTrue
<1>. QED
  BY <1>7, <1>8, <1>10 DEF ShownInv

LEMMA PageStepShows == ASSUME RunsInv, RunsInv', Recalled, ShownInv, PageStep PROVE ShownInv'
<1>0. /\ page \in PageState /\ panel \in PanelState /\ run \in [Run -> IssueRun \cup {None}]
      /\ panel.mount \in Nat
  BY DEF RunsInv, ConsoleTypeOK, PanelState
<1>1. Grows
  BY PageStepTyped DEF Grows, outside
<1>2. \A n \in Nat : NewPanel(n).rows = None
  BY DEF NewPanel
<1>3. CASE Reload
  <2>1. /\ panel' = NewPanel(panel.mount) /\ page' = NewPage
    BY <1>3 DEF Reload
  <2>2. \A s \in Run : ~Live(s)'
    BY <1>0, <1>3, OverRemembers DEF Reload, Live
  <2>3. /\ page'.list = {} /\ page'.did = None /\ page'.issued = None /\ page'.ethereum = None
    BY <2>1 DEF NewPage
  <2>4. panel'.rows = None
    BY <1>0, <1>2, <2>1
  <2>. QED
    BY <2>2, <2>3, <2>4
       DEF ShownInv, Evidence, PanelTrue, ListTrue, ResultsTrue, SingleTrue, Issues
<1>4. ASSUME run' = run, page'.list \subseteq page.list,
             UNCHANGED <<page.did, page.issued, page.ethereum, page.issuing>>, PanelTrue'
      PROVE  ShownInv'
  <2>1. \A s \in Run : Evidence(s)'
    BY <1>1, <1>4, EvidenceLasts DEF ShownInv
  <2>2. \A s \in Run : Issues(s)' => Issues(s)
    BY <1>4 DEF Issues, Live, Batch
  <2>. QED
    BY <1>1, <1>4, <2>1, <2>2, ListLasts, ResultsLast, SingleLasts DEF ShownInv
<1>5. CASE LoadTemplates
  BY <1>1, <1>4, <1>5, RowsLast DEF LoadTemplates, ShownInv
<1>6. CASE OpenBatch
  <2>1. /\ run' = run /\ panel'.rows = None /\ page'.list = page.list
        /\ UNCHANGED <<page.did, page.issued, page.ethereum, page.issuing>>
    BY <1>0, <1>2, <1>6 DEF OpenBatch, PageState
  <2>. QED
    BY <1>4, <2>1 DEF PanelTrue
<1>7. CASE OpenSingle
  <2>1. /\ run' = run /\ panel'.rows = None /\ page'.list = page.list
        /\ UNCHANGED <<page.did, page.issued, page.ethereum, page.issuing>>
    BY <1>0, <1>2, <1>7 DEF OpenSingle, PageState
  <2>. QED
    BY <1>4, <2>1 DEF PanelTrue
<1>8. CASE Clear
  <2>1. /\ run' = run /\ panel'.rows = None /\ page'.list = {}
        /\ UNCHANGED <<page.did, page.issued, page.ethereum, page.issuing>>
    BY <1>0, <1>8 DEF Clear, PageState, PanelState
  <2>. QED
    BY <1>4, <2>1 DEF PanelTrue
<1>9. CASE \E f \in File : UploadFile(f)
  <2>1. /\ run' = run /\ panel'.rows = panel.rows /\ page'.list = {}
        /\ UNCHANGED <<page.did, page.issued, page.ethereum, page.issuing>>
    BY <1>0, <1>9 DEF UploadFile, PageState, PanelState
  <2>2. PanelTrue'
    BY <1>1, <2>1, RowsLast DEF ShownInv
  <2>. QED
    BY <1>4, <2>1, <2>2
<1>10. CASE \E u \in Upload : Parse(u)
  <2>1. PICK u \in Upload : Parse(u)
    BY <1>10
  <2> DEFINE part == [upload |-> u, status |-> [i \in FileRows(u) |-> "pending"]]
  <2>2. run' = run /\ page' = page /\ panel'.rows \in {panel.rows, part}
    BY <1>0, <2>1 DEF Parse, PanelState
  <2>3. CASE panel'.rows = panel.rows
    BY <1>1, <1>4, <2>2, <2>3, RowsLast DEF ShownInv
  <2>4. CASE panel'.rows = part
    <3>1. \A i \in DOMAIN part.status : part.status[i] # "success"
      OBVIOUS
    <3> HIDE DEF part
    <3>2. PanelTrue'
      BY <2>4, <3>1 DEF PanelTrue
    <3>. QED
      BY <1>4, <2>2, <3>2
  <2>. QED
    BY <2>2, <2>3, <2>4
<1>. QED
  BY <1>3, <1>5, <1>6, <1>7, <1>8, <1>9, <1>10 DEF PageStep

-----------------------------------------------------------------------------

ConsoleInv == RunsInv /\ SendingInv /\ OfferedInv /\ ShownInv

LEMMA ConsoleInvInit == ConsoleInit => ConsoleInv
<1> SUFFICES ASSUME ConsoleInit PROVE ConsoleInv
  OBVIOUS
<1>1. \A r \in Run : run[r] = None
  BY DEF ConsoleInit
<1>2. /\ page.did = None /\ page.issued = None /\ page.ethereum = None /\ page.list = {}
      /\ page \in PageState
  BY DEF ConsoleInit, NewPage, PageState
<1>3. panel.rows = None /\ panel.parsing = {} /\ panel \in PanelState
  BY DEF ConsoleInit, NewPanel, PanelState
<1>4. RunsInv
  BY <1>1, <1>2, <1>3, EmptySeq DEF ConsoleInit, RunsInv, ConsoleTypeOK, PanelSensible, Sensible
<1>5. SendingInv
  BY <1>1 DEF ConsoleInit, SendingInv, AllNamed, NoSecondTransaction, SendsOnce, Live
<1>6. OfferedInv
  BY <1>1, <1>3 DEF OfferedInv, UploadIssuedOnce, InPanel, Loops, Live
<1>7. ShownInv
  BY <1>1, <1>2, <1>3
     DEF ShownInv, Evidence, Live, PanelTrue, ListTrue, ResultsTrue, SingleTrue, Issues
<1>. QED
  BY <1>4, <1>5, <1>6, <1>7 DEF ConsoleInv

LEMMA ConsoleStepInv == ConsoleInv /\ [ConsoleNext]_consoleVars => ConsoleInv'
<1> SUFFICES ASSUME ConsoleInv, [ConsoleNext]_consoleVars PROVE ConsoleInv'
  OBVIOUS
<1>0. RunsInv /\ SendingInv /\ OfferedInv /\ ShownInv
  BY DEF ConsoleInv
<1>1. CASE PageStep
  <2>1. RunsInv' /\ Recalled
    BY <1>0, <1>1, PageStepTyped
  <2>. QED
    BY <1>0, <1>1, <2>1, PageStepSends, PageStepOffers, PageStepShows DEF ConsoleInv
<1>2. ASSUME NEW c \in requests, NEW reply \in Reply, ServePost(c, reply) PROVE ConsoleInv'
  <2>1. RunsInv' /\ Recalled
    BY <1>0, <1>2, ServePostTyped
  <2>. QED
    BY <1>0, <1>2, <2>1, ServePostSends, ServePostOffers, ServePostShows DEF ConsoleInv
<1>3. ASSUME NEW r \in Run, NEW methods \in SUBSET IssuingMethod, NEW connected \in BOOLEAN,
             IssueAll(r, methods, connected)
      PROVE  ConsoleInv'
  <2>1. RunsInv' /\ Recalled
    BY <1>0, <1>3, IssueAllTyped
  <2>2. SendingInv'
    BY <1>0, <1>3, <2>1, IssueAllSends
  <2>3. OfferedInv'
    BY <1>0, <1>3, <2>1, IssueAllOffers
  <2>4. ShownInv'
    BY <1>0, <1>3, <2>1, IssueAllShows
  <2>. QED
    BY <2>1, <2>2, <2>3, <2>4 DEF ConsoleInv
<1>4. ASSUME NEW r \in Run, NEW methods \in SUBSET IssuingMethod, NEW connected \in BOOLEAN,
             IssueSingle(r, methods, connected)
      PROVE  ConsoleInv'
  <2>1. RunsInv' /\ Recalled
    BY <1>0, <1>4, IssueSingleTyped
  <2>2. SendingInv'
    BY <1>0, <1>4, <2>1, IssueSingleSends
  <2>3. OfferedInv'
    BY <1>0, <1>4, <2>1, IssueSingleOffers
  <2>4. ShownInv'
    BY <1>0, <1>4, <2>1, IssueSingleShows
  <2>. QED
    BY <2>1, <2>2, <2>3, <2>4 DEF ConsoleInv
<1>5. ASSUME NEW r \in Run, StepOf(r) PROVE ConsoleInv'
  <2>1. ConsoleTypeOK /\ Sensible(r) /\ Evidence(r)
    BY <1>0 DEF RunsInv, ShownInv
  <2>2. /\ UNCHANGED <<catalog, uploads>>
        /\ \/ GoesOn(r)
           \/ \E outcome \in {"success", "error"} : EndsRow(r, outcome)
           \/ \E p \in PageState : EndsSingle(r, p)
    BY <1>5, <2>1, StepsOfRun
  <2>3. CASE GoesOn(r)
    <3>1. RunsInv' /\ Recalled
      BY <1>0, <2>2, <2>3, GoesOnTyped
    <3>. QED
      BY <1>0, <2>3, <3>1, GoesOnSends, GoesOnOffers, GoesOnShows DEF ConsoleInv
  <2>4. ASSUME NEW outcome \in {"success", "error"}, EndsRow(r, outcome) PROVE ConsoleInv'
    <3>1. RunsInv' /\ Recalled
      BY <1>0, <2>2, <2>4, EndsRowTyped
    <3>. QED
      BY <1>0, <2>4, <3>1, EndsRowSends, EndsRowOffers, EndsRowShows DEF ConsoleInv
  <2>5. ASSUME NEW p \in PageState, EndsSingle(r, p) PROVE ConsoleInv'
    <3>1. RunsInv' /\ Recalled
      BY <1>0, <2>2, <2>5, EndsSingleTyped
    <3>. QED
      BY <1>0, <2>5, <3>1, EndsSingleSends, EndsSingleOffers, EndsSingleShows DEF ConsoleInv
  <2>. QED
    BY <2>2, <2>3, <2>4, <2>5
<1>6. CASE UNCHANGED consoleVars
  <2>1. RunsInv'
    BY <1>0, <1>6 DEF consoleVars, browser, outside, RunsInv, ConsoleTypeOK, PanelSensible, Sensible, Live, Batch
  <2>2. Recalled /\ Grows /\ Later
    BY <1>6 DEF consoleVars, outside, Recalled, Grows, Later, Live
  <2>3. SendingInv'
    BY <1>0, <1>6 DEF consoleVars, outside, SendingInv, AllNamed, Named, NoSecondTransaction, SendsOnce,
                      Live, Current, Untouched
  <2>4. OfferedInv'
    BY <1>0, <1>6, <2>2, QuietOffers DEF consoleVars, browser
  <2>5. \A s \in Run : Evidence(s)' /\ (Issues(s)' => Issues(s))
    BY <1>0, <1>6, <2>2, EvidenceLasts DEF consoleVars, ShownInv, Issues, Live, Batch
  <2>6. ShownInv'
    BY <1>0, <1>6, <2>2, <2>5, RowsLast, ListLasts, ResultsLast, SingleLasts DEF consoleVars, browser, ShownInv
  <2>. QED
    BY <2>1, <2>3, <2>4, <2>6 DEF ConsoleInv
<1>7. CASE ConsoleNext
  <2>1. \/ PageStep
        \/ \E c \in requests, reply \in Reply : ServePost(c, reply)
        \/ \E r \in Run : \/ \E methods \in SUBSET IssuingMethod, connected \in BOOLEAN :
                               IssueAll(r, methods, connected) \/ IssueSingle(r, methods, connected)
                          \/ StepOf(r)
    BY <1>7 DEF ConsoleNext, PageStep, StepOf
  <2>. QED
    BY <1>1, <1>2, <1>3, <1>4, <1>5, <2>1
<1>. QED
  BY <1>6, <1>7

LEMMA ConsoleAlways == ConsoleSpec => []ConsoleInv
BY ConsoleInvInit, ConsoleStepInv, PTL DEF ConsoleSpec

\* Variables hold values of their types (the state of page.tsx and of
\* BatchIssuePanel.tsx).
THEOREM ConsoleTypeCorrect == ConsoleSpec => []ConsoleTypeOK
<1>1. ConsoleInv => ConsoleTypeOK
  BY DEF ConsoleInv, RunsInv
<1>. QED
  BY <1>1, ConsoleAlways, PTL

\* The rows of one upload are issued by one run at most, however panels are
\* cleared, closed and opened again while runs go on (BatchIssuePanel.tsx).
THEOREM UploadIssuedOnceHolds == ConsoleSpec => []UploadIssuedOnce
<1>1. ConsoleInv => UploadIssuedOnce
  BY DEF ConsoleInv, OfferedInv
<1>. QED
  BY <1>1, ConsoleAlways, PTL

\* No credential is sent to a Document Store by the server and by the wallet
\* (handleIssue, handleIssueAll).
THEOREM NoSecondTransactionHolds == ConsoleSpec => []NoSecondTransaction
<1>1. ConsoleInv => NoSecondTransaction
  BY DEF ConsoleInv, SendingInv
<1>. QED
  BY <1>1, ConsoleAlways, PTL

\* What the page shows as issued, signed or registered is what the server and the
\* Document Store hold (handleIssue, handleIssueAll).
THEOREM ShownIsRealHolds == ConsoleSpec => []ShownIsReal
<1>1. ASSUME ConsoleInv PROVE ShownIsReal
  <2> USE <1>1 DEF ConsoleInv, ShownInv
  <2>1. \A i \in RowsShown("success") :
          \E r \in Run : run[r] # None /\ run[r].upload = panel.rows.upload /\ Fulfilled(<<r, i>>)
    BY DEF RowsShown, ClearOffered, PanelTrue
  <2>2. \A c \in FilesOffered : Fulfilled(c)
    BY DEF FilesOffered, ListTrue
  <2>3. SignatureShown => <<page.did, 0>> \in stored
    BY DEF SignatureShown, ResultsTrue
  <2>4. RegistrationShown => page.ethereum.run = Previewed /\ <<Previewed, 0>> \in registered
    BY DEF RegistrationShown, Previewed, ResultsTrue
  <2>5. SignedFileOffered => CurrentCredential = Previewed
    BY DEF SignedFileOffered, CurrentCredential, Previewed, ResultsTrue
  <2>. QED
    BY <2>1, <2>2, <2>3, <2>4, <2>5 DEF ShownIsReal
<1>. QED
  BY <1>1, ConsoleAlways, PTL
=============================================================================
