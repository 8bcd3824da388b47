------------------------- MODULE VerificationProofs -------------------------
(*****************************************************************************)
(* Theorems about the verifier (Verification), for any sets of requests and  *)
(* credentials, about the page that asks it (VerifyPage), and about the      *)
(* document that is verified (CredentialDocument).                           *)
(*****************************************************************************)
EXTENDS Verification, VerifyPage, CredentialDocument, TLAPS, SequenceTheorems

\* Nothing expires before its time.
ExpiredIsOverdue == \A c \in Credential : status[c] = "expired" => c \in overdue

\* What the two lists and the row have shown a request it has witnessed.
Evidence(r) ==
  /\ pc[r] = "idle" => record[r] = "none"
  /\ Running(r) /\ status[target[r]] = "issued" => held[r]
  /\ record[r] = "issued" => held[r]
  /\ pc[r] \in {"list", "signed"} /\ status[target[r]] = "expired" => held[r]
  /\ pc[r] = "signed" /\ purpose[r] = "suspension" /\ ~bit[r] => held[r]
  /\ valid[r] /\ target[r] \in Listed => held[r]
  /\ pc[r] = "verified" => valid[r] /\ record[r] \in {"none", "issued"}
  /\ pc[r] = "idle" => ~valid[r]
  /\ pc[r] \in {"list", "signed"} => target[r] \in Listed

\* What the Document Store has answered it was witnessed to answer.
Registration(r) ==
  /\ pc[r] = "idle" => onChain[r] = "none"
  /\ pc[r] \in {"idle", "lookup", "resolve", "list", "signed"} => asked[r] = {} /\ yes[r] = {}
  /\ Running(r) /\ anchor[target[r]] = "issued" => anchored[r]
  /\ "isIssued" \in yes[r] => anchor[target[r]] # "absent"
  /\ pc[r] = "probe" /\ "isRevoked" \in asked[r] /\ "isRevoked" \notin yes[r]
       => anchored[r] \/ anchor[target[r]] = "absent"
  /\ onChain[r] = "passed" => anchored[r]
  /\ valid[r] /\ target[r] \in ChainDecides => anchored[r]

\* A request nothing has disturbed finds everything in order, or the
\* credential is not in force.
Order(r) ==
  calm[r] /\ InForce(r) =>
    /\ pc[r] # "refused"
    /\ record[r] \in {"none", "issued"}
    /\ pc[r] = "answer" => valid[r]
    /\ pc[r] \in {"list", "signed"} => resolved[r] = methods
    /\ pc[r] = "signed" => ~bit[r]
    /\ pc[r] = "probe" => valid[r] \/ target[r] \in ChainDecides
    /\ target[r] \in ChainDecides =>
         "isRevoked" \notin yes[r] /\ ("isIssued" \in asked[r] => "isIssued" \in yes[r])

RequestInv(r) == Evidence(r) /\ Registration(r) /\ Order(r)

VerificationInv ==
  /\ VerificationTypeOK
  /\ ExpiredIsOverdue
  /\ \A r \in Request : RequestInv(r)

-----------------------------------------------------------------------------
(***************************************************************************)
(* Type correctness.                                                       *)
(***************************************************************************)

\* A transition leads from statuses to statuses.
LEMMA TransitionType ==
  ASSUME TypeOK, NEW c \in Credential, NEW a \in RevocationAction, Transition(c, a)
  PROVE  TypeOK'
BY DEF TypeOK, Transition, StatusForAction, RevocationAction, Status

\* So does the sweep.
LEMMA ExpireType ==
  ASSUME TypeOK, NEW C \in SUBSET Credential, Expire(C)
  PROVE  TypeOK'
BY DEF TypeOK, Expire, Status

\* A bit is a bit.
LEMMA ListBitType == \A p, s : ListBit(p, s) \in BOOLEAN
BY DEF ListBit

\* What a request resolves is in the range of what it may have resolved.
LEMMA MethodsRange ==
  ASSUME DocumentsAssumption, VerificationTypeOK
  PROVE  methods \in 0..(MaxMethods + 1) /\ methods \in Nat \ {0}
<1>1. methods \in 1..(MaxMethods + 1) /\ MaxMethods \in Nat
  BY DEF VerificationTypeOK, DocumentsAssumption
<1> QED
  BY <1>1

\* A request's own step leaves the world and the other requests alone.
Frame(r) ==
  /\ UNCHANGED <<world, target, submitted>>
  /\ \A q \in Request \ {r} :
       /\ pc'[q] = pc[q] /\ record'[q] = record[q] /\ resolved'[q] = resolved[q]
       /\ purpose'[q] = purpose[q] /\ bit'[q] = bit[q] /\ asked'[q] = asked[q]
       /\ yes'[q] = yes[q] /\ valid'[q] = valid[q] /\ onChain'[q] = onChain[q]
       /\ held'[q] = held[q] /\ anchored'[q] = anchored[q] /\ calm'[q] = calm[q]

\* What the conclusion writes, and that it writes nothing else.
LEMMA ConcludeType ==
  ASSUME VerificationTypeOK, NEW r \in Request, Conclude(r)
  PROVE  /\ pc' = [pc EXCEPT ![r] = "answer"]
         /\ onChain' \in [Request -> {"none", "not required", "passed", "failed", "unavailable"}]
         /\ valid' \in [Request -> BOOLEAN]
         /\ \A q \in Request \ {r} : valid'[q] = valid[q] /\ onChain'[q] = onChain[q]
<1> DEFINE passed == yes'[r] = {"isIssued"}
           v == IF target[r] \in ChainDecides THEN passed ELSE valid[r]
<1>1. v \in BOOLEAN /\ valid' = [valid EXCEPT ![r] = v]
  BY DEF Conclude, VerificationTypeOK
<1>2. onChain' = [onChain EXCEPT ![r] = IF passed THEN "passed" ELSE "failed"]
  BY DEF Conclude
<1>3. pc' = [pc EXCEPT ![r] = "answer"]
  BY DEF Conclude, Goto
<1>4. /\ onChain' \in [Request -> {"none", "not required", "passed", "failed", "unavailable"}]
      /\ \A q \in Request \ {r} : onChain'[q] = onChain[q]
  <2> DEFINE o == IF passed THEN "passed" ELSE "failed"
  <2>1. o \in {"passed", "failed"}
    OBVIOUS
  <2> HIDE DEF o
  <2>. QED
    BY <1>2, <2>1 DEF o, VerificationTypeOK
<1> HIDE DEF passed, v
<1>5. valid' \in [Request -> BOOLEAN]
  BY <1>1 DEF VerificationTypeOK
<1>6. \A q \in Request \ {r} : valid'[q] = valid[q]
  BY <1>1 DEF VerificationTypeOK
<1> QED
  BY <1>3, <1>4, <1>5, <1>6

LEMMA StepFrame ==
  ASSUME VerificationTypeOK, NEW r \in Request, Step(r)
  PROVE  Frame(r)
<1> USE DEF VerificationTypeOK, Goto, world, history, Frame
<1>1. CASE Begin(r)
  BY ZenonT(60), <1>1 DEF Begin
<1>2. CASE Reject(r)
  BY <1>2 DEF Reject
<1>3. CASE Lookup(r)
  BY <1>3 DEF Lookup
<1>4. CASE LookupError(r)
  BY ZenonT(60), <1>4 DEF LookupError
<1>5. CASE ResolveIssuer(r)
  BY <1>5 DEF ResolveIssuer
<1>6. CASE RecoverWallet(r)
  BY <1>6 DEF RecoverWallet
<1>7. CASE Snapshot(r)
  BY <1>7 DEF Snapshot
<1>8. CASE CheckList(r)
  BY ZenonT(60), <1>8 DEF CheckList
<1>9. CASE FetchError(r)
  BY ZenonT(60), <1>9 DEF FetchError
<1>10. CASE ProbeIssued(r)
  <2>1. CASE Conclude(r)
    <3> HIDE DEF VerificationTypeOK
    <3>1. /\ pc' = [pc EXCEPT ![r] = "answer"]
          /\ \A q \in Request \ {r} : valid'[q] = valid[q] /\ onChain'[q] = onChain[q]
      BY <2>1, ConcludeType
    <3>. QED
      BY ZenonT(60), <1>10, <3>1 DEF ProbeIssued, VerificationTypeOK
  <2>2. CASE UNCHANGED <<pc, valid, onChain>>
    BY ZenonT(60), <1>10, <2>2 DEF ProbeIssued
  <2>. QED
    BY <1>10, <2>1, <2>2 DEF ProbeIssued
<1>11. CASE ProbeRevoked(r)
  <2>1. CASE Conclude(r)
    <3> HIDE DEF VerificationTypeOK
    <3>1. /\ pc' = [pc EXCEPT ![r] = "answer"]
          /\ \A q \in Request \ {r} : valid'[q] = valid[q] /\ onChain'[q] = onChain[q]
      BY <2>1, ConcludeType
    <3>. QED
      BY ZenonT(60), <1>11, <3>1 DEF ProbeRevoked, VerificationTypeOK
  <2>2. CASE UNCHANGED <<pc, valid, onChain>>
    BY <1>11, <2>2 DEF ProbeRevoked
  <2>. QED
    BY <1>11, <2>1, <2>2 DEF ProbeRevoked
<1>12. CASE ProbeError(r)
  BY ZenonT(60), <1>12 DEF ProbeError
<1>13. CASE Answer(r)
  BY <1>13 DEF Answer
<1>14. CASE Crash(r)
  BY ZenonT(60), <1>14 DEF Crash
<1> QED
  BY <1>1, <1>2, <1>3, <1>4, <1>5, <1>6, <1>7, <1>8, <1>9, <1>10, <1>11, <1>12, <1>13, <1>14 DEF Step

\* Types: every step of a request keeps them.
LEMMA StepType ==
  ASSUME DocumentsAssumption, VerificationTypeOK, NEW r \in Request, Step(r)
  PROVE  VerificationTypeOK'
<1> USE DEF VerificationTypeOK, Goto, world, history, Ended
<1>0. TypeOK'
  BY StepFrame DEF Frame, TypeOK
<1>1. CASE Begin(r)
  BY <1>0, <1>1 DEF Begin
<1>2. CASE Reject(r)
  BY <1>0, <1>2 DEF Reject
<1>3. CASE Lookup(r)
  <2>1. RowSays(target[r]) \in Status
    BY DEF RowSays, TypeOK, Status
  <2>. QED
    BY <1>0, <1>3, <2>1 DEF Lookup
<1>4. CASE LookupError(r)
  BY <1>0, <1>4 DEF LookupError
<1>5. CASE ResolveIssuer(r)
  <2> DEFINE proven == Authorized(SignedBy[target[r]], methods) /\ target[r] \notin overdue
             v == proven /\ target[r] \notin Listed \cup ChainDecides
  <2>1. v \in BOOLEAN /\ valid' = [valid EXCEPT ![r] = v]
    BY <1>5 DEF ResolveIssuer
  <2>2. onChain' = [onChain EXCEPT ![r] = IF v THEN "not required" ELSE "none"]
    BY <1>5 DEF ResolveIssuer
  <2>3. /\ UNCHANGED <<world, target, submitted, record, purpose, bit, asked, yes, history>>
        /\ resolved' = [resolved EXCEPT ![r] = methods]
    BY <1>5 DEF ResolveIssuer
  <2>4. \E label \in {"answer", "list", "probe"} : pc' = [pc EXCEPT ![r] = label]
    BY <1>5 DEF ResolveIssuer
  <2>5. resolved' \in [Request -> 0..(MaxMethods + 1)]
    <3>1. methods \in 0..(MaxMethods + 1)
      BY MethodsRange
    <3>. QED
      BY <2>3, <3>1
  <2> HIDE DEF v, proven
  <2>. QED
    BY ZenonT(60), <1>0, <2>1, <2>2, <2>3, <2>4, <2>5
<1>6. CASE RecoverWallet(r)
  BY <1>0, <1>6 DEF RecoverWallet
<1>7. CASE Snapshot(r)
  <2>1. ListBit(purpose[r], status[target[r]]) \in BOOLEAN
    BY ListBitType
  <2>. QED
    BY <1>0, <1>7, <2>1 DEF Snapshot
<1>8. CASE CheckList(r)
  BY <1>0, <1>8 DEF CheckList, Authorized
<1>9. CASE FetchError(r)
  BY <1>0, <1>9 DEF FetchError
<1>10. CASE ProbeIssued(r)
  <2>1. CASE Conclude(r)
    <3> HIDE DEF VerificationTypeOK
    <3>1. /\ pc' = [pc EXCEPT ![r] = "answer"]
          /\ onChain' \in [Request -> {"none", "not required", "passed", "failed", "unavailable"}]
          /\ valid' \in [Request -> BOOLEAN]
      BY <2>1, ConcludeType
    <3>. QED
      BY <1>0, <1>10, <3>1 DEF ProbeIssued, VerificationTypeOK
  <2>2. CASE UNCHANGED <<pc, valid, onChain>>
    BY <1>0, <1>10, <2>2 DEF ProbeIssued
  <2>. QED
    BY <1>10, <2>1, <2>2 DEF ProbeIssued
<1>11. CASE ProbeRevoked(r)
  <2>1. CASE Conclude(r)
    <3> HIDE DEF VerificationTypeOK
    <3>1. /\ pc' = [pc EXCEPT ![r] = "answer"]
          /\ onChain' \in [Request -> {"none", "not required", "passed", "failed", "unavailable"}]
          /\ valid' \in [Request -> BOOLEAN]
      BY <2>1, ConcludeType
    <3>. QED
      BY <1>0, <1>11, <3>1 DEF ProbeRevoked, VerificationTypeOK
  <2>2. CASE UNCHANGED <<pc, valid, onChain>>
    BY <1>0, <1>11, <2>2 DEF ProbeRevoked
  <2>. QED
    BY <1>11, <2>1, <2>2 DEF ProbeRevoked
<1>12. CASE ProbeError(r)
  BY <1>0, <1>12 DEF ProbeError
<1>13. CASE Answer(r)
  BY <1>0, <1>13 DEF Answer
<1>14. CASE Crash(r)
  BY <1>0, <1>14 DEF Crash
<1> QED
  BY <1>1, <1>2, <1>3, <1>4, <1>5, <1>6, <1>7, <1>8, <1>9, <1>10, <1>11, <1>12, <1>13, <1>14 DEF Step

-----------------------------------------------------------------------------
(***************************************************************************)
(* Steps of a request.                                                     *)
(***************************************************************************)

\* A step of one request says nothing about another.
LEMMA OthersStay ==
  ASSUME VerificationTypeOK, NEW r \in Request, Step(r),
         NEW q \in Request \ {r}, RequestInv(q)
  PROVE  RequestInv(q)'
<1>0. Frame(r)
  BY StepFrame
<1>1. Evidence(q)'
  BY <1>0 DEF RequestInv, Evidence, Frame, Running, world
<1>2. Registration(q)'
  BY <1>0 DEF RequestInv, Registration, Frame, Running, world
<1>3. Order(q)'
  BY <1>0 DEF RequestInv, Order, InForce, Frame, world
<1> QED
  BY <1>1, <1>2, <1>3 DEF RequestInv

\* What the steps that compute a verdict write, as facts about the request.
LEMMA BeginEffect ==
  ASSUME VerificationTypeOK, NEW r \in Request, Begin(r)
  PROVE  /\ pc[r] = "idle"
         /\ pc'[r] = "lookup"
         /\ held'[r] <=> status[target[r]] = "issued"
         /\ anchored'[r] <=> anchor[target[r]] = "issued"
         /\ calm'[r]
         /\ record'[r] = record[r] /\ resolved'[r] = resolved[r] /\ purpose'[r] = purpose[r]
         /\ asked'[r] = asked[r] /\ yes'[r] = yes[r] /\ onChain'[r] = onChain[r]
         /\ bit'[r] = bit[r] /\ valid'[r] = valid[r]
<1>1. /\ pc[r] = "idle"
      /\ pc'[r] = "lookup"
      /\ record'[r] = record[r] /\ resolved'[r] = resolved[r] /\ purpose'[r] = purpose[r]
      /\ asked'[r] = asked[r] /\ yes'[r] = yes[r] /\ onChain'[r] = onChain[r]
      /\ bit'[r] = bit[r] /\ valid'[r] = valid[r]
  BY DEF VerificationTypeOK, Begin, Goto, history, world
<1>2. /\ held \in [Request -> BOOLEAN]
      /\ anchored \in [Request -> BOOLEAN]
      /\ calm \in [Request -> BOOLEAN]
  BY DEF VerificationTypeOK
<1>3. held'[r] <=> status[target[r]] = "issued"
  BY <1>2, Zenon DEF Begin
<1>4. anchored'[r] <=> anchor[target[r]] = "issued"
  BY <1>2, Zenon DEF Begin
<1>5. calm'[r]
  BY <1>2, Zenon DEF Begin
<1> QED
  BY <1>1, <1>3, <1>4, <1>5

LEMMA RejectEffect ==
  ASSUME VerificationTypeOK, NEW r \in Request, Reject(r)
  PROVE  /\ pc[r] = "idle"
         /\ pc'[r] = "error"
         /\ record'[r] = record[r] /\ resolved'[r] = resolved[r] /\ purpose'[r] = purpose[r]
         /\ asked'[r] = asked[r] /\ yes'[r] = yes[r] /\ onChain'[r] = onChain[r]
         /\ bit'[r] = bit[r] /\ valid'[r] = valid[r] /\ held'[r] = held[r]
         /\ anchored'[r] = anchored[r] /\ calm'[r] = calm[r]
<1>1. /\ pc[r] = "idle"
      /\ pc'[r] = "error"
      /\ record'[r] = record[r] /\ resolved'[r] = resolved[r] /\ purpose'[r] = purpose[r]
      /\ asked'[r] = asked[r] /\ yes'[r] = yes[r] /\ onChain'[r] = onChain[r]
      /\ bit'[r] = bit[r] /\ valid'[r] = valid[r] /\ held'[r] = held[r]
      /\ anchored'[r] = anchored[r] /\ calm'[r] = calm[r]
  BY DEF VerificationTypeOK, Reject, Goto, history, world
<1> QED
  BY <1>1

LEMMA ResolveIssuerEffect ==
  ASSUME VerificationTypeOK, NEW r \in Request, ResolveIssuer(r)
  PROVE  /\ pc[r] = "resolve"
         /\ pc'[r] = IF ~(Authorized(SignedBy[target[r]], methods) /\ target[r] \notin overdue) THEN "answer"
                    ELSE IF target[r] \in Listed THEN "list"
                    ELSE IF target[r] \in ChainDecides \/ (record[r] # "none" /\ target[r] \in Anchored)
                      THEN "probe" ELSE "answer"
         /\ resolved'[r] = methods
         /\ onChain'[r] # "passed"
         /\ valid'[r] <=> /\ Authorized(SignedBy[target[r]], methods) /\ target[r] \notin overdue
                          /\ target[r] \notin Listed \cup ChainDecides
         /\ record'[r] = record[r] /\ purpose'[r] = purpose[r] /\ asked'[r] = asked[r]
         /\ yes'[r] = yes[r] /\ bit'[r] = bit[r] /\ held'[r] = held[r]
         /\ anchored'[r] = anchored[r] /\ calm'[r] = calm[r]
<1>1. /\ pc[r] = "resolve"
      /\ pc'[r] = IF ~(Authorized(SignedBy[target[r]], methods) /\ target[r] \notin overdue) THEN "answer"
                    ELSE IF target[r] \in Listed THEN "list"
                    ELSE IF target[r] \in ChainDecides \/ (record[r] # "none" /\ target[r] \in Anchored)
                      THEN "probe" ELSE "answer"
      /\ resolved'[r] = methods
      /\ onChain'[r] # "passed"
      /\ record'[r] = record[r] /\ purpose'[r] = purpose[r] /\ asked'[r] = asked[r]
      /\ yes'[r] = yes[r]
      /\ bit'[r] = bit[r] /\ held'[r] = held[r] /\ anchored'[r] = anchored[r]
      /\ calm'[r] = calm[r]
  BY DEF VerificationTypeOK, ResolveIssuer, Goto, history, world
<1>2. /\ valid \in [Request -> BOOLEAN]
  BY DEF VerificationTypeOK
<1>3. valid'[r] <=> /\ Authorized(SignedBy[target[r]], methods) /\ target[r] \notin overdue
                          /\ target[r] \notin Listed \cup ChainDecides
  BY <1>2, Zenon DEF ResolveIssuer
<1> QED
  BY <1>1, <1>3

LEMMA RecoverWalletEffect ==
  ASSUME VerificationTypeOK, NEW r \in Request, RecoverWallet(r)
  PROVE  /\ pc[r] = "resolve"
         /\ target[r] \in Wallet /\ pc'[r] = IF target[r] \in Legacy THEN "probe" ELSE "answer"
         /\ valid'[r] <=> target[r] \notin Legacy
         /\ record'[r] = record[r] /\ resolved'[r] = resolved[r] /\ purpose'[r] = purpose[r]
         /\ asked'[r] = asked[r] /\ yes'[r] = yes[r] /\ onChain'[r] = onChain[r]
         /\ bit'[r] = bit[r] /\ held'[r] = held[r] /\ anchored'[r] = anchored[r]
         /\ calm'[r] = calm[r]
<1>1. /\ pc[r] = "resolve"
      /\ target[r] \in Wallet /\ pc'[r] = IF target[r] \in Legacy THEN "probe" ELSE "answer"
      /\ record'[r] = record[r] /\ resolved'[r] = resolved[r] /\ purpose'[r] = purpose[r]
      /\ asked'[r] = asked[r] /\ yes'[r] = yes[r] /\ onChain'[r] = onChain[r]
      /\ bit'[r] = bit[r] /\ held'[r] = held[r] /\ anchored'[r] = anchored[r]
      /\ calm'[r] = calm[r]
  BY DEF VerificationTypeOK, RecoverWallet, Goto, history, world
<1>2. /\ valid \in [Request -> BOOLEAN]
  BY DEF VerificationTypeOK
<1>3. valid'[r] <=> target[r] \notin Legacy
  BY <1>2, Zenon DEF RecoverWallet
<1> QED
  BY <1>1, <1>3

LEMMA SnapshotEffect ==
  ASSUME VerificationTypeOK, NEW r \in Request, Snapshot(r)
  PROVE  /\ pc[r] = "list"
         /\ pc'[r] = "signed"
         /\ bit'[r] <=> ListBit(purpose[r], status[target[r]])
         /\ record'[r] = record[r] /\ resolved'[r] = resolved[r] /\ purpose'[r] = purpose[r]
         /\ asked'[r] = asked[r] /\ yes'[r] = yes[r] /\ onChain'[r] = onChain[r]
         /\ valid'[r] = valid[r] /\ held'[r] = held[r] /\ anchored'[r] = anchored[r]
         /\ calm'[r] = calm[r]
<1>1. /\ pc[r] = "list"
      /\ pc'[r] = "signed"
      /\ record'[r] = record[r] /\ resolved'[r] = resolved[r] /\ purpose'[r] = purpose[r]
      /\ asked'[r] = asked[r] /\ yes'[r] = yes[r] /\ onChain'[r] = onChain[r]
      /\ valid'[r] = valid[r] /\ held'[r] = held[r] /\ anchored'[r] = anchored[r]
      /\ calm'[r] = calm[r]
  BY DEF VerificationTypeOK, Snapshot, Goto, history, world
<1>2. /\ bit \in [Request -> BOOLEAN]
  BY DEF VerificationTypeOK
<1>3. bit'[r] <=> ListBit(purpose[r], status[target[r]])
  BY <1>2, Zenon DEF Snapshot
<1> QED
  BY <1>1, <1>3

LEMMA CheckListEffect ==
  ASSUME VerificationTypeOK, NEW r \in Request, CheckList(r)
  PROVE  /\ pc[r] = "signed"
         /\ pc'[r] = IF ~(Authorized(methods, resolved[r]) /\ ~bit[r]) THEN "answer"
                    ELSE IF purpose[r] # "suspension" THEN "list"
                    ELSE IF record[r] # "none" /\ target[r] \in Anchored THEN "probe" ELSE "answer"
         /\ purpose'[r] = "suspension"
         /\ onChain'[r] # "passed"
         /\ valid'[r] <=> Authorized(methods, resolved[r]) /\ ~bit[r] /\ purpose[r] = "suspension"
         /\ record'[r] = record[r] /\ resolved'[r] = resolved[r] /\ asked'[r] = asked[r]
         /\ yes'[r] = yes[r] /\ bit'[r] = bit[r] /\ held'[r] = held[r]
         /\ anchored'[r] = anchored[r] /\ calm'[r] = calm[r]
<1>1. /\ pc[r] = "signed"
      /\ pc'[r] = IF ~(Authorized(methods, resolved[r]) /\ ~bit[r]) THEN "answer"
                    ELSE IF purpose[r] # "suspension" THEN "list"
                    ELSE IF record[r] # "none" /\ target[r] \in Anchored THEN "probe" ELSE "answer"
      /\ purpose'[r] = "suspension"
      /\ onChain'[r] # "passed"
      /\ record'[r] = record[r] /\ resolved'[r] = resolved[r] /\ asked'[r] = asked[r]
      /\ yes'[r] = yes[r]
      /\ bit'[r] = bit[r] /\ held'[r] = held[r] /\ anchored'[r] = anchored[r]
      /\ calm'[r] = calm[r]
  BY DEF VerificationTypeOK, CheckList, Goto, history, world
<1>2. /\ valid \in [Request -> BOOLEAN]
  BY DEF VerificationTypeOK
<1>3. valid'[r] <=> Authorized(methods, resolved[r]) /\ ~bit[r] /\ purpose[r] = "suspension"
  BY <1>2, Zenon DEF CheckList
<1> QED
  BY <1>1, <1>3

\* What a conclusion comes to, or its absence.
Concluded(r) ==
  /\ pc'[r] = "answer"
  /\ onChain'[r] = "passed" <=> yes'[r] = {"isIssued"}
  /\ target[r] \in ChainDecides => (valid'[r] <=> yes'[r] = {"isIssued"})
  /\ target[r] \notin ChainDecides => (valid'[r] <=> valid[r])

StillAsking(r) == pc'[r] = pc[r] /\ onChain'[r] = onChain[r] /\ valid'[r] = valid[r]

LEMMA ConcludeEffect ==
  ASSUME VerificationTypeOK, NEW r \in Request, Conclude(r)
  PROVE  Concluded(r)
<1>1. valid \in [Request -> BOOLEAN]
  BY DEF VerificationTypeOK
<1>2. pc'[r] = "answer" /\ (onChain'[r] = "passed" <=> yes'[r] = {"isIssued"})
  BY DEF Conclude, VerificationTypeOK, Goto
<1>3. CASE target[r] \in ChainDecides
  BY <1>1, <1>2, <1>3, Zenon DEF Conclude, Concluded
<1>4. CASE target[r] \notin ChainDecides
  BY <1>1, <1>2, <1>4, Zenon DEF Conclude, Concluded
<1> QED
  BY <1>3, <1>4

LEMMA ProbeIssuedEffect ==
  ASSUME VerificationTypeOK, NEW r \in Request, ProbeIssued(r)
  PROVE  /\ pc[r] = "probe"
         /\ asked'[r] = asked[r] \cup {"isIssued"}
         /\ anchor[target[r]] # "absent" => yes'[r] = yes[r] \cup {"isIssued"}
         /\ anchor[target[r]] = "absent" => yes'[r] = yes[r]
         /\ \/ Concluded(r) /\ ("isRevoked" \in asked[r] \/ anchor[target[r]] = "absent")
            \/ StillAsking(r) /\ "isRevoked" \notin asked[r]
         /\ target[r] \notin Legacy /\ anchor[target[r]] = "absent" => Concluded(r)
         /\ record'[r] = record[r] /\ resolved'[r] = resolved[r] /\ purpose'[r] = purpose[r]
         /\ bit'[r] = bit[r] /\ held'[r] = held[r] /\ anchored'[r] = anchored[r] /\ calm'[r] = calm[r]
<1>1. CASE Conclude(r) /\ ("isRevoked" \in asked[r] \/ anchor[target[r]] = "absent")
  BY ZenonT(60), <1>1, ConcludeEffect DEF ProbeIssued, VerificationTypeOK, history
<1>2. CASE /\ UNCHANGED <<pc, valid, onChain>> /\ "isRevoked" \notin asked[r]
           /\ ~(target[r] \notin Legacy /\ anchor[target[r]] = "absent")
  BY ZenonT(60), <1>2 DEF ProbeIssued, StillAsking, VerificationTypeOK, history
<1> QED
  BY <1>1, <1>2 DEF ProbeIssued

LEMMA ProbeRevokedEffect ==
  ASSUME VerificationTypeOK, NEW r \in Request, ProbeRevoked(r)
  PROVE  /\ pc[r] = "probe" /\ "isRevoked" \notin asked[r]
         /\ target[r] \in Legacy \/ "isIssued" \in asked[r]
         /\ asked'[r] = asked[r] \cup {"isRevoked"}
         /\ anchor[target[r]] = "revoked" => yes'[r] = yes[r] \cup {"isRevoked"}
         /\ anchor[target[r]] # "revoked" => yes'[r] = yes[r]
         /\ \/ Concluded(r) /\ "isIssued" \in asked[r]
            \/ StillAsking(r) /\ "isIssued" \notin asked[r]
         /\ record'[r] = record[r] /\ resolved'[r] = resolved[r] /\ purpose'[r] = purpose[r]
         /\ bit'[r] = bit[r] /\ held'[r] = held[r] /\ anchored'[r] = anchored[r] /\ calm'[r] = calm[r]
<1>1. CASE Conclude(r) /\ "isIssued" \in asked[r]
  BY <1>1, ConcludeEffect DEF ProbeRevoked, VerificationTypeOK, history
<1>2. CASE UNCHANGED <<pc, valid, onChain>> /\ "isIssued" \notin asked[r]
  BY <1>2 DEF ProbeRevoked, StillAsking, VerificationTypeOK, history
<1> QED
  BY <1>1, <1>2 DEF ProbeRevoked

\* What the types say of one request, and which kinds of document exclude each other.
LEMMA RequestFacts ==
  ASSUME DocumentsAssumption, VerificationTypeOK, NEW r \in Request
  PROVE  /\ target[r] \in Credential /\ status[target[r]] \in Status
         /\ anchor[target[r]] \in {"absent", "issued", "revoked"}
         /\ purpose[r] \in {"revocation", "suspension"}
         /\ record[r] \in Status \cup {"none"}
         /\ asked[r] \subseteq {"isIssued", "isRevoked"} /\ yes[r] \subseteq {"isIssued", "isRevoked"}
         /\ valid[r] \in BOOLEAN
         /\ SignedBy[target[r]] = 1
         /\ target[r] \in Listed => target[r] \notin Stored \cup Legacy
         /\ target[r] \in Wallet => target[r] \notin Listed \cup Stored
<1>1. target[r] \in Credential
  BY DEF VerificationTypeOK
<1>2. status[target[r]] \in Status /\ anchor[target[r]] \in {"absent", "issued", "revoked"}
  BY <1>1 DEF VerificationTypeOK, TypeOK
<1>3. /\ purpose[r] \in {"revocation", "suspension"} /\ record[r] \in Status \cup {"none"}
      /\ asked[r] \subseteq {"isIssued", "isRevoked"} /\ yes[r] \subseteq {"isIssued", "isRevoked"}
      /\ valid[r] \in BOOLEAN
  BY DEF VerificationTypeOK
<1>4. SignedBy[target[r]] = 1
  BY <1>1 DEF DocumentsAssumption
<1>5. /\ target[r] \in Listed => target[r] \notin Stored \cup Legacy
      /\ target[r] \in Wallet => target[r] \notin Listed \cup Stored
  BY DEF DocumentsAssumption
<1> QED
  BY <1>1, <1>2, <1>3, <1>4, <1>5

\* What a step takes as evidence it has witnessed.
LEMMA EvidenceStep ==
  ASSUME DocumentsAssumption, VerificationTypeOK, NEW r \in Request, Step(r), RequestInv(r), ExpiredIsOverdue
  PROVE  Evidence(r)'
<1>a. UNCHANGED <<world, target, submitted>>
  BY StepFrame DEF Frame
<1>b. Evidence(r)
  BY DEF RequestInv
<1> USE <1>a, <1>b DEF Evidence, Running, Ended, world
<1>1. CASE Begin(r)
  BY <1>1, BeginEffect
<1>2. CASE Reject(r)
  BY <1>2, RejectEffect
<1>3. CASE Lookup(r)
  BY <1>3 DEF Lookup, RowSays, Goto, history, VerificationTypeOK
<1>4. CASE LookupError(r)
  BY <1>4 DEF LookupError, Goto, history, VerificationTypeOK
<1>5. CASE ResolveIssuer(r)
  BY <1>5, ResolveIssuerEffect, RequestFacts DEF ExpiredIsOverdue, ChainDecides
<1>6. CASE RecoverWallet(r)
  BY <1>6, RecoverWalletEffect DEF DocumentsAssumption
<1>7. CASE Snapshot(r)
  BY <1>7, SnapshotEffect, RequestFacts DEF ListBit, Status
<1>8. CASE CheckList(r)
  BY <1>8, CheckListEffect
<1>9. CASE FetchError(r)
  BY <1>9 DEF FetchError, Goto, history, VerificationTypeOK
<1>10. CASE ProbeIssued(r)
  BY <1>10, ProbeIssuedEffect DEF Concluded, StillAsking, ChainDecides, DocumentsAssumption
<1>11. CASE ProbeRevoked(r)
  BY <1>11, ProbeRevokedEffect DEF Concluded, StillAsking, ChainDecides, DocumentsAssumption
<1>12. CASE ProbeError(r)
  BY <1>12 DEF ProbeError, Goto, history, VerificationTypeOK
<1>13. CASE Answer(r)
  BY <1>13 DEF Answer, Goto, history, VerificationTypeOK
<1>14. CASE Crash(r)
  BY <1>14 DEF Crash, Goto, history, VerificationTypeOK
<1> QED
  BY <1>1, <1>2, <1>3, <1>4, <1>5, <1>6, <1>7, <1>8, <1>9, <1>10, <1>11, <1>12, <1>13, <1>14 DEF Step

\* What a step makes of the chain's answers it has witnessed.
LEMMA RegistrationStep ==
  ASSUME DocumentsAssumption, VerificationTypeOK, NEW r \in Request, Step(r), RequestInv(r)
  PROVE  Registration(r)'
<1>a. UNCHANGED <<world, target, submitted>>
  BY StepFrame DEF Frame
<1>b. Registration(r) /\ Evidence(r)
  BY DEF RequestInv
<1> USE <1>a, <1>b DEF Registration, Evidence, ChainDecides, Running, Ended, world
<1>1. CASE Begin(r)
  BY <1>1, BeginEffect
<1>2. CASE Reject(r)
  BY <1>2, RejectEffect
<1>3. CASE Lookup(r)
  BY <1>3 DEF Lookup, RowSays, Goto, history, VerificationTypeOK
<1>4. CASE LookupError(r)
  BY <1>4 DEF LookupError, Goto, history, VerificationTypeOK
<1>5. CASE ResolveIssuer(r)
  BY <1>5, ResolveIssuerEffect, RequestFacts
<1>6. CASE RecoverWallet(r)
  BY <1>6, RecoverWalletEffect, RequestFacts
<1>7. CASE Snapshot(r)
  BY <1>7, SnapshotEffect
<1>8. CASE CheckList(r)
  BY <1>8, CheckListEffect, RequestFacts
<1>9. CASE FetchError(r)
  BY <1>9 DEF FetchError, Goto, history, VerificationTypeOK
<1>10. CASE ProbeIssued(r)
  <2>1. yes'[r] = {"isIssued"} => "isIssued" \in yes'[r] /\ "isRevoked" \notin yes'[r]
    OBVIOUS
  <2>2. CASE Concluded(r) /\ ("isRevoked" \in asked[r] \/ anchor[target[r]] = "absent")
    BY <1>10, <2>1, <2>2, ProbeIssuedEffect, RequestFacts DEF Concluded
  <2>3. CASE StillAsking(r) /\ "isRevoked" \notin asked[r]
    BY <1>10, <2>3, ProbeIssuedEffect, RequestFacts DEF StillAsking
  <2>. QED
    BY <1>10, <2>2, <2>3, ProbeIssuedEffect
<1>11. CASE ProbeRevoked(r)
  <2>1. yes'[r] = {"isIssued"} => "isIssued" \in yes[r] /\ anchor[target[r]] # "revoked"
    BY <1>11, ProbeRevokedEffect, RequestFacts
  <2>2. /\ "isIssued" \in yes'[r] => "isIssued" \in yes[r]
        /\ "isRevoked" \notin yes'[r] => anchor[target[r]] # "revoked"
    BY <1>11, ProbeRevokedEffect, RequestFacts
  <2>3. Running(r) /\ anchored'[r] = anchored[r]
    BY <1>11, ProbeRevokedEffect
  <2>4. anchored[r] \/ anchor[target[r]] # "issued"
    BY <2>3
  <2>5. CASE Concluded(r)
    BY <2>1, <2>2, <2>3, <2>4, <2>5, RequestFacts DEF Concluded
  <2>6. CASE StillAsking(r)
    BY <1>11, <2>2, <2>3, <2>4, <2>6, ProbeRevokedEffect, RequestFacts DEF StillAsking
  <2>. QED
    BY <1>11, <2>5, <2>6, ProbeRevokedEffect
<1>12. CASE ProbeError(r)
  BY <1>12 DEF ProbeError, Goto, history, VerificationTypeOK
<1>13. CASE Answer(r)
  BY <1>13 DEF Answer, Goto, history, VerificationTypeOK
<1>14. CASE Crash(r)
  BY <1>14 DEF Crash, Goto, history, VerificationTypeOK
<1> QED
  BY <1>1, <1>2, <1>3, <1>4, <1>5, <1>6, <1>7, <1>8, <1>9, <1>10, <1>11, <1>12, <1>13, <1>14 DEF Step

\* A step refuses nothing that is in force.
LEMMA OrderStep ==
  ASSUME DocumentsAssumption, VerificationTypeOK, NEW r \in Request, Step(r), RequestInv(r), ExpiredIsOverdue
  PROVE  Order(r)'
<1>a. UNCHANGED <<world, target, submitted>>
  BY StepFrame DEF Frame
<1>b. Order(r) /\ Evidence(r) /\ Registration(r)
  BY DEF RequestInv
<1> USE <1>a, <1>b DEF Order, Evidence, Registration, InForce, ChainDecides, Running, Ended, world
<1>1. CASE Begin(r)
  BY <1>1, BeginEffect
<1>2. CASE Reject(r)
  BY <1>2, RejectEffect
<1>3. CASE Lookup(r)
  BY ZenonT(60), <1>3 DEF Lookup, RowSays, Goto, history, VerificationTypeOK
<1>4. CASE LookupError(r)
  BY ZenonT(60), <1>4 DEF LookupError, Goto, history, VerificationTypeOK
<1>5. CASE ResolveIssuer(r)
  BY <1>5, ResolveIssuerEffect, MethodsRange, RequestFacts DEF Authorized
<1>6. CASE RecoverWallet(r)
  BY <1>6, RecoverWalletEffect
<1>7. CASE Snapshot(r)
  BY <1>7, SnapshotEffect DEF ListBit
<1>8. CASE CheckList(r)
  BY <1>8, CheckListEffect, MethodsRange DEF Authorized
<1>9. CASE FetchError(r)
  BY ZenonT(60), <1>9 DEF FetchError, Goto, history, VerificationTypeOK
<1>10. CASE ProbeIssued(r)
  BY <1>10, ProbeIssuedEffect, RequestFacts DEF Concluded, StillAsking
<1>11. CASE ProbeRevoked(r)
  BY <1>11, ProbeRevokedEffect, RequestFacts DEF Concluded, StillAsking
<1>12. CASE ProbeError(r)
  BY <1>12 DEF ProbeError, Goto, history, VerificationTypeOK
<1>13. CASE Answer(r)
  BY ZenonT(60), <1>13 DEF Answer, Goto, history, VerificationTypeOK
<1>14. CASE Crash(r)
  BY ZenonT(60), <1>14 DEF Crash, Goto, history, VerificationTypeOK
<1> QED
  BY <1>1, <1>2, <1>3, <1>4, <1>5, <1>6, <1>7, <1>8, <1>9, <1>10, <1>11, <1>12, <1>13, <1>14 DEF Step

-----------------------------------------------------------------------------
(***************************************************************************)
(* What happens to the credentials meanwhile.                              *)
(***************************************************************************)

\* A change to the credentials in C: a credential expires only from issued and
\* after its time, a registration may be revoked but is never undone, and all
\* other credentials stay as they are.
Change(C) ==
  /\ Witness(C)
  /\ TypeOK' /\ overdue' \subseteq Credential /\ overdue \subseteq overdue'
  /\ anchor' \in [Credential -> {"absent", "issued", "revoked"}]
  /\ methods' \in 1..(MaxMethods + 1)
  /\ \A c \in Credential :
       /\ status'[c] = "expired" => status[c] = "expired" \/ (status[c] = "issued" /\ c \in overdue')
       /\ anchor[c] # "absent" => anchor'[c] # "absent"
       /\ anchor[c] = "absent" => anchor'[c] \in {"absent", "issued"}
       /\ c \notin C => /\ status'[c] = status[c] /\ anchor'[c] = anchor[c] /\ methods' = methods
                        /\ c \in overdue' => c \in overdue

LEMMA ChangeStatusChanges ==
  ASSUME DocumentsAssumption, VerificationTypeOK,
         NEW c \in Credential, NEW act \in RevocationAction, ChangeStatus(c, act)
  PROVE  Change({c})
<1>1. Transition(c, act) /\ UNCHANGED <<overdue, anchor, methods>> /\ Witness({c})
  BY DEF ChangeStatus
<1>2. TypeOK'
  BY <1>1, TransitionType DEF VerificationTypeOK
<1>3. StatusForAction[act] # "expired"
  BY DEF StatusForAction, RevocationAction
<1>4. \A d \in Credential : /\ status'[d] = "expired" => status[d] = "expired"
                            /\ d # c => status'[d] = status[d]
  BY <1>1, <1>3 DEF Transition, VerificationTypeOK, TypeOK
<1> QED
  BY <1>1, <1>2, <1>4 DEF Change, VerificationTypeOK

LEMMA SweepChanges ==
  ASSUME VerificationTypeOK, Sweep
  PROVE  \E C \in SUBSET Credential : Change(C)
<1> DEFINE C == {c \in overdue \cap Recorded \cap AskedAbout : status[c] = "issued"}
<1>1. Expire(C) /\ UNCHANGED <<overdue, anchor, methods>> /\ Witness(C)
  BY DEF Sweep
<1>2. C \in SUBSET Credential /\ \A c \in C : c \in overdue /\ status[c] = "issued"
  BY DEF VerificationTypeOK
<1> HIDE DEF C
<1>3. TypeOK'
  BY <1>1, <1>2, ExpireType DEF VerificationTypeOK
<1>4. \A d \in Credential : /\ d \in C => status'[d] = "expired"
                            /\ d \notin C => status'[d] = status[d]
  BY <1>1 DEF Expire, VerificationTypeOK, TypeOK
<1>5. Change(C)
  BY <1>1, <1>2, <1>3, <1>4 DEF Change, VerificationTypeOK
<1> QED
  BY <1>2, <1>5

LEMMA PassValidUntilChanges ==
  ASSUME VerificationTypeOK, NEW c \in Credential, PassValidUntil(c)
  PROVE  Change({c})
<1>1. /\ overdue' = overdue \cup {c} /\ Witness({c})
      /\ UNCHANGED <<status, journal, anchor, methods>>
  BY DEF PassValidUntil
<1>2. TypeOK'
  BY <1>1 DEF VerificationTypeOK, TypeOK
<1> QED
  BY <1>1, <1>2 DEF Change, VerificationTypeOK

LEMMA MineChanges ==
  ASSUME VerificationTypeOK, NEW c \in Credential, Mine(c)
  PROVE  Change({c})
<1>1. /\ Witness({c}) /\ UNCHANGED <<status, journal, overdue, methods>>
      /\ anchor' = [anchor EXCEPT ![c] = IF @ = "absent" THEN "issued" ELSE "revoked"]
  BY DEF Mine
<1>2. TypeOK'
  BY <1>1 DEF VerificationTypeOK, TypeOK
<1>3. /\ anchor' \in [Credential -> {"absent", "issued", "revoked"}]
      /\ anchor'[c] = IF anchor[c] = "absent" THEN "issued" ELSE "revoked"
      /\ \A d \in Credential : d # c => anchor'[d] = anchor[d]
  BY <1>1 DEF VerificationTypeOK
<1> QED
  BY <1>1, <1>2, <1>3 DEF Change, VerificationTypeOK

LEMMA RotateChanges ==
  ASSUME DocumentsAssumption, VerificationTypeOK, Rotate
  PROVE  Change(Credential)
<1>1. /\ Witness(Credential) /\ UNCHANGED <<status, journal, overdue, anchor>>
      /\ methods' = methods + 1 /\ methods <= MaxMethods
  BY DEF Rotate
<1>2. TypeOK'
  BY <1>1 DEF VerificationTypeOK, TypeOK
<1>3. methods' \in 1..(MaxMethods + 1)
  BY <1>1, MethodsRange DEF DocumentsAssumption
<1> QED
  BY <1>1, <1>2, <1>3 DEF Change, VerificationTypeOK

\* What a request witnesses of a change.
LEMMA WitnessEffect ==
  ASSUME VerificationTypeOK, NEW C, Witness(C)
  PROVE  /\ UNCHANGED asks
         /\ held' \in [Request -> BOOLEAN] /\ anchored' \in [Request -> BOOLEAN]
         /\ calm' \in [Request -> BOOLEAN]
         /\ \A r \in Request :
              /\ held'[r] <=> held[r] \/ (Running(r) /\ status'[target[r]] = "issued")
              /\ anchored'[r] <=> anchored[r] \/ (Running(r) /\ anchor'[target[r]] = "issued")
              /\ calm'[r] <=> calm[r] /\ target[r] \notin C
<1> DEFINE h(r) == held[r] \/ (Running(r) /\ status'[target[r]] = "issued")
           a(r) == anchored[r] \/ (Running(r) /\ anchor'[target[r]] = "issued")
           k(r) == calm[r] /\ target[r] \notin C
<1>1. /\ UNCHANGED asks /\ held' = [r \in Request |-> h(r)]
      /\ anchored' = [r \in Request |-> a(r)] /\ calm' = [r \in Request |-> k(r)]
  BY DEF Witness
<1>2. /\ held \in [Request -> BOOLEAN] /\ anchored \in [Request -> BOOLEAN]
      /\ calm \in [Request -> BOOLEAN]
  BY DEF VerificationTypeOK
<1>3. \A r \in Request : h(r) \in BOOLEAN /\ a(r) \in BOOLEAN /\ k(r) \in BOOLEAN
  BY <1>2, Zenon
<1>4. \A r \in Request : (held'[r] <=> h(r)) /\ (anchored'[r] <=> a(r)) /\ (calm'[r] <=> k(r))
  BY <1>1, Zenon
<1> HIDE DEF h, a, k
<1>5. /\ held' \in [Request -> BOOLEAN] /\ anchored' \in [Request -> BOOLEAN]
      /\ calm' \in [Request -> BOOLEAN]
  BY <1>1, <1>3, Zenon
<1> QED
  BY <1>1, <1>4, <1>5, Zenon DEF h, a, k

\* A change keeps the invariant of every request.
LEMMA ChangeKeeps ==
  ASSUME VerificationInv, NEW C \in SUBSET Credential, Change(C)
  PROVE  VerificationInv'
<1>1. VerificationTypeOK /\ ExpiredIsOverdue /\ \A r \in Request : RequestInv(r)
  BY DEF VerificationInv
<1>2. VerificationTypeOK'
  <2>1. /\ UNCHANGED asks /\ held' \in [Request -> BOOLEAN] /\ anchored' \in [Request -> BOOLEAN]
        /\ calm' \in [Request -> BOOLEAN]
    BY <1>1, WitnessEffect DEF Change
  <2>2. /\ pc' = pc /\ target' = target /\ submitted' = submitted /\ record' = record
        /\ resolved' = resolved /\ purpose' = purpose /\ bit' = bit /\ asked' = asked
        /\ yes' = yes /\ valid' = valid /\ onChain' = onChain
    BY <2>1 DEF asks
  <2>3. /\ TypeOK' /\ overdue' \subseteq Credential /\ methods' \in 1..(MaxMethods + 1)
        /\ anchor' \in [Credential -> {"absent", "issued", "revoked"}]
    BY DEF Change
  <2>. QED
    BY <1>1, <2>1, <2>2, <2>3 DEF VerificationTypeOK, Ended
<1>3. ExpiredIsOverdue'
  BY <1>1 DEF Change, ExpiredIsOverdue
<1>4. ASSUME NEW r \in Request
      PROVE  RequestInv(r)'
  <2>1. Evidence(r) /\ Registration(r) /\ Order(r) /\ target[r] \in Credential
    BY <1>1 DEF RequestInv, VerificationTypeOK
  <2>2. /\ pc' = pc /\ target' = target /\ submitted' = submitted /\ record' = record
        /\ resolved' = resolved /\ purpose' = purpose /\ bit' = bit /\ asked' = asked
        /\ yes' = yes /\ valid' = valid /\ onChain' = onChain
        /\ held'[r] <=> held[r] \/ (Running(r) /\ status'[target[r]] = "issued")
        /\ anchored'[r] <=> anchored[r] \/ (Running(r) /\ anchor'[target[r]] = "issued")
        /\ calm'[r] <=> calm[r] /\ target[r] \notin C
    BY <1>1, WitnessEffect DEF Change, asks
  <2>3. Evidence(r)'
    BY <2>1, <2>2 DEF Evidence, Change, Running, Ended
  <2>4. Registration(r)'
    BY <2>1, <2>2 DEF Registration, Change, Running, Ended, ChainDecides
  <2>5. Order(r)'
    BY <2>1, <2>2 DEF Order, Change, InForce, ChainDecides
  <2> QED
    BY <2>3, <2>4, <2>5 DEF RequestInv
<1> QED
  BY <1>2, <1>3, <1>4 DEF VerificationInv

-----------------------------------------------------------------------------
(***************************************************************************)
(* The invariant, and what it proves.                                      *)
(***************************************************************************)

LEMMA VerificationInvInit == DocumentsAssumption /\ VerificationInit => VerificationInv
<1> SUFFICES ASSUME DocumentsAssumption, VerificationInit PROVE VerificationInv
  OBVIOUS
<1>1. VerificationTypeOK
  <2>1. TypeOK
    BY DEF VerificationInit, Init, TypeOK, Status
  <2>2. methods \in 1..(MaxMethods + 1)
    BY DEF VerificationInit, DocumentsAssumption
  <2> QED
    BY <2>1, <2>2 DEF VerificationInit, VerificationTypeOK, Ended
<1>2. ExpiredIsOverdue
  BY DEF ExpiredIsOverdue, VerificationInit, Init
<1>3. ASSUME NEW r \in Request PROVE RequestInv(r)
  <2>1. Evidence(r)
    BY DEF VerificationInit, Evidence, Running, Ended
  <2>2. Registration(r)
    BY DEF VerificationInit, Registration, Running, Ended
  <2>3. Order(r)
    BY DEF VerificationInit, Order
  <2> QED
    BY <2>1, <2>2, <2>3 DEF RequestInv
<1> QED
  BY <1>1, <1>2, <1>3 DEF VerificationInv

\* A request's own step keeps the invariant: its own part by the three lemmas
\* above, that of the others because it leaves them alone.
LEMMA StepKeeps ==
  ASSUME DocumentsAssumption, VerificationInv, NEW r \in Request, Step(r)
  PROVE  VerificationInv'
<1>1. VerificationTypeOK /\ ExpiredIsOverdue /\ \A q \in Request : RequestInv(q)
  BY DEF VerificationInv
<1>2. VerificationTypeOK'
  BY <1>1, StepType
<1>3. UNCHANGED world
  BY <1>1, StepFrame DEF Frame
<1>4. ExpiredIsOverdue'
  BY <1>1, <1>3 DEF ExpiredIsOverdue, world
<1>5. RequestInv(r)'
  BY <1>1, EvidenceStep, RegistrationStep, OrderStep DEF RequestInv
<1>6. ASSUME NEW q \in Request \ {r} PROVE RequestInv(q)'
  BY <1>1, OthersStay, StepFrame
<1> QED
  BY <1>2, <1>4, <1>5, <1>6 DEF VerificationInv

LEMMA VerificationInvNext ==
  DocumentsAssumption /\ VerificationInv /\ [VerificationNext]_verVars => VerificationInv'
<1> SUFFICES ASSUME DocumentsAssumption, VerificationInv, [VerificationNext]_verVars
             PROVE  VerificationInv'
  OBVIOUS
<1>1. VerificationTypeOK
  BY DEF VerificationInv
<1>2. ASSUME NEW c \in AskedAbout PROVE c \in Credential
  <2>1. target \in [Request -> Credential]
    BY <1>1 DEF VerificationTypeOK
  <2>. QED
    BY <2>1 DEF AskedAbout
<1>3. CASE \E r \in Request : Step(r)
  BY <1>3, StepKeeps
<1>4. ASSUME NEW c \in AskedAbout, PassValidUntil(c) PROVE VerificationInv'
  BY <1>1, <1>2, <1>4, PassValidUntilChanges, ChangeKeeps
<1>5. ASSUME NEW c \in AskedAbout, Mine(c) PROVE VerificationInv'
  BY <1>1, <1>2, <1>5, MineChanges, ChangeKeeps
<1>6. ASSUME NEW c \in AskedAbout, NEW act \in RevocationAction, ChangeStatus(c, act)
      PROVE  VerificationInv'
  BY <1>1, <1>2, <1>6, ChangeStatusChanges, ChangeKeeps
<1>7. CASE Sweep
  BY <1>1, <1>7, SweepChanges, ChangeKeeps
<1>8. CASE Rotate
  BY <1>1, <1>8, RotateChanges, ChangeKeeps
<1>9. CASE UNCHANGED verVars
  <2>1. VerificationTypeOK'
    BY <1>1, <1>9 DEF VerificationTypeOK, verVars, world, asks, history, TypeOK
  <2>2. ExpiredIsOverdue'
    BY <1>9 DEF VerificationInv, ExpiredIsOverdue, verVars, world
  <2>3. ASSUME NEW r \in Request PROVE RequestInv(r)'
    <3>1. RequestInv(r)
      BY DEF VerificationInv
    <3> QED
      BY <1>9, <3>1 DEF RequestInv, Evidence, Registration, Order, InForce, Running, Ended,
                        ChainDecides, verVars, world, asks, history
  <2> QED
    BY <2>1, <2>2, <2>3 DEF VerificationInv
<1> QED
  BY <1>3, <1>4, <1>5, <1>6, <1>7, <1>8, <1>9 DEF VerificationNext

LEMMA VerificationInvariant == DocumentsAssumption /\ VerificationSpec => []VerificationInv
<1>1. DocumentsAssumption /\ VerificationInit => VerificationInv
  BY VerificationInvInit
<1>2. DocumentsAssumption /\ VerificationInv /\ [VerificationNext]_verVars => VerificationInv'
  BY VerificationInvNext
<1> QED
  BY <1>1, <1>2, DocumentsAssumption, PTL DEF VerificationSpec

\* Every variable of Verification keeps its type.
THEOREM VerificationTypeCorrect == VerificationSpec => []VerificationTypeOK
<1>1. VerificationInv => VerificationTypeOK
  BY DEF VerificationInv
<1> QED
  BY <1>1, VerificationInvariant, DocumentsAssumption, PTL

\* A credential whose row was read, or whose document names its status lists,
\* is reported verified only if it was issued at some moment of the request.
THEOREM VerifiedWhileIssuedHolds == VerificationSpec => []VerifiedWhileIssued
<1>1. VerificationInv => VerifiedWhileIssued
  <2> SUFFICES ASSUME VerificationInv, NEW r \in Request, pc[r] = "verified",
                      record[r] # "none" \/ target[r] \in Listed
               PROVE  held[r]
    BY DEF VerifiedWhileIssued
  <2>1. Evidence(r)
    BY DEF VerificationInv, RequestInv
  <2> QED
    BY <2>1 DEF Evidence
<1> QED
  BY <1>1, VerificationInvariant, DocumentsAssumption, PTL

\* "passed" was true of the hash at some moment of the request, and a document
\* the chain decides about is verified on no other ground.
THEOREM PassedWasRegisteredHolds == VerificationSpec => []PassedWasRegistered
<1>1. VerificationInv => PassedWasRegistered
  <2> SUFFICES ASSUME VerificationInv, NEW r \in Request,
                      onChain[r] = "passed" \/ (pc[r] = "verified" /\ target[r] \in ChainDecides)
               PROVE  anchored[r]
    BY DEF PassedWasRegistered
  <2>1. Evidence(r) /\ Registration(r)
    BY DEF VerificationInv, RequestInv
  <2> QED
    BY <2>1 DEF Evidence, Registration
<1> QED
  BY <1>1, VerificationInvariant, DocumentsAssumption, PTL

\* A request that nothing has disturbed refuses no credential in force.
THEOREM RefusedForCauseHolds == VerificationSpec => []RefusedForCause
<1>1. VerificationInv => RefusedForCause
  <2> SUFFICES ASSUME VerificationInv, NEW r \in Request, pc[r] = "refused", calm[r], InForce(r)
               PROVE  FALSE
    BY DEF RefusedForCause
  <2>1. Order(r)
    BY DEF VerificationInv, RequestInv
  <2> QED
    BY <2>1 DEF Order
<1> QED
  BY <1>1, VerificationInvariant, DocumentsAssumption, PTL

-----------------------------------------------------------------------------

(*****************************************************************************)
(* The verify page: at most one answer is awaited, and it is about what      *)
(* the page names.                                                           *)
(*****************************************************************************)

\* What the page waits for is what it names: the record of its link, or the
\* document it submitted last.  It waits for one answer at most.
Awaited(x) ==
  \/ x \in LinkId /\ lookup = x
  \/ x \in Submission /\ lookup = Absent /\ subject = x

VisitInv ==
  /\ lookup \in LinkId \cup {Absent} /\ subject \in Submission \cup {Absent}
  /\ IF loading THEN \E x \in LinkId \cup Submission : pending = {x} /\ Awaited(x)
     ELSE pending = {}
  /\ VerdictOfWhatIsShown

\* Every step of the page keeps this.
LEMMA VisitStepInv == VisitInv /\ [VisitNext]_visitVars => VisitInv'
<1> SUFFICES ASSUME VisitInv, [VisitNext]_visitVars PROVE VisitInv'
  OBVIOUS
<1> USE VisitAssumption DEF VisitInv, Awaited, VerdictOfWhatIsShown, Labelled, About, Refusal
<1>1. CASE UNCHANGED <<lookup, subject, loading, pending, verdict, dialog, kept>>
  BY <1>1
<1>2. CASE RejectInput
  BY <1>2 DEF RejectInput, CanVerify, preview
<1>3. CASE Submit
  BY <1>3 DEF Submit, CanVerify, preview
<1>4. ASSUME NEW d \in Submission, AnswerSubmission(d) PROVE VisitInv'
  <2>1. lookup = Absent /\ subject = d /\ pending' = {} /\ ~loading'
    BY <1>4 DEF AnswerSubmission
  <2>. QED
    BY <1>4, <2>1 DEF AnswerSubmission
<1>5. ASSUME NEW id \in LinkId, AnswerLookup(id) PROVE VisitInv'
  <2>1. lookup = id /\ pending' = {} /\ ~loading'
    BY <1>5 DEF AnswerLookup
  <2>. QED
    BY <1>5, <2>1 DEF AnswerLookup, preview
<1>6. CASE ViewCertificate \/ ClosePreview
  BY <1>6 DEF ViewCertificate, ClosePreview
<1>. QED
  BY <1>1, <1>2, <1>3, <1>4, <1>5, <1>6
     DEF VisitNext, Paste, ChooseFile, FileRead, preview, visitVars

\* Whatever a visitor pastes, follows and submits, and in whatever order files
\* and answers arrive: a verdict that says valid is on the certificate named under
\* it, and the preview and the file beside it are of one certificate.
THEOREM VerdictOfWhatIsShownHolds == VisitSpec => []VerdictOfWhatIsShown
<1>1. VisitInit => VisitInv
  BY VisitAssumption DEF VisitInit, VisitInv, Awaited, VerdictOfWhatIsShown, Labelled
<1>2. VisitInv => VerdictOfWhatIsShown
  BY DEF VisitInv
<1>. QED
  BY <1>1, <1>2, VisitStepInv, PTL DEF VisitSpec

-----------------------------------------------------------------------------

(*****************************************************************************)
(* The document.  What is handed out is of one of three shapes, and whatever *)
(* is registered or revoked is the hash that is computed from it, with the   *)
(* store of its row or the wallet.                                           *)
(*****************************************************************************)

\* A document is a function from the fields it has.
IsDocument(doc) == doc = [f \in DOMAIN doc |-> doc[f]]

\* What a proof of either kind covers is the document without it.
Covers(doc, type, mandatory) ==
  /\ IsDocument(doc) /\ {"issuer", "identity", "issuingMethods", "proof"} \subseteq DOMAIN doc
  /\ doc["proof"] = [type |-> type, by |-> doc["proof"].by, over |-> StripExistingProof(doc), mandatory |-> mandatory]

\* A document of the issuing route: it names its issuer and its recipient, and its
\* status either says what is registered or is shown by lists.
Published(doc) ==
  LET standing == doc["credentialStatus"] IN
  /\ Covers(doc, "sd", MandatoryPointers(StripExistingProof(doc)))
  /\ doc["proof"].by = IssuerDid /\ doc["issuer"] = IssuerDid /\ doc["identity"] = "recipient"
  /\ {"id", "validFrom", "credentialStatus"} \subseteq DOMAIN doc
  /\ \/ /\ standing["type"] = "store" /\ "targetHash" \in DOMAIN standing
        /\ standing["store"] = configured /\ standing["targetHash"] # {}
     \/ /\ standing["type"] = "lists" /\ "targetHash" \notin DOMAIN standing
        /\ doc["issuingMethods"] = {"did"}

\* One that the wallet signed, and one of another platform.
WalletSigned(doc) ==
  /\ Covers(doc, "wallet", DOMAIN StripExistingProof(doc)) /\ doc["proof"].by = Account
  /\ doc["issuingMethods"] = {"ethereum"} /\ "credentialStatus" \in DOMAIN doc
  /\ doc["credentialStatus"]["type"] = "store" /\ "targetHash" \notin DOMAIN doc["credentialStatus"]

Received(doc) ==
  /\ Covers(doc, "other", DOMAIN StripExistingProof(doc)) /\ doc["proof"].by = doc["issuer"]
  /\ "credentialStatus" \notin DOMAIN doc /\ doc["identity"] # "recipient"
  /\ doc["issuingMethods"] \subseteq Method

\* The row, what is registered and what is revoked are about the document.
RowMatches(doc) ==
  \/ Published(doc) /\ \E r \in row :
       /\ row = {r} /\ r.status \in {"issued", "revoked"} /\ r.store = configured
       /\ r = [hash |-> r.hash, methods |-> r.methods, store |-> r.store, status |-> r.status, until |-> r.until]
       /\ \/ r.hash = ComputeDocumentStoreHash(doc)
          \/ r.hash = {} /\ registrar = "none" /\ registered = {} /\ doc["credentialStatus"]["type"] = "lists"
  \/ (WalletSigned(doc) \/ Received(doc)) /\ row = {} /\ registrar # "server"

ChainMatches(doc) ==
  /\ registered \subseteq {<<WalletStore, ComputeDocumentStoreHash(doc)>>}
  /\ revoked \subseteq registered

DocumentInv ==
  \/ issued = {} /\ row = {} /\ registered = {} /\ revoked = {} /\ registrar = "none"
  \/ \E doc \in issued : issued = {doc} /\ RowMatches(doc) /\ ChainMatches(doc)

-----------------------------------------------------------------------------
\* Two documents with the same fields and values are one.
LEMMA SameFields ==
  ASSUME NEW a, NEW b, IsDocument(a), IsDocument(b), DOMAIN a = DOMAIN b, \A f \in DOMAIN a : a[f] = b[f]
  PROVE  a = b
<1>1. a = [f \in DOMAIN a |-> a[f]] /\ b = [f \in DOMAIN b |-> b[f]]
  BY DEF IsDocument
<1>2. [f \in DOMAIN a |-> a[f]] = [f \in DOMAIN b |-> b[f]]
  OBVIOUS
<1>. QED
  BY <1>1, <1>2

\* A document that is signed is the one its proof covers.
LEMMA ProofAdded ==
  ASSUME NEW doc, IsDocument(doc), "proof" \notin DOMAIN doc, NEW proof
  PROVE  /\ StripExistingProof(With(doc, "proof", proof)) = doc
         /\ With(doc, "proof", proof)["proof"] = proof
<1> DEFINE signed == With(doc, "proof", proof)
<1>0. /\ DOMAIN With(doc, "proof", proof) = DOMAIN doc \cup {"proof"} /\ With(doc, "proof", proof)["proof"] = proof
      /\ \A g \in DOMAIN doc \ {"proof"} : With(doc, "proof", proof)[g] = doc[g]
  BY DEF With
<1>1. /\ DOMAIN signed = DOMAIN doc \cup {"proof"} /\ signed["proof"] = proof
      /\ \A g \in DOMAIN doc \ {"proof"} : signed[g] = doc[g]
  BY <1>0
<1> HIDE DEF signed
<1>2. /\ IsDocument(Without(signed, "proof")) /\ DOMAIN Without(signed, "proof") = DOMAIN signed \ {"proof"}
      /\ \A g \in DOMAIN signed \ {"proof"} : Without(signed, "proof")[g] = signed[g]
  BY DEF IsDocument, Without
<1>3. Without(signed, "proof") = doc
  <2>1. DOMAIN Without(signed, "proof") = DOMAIN doc /\ \A g \in DOMAIN doc : Without(signed, "proof")[g] = doc[g]
    BY <1>1, <1>2
  <2>. QED
    BY <1>2, <2>1, SameFields
<1>. QED
  BY <1>1, <1>3 DEF StripExistingProof, signed

\* What the pages and the route build.
LEMMA Payload ==
  ASSUME NEW chosen, NEW until \in BOOLEAN, NEW issuer, NEW store
  PROVE  LET doc == BuildVCPayload(chosen, until, issuer, store) IN
         /\ IsDocument(doc)
         /\ {"issuer", "validFrom", "identity", "details", "credentialStatus", "issuingMethods"} \subseteq DOMAIN doc
         /\ "proof" \notin DOMAIN doc /\ doc["issuer"] = issuer /\ doc["identity"] = "recipient"
         /\ doc["credentialStatus"] = [type |-> "store", store |-> store]
         /\ doc["issuingMethods"] = IF chosen = {} THEN {"did"} ELSE chosen
<1> DEFINE base == [issuer |-> issuer, validFrom |-> "start", identity |-> "recipient", details |-> "course",
                    credentialStatus |-> [type |-> "store", store |-> store],
                    issuingMethods |-> IF chosen = {} THEN {"did"} ELSE chosen]
<1>1. /\ IsDocument(base)
      /\ DOMAIN base = {"issuer", "validFrom", "identity", "details", "credentialStatus", "issuingMethods"}
      /\ base["issuer"] = issuer /\ base["identity"] = "recipient"
      /\ base["credentialStatus"] = [type |-> "store", store |-> store]
      /\ base["issuingMethods"] = IF chosen = {} THEN {"did"} ELSE chosen
  BY DEF IsDocument
<1>2. BuildVCPayload(chosen, until, issuer, store) = IF until THEN With(base, "validUntil", "end") ELSE base
  BY DEF BuildVCPayload
<1> HIDE DEF base
<1>3. CASE until
  <2>1. /\ IsDocument(With(base, "validUntil", "end"))
        /\ DOMAIN With(base, "validUntil", "end") = DOMAIN base \cup {"validUntil"}
        /\ \A g \in DOMAIN base \ {"validUntil"} : With(base, "validUntil", "end")[g] = base[g]
    BY DEF With, IsDocument
  <2>2. BuildVCPayload(chosen, until, issuer, store) = With(base, "validUntil", "end")
    BY <1>2, <1>3
  <2>. QED
    BY <1>1, <2>1, <2>2
<1>4. CASE ~until
  BY <1>1, <1>2, <1>4
<1>. QED
  BY <1>3, <1>4

\* What is about to be signed by the route.
Draft(doc) ==
  /\ IsDocument(doc) /\ "proof" \notin DOMAIN doc
  /\ {"issuer", "validFrom", "identity", "credentialStatus", "issuingMethods"} \subseteq DOMAIN doc
  /\ doc["issuer"] = IssuerDid /\ doc["identity"] = "recipient"
  /\ \/ doc["credentialStatus"] = [type |-> "store", store |-> configured]
     \/ doc["credentialStatus"] = [type |-> "lists"] /\ doc["issuingMethods"] = {"did"}

\* The commitment to the hash changes a status that names a store, and no other.
LEMMA Committed ==
  ASSUME NEW doc, Draft(doc), "id" \in DOMAIN doc
  PROVE  LET over == InjectTargetHash(doc)
             standing == over["credentialStatus"]
         IN
         /\ IsDocument(over) /\ DOMAIN over = DOMAIN doc
         /\ \A g \in DOMAIN doc \ {"credentialStatus"} : over[g] = doc[g]
         /\ doc["credentialStatus"]["type"] = standing["type"]
         /\ \/ /\ standing["type"] = "store" /\ "targetHash" \in DOMAIN standing
               /\ standing["store"] = configured /\ standing["targetHash"] # {}
            \/ standing["type"] = "lists" /\ "targetHash" \notin DOMAIN standing
<1>1. CASE doc["credentialStatus"] = [type |-> "store", store |-> configured]
  <2> DEFINE old == doc["credentialStatus"]
             bare == With(doc, "credentialStatus", Without(old, "targetHash"))
             new == With(Without(old, "targetHash"), "targetHash", Hash(bare))
  <2>1. old["type"] = "store" /\ old["store"] = configured /\ DOMAIN old = {"type", "store"}
    BY <1>1
  <2>2. InjectTargetHash(doc) = With(doc, "credentialStatus", new)
    BY <2>1 DEF InjectTargetHash
  <2>3. Hash(bare) # {}
    BY DEF Hash
  <2> HIDE DEF old, bare
  <2>4. /\ DOMAIN new = {"type", "store", "targetHash"} /\ new["targetHash"] = Hash(bare)
        /\ new["type"] = "store" /\ new["store"] = configured
    BY <2>1 DEF With, Without
  <2> HIDE DEF new
  <2>5. LET over == With(doc, "credentialStatus", new) IN
        /\ IsDocument(over) /\ DOMAIN over = DOMAIN doc /\ over["credentialStatus"] = new
        /\ \A g \in DOMAIN doc \ {"credentialStatus"} : over[g] = doc[g]
    BY DEF With, IsDocument, Draft
  <2>. QED
    BY <2>1, <2>2, <2>3, <2>4, <2>5 DEF old
<1>2. CASE doc["credentialStatus"] = [type |-> "lists"]
  <2>1. /\ doc["credentialStatus"]["type"] = "lists" /\ DOMAIN doc["credentialStatus"] = {"type"}
    BY <1>2
  <2>2. InjectTargetHash(doc) = doc
    BY <2>1 DEF InjectTargetHash
  <2>. QED
    BY <2>1, <2>2 DEF Draft
<1>. QED
  BY <1>1, <1>2 DEF Draft

\* A draft that is signed is a document of the issuing route.
LEMMA DraftSigned ==
  ASSUME NEW draft, Draft(draft)
  PROVE  /\ Published(SignDocumentWithDID(draft))
         /\ SignDocumentWithDID(draft)["credentialStatus"]["type"] = draft["credentialStatus"]["type"]
<1> DEFINE doc == With(draft, "id", "urn")
           over == InjectTargetHash(doc)
           proof == [type |-> "sd", by |-> IssuerDid, over |-> over, mandatory |-> MandatoryPointers(over)]
           signed == With(over, "proof", proof)
<1>1. StripExistingProof(draft) = draft
  <2>1. /\ IsDocument(Without(draft, "proof")) /\ DOMAIN Without(draft, "proof") = DOMAIN draft
        /\ \A g \in DOMAIN draft : Without(draft, "proof")[g] = draft[g]
    BY DEF IsDocument, Without, Draft
  <2>. QED
    BY <2>1, SameFields DEF StripExistingProof, Draft
<1>2. SignDocumentWithDID(draft) = signed
  BY <1>1 DEF SignDocumentWithDID, SignCredentialWithEcdsaSd2023
<1>3. /\ Draft(doc) /\ "id" \in DOMAIN doc /\ DOMAIN doc = DOMAIN draft \cup {"id"}
      /\ \A g \in DOMAIN draft \ {"id"} : doc[g] = draft[g]
  <2>1. /\ IsDocument(doc) /\ "id" \in DOMAIN doc /\ DOMAIN doc = DOMAIN draft \cup {"id"}
        /\ \A g \in DOMAIN draft \ {"id"} : doc[g] = draft[g]
    BY DEF IsDocument, With
  <2>. QED
    BY <2>1 DEF Draft
<1> HIDE DEF doc
<1>4. LET standing == over["credentialStatus"] IN
      /\ IsDocument(over) /\ DOMAIN over = DOMAIN doc
      /\ \A g \in DOMAIN doc \ {"credentialStatus"} : over[g] = doc[g]
      /\ doc["credentialStatus"]["type"] = standing["type"]
      /\ \/ /\ standing["type"] = "store" /\ "targetHash" \in DOMAIN standing
            /\ standing["store"] = configured /\ standing["targetHash"] # {}
         \/ standing["type"] = "lists" /\ "targetHash" \notin DOMAIN standing
  BY <1>3, Committed
<1> HIDE DEF over
<1>5. StripExistingProof(signed) = over /\ signed["proof"] = proof
  BY <1>3, <1>4, ProofAdded DEF Draft
<1>6. /\ IsDocument(signed) /\ DOMAIN signed = DOMAIN over \cup {"proof"}
      /\ \A g \in DOMAIN over : signed[g] = over[g]
  <2>1. "proof" \notin DOMAIN over
    BY <1>3, <1>4 DEF Draft
  <2>. QED
    BY <2>1 DEF IsDocument, With
<1> HIDE DEF signed
<1>7. Covers(signed, "sd", MandatoryPointers(StripExistingProof(signed))) /\ signed["proof"].by = IssuerDid
  <2>1. {"issuer", "identity", "issuingMethods"} \subseteq DOMAIN over
    BY <1>3, <1>4 DEF Draft
  <2>2. proof.by = IssuerDid /\ proof = [type |-> "sd", by |-> proof.by, over |-> over, mandatory |-> MandatoryPointers(over)]
    OBVIOUS
  <2> HIDE DEF proof
  <2>. QED
    BY <1>5, <1>6, <2>1, <2>2 DEF Covers
<1>8. /\ {"id", "validFrom", "credentialStatus"} \subseteq DOMAIN signed
      /\ signed["issuer"] = IssuerDid /\ signed["identity"] = "recipient"
      /\ signed["credentialStatus"] = over["credentialStatus"] /\ signed["issuingMethods"] = draft["issuingMethods"]
      /\ draft["credentialStatus"] = doc["credentialStatus"]
  BY <1>3, <1>4, <1>6 DEF Draft
<1>9. over["credentialStatus"]["type"] = "lists" => draft["issuingMethods"] = {"did"}
  <2>1. [type |-> "store", store |-> configured]["type"] # "lists"
    OBVIOUS
  <2>. QED
    BY <1>4, <1>8, <2>1 DEF Draft
<1>. QED
  BY <1>2, <1>4, <1>7, <1>8, <1>9 DEF Published

\* The hash in the row and the one computed from the file.
LEMMA HashesOf ==
  ASSUME NEW doc, Published(doc)
  PROVE  LET lists == doc["credentialStatus"]["type"] = "lists" IN
         /\ ExtractTargetHash(doc) = IF lists THEN {} ELSE ComputeDocumentStoreHash(doc)
         /\ ComputeDocumentStoreHash(doc) # {}
BY DEF Published, ExtractTargetHash, ComputeDocumentStoreHash, Hash, Covers

\* What the route signs is a draft.
LEMMA Drafted ==
  ASSUME NEW chosen, NEW until \in BOOLEAN, NEW embedded \in BOOLEAN, NEW lists \in BOOLEAN,
         lists => chosen = {"did"}
  PROVE  LET payload == BuildVCPayload(chosen, until, IssuerDid, configured)
             published == IF lists THEN WithStatusLists(payload) ELSE payload
             doc == IF embedded THEN WithEmbeddedRenderMethod(published) ELSE published
         IN Draft(doc) /\ doc["credentialStatus"]["type"] = IF lists THEN "lists" ELSE "store"
<1> DEFINE payload == BuildVCPayload(chosen, until, IssuerDid, configured)
           published == IF lists THEN WithStatusLists(payload) ELSE payload
           doc == IF embedded THEN WithEmbeddedRenderMethod(published) ELSE published
<1>1. /\ IsDocument(payload)
      /\ {"issuer", "validFrom", "identity", "details", "credentialStatus", "issuingMethods"} \subseteq DOMAIN payload
      /\ "proof" \notin DOMAIN payload /\ payload["issuer"] = IssuerDid /\ payload["identity"] = "recipient"
      /\ payload["credentialStatus"] = [type |-> "store", store |-> configured]
      /\ payload["issuingMethods"] = IF chosen = {} THEN {"did"} ELSE chosen
  BY Payload
<1> HIDE DEF payload
<1>2. Draft(published) /\ published["credentialStatus"]["type"] = IF lists THEN "lists" ELSE "store"
  <2>1. CASE lists
    <3>1. published = With(payload, "credentialStatus", [type |-> "lists"])
      BY <2>1 DEF WithStatusLists
    <3>2. /\ IsDocument(published) /\ DOMAIN published = DOMAIN payload
          /\ published["credentialStatus"] = [type |-> "lists"]
          /\ \A g \in DOMAIN payload \ {"credentialStatus"} : published[g] = payload[g]
      BY <1>1, <3>1 DEF With, IsDocument
    <3>3. payload["issuingMethods"] = {"did"}
      BY <1>1, <2>1
    <3>4. published["credentialStatus"]["type"] = "lists"
      BY <3>2
    <3> HIDE DEF published
    <3>. QED
      BY <1>1, <2>1, <3>2, <3>3, <3>4 DEF Draft
  <2>2. CASE ~lists
    BY <1>1, <2>2 DEF Draft
  <2>. QED
    BY <2>1, <2>2
<1> HIDE DEF published
<1>3. CASE embedded
  <2>1. doc = With(published, "renderMethod", "renderer")
    BY <1>3 DEF WithEmbeddedRenderMethod
  <2>2. /\ IsDocument(doc) /\ DOMAIN doc = DOMAIN published \cup {"renderMethod"}
        /\ \A g \in DOMAIN published \ {"renderMethod"} : doc[g] = published[g]
    BY <2>1 DEF With, IsDocument
  <2> HIDE DEF doc
  <2>3. Draft(doc) /\ doc["credentialStatus"] = published["credentialStatus"]
    BY <1>2, <2>2 DEF Draft
  <2>. QED
    BY <1>2, <2>3 DEF doc, published, payload
<1>4. CASE ~embedded
  BY <1>2, <1>4 DEF published, payload
<1>. QED
  BY <1>3, <1>4
\* A document that the wallet signs, and one of another platform.
LEMMA WalletDocument ==
  ASSUME NEW until \in BOOLEAN
  PROVE  WalletSigned(SignCredentialWithEthereum(BuildVCPayload({"ethereum"}, until, "platform", DefaultStore)))
<1> DEFINE payload == BuildVCPayload({"ethereum"}, until, "platform", DefaultStore)
           proof == [type |-> "wallet", by |-> Account, over |-> payload, mandatory |-> DOMAIN payload]
           signed == With(payload, "proof", proof)
<1>1. /\ IsDocument(payload)
      /\ {"issuer", "validFrom", "identity", "details", "credentialStatus", "issuingMethods"} \subseteq DOMAIN payload
      /\ "proof" \notin DOMAIN payload /\ payload["issuingMethods"] = {"ethereum"}
      /\ payload["credentialStatus"] = [type |-> "store", store |-> DefaultStore]
  BY Payload
<1> HIDE DEF payload
<1>2. StripExistingProof(payload) = payload
  <2>1. /\ IsDocument(Without(payload, "proof")) /\ DOMAIN Without(payload, "proof") = DOMAIN payload
        /\ \A g \in DOMAIN payload : Without(payload, "proof")[g] = payload[g]
    BY <1>1 DEF IsDocument, Without
  <2>. QED
    BY <1>1, <2>1, SameFields DEF StripExistingProof
<1>3. SignCredentialWithEthereum(payload) = signed
  BY <1>2 DEF SignCredentialWithEthereum
<1>4. StripExistingProof(signed) = payload /\ signed["proof"] = proof
  BY <1>1, ProofAdded
<1>5. /\ IsDocument(signed) /\ DOMAIN signed = DOMAIN payload \cup {"proof"}
      /\ \A g \in DOMAIN payload : signed[g] = payload[g]
  BY <1>1 DEF IsDocument, With
<1>6. proof.by = Account /\ proof = [type |-> "wallet", by |-> proof.by, over |-> payload, mandatory |-> DOMAIN payload]
  OBVIOUS
<1>7. /\ signed["credentialStatus"]["type"] = "store" /\ "targetHash" \notin DOMAIN signed["credentialStatus"]
  BY <1>1, <1>5
<1> HIDE DEF signed, proof
<1>8. WalletSigned(signed)
  BY <1>1, <1>4, <1>5, <1>6, <1>7 DEF WalletSigned, Covers
<1>. QED
  BY <1>3, <1>8 DEF payload

LEMMA ReceivedDocument ==
  ASSUME NEW chosen \in SUBSET Method
  PROVE  LET doc == [issuer |-> "elsewhere", validFrom |-> "start", identity |-> "someone", details |-> "course",
                     id |-> "urn", issuingMethods |-> chosen]
             signed == With(doc, "proof", [type |-> "other", by |-> "elsewhere", over |-> doc, mandatory |-> DOMAIN doc])
         IN Received(signed) /\ signed["issuingMethods"] = chosen
<1> DEFINE doc == [issuer |-> "elsewhere", validFrom |-> "start", identity |-> "someone", details |-> "course",
                   id |-> "urn", issuingMethods |-> chosen]
           proof == [type |-> "other", by |-> "elsewhere", over |-> doc, mandatory |-> DOMAIN doc]
           signed == With(doc, "proof", proof)
<1>1. /\ IsDocument(doc) /\ DOMAIN doc = {"issuer", "validFrom", "identity", "details", "id", "issuingMethods"}
      /\ doc["issuer"] = "elsewhere" /\ doc["identity"] = "someone" /\ doc["issuingMethods"] = chosen
  BY DEF IsDocument
<1> HIDE DEF doc
<1>2. "proof" \notin DOMAIN doc /\ "credentialStatus" \notin DOMAIN doc
  BY <1>1
<1>3. StripExistingProof(signed) = doc /\ signed["proof"] = proof
  BY <1>1, <1>2, ProofAdded
<1>4. /\ IsDocument(signed) /\ DOMAIN signed = DOMAIN doc \cup {"proof"}
      /\ \A g \in DOMAIN doc : signed[g] = doc[g]
  BY <1>2 DEF IsDocument, With
<1>5. proof.by = "elsewhere" /\ proof = [type |-> "other", by |-> proof.by, over |-> doc, mandatory |-> DOMAIN doc]
  OBVIOUS
<1> HIDE DEF signed, proof
<1>6. "elsewhere" # "recipient" /\ "someone" # "recipient"
  OBVIOUS
<1>7. Received(signed) /\ signed["issuingMethods"] = chosen
  BY <1>1, <1>2, <1>3, <1>4, <1>5, <1>6 DEF Received, Covers
<1>. QED
  BY <1>7 DEF signed, proof, doc

-----------------------------------------------------------------------------
(***************************************************************************)
(* The steps.                                                              *)
(***************************************************************************)

LEMMA DocumentBegin == DocumentInit => DocumentInv
BY DEF DocumentInit, DocumentInv

\* The route hands out a document and stores its row.
LEMMA IssueKeeps ==
  ASSUME DocumentInv, NEW chosen \in SUBSET Method, NEW profile \in {"legacy", "bitstring", "trustvc"},
         NEW until \in BOOLEAN, NEW embedded \in BOOLEAN, Issue(chosen, profile, until, embedded)
  PROVE  DocumentInv'
<1> DEFINE lists == profile # "legacy"
           named == IF profile = "trustvc" THEN {"did"} ELSE chosen
           payload == BuildVCPayload(named, until, IssuerDid, configured)
           published == IF lists THEN WithStatusLists(payload) ELSE payload
           draft == IF embedded THEN WithEmbeddedRenderMethod(published) ELSE published
           doc == SignDocumentWithDID(draft)
           anchors == "ethereum" \in chosen
           hash == IF profile = "trustvc" /\ anchors THEN ComputeDocumentStoreHash(doc) ELSE ExtractTargetHash(doc)
           r == [hash |-> hash, methods |-> chosen, store |-> configured, status |-> "issued", until |-> until]
<1>1. /\ issued = {} /\ Accepted(chosen, profile, embedded) /\ issued' = {doc} /\ row' = {r}
      /\ registrar' = IF hash = {} THEN "none"
                      ELSE IF configured = OwnStore /\ anchors THEN "server"
                      ELSE IF profile # "trustvc" THEN IF anchors \/ operator THEN "server" ELSE "none"
                      ELSE "wallet"
      /\ UNCHANGED <<configured, registered, revoked>>
  BY DEF Issue, chain
<1>2. registered = {} /\ revoked = {}
  BY <1>1 DEF DocumentInv
<1>3. lists => named = {"did"}
  BY <1>1 DEF Accepted
<1>4. Draft(draft) /\ draft["credentialStatus"]["type"] = IF lists THEN "lists" ELSE "store"
  <2>1. PICK given : given = named
    OBVIOUS
  <2>2. lists \in BOOLEAN /\ (lists => given = {"did"})
    BY <1>3, <2>1
  <2> HIDE DEF named, lists
  <2>3. payload = BuildVCPayload(given, until, IssuerDid, configured)
    BY <2>1
  <2>. QED
    BY <2>1, <2>2, Drafted
<1> HIDE DEF draft
<1>5. Published(doc) /\ doc["credentialStatus"]["type"] = IF lists THEN "lists" ELSE "store"
  BY <1>4, DraftSigned
<1> HIDE DEF doc
<1>6. hash = ComputeDocumentStoreHash(doc) \/ (hash = {} /\ registrar' = "none" /\ doc["credentialStatus"]["type"] = "lists")
  <2>1. /\ ExtractTargetHash(doc) = IF lists THEN {} ELSE ComputeDocumentStoreHash(doc)
        /\ ComputeDocumentStoreHash(doc) # {}
    BY <1>5, HashesOf
  <2>. QED
    BY <1>1, <1>5, <2>1
<1>7. /\ r.hash = hash /\ r.status = "issued" /\ r.store = configured
      /\ r = [hash |-> r.hash, methods |-> r.methods, store |-> r.store, status |-> r.status, until |-> r.until]
  OBVIOUS
<1> HIDE DEF hash, r
<1>8. PICK d : d = doc
  OBVIOUS
<1>9. /\ Published(d) /\ issued' = {d}
      /\ hash = ComputeDocumentStoreHash(d) \/ (hash = {} /\ registrar' = "none" /\ d["credentialStatus"]["type"] = "lists")
  BY <1>1, <1>5, <1>6, <1>8
<1>10. Published(d)'
  BY <1>1, <1>9 DEF Published, Covers
<1>11. RowMatches(d)'
  BY <1>1, <1>2, <1>7, <1>9, <1>10 DEF RowMatches
<1>12. ChainMatches(d)'
  BY <1>1, <1>2 DEF ChainMatches
<1>. QED
  BY <1>9, <1>11, <1>12 DEF DocumentInv

\* A document that is handed out elsewhere has no row.
LEMMA OthersKeep ==
  ASSUME DocumentInv, (\E until \in BOOLEAN : IssueByWallet(until)) \/ (\E chosen \in SUBSET Method : Receive(chosen))
  PROVE  DocumentInv'
<1>1. row = {} /\ registered = {} /\ revoked = {}
  BY DEF DocumentInv, IssueByWallet, Receive
<1>2. \E d : /\ issued' = {d} /\ (WalletSigned(d) \/ Received(d))
             /\ registrar' \in {"wallet", "none"} /\ UNCHANGED <<configured, row, registered, revoked>>
  <2>1. ASSUME NEW until \in BOOLEAN, IssueByWallet(until)
        PROVE  \E d : /\ issued' = {d} /\ WalletSigned(d)
                      /\ registrar' \in {"wallet", "none"} /\ UNCHANGED <<configured, row, registered, revoked>>
    BY <2>1, WalletDocument DEF IssueByWallet, chain
  <2>2. ASSUME NEW chosen \in SUBSET Method, Receive(chosen)
        PROVE  \E d : /\ issued' = {d} /\ Received(d)
                      /\ registrar' \in {"wallet", "none"} /\ UNCHANGED <<configured, row, registered, revoked>>
    BY <2>2, ReceivedDocument DEF Receive, chain
  <2>. QED
    BY <2>1, <2>2
<1>3. PICK d : /\ issued' = {d} /\ (WalletSigned(d) \/ Received(d))
               /\ registrar' \in {"wallet", "none"} /\ UNCHANGED <<configured, row, registered, revoked>>
  BY <1>2
<1>4. WalletSigned(d)' \/ Received(d)'
  BY <1>3 DEF WalletSigned, Received, Covers
<1>5. RowMatches(d)' /\ ChainMatches(d)'
  BY <1>1, <1>3, <1>4 DEF RowMatches, ChainMatches
<1>. QED
  BY <1>3, <1>5 DEF DocumentInv

\* The row of a document, and the store its hash goes to.
LEMMA RowOf ==
  ASSUME NEW doc, RowMatches(doc), NEW r \in row
  PROVE  /\ row = {r} /\ r.status \in {"issued", "revoked"} /\ Published(doc) /\ WalletStore = r.store
         /\ r.store = configured
         /\ r = [hash |-> r.hash, methods |-> r.methods, store |-> r.store, status |-> r.status, until |-> r.until]
         /\ \/ r.hash = ComputeDocumentStoreHash(doc)
            \/ r.hash = {} /\ registrar = "none" /\ registered = {} /\ doc["credentialStatus"]["type"] = "lists"
<1>1. row = {r} /\ row # {} /\ (CHOOSE s \in row : TRUE) = r
  BY DEF RowMatches
<1>. QED
  BY <1>1 DEF RowMatches, WalletStore

\* The hash is registered or revoked, with the store of the row or of the wallet.
LEMMA ChainKeeps ==
  ASSUME DocumentInv, Register \/ RegisterByWallet \/ RevokeByWallet
  PROVE  DocumentInv'
<1>1. PICK doc \in issued : issued = {doc} /\ RowMatches(doc) /\ ChainMatches(doc)
  BY DEF DocumentInv, Register, RegisterByWallet, RevokeByWallet
<1> DEFINE entry == <<WalletStore, ComputeDocumentStoreHash(doc)>>
<1>2. UNCHANGED <<issued, row, configured>> /\ WalletStore' = WalletStore
  <2>1. UNCHANGED <<issued, row, configured>>
    BY DEF Register, RegisterByWallet, RevokeByWallet
  <2>. QED
    BY <2>1 DEF WalletStore
<1>3. \/ registered' = registered \cup {entry} /\ registrar' = "none" /\ revoked' = revoked /\ registrar # "none"
      \/ revoked' = revoked \cup {entry} /\ entry \in registered /\ UNCHANGED <<registered, registrar>>
  <2>1. CASE Register
    <3>1. PICK r \in row : /\ registrar = "server" /\ registered' = registered \cup {<<r.store, r.hash>>}
                           /\ registrar' = "none" /\ revoked' = revoked
      BY <2>1 DEF Register
    <3>2. WalletStore = r.store /\ r.hash = ComputeDocumentStoreHash(doc)
      BY <1>1, <3>1, RowOf
    <3>. QED
      BY <3>1, <3>2
  <2>2. CASE RegisterByWallet
    BY <1>1, <2>2 DEF RegisterByWallet
  <2>3. CASE RevokeByWallet
    BY <1>1, <2>3 DEF RevokeByWallet
  <2>. QED
    BY <2>1, <2>2, <2>3
<1>4. ChainMatches(doc)'
  <2>1. registered' \subseteq {entry} /\ revoked' \subseteq registered'
    BY <1>1, <1>3 DEF ChainMatches
  <2>. QED
    BY <1>2, <2>1 DEF ChainMatches
<1>5. RowMatches(doc)'
  <2>1. /\ (Published(doc) => Published(doc)') /\ (WalletSigned(doc) => WalletSigned(doc)')
        /\ (Received(doc) => Received(doc)')
    BY <1>2 DEF Published, WalletSigned, Received, Covers
  <2>2. registrar' \in {registrar, "none"}
    BY <1>3
  <2>3. CASE row = {}
    BY <1>1, <1>2, <2>1, <2>2, <2>3 DEF RowMatches
  <2>4. ASSUME NEW r \in row PROVE RowMatches(doc)'
    <3>1. /\ row = {r} /\ r.status \in {"issued", "revoked"} /\ Published(doc) /\ r.store = configured
          /\ r = [hash |-> r.hash, methods |-> r.methods, store |-> r.store, status |-> r.status, until |-> r.until]
          /\ \/ r.hash = ComputeDocumentStoreHash(doc)
             \/ r.hash = {} /\ registrar = "none" /\ registered = {} /\ doc["credentialStatus"]["type"] = "lists"
      BY <1>1, RowOf
    <3>. QED
      BY <1>2, <1>3, <2>1, <3>1 DEF RowMatches
  <2>. QED
    BY <2>3, <2>4
<1>. QED
  BY <1>2, <1>4, <1>5, <1>1 DEF DocumentInv

\* The row is revoked, after its hash if it has one with a store of its own.
LEMMA RevokeKeeps ==
  ASSUME DocumentInv, Revoke
  PROVE  DocumentInv'
<1>1. PICK doc \in issued : issued = {doc} /\ RowMatches(doc) /\ ChainMatches(doc)
  BY DEF DocumentInv, Revoke
<1>2. PICK r \in row :
         LET hasHash == r.store # DefaultStore /\ r.hash # {} IN
         /\ hasHash => <<r.store, r.hash>> \in registered
         /\ revoked' = IF hasHash THEN revoked \cup {<<r.store, r.hash>>} ELSE revoked
         /\ row' = {[r EXCEPT !.status = "revoked"]}
         /\ UNCHANGED <<configured, issued, registrar, registered>>
  BY DEF Revoke
<1>3. /\ row = {r} /\ Published(doc) /\ WalletStore = r.store /\ r.store = configured
      /\ r = [hash |-> r.hash, methods |-> r.methods, store |-> r.store, status |-> r.status, until |-> r.until]
      /\ \/ r.hash = ComputeDocumentStoreHash(doc)
         \/ r.hash = {} /\ registrar = "none" /\ registered = {} /\ doc["credentialStatus"]["type"] = "lists"
  BY <1>1, RowOf
<1> DEFINE s == [r EXCEPT !.status = "revoked"]
<1>4. /\ s.status = "revoked" /\ s.hash = r.hash /\ s.store = r.store
      /\ s = [hash |-> s.hash, methods |-> s.methods, store |-> s.store, status |-> s.status, until |-> s.until]
  BY <1>3
<1>5. row' = {s}
  BY <1>2
<1> HIDE DEF s
<1>6. RowMatches(doc)'
  <2>1. Published(doc)'
    BY <1>2, <1>3 DEF Published, Covers
  <2>. QED
    BY <1>2, <1>3, <1>4, <1>5, <2>1 DEF RowMatches
<1>7. WalletStore' = WalletStore
  <2>1. (CHOOSE t \in row' : TRUE) = s
    BY <1>5
  <2>. QED
    BY <1>3, <1>4, <1>5, <2>1 DEF WalletStore
<1>8. ChainMatches(doc)'
  BY <1>1, <1>2, <1>3, <1>7 DEF ChainMatches
<1>. QED
  BY <1>1, <1>2, <1>6, <1>8 DEF DocumentInv

LEMMA DocumentStep == DocumentInv /\ [DocumentNext]_docVars => DocumentInv'
<1> SUFFICES ASSUME DocumentInv, [DocumentNext]_docVars PROVE DocumentInv'
  OBVIOUS
<1>1. CASE UNCHANGED <<configured, issued, row, registrar, registered, revoked>>
  <2>1. CASE issued = {} /\ row = {} /\ registered = {} /\ revoked = {} /\ registrar = "none"
    BY <1>1, <2>1 DEF DocumentInv
  <2>2. ASSUME NEW doc \in issued, issued = {doc}, RowMatches(doc), ChainMatches(doc) PROVE DocumentInv'
    <3>1. (Published(doc) => Published(doc)') /\ (WalletSigned(doc) => WalletSigned(doc)') /\ (Received(doc) => Received(doc)')
      BY <1>1 DEF Published, WalletSigned, Received, Covers
    <3>2. RowMatches(doc)'
      BY <1>1, <2>2, <3>1 DEF RowMatches
    <3>3. WalletStore' = WalletStore
      BY <1>1 DEF WalletStore
    <3>4. ChainMatches(doc)'
      BY <1>1, <2>2, <3>3 DEF ChainMatches
    <3>. QED
      BY <1>1, <2>2, <3>2, <3>4 DEF DocumentInv
  <2>. QED
    BY <2>1, <2>2 DEF DocumentInv
<1>2. CASE UNCHANGED docVars \/ PassTime
  BY <1>1, <1>2 DEF docVars, PassTime, chain
<1>3. CASE \E chosen \in SUBSET Method, profile \in {"legacy", "bitstring", "trustvc"}, until, embedded \in BOOLEAN :
             Issue(chosen, profile, until, embedded)
  BY <1>3, IssueKeeps
<1>4. CASE (\E until \in BOOLEAN : IssueByWallet(until)) \/ (\E chosen \in SUBSET Method : Receive(chosen))
  BY <1>4, OthersKeep
<1>5. CASE Register \/ RegisterByWallet \/ RevokeByWallet \/ Revoke
  BY <1>5, ChainKeeps, RevokeKeeps
<1>. QED
  BY <1>2, <1>3, <1>4, <1>5 DEF DocumentNext

LEMMA DocumentAlways == DocumentSpec => []DocumentInv
BY DocumentBegin, DocumentStep, PTL DEF DocumentSpec

-----------------------------------------------------------------------------
(***************************************************************************)
(* What is verified.                                                       *)
(***************************************************************************)

\* Of a document whose proof covers all of it nothing can be hidden.
LEMMA NothingHidden ==
  ASSUME NEW doc, IsDocument(doc), NEW p \in Presentations(doc),
         DOMAIN StripExistingProof(doc) \subseteq doc["proof"]["mandatory"]
  PROVE  p = doc
<1>1. PICK H \in SUBSET (DOMAIN doc \ (doc["proof"]["mandatory"] \cup {"proof"})) : p = [f \in DOMAIN doc \ H |-> doc[f]]
  BY DEF Presentations
<1>2. DOMAIN StripExistingProof(doc) = DOMAIN doc \ {"proof"}
  BY DEF StripExistingProof, Without
<1>3. H = {}
  BY <1>1, <1>2
<1>4. p = [f \in DOMAIN doc |-> doc[f]]
  BY <1>1, <1>3
<1>. QED
  BY <1>4 DEF IsDocument

\* A selective presentation keeps all that its verification asks for.
LEMMA Presented ==
  ASSUME NEW doc, Published(doc), NEW p \in Presentations(doc)
  PROVE  /\ {"issuer", "identity", "proof", "credentialStatus"} \subseteq DOMAIN p
         /\ \A f \in DOMAIN p : f \in DOMAIN doc /\ p[f] = doc[f]
         /\ MandatoryPointers(StripExistingProof(doc)) \subseteq DOMAIN p \ {"proof"}
         /\ \A f \in {"validFrom", "validUntil"} : f \in DOMAIN p <=> f \in DOMAIN doc
<1>1. /\ DOMAIN StripExistingProof(doc) = DOMAIN doc \ {"proof"}
      /\ {"id", "issuer", "identity", "credentialStatus", "validFrom", "proof"} \subseteq DOMAIN doc
      /\ doc["proof"]["mandatory"] = MandatoryPointers(StripExistingProof(doc))
  <2>1. DOMAIN StripExistingProof(doc) = DOMAIN doc \ {"proof"}
    BY DEF StripExistingProof, Without
  <2>2. /\ {"id", "issuer", "identity", "credentialStatus", "validFrom", "proof"} \subseteq DOMAIN doc
    BY DEF Published, Covers
  <2>3. doc["proof"].mandatory = MandatoryPointers(StripExistingProof(doc))
    BY DEF Published, Covers
  <2>. QED
    BY <2>1, <2>2, <2>3
<1>2. PICK H \in SUBSET (DOMAIN doc \ (doc["proof"]["mandatory"] \cup {"proof"})) : p = [f \in DOMAIN doc \ H |-> doc[f]]
  BY DEF Presentations
<1>3. MandatoryPointers(StripExistingProof(doc)) =
        {"id", "issuer", "identity"} \cup
        ({"validFrom", "validUntil", "credentialStatus", "renderMethod"} \cap (DOMAIN doc \ {"proof"}))
  BY <1>1 DEF MandatoryPointers
<1>4. DOMAIN p = DOMAIN doc \ H /\ \A f \in DOMAIN p : p[f] = doc[f]
  BY <1>2
<1>5. H \subseteq DOMAIN doc \ (MandatoryPointers(StripExistingProof(doc)) \cup {"proof"})
  BY <1>1, <1>2
<1>. QED
  BY <1>1, <1>3, <1>4, <1>5

\* What a presentation of a document of the route is answered: its proof holds,
\* and period, lists, store and row decide.
Decided(doc, standing) ==
  /\ clock # "before" /\ ("validUntil" \in DOMAIN doc => clock # "after")
  /\ IF standing["type"] = "lists" THEN \A r \in row : r.status = "issued"
     ELSE OnChain(standing["store"], standing["targetHash"])
  /\ \A r \in row : r.status = "issued" /\ (r.until => clock # "after")

LEMMA PresentationAnswered ==
  ASSUME NEW doc, Published(doc), NEW p \in Presentations(doc)
  PROVE  Verified(p) <=> Decided(doc, doc["credentialStatus"])
<1>1. /\ {"issuer", "identity", "proof", "credentialStatus"} \subseteq DOMAIN p
      /\ \A f \in DOMAIN p : f \in DOMAIN doc /\ p[f] = doc[f]
      /\ MandatoryPointers(StripExistingProof(doc)) \subseteq DOMAIN p \ {"proof"}
      /\ \A f \in {"validFrom", "validUntil"} : f \in DOMAIN p <=> f \in DOMAIN doc
  BY Presented
<1>2. /\ doc["proof"].type = "sd" /\ doc["proof"].by = IssuerDid /\ doc["proof"].over = StripExistingProof(doc)
      /\ doc["proof"].mandatory = MandatoryPointers(StripExistingProof(doc))
      /\ doc["issuer"] = IssuerDid /\ doc["identity"] = "recipient" /\ "validFrom" \in DOMAIN doc
  BY DEF Published, Covers
<1>3. /\ p["proof"] = doc["proof"] /\ p["issuer"] = IssuerDid /\ p["identity"] = "recipient"
      /\ p["credentialStatus"] = doc["credentialStatus"]
  BY <1>1, <1>2
<1>4. /\ DOMAIN StripExistingProof(doc) = DOMAIN doc \ {"proof"} /\ DOMAIN StripExistingProof(p) = DOMAIN p \ {"proof"}
      /\ \A f \in DOMAIN p \ {"proof"} : StripExistingProof(p)[f] = StripExistingProof(doc)[f]
  BY <1>1 DEF StripExistingProof, Without
<1>5. ProofHolds(p)
  BY <1>1, <1>2, <1>3, <1>4 DEF ProofHolds
<1>6. WithinPeriod(p) <=> clock # "before" /\ ("validUntil" \in DOMAIN doc => clock # "after")
  BY <1>1, <1>2 DEF WithinPeriod
<1>7. CASE doc["credentialStatus"]["type"] = "lists"
  <2>1. "ethereum" \notin GetIssuingMethods(p)
    <3>1. doc["issuingMethods"] = {"did"}
      BY <1>7 DEF Published
    <3>. QED
      BY <1>1, <3>1 DEF GetIssuingMethods, Method
  <2>2. VerifyCredential(p) <=> WithinPeriod(p) /\ \A r \in row : r.status = "issued"
    BY <1>1, <1>2, <1>3, <1>5, <1>7, <2>1 DEF VerifyCredential, VerifyEcdsaCredential, ListsClear
  <2>. QED
    BY <1>1, <1>3, <1>6, <1>7, <2>2 DEF Verified, Found, Decided
<1>8. CASE doc["credentialStatus"]["type"] # "lists"
  <2>1. "targetHash" \in DOMAIN doc["credentialStatus"]
    BY <1>8 DEF Published
  <2>2. VerifyCredential(p) <=>
          WithinPeriod(p) /\ OnChain(doc["credentialStatus"]["store"], doc["credentialStatus"]["targetHash"])
    BY <1>1, <1>2, <1>3, <1>5, <1>8, <2>1 DEF VerifyCredential, VerifyEcdsaCredential, StoreConfirms
  <2>. QED
    BY <1>1, <1>3, <1>6, <1>8, <2>2 DEF Verified, Found, Decided
<1>. QED
  BY <1>7, <1>8

\* The whole document is one of its presentations.
LEMMA WholePresented ==
  ASSUME NEW doc, IsDocument(doc)
  PROVE  doc \in Presentations(doc)
<1>1. doc = [f \in DOMAIN doc \ {} |-> doc[f]]
  BY DEF IsDocument
<1>2. {} \in SUBSET (DOMAIN doc \ (doc["proof"]["mandatory"] \cup {"proof"}))
  OBVIOUS
<1>. QED
  BY <1>1, <1>2 DEF Presentations

\* Hiding what the proof does not make mandatory changes no answer
\* (getMandatoryCredentialPointers, verifyEcdsaCredential).
THEOREM HidingChangesNothingHolds == DocumentSpec => []HidingChangesNothing
<1>1. ASSUME DocumentInv, NEW doc \in issued, NEW p \in Presentations(doc)
      PROVE  Verified(p) = Verified(doc)
  <2>1. RowMatches(doc)
    BY <1>1 DEF DocumentInv
  <2>2. CASE Published(doc)
    <3>1. doc \in Presentations(doc)
      BY <2>2, WholePresented DEF Published, Covers
    <3>2. (Verified(p) <=> Decided(doc, doc["credentialStatus"])) /\ (Verified(doc) <=> Decided(doc, doc["credentialStatus"]))
      BY <1>1, <2>2, <3>1, PresentationAnswered
    <3>3. Verified(p) \in BOOLEAN /\ Verified(doc) \in BOOLEAN
      BY DEF Verified
    <3>. QED
      BY <3>2, <3>3
  <2>3. CASE WalletSigned(doc) \/ Received(doc)
    <3>1. IsDocument(doc) /\ doc["proof"].mandatory = DOMAIN StripExistingProof(doc)
      BY <2>3 DEF WalletSigned, Received, Covers
    <3>2. p = doc
      BY <1>1, <3>1, NothingHidden
    <3>. QED
      BY <3>2
  <2>. QED
    BY <2>1, <2>2, <2>3 DEF RowMatches
<1>2. DocumentInv => HidingChangesNothing
  BY <1>1 DEF HidingChangesNothing
<1>. QED
  BY <1>2, DocumentAlways, PTL

\* The one pair there may be on chain.
LEMMA OnChainMeans ==
  ASSUME NEW doc, ChainMatches(doc)
  PROVE  OnChain(WalletStore, ComputeDocumentStoreHash(doc)) <=> registered # {} /\ revoked = {}
BY DEF ChainMatches, OnChain

\* VerifiedUntilRevoked of one document.
VerifiedInTime(doc) ==
  LET decides == DocumentChainDecides(doc)
      withdrawn == (\E r \in row : r.status = "revoked") \/ (decides /\ revoked # {})
  IN
  /\ withdrawn => ~Verified(doc)
  /\ clock = "within" /\ ~withdrawn => Verified(doc) = (decides => registered # {})
  /\ clock = "within" /\ registered # {} /\ revoked = {}
       => AnchorReported(doc) \in {"passed", "not required"}

LEMMA PublishedInTime ==
  ASSUME NEW doc, Published(doc), RowMatches(doc), ChainMatches(doc)
  PROVE  VerifiedInTime(doc)
<1> DEFINE standing == doc["credentialStatus"]
<1>1. PICK r \in row : TRUE
  <2>1. ~(WalletSigned(doc) \/ Received(doc))
    <3>1. doc["proof"].type = "sd"
      BY DEF Published, Covers
    <3>2. WalletSigned(doc) => doc["proof"].type = "wallet"
      BY DEF WalletSigned, Covers
    <3>3. Received(doc) => doc["proof"].type = "other"
      BY DEF Received, Covers
    <3>. QED
      BY <3>1, <3>2, <3>3
  <2>. QED
    BY <2>1 DEF RowMatches
<1>2. /\ row = {r} /\ r.status \in {"issued", "revoked"} /\ WalletStore = r.store /\ r.store = configured
      /\ \/ r.hash = ComputeDocumentStoreHash(doc)
         \/ r.hash = {} /\ registrar = "none" /\ registered = {} /\ standing["type"] = "lists"
  BY <1>1, RowOf
<1>3. Verified(doc) <=> Decided(doc, standing)
  <2>1. doc \in Presentations(doc)
    BY WholePresented DEF Published, Covers
  <2>. QED
    BY <2>1, PresentationAnswered
<1>4. \/ standing["type"] = "store" /\ standing["store"] = configured /\ standing["targetHash"] = ComputeDocumentStoreHash(doc)
      \/ standing["type"] = "lists"
  BY DEF Published, ComputeDocumentStoreHash
<1>5. DocumentChainDecides(doc) <=> standing["type"] = "store"
  BY DEF DocumentChainDecides, Published
<1>6. OnChain(WalletStore, ComputeDocumentStoreHash(doc)) <=> registered # {} /\ revoked = {}
  BY OnChainMeans
<1>7. registered # {} /\ revoked = {} => AnchorReported(doc) \in {"passed", "not required"}
  <2>1. Found(doc) = {r} /\ (CHOOSE s \in Found(doc) : TRUE) = r
    BY <1>2 DEF Found, Published, Covers
  <2>2. registered # {} => r.hash = ComputeDocumentStoreHash(doc)
    BY <1>2
  <2>. QED
    BY <1>2, <1>6, <2>1, <2>2 DEF AnchorReported
<1>8. Verified(doc) = Decided(doc, standing)
  <2>1. Verified(doc) \in BOOLEAN /\ Decided(doc, standing) \in BOOLEAN
    BY DEF Verified, Decided
  <2>. QED
    BY <1>3, <2>1
<1> HIDE DEF standing
<1>9. CASE standing["type"] = "store"
  BY <1>2, <1>4, <1>5, <1>6, <1>7, <1>8, <1>9 DEF VerifiedInTime, Decided
<1>10. CASE standing["type"] = "lists"
  BY <1>2, <1>5, <1>7, <1>8, <1>10 DEF VerifiedInTime, Decided
<1>. QED
  BY <1>4, <1>9, <1>10

LEMMA OthersInTime ==
  ASSUME NEW doc, WalletSigned(doc) \/ Received(doc), row = {}, ChainMatches(doc)
  PROVE  VerifiedInTime(doc)
<1>1. OnChain(DefaultStore, ComputeDocumentStoreHash(doc)) <=> registered # {} /\ revoked = {}
  BY OnChainMeans DEF WalletStore
<1>2. AnchorReported(doc) = "not required"
  BY DEF AnchorReported, Found
<1>3. /\ {"issuer", "identity", "issuingMethods", "proof"} \subseteq DOMAIN doc
      /\ doc["proof"].over = StripExistingProof(doc)
  BY DEF WalletSigned, Received, Covers
<1>4. Verified(doc) = (DocumentChainDecides(doc) => registered # {} /\ revoked = {})
  <2>1. CASE WalletSigned(doc)
    <3>1. /\ doc["proof"].type = "wallet" /\ doc["proof"].by = Account /\ doc["issuingMethods"] = {"ethereum"}
          /\ DocumentChainDecides(doc)
      BY <2>1 DEF WalletSigned, Covers, DocumentChainDecides
    <3>2. "ethereum" \in GetIssuingMethods(doc)
      BY <1>3, <3>1 DEF GetIssuingMethods, Method
    <3>3. VerifyCredential(doc) <=> registered # {} /\ revoked = {}
      BY <1>1, <1>3, <3>1, <3>2 DEF VerifyCredential, VerifyWalletProof, VerifyDocumentOnChain
    <3>. QED
      BY <3>1, <3>3 DEF Verified, Found
  <2>2. CASE Received(doc)
    <3>1. /\ doc["proof"].type = "other" /\ doc["proof"].by = doc["issuer"] /\ doc["issuingMethods"] \subseteq Method
          /\ "credentialStatus" \notin DOMAIN doc
      BY <2>2 DEF Received, Covers
    <3>2. "ethereum" \in GetIssuingMethods(doc) <=> DocumentChainDecides(doc)
      BY <1>3, <3>1 DEF GetIssuingMethods, Method, DocumentChainDecides
    <3>3. VerifyCredential(doc) <=> (DocumentChainDecides(doc) => registered # {} /\ revoked = {})
      BY <1>1, <1>3, <3>1, <3>2 DEF VerifyCredential, VerifyOtherProof, VerifyDocumentOnChain, IsIssuerVerificationMethodMatch
    <3>. QED
      BY <3>3 DEF Verified, Found
  <2>. QED
    BY <2>1, <2>2
<1>. QED
  BY <1>2, <1>4 DEF VerifiedInTime

\* A document is verified from its registration until it is revoked, by whichever
\* of the routes that build, sign, register and revoke it (lib/trustvc.ts).
THEOREM VerifiedUntilRevokedHolds == DocumentSpec => []VerifiedUntilRevoked
<1>1. ASSUME DocumentInv, NEW doc \in issued PROVE VerifiedInTime(doc)
  <2>1. RowMatches(doc) /\ ChainMatches(doc)
    BY <1>1 DEF DocumentInv
  <2>2. Published(doc) \/ ((WalletSigned(doc) \/ Received(doc)) /\ row = {})
    BY <2>1 DEF RowMatches
  <2>. QED
    BY <2>1, <2>2, PublishedInTime, OthersInTime
<1>2. DocumentInv => VerifiedUntilRevoked
  BY <1>1 DEF VerifiedUntilRevoked, VerifiedInTime
<1>. QED
  BY <1>2, DocumentAlways, PTL
=============================================================================
