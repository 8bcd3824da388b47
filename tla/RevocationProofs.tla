-------------------------- MODULE RevocationProofs --------------------------
(*****************************************************************************)
(* Theorems about the calls that change the status of a credential           *)
(* (Revocation), the page that makes them and mails credentials              *)
(* (CredentialPages) and the pages that choose the issuer and template       *)
(* (ProfilePages), for any sets of calls, credentials and issuers.           *)
(*****************************************************************************)
EXTENDS Revocation, CredentialPages, ProfilePages, TLAPS, SequenceTheorems

\* Each write path belongs to one kind of credential.
WritePaths ==
  \A r \in Request :
    /\ pc[r] = "rpc" => target[r] \in Listed
    /\ pc[r] \in {"insert", "update"} => target[r] \notin Listed

\* A call revoking an anchored credential holds its write back until the hash
\* is revoked on chain; a transaction of its own that succeeded did that.
WritesWaitForAnchor ==
  \A r \in Request :
    target[r] \in Anchored /\ action[r] = "revoke"
      /\ (pc[r] \in {"rpc", "insert", "update"} \/ tx[r] = "mined")
    => anchor[target[r]] = "revoked"

RevocationInv ==
  /\ RevocationTypeOK
  /\ WritePaths
  /\ WritesWaitForAnchor
  /\ AnchorRevokedFirst
  /\ JournalTellsStatus

-----------------------------------------------------------------------------
(***************************************************************************)
(* Type correctness.                                                       *)
(***************************************************************************)

\* A transition leads from statuses to statuses.
LEMMA TransitionType ==
  ASSUME TypeOK, NEW c \in Credential, NEW a \in RevocationAction, Transition(c, a)
  PROVE  TypeOK'
BY DEF TypeOK, Transition, StatusForAction, RevocationAction, Status

\* Types: every step keeps them.
LEMMA StepType == RevocationTypeOK /\ [RevocationNext]_allVars => RevocationTypeOK'
<1> SUFFICES ASSUME RevocationTypeOK, [RevocationNext]_allVars
             PROVE  RevocationTypeOK'
  OBVIOUS
<1> USE DEF RevocationTypeOK, Ended, CutShort, Goto, WriteStep
<1>1. ASSUME NEW r \in Request, CallStep(r) PROVE RevocationTypeOK'
  <2>1. CASE Lookup(r)
    BY <2>1 DEF Lookup, TypeOK
  <2>2. CASE Probe(r)
    BY <2>2 DEF Probe, TypeOK
  <2>3. CASE Send(r)
    BY <2>3 DEF Send, TypeOK
  <2>4. CASE Receipt(r)
    BY <2>4 DEF Receipt, TypeOK
  <2>5. CASE ChainError(r)
    BY <2>5 DEF ChainError, TypeOK
  <2>6. CASE ApplyBitstring(r)
    <3>1. TypeOK'
      BY <2>6, TransitionType DEF ApplyBitstring, TypeOK, vars
    <3>. QED
      BY <2>6, <3>1 DEF ApplyBitstring
  <2>7. CASE InsertLog(r)
    BY <2>7 DEF InsertLog, TypeOK
  <2>8. CASE UpdateStatus(r)
    BY <2>8 DEF UpdateStatus, TypeOK, StatusForAction, RevocationAction, Status
  <2>. QED
    BY <1>1, <2>1, <2>2, <2>3, <2>4, <2>5, <2>6, <2>7, <2>8 DEF CallStep
<1>2. ASSUME NEW r \in Request, Crash(r) \/ Mine(r) PROVE RevocationTypeOK'
  BY <1>2 DEF Crash, Mine, TypeOK
<1>3. ASSUME NEW c \in Credential, Anchor(c) \/ PassValidUntil(c) PROVE RevocationTypeOK'
  BY <1>3 DEF Anchor, PassValidUntil, reqVars, TypeOK
<1>4. CASE ExpireOverdue
  BY <1>4 DEF ExpireOverdue, Expire, reqVars, TypeOK, Status
<1>5. CASE UNCHANGED allVars
  BY <1>5 DEF allVars, TypeOK
<1>. QED
  BY <1>1, <1>2, <1>3, <1>4, <1>5 DEF RevocationNext, Environment

\* The state of every behaviour is well typed.
THEOREM RevocationTypeCorrect == RevocationSpec => []RevocationTypeOK
<1>1. RevocationInit => RevocationTypeOK
  BY DEF RevocationInit, Init, RevocationTypeOK, TypeOK, Status, Ended, CutShort
<1>. QED
  BY <1>1, StepType, PTL DEF RevocationSpec

-----------------------------------------------------------------------------
(***************************************************************************)
(* The inductive invariant.  One lemma per conjunct that a step disturbs.  *)
(***************************************************************************)

\* A call enters only the writes of its kind of credential.
LEMMA StepPaths == RevocationInv /\ [RevocationNext]_allVars => WritePaths'
<1> SUFFICES ASSUME RevocationTypeOK, WritePaths, [RevocationNext]_allVars,
                    NEW q \in Request
             PROVE  /\ pc'[q] = "rpc" => target'[q] \in Listed
                    /\ pc'[q] \in {"insert", "update"} => target'[q] \notin Listed
  BY DEF RevocationInv, WritePaths
<1> USE DEF RevocationTypeOK, WritePaths, Goto, WriteStep
<1>1. ASSUME NEW r \in Request, CallStep(r)
      PROVE  /\ pc'[q] = "rpc" => target'[q] \in Listed
             /\ pc'[q] \in {"insert", "update"} => target'[q] \notin Listed
  BY <1>1 DEF CallStep, Lookup, Probe, Send, Receipt, ChainError, ApplyBitstring,
              InsertLog, UpdateStatus
<1>2. CASE Environment
  BY <1>2 DEF Environment, Crash, Mine, Anchor, PassValidUntil, ExpireOverdue, reqVars
<1>3. CASE UNCHANGED allVars
  BY <1>3 DEF allVars
<1>. QED
  BY <1>1, <1>2, <1>3 DEF RevocationNext

\* On chain nothing is ever un-revoked.
LEMMA AnchorMonotone ==
  ASSUME RevocationTypeOK, [RevocationNext]_allVars, NEW c \in Credential,
         anchor[c] = "revoked"
  PROVE  anchor'[c] = "revoked"
<1>1. ASSUME NEW r \in Request, CallStep(r) PROVE anchor' = anchor
  BY <1>1 DEF CallStep, Lookup, Probe, Send, Receipt, ChainError, ApplyBitstring,
              InsertLog, UpdateStatus
<1>2. CASE Environment
  BY <1>2 DEF Environment, Crash, Mine, Anchor, PassValidUntil, ExpireOverdue, RevocationTypeOK
<1>3. CASE UNCHANGED allVars
  BY <1>3 DEF allVars
<1>. QED
  BY <1>1, <1>2, <1>3 DEF RevocationNext

\* A call gets to its write only behind the revocation on chain.
LEMMA StepWaits == RevocationInv /\ [RevocationNext]_allVars => WritesWaitForAnchor'
<1> SUFFICES ASSUME RevocationInv, [RevocationNext]_allVars,
                    NEW q \in Request,
                    target'[q] \in Anchored, action'[q] = "revoke",
                    pc'[q] \in {"rpc", "insert", "update"} \/ tx'[q] = "mined"
             PROVE  anchor'[target'[q]] = "revoked"
  BY DEF WritesWaitForAnchor
<1>1. UNCHANGED <<target, action>>
  BY DEF RevocationNext, CallStep, Environment, Lookup, Probe, Send, Receipt, ChainError,
         ApplyBitstring, InsertLog, UpdateStatus, Crash, Mine, Anchor, PassValidUntil,
         ExpireOverdue, reqVars, allVars
<1>2. target[q] \in Credential
  BY DEF RevocationInv, RevocationTypeOK
<1>3. CASE pc[q] \in {"rpc", "insert", "update"} \/ tx[q] = "mined"
  BY <1>1, <1>2, <1>3, AnchorMonotone DEF RevocationInv, WritesWaitForAnchor
<1>4. CASE ~(pc[q] \in {"rpc", "insert", "update"} \/ tx[q] = "mined")
  <2>1. ASSUME NEW r \in Request, CallStep(r) PROVE anchor'[target'[q]] = "revoked"
    <3>1. CASE Probe(r)
      BY <3>1, <1>1, <1>2, <1>4 DEF Probe, Goto, WriteStep, RevocationInv, RevocationTypeOK
    <3>2. CASE Receipt(r)
      BY <3>2, <1>1, <1>4
         DEF Receipt, Goto, WriteStep, RevocationInv, RevocationTypeOK, WritesWaitForAnchor
    <3>3. CASE Lookup(r) \/ Send(r) \/ ChainError(r) \/ ApplyBitstring(r) \/ InsertLog(r)
               \/ UpdateStatus(r)
      BY <3>3, <1>1, <1>4
         DEF Lookup, Send, ChainError, ApplyBitstring, InsertLog, UpdateStatus, Goto, WriteStep,
             RevocationInv, RevocationTypeOK
    <3>. QED
      BY <2>1, <3>1, <3>2, <3>3 DEF CallStep
  <2>2. CASE Environment
    BY <2>2, <1>1, <1>2, <1>4
       DEF Environment, Crash, Mine, Anchor, PassValidUntil, ExpireOverdue, reqVars, Goto,
           RevocationInv, RevocationTypeOK
  <2>3. CASE UNCHANGED allVars
    BY <2>3, <1>1, <1>4 DEF allVars
  <2>. QED
    BY <2>1, <2>2, <2>3 DEF RevocationNext
<1>. QED
  BY <1>3, <1>4

\* No step revokes a row whose anchored hash is not revoked.
LEMMA StepAnchorFirst == RevocationInv /\ [RevocationNext]_allVars => AnchorRevokedFirst'
<1> SUFFICES ASSUME RevocationInv, [RevocationNext]_allVars,
                    NEW c \in Anchored, status'[c] = "revoked"
             PROVE  anchor'[c] = "revoked"
  BY DEF AnchorRevokedFirst
<1>1. c \in Credential
  BY KindsAssumption
<1>2. SUFFICES ASSUME status[c] # "revoked" PROVE anchor'[c] = "revoked"
  BY <1>1, AnchorMonotone DEF RevocationInv, AnchorRevokedFirst
<1> USE DEF RevocationInv, RevocationTypeOK, TypeOK
<1>3. ASSUME NEW r \in Request, CallStep(r) PROVE anchor'[c] = "revoked"
  <2>1. CASE ApplyBitstring(r)
    BY <1>1, <1>2, <2>1
       DEF ApplyBitstring, Transition, StatusForAction, WritesWaitForAnchor, RevocationAction, vars
  <2>2. CASE UpdateStatus(r)
    BY <1>1, <1>2, <2>2
       DEF UpdateStatus, StatusForAction, WritesWaitForAnchor, RevocationAction
  <2>3. CASE Lookup(r) \/ Probe(r) \/ Send(r) \/ Receipt(r) \/ ChainError(r) \/ InsertLog(r)
    BY <1>2, <2>3 DEF Lookup, Probe, Send, Receipt, ChainError, InsertLog
  <2>. QED
    BY <1>3, <2>1, <2>2, <2>3 DEF CallStep
<1>4. CASE Environment
  BY <1>1, <1>2, <1>4
     DEF Environment, Crash, Mine, Anchor, PassValidUntil, ExpireOverdue, Expire
<1>5. CASE UNCHANGED allVars
  BY <1>2, <1>5 DEF allVars
<1>. QED
  BY <1>3, <1>4, <1>5 DEF RevocationNext

\* What the journal says of one credential, given its status and its entries.
Tells(from, entries) ==
  /\ from \in {"issued", "expired"} <=> entries = <<>> \/ entries[Len(entries)] = "reinstate"
  /\ from \in {"suspended", "revoked"} => StatusForAction[entries[Len(entries)]] = from
  /\ \A i \in 1..(Len(entries) - 1) : entries[i] # "revoke"

\* Journaling a permitted transition keeps the journal telling the status: the
\* entry before it cannot be a revocation, or the status would be final.
LEMMA TransitionTells ==
  ASSUME NEW from \in Status, NEW entries \in Seq(RevocationAction),
         NEW a \in RevocationAction, Tells(from, entries), ~Refused(from, a)
  PROVE  Tells(StatusForAction[a], Append(entries, a))
<1> DEFINE more == Append(entries, a)
<1>1. /\ more \in Seq(RevocationAction)
      /\ Len(more) = Len(entries) + 1
      /\ more[Len(more)] = a
      /\ \A i \in 1..Len(entries) : more[i] = entries[i]
      /\ Len(entries) \in Nat
  OBVIOUS
<1>2. more # <<>>
  BY <1>1
<1>3. \A i \in 1..Len(entries) : entries[i] # "revoke"
  <2>1. CASE entries = <<>>
    BY <2>1
  <2>2. CASE entries # <<>>
    <3>1. Len(entries) \in 1..Len(entries) /\ entries[Len(entries)] \in RevocationAction
      BY <2>2
    <3>2. entries[Len(entries)] # "revoke"
      BY <2>2, <3>1 DEF Tells, Refused, StatusForAction, Status, RevocationAction
    <3>. QED
      BY <3>2, <1>1 DEF Tells
  <2>. QED
    BY <2>1, <2>2
<1>4. \A i \in 1..(Len(more) - 1) : more[i] # "revoke"
  BY <1>1, <1>3
<1>5. /\ StatusForAction[a] \in {"issued", "expired"} <=> a = "reinstate"
      /\ StatusForAction[a] \in {"suspended", "revoked"} => StatusForAction[a] = StatusForAction[a]
  BY DEF StatusForAction, RevocationAction
<1>. QED
  BY <1>1, <1>2, <1>4, <1>5 DEF Tells

\* No step changes the status of a listed row without its journal entry.
LEMMA StepJournal == RevocationInv /\ [RevocationNext]_allVars => JournalTellsStatus'
<1> SUFFICES ASSUME RevocationInv, [RevocationNext]_allVars, NEW c \in Listed
             PROVE  Tells(status'[c], journal'[c])
  BY DEF JournalTellsStatus, Tells
<1>1. /\ c \in Credential
      /\ Tells(status[c], journal[c])
      /\ status[c] \in Status
      /\ journal[c] \in Seq(RevocationAction)
  BY KindsAssumption DEF RevocationInv, RevocationTypeOK, TypeOK, JournalTellsStatus, Tells
<1>2. SUFFICES ASSUME <<status'[c], journal'[c]>> # <<status[c], journal[c]>>
               PROVE  Tells(status'[c], journal'[c])
  BY <1>1
<1> USE DEF RevocationInv, RevocationTypeOK, TypeOK
<1>3. ASSUME NEW r \in Request, CallStep(r) PROVE Tells(status'[c], journal'[c])
  <2>1. CASE ApplyBitstring(r)
    <3>1. target[r] = c /\ Transition(c, action[r])
      BY <1>1, <1>2, <2>1 DEF ApplyBitstring, Transition, vars
    <3>2. /\ action[r] \in RevocationAction
          /\ ~Refused(status[c], action[r])
          /\ status'[c] = StatusForAction[action[r]]
          /\ journal'[c] = Append(journal[c], action[r])
      BY <1>1, <3>1 DEF Transition
    <3>. QED
      BY <1>1, <3>2, TransitionTells
  <2>2. CASE InsertLog(r) \/ UpdateStatus(r)
    BY <1>1, <1>2, <2>2 DEF InsertLog, UpdateStatus, WritePaths
  <2>3. CASE Lookup(r) \/ Probe(r) \/ Send(r) \/ Receipt(r) \/ ChainError(r)
    BY <1>2, <2>3 DEF Lookup, Probe, Send, Receipt, ChainError
  <2>. QED
    BY <1>3, <2>1, <2>2, <2>3 DEF CallStep
<1>4. CASE ExpireOverdue
  <2>1. status[c] = "issued" /\ status'[c] = "expired" /\ journal'[c] = journal[c]
    BY <1>1, <1>2, <1>4 DEF ExpireOverdue, Expire
  <2>. QED
    BY <1>1, <2>1 DEF Tells
<1>5. CASE Environment /\ ~ExpireOverdue
  BY <1>2, <1>5 DEF Environment, Crash, Mine, Anchor, PassValidUntil
<1>6. CASE UNCHANGED allVars
  BY <1>2, <1>6 DEF allVars
<1>. QED
  BY <1>3, <1>4, <1>5, <1>6 DEF RevocationNext, Environment

\* What revokeCredential, the status handlers and the sweep keep together: the
\* inductive invariant that the theorems below follow from.
THEOREM RevocationInvariant == RevocationSpec => []RevocationInv
<1>1. RevocationInit => RevocationInv
  <2> SUFFICES ASSUME RevocationInit PROVE RevocationInv
    OBVIOUS
  <2>1. RevocationTypeOK
    BY DEF RevocationInit, Init, RevocationTypeOK, TypeOK, Status, Ended, CutShort
  <2>2. WritePaths /\ WritesWaitForAnchor
    BY DEF RevocationInit, WritePaths, WritesWaitForAnchor
  <2>3. AnchorRevokedFirst /\ JournalTellsStatus
    BY KindsAssumption DEF RevocationInit, Init, AnchorRevokedFirst, JournalTellsStatus
  <2>. QED
    BY <2>1, <2>2, <2>3 DEF RevocationInv
<1>2. RevocationInv /\ [RevocationNext]_allVars => RevocationInv'
  BY StepType, StepPaths, StepWaits, StepAnchorFirst, StepJournal DEF RevocationInv
<1>. QED
  BY <1>1, <1>2, PTL DEF RevocationSpec

-----------------------------------------------------------------------------
(***************************************************************************)
(* The properties, for any number of calls and credentials.                *)
(***************************************************************************)

\* A credential is revoked in the database only after its anchor is on chain.
THEOREM AnchorRevokedFirstHolds == RevocationSpec => []AnchorRevokedFirst
BY RevocationInvariant, PTL DEF RevocationInv

\* The journal of a status-list credential explains its status.
THEOREM JournalTellsStatusHolds == RevocationSpec => []JournalTellsStatus
BY RevocationInvariant, PTL DEF RevocationInv

\* No interleaving of calls and sweeps takes a status-list credential out of
\* "revoked".
THEOREM RevokedIsFinalHolds == RevocationSpec => RevokedIsFinal
<1> DEFINE Lasts == \A c \in Listed : status[c] = "revoked" => status'[c] = "revoked"
<1>1. RevocationInv /\ [RevocationNext]_allVars => [Lasts]_allVars
  <2> SUFFICES ASSUME RevocationInv, RevocationNext, NEW c \in Listed, status[c] = "revoked"
               PROVE  status'[c] = "revoked"
    OBVIOUS
  <2>1. c \in Credential
    BY KindsAssumption
  <2> USE DEF RevocationInv, RevocationTypeOK, TypeOK
  <2>2. ASSUME NEW r \in Request, CallStep(r) PROVE status'[c] = "revoked"
    <3>1. CASE ApplyBitstring(r)
      BY <2>1, <3>1 DEF ApplyBitstring, Transition, Refused, vars
    <3>2. CASE UpdateStatus(r)
      BY <2>1, <3>2 DEF UpdateStatus, WritePaths
    <3>3. CASE Lookup(r) \/ Probe(r) \/ Send(r) \/ Receipt(r) \/ ChainError(r) \/ InsertLog(r)
      BY <3>3 DEF Lookup, Probe, Send, Receipt, ChainError, InsertLog
    <3>. QED
      BY <2>2, <3>1, <3>2, <3>3 DEF CallStep
  <2>3. CASE Environment
    BY <2>1, <2>3
       DEF Environment, Crash, Mine, Anchor, PassValidUntil, ExpireOverdue, Expire
  <2>. QED
    BY <2>2, <2>3 DEF RevocationNext
<1>. QED
  BY <1>1, RevocationInvariant, PTL DEF RevocationSpec, RevokedIsFinal

\* What concurrent calls do to the status-list credentials implements the
\* abstract lifecycle: each step is a transition, an expiry or a stutter of it.
THEOREM ListedImplementsLifecycle == RevocationSpec => Lifecycle
<1> USE KindsAssumption DEF OfListed!Refused, Refused, OfListed!StatusForAction, StatusForAction,
        OfListed!RevocationAction, RevocationAction
<1>1. RevocationInit => OfListed!Init
  BY DEF RevocationInit, Init, OfListed!Init
<1>2. RevocationInv /\ [RevocationNext]_allVars => [OfListed!Next]_(OfListed!vars)
  <2> SUFFICES ASSUME RevocationInv, [RevocationNext]_allVars
               PROVE  [OfListed!Next]_(OfListed!vars)
    OBVIOUS
  <2> USE DEF RevocationInv, RevocationTypeOK, TypeOK
  <2>0. ASSUME UNCHANGED <<status, journal>> PROVE UNCHANGED OfListed!vars
    BY <2>0 DEF OfListed!vars
  <2>1. ASSUME NEW r \in Request, CallStep(r) PROVE [OfListed!Next]_(OfListed!vars)
    <3>1. CASE ApplyBitstring(r)
      <4>1. CASE UNCHANGED <<status, journal>>
        BY <2>0, <4>1
      <4>2. CASE ~UNCHANGED <<status, journal>>
        <5>1. PICK c \in Listed, act \in OfListed!RevocationAction :
                /\ status' = [status EXCEPT ![c] = OfListed!StatusForAction[act]]
                /\ journal' = [journal EXCEPT ![c] = Append(journal[c], act)]
                /\ ~OfListed!Refused(status[c], act)
          <6>1. target[r] \in Listed /\ action[r] \in OfListed!RevocationAction
            BY <3>1 DEF ApplyBitstring, WritePaths
          <6>2. /\ status' = [status EXCEPT ![target[r]] = OfListed!StatusForAction[action[r]]]
                /\ journal' = [journal EXCEPT ![target[r]] = Append(journal[target[r]], action[r])]
                /\ ~OfListed!Refused(status[target[r]], action[r])
            BY <3>1, <4>2 DEF ApplyBitstring, Transition, vars
          <6> HIDE DEF OfListed!RevocationAction, OfListed!StatusForAction, OfListed!Refused
          <6>. QED
            BY <6>1, <6>2
        <5>2. ([c_ \in Listed |-> status[c_]])'
                = [[c_ \in Listed |-> status[c_]] EXCEPT ![c] = OfListed!StatusForAction[act]]
          BY <5>1
        <5>3. ([c_ \in Listed |-> journal[c_]])'
                = [[c_ \in Listed |-> journal[c_]] EXCEPT ![c] = Append(journal[c], act)]
          BY <5>1
        <5>4. OfListed!Transition(c, act)
          BY <5>1, <5>2, <5>3 DEF OfListed!Transition
        <5>. QED
          BY <5>4 DEF OfListed!Next
      <4>. QED
        BY <4>1, <4>2
    <3>2. CASE InsertLog(r) \/ UpdateStatus(r)
      BY <3>2 DEF InsertLog, UpdateStatus, WritePaths, OfListed!vars
    <3>3. CASE Lookup(r) \/ Probe(r) \/ Send(r) \/ Receipt(r) \/ ChainError(r)
      BY <2>0, <3>3 DEF Lookup, Probe, Send, Receipt, ChainError
    <3>. QED
      BY <2>1, <3>1, <3>2, <3>3 DEF CallStep
  <2>2. CASE ExpireOverdue
    <3>1. PICK C \in SUBSET Credential : Expire(C)
      BY <2>2 DEF ExpireOverdue
    <3>2. OfListed!Expire(C \cap Listed)
      BY <3>1 DEF Expire, OfListed!Expire
    <3>. QED
      BY <3>2 DEF OfListed!Next
  <2>3. CASE Environment /\ ~ExpireOverdue
    BY <2>0, <2>3 DEF Environment, Crash, Mine, Anchor, PassValidUntil
  <2>4. CASE UNCHANGED allVars
    BY <2>0, <2>4 DEF allVars
  <2>. QED
    BY <2>1, <2>2, <2>3, <2>4 DEF RevocationNext, Environment
<1>. QED
  BY <1>1, <1>2, RevocationInvariant, PTL DEF RevocationSpec, Lifecycle, OfListed!Spec

-----------------------------------------------------------------------------

(*****************************************************************************)
(* The page of one credential: rows, buttons, and the mails of the staff.    *)
(* A status the page shows is the one of the row or is behind it, and the    *)
(* messages of one button that may yet be repeated are one message.          *)
(*****************************************************************************)

\* Revoked since it was last said to be, or revoked and written over.
WasRevoked(c) == rowStatus[c] = "revoked" \/ c \in overwritten

\* What the page says of a row, or is about to say: revoked, only if it was; and what
\* the status lists carry was written over by nobody.
RowsTrue ==
  /\ overwritten \cap backed = {}
  /\ DOMAIN rowStatus = Held /\ DOMAIN revocations = Held
  /\ list # NoList =>
       DOMAIN list = Held /\ \A c \in Held : list[c] = "revoked" => WasRevoked(c)
  /\ listLoad = "answered" =>
       DOMAIN answer = Held /\ \A c \in Held : answer[c] = "revoked" => WasRevoked(c)
  /\ \A c \in Held : revocations[c] = "done" => WasRevoked(c)

Letter == [of : Held, id : Nat \ {0}, mount : Nat]
LetterOf(s) == [of |-> s.of, id |-> s.id, mount |-> s.mount]

\* What may yet be repeated: every message of which the page knows nothing better.
Pending == {LetterOf(s) : s \in sends} \cup (mailed \ confirmed)

MailTypeOK ==
  /\ mailId \in [Held -> Nat] /\ mount \in [Held -> Nat] /\ lastMailId \in Nat
  /\ sends \subseteq [of : Held, id : Nat \ {0}, mount : Nat,
                      stage : {"asked", "checked", "accepted", "failed"}]
  /\ mailed \subseteq Letter /\ confirmed \subseteq mailed

\* The pending messages of a button are one message, under the id the button keeps.
OneMessage ==
  /\ \A s \in sends : s.stage = "accepted" => LetterOf(s) \in mailed
  /\ \A s, t \in sends : s.of = t.of /\ s.mount = t.mount => s = t
  /\ \A x, y \in Pending : x.of = y.of /\ x.mount = y.mount => x.id = y.id
  /\ \A x \in Pending :
       x.mount <= mount[x.of] /\ (x.mount = mount[x.of] => x.id = mailId[x.of])

StaffInv == RowsTrue /\ MailTypeOK /\ OneMessage

\* Revoked is final, or written over, for whoever changes the rows.
LEMMA RevokedStays ==
  ASSUME StaffInv, StaffNext, NEW c \in Held, WasRevoked(c)
  PROVE  WasRevoked(c)'
BY DEF WasRevoked, Apply, StaffInv, RowsTrue, StaffNext, RefreshSession, SessionRefreshed, PageRendered, UserBecomes, ServeList,
       ShowList, FailList, Search, RevokeRow, ServeRevocation, RevocationAnswered, OpenSend, ConfirmSend,
       Lapse, OthersApply, CancelSend, CheckSend, Mail, SendAnswered, records

LEMMA RowsKeep == StaffInv /\ StaffNext => RowsTrue'
<1>. SUFFICES ASSUME StaffInv, StaffNext PROVE RowsTrue'
  OBVIOUS
<1>0. overwritten' \cap backed' = {}
  BY DEF Apply, StaffInv, RowsTrue, StaffNext, RefreshSession, SessionRefreshed, PageRendered, UserBecomes, ServeList,
         ShowList, FailList, Search, RevokeRow, ServeRevocation, RevocationAnswered, OpenSend, ConfirmSend,
         Lapse, OthersApply, CancelSend, CheckSend, Mail, SendAnswered, records
<1>1. DOMAIN rowStatus' = Held /\ DOMAIN revocations' = Held
  BY DEF Apply, StaffInv, RowsTrue, StaffNext, RefreshSession, SessionRefreshed, PageRendered, UserBecomes, ServeList,
         ShowList, FailList, Search, RevokeRow, ServeRevocation, RevocationAnswered, OpenSend, ConfirmSend,
         Lapse, OthersApply, CancelSend, CheckSend, Mail, SendAnswered, records
<1>2. list' # NoList =>
        DOMAIN list' = Held /\ \A c \in Held : list'[c] = "revoked" => WasRevoked(c)'
  <2>1. \/ UNCHANGED list \/ list' = NoList
        \/ list' = answer /\ listLoad = "answered"
        \/ \E c \in Held : list # NoList /\ list' = [list EXCEPT ![c] = "revoked"] /\ revocations[c] = "done"
    BY DEF StaffInv, RowsTrue, StaffNext, RefreshSession, SessionRefreshed, PageRendered, UserBecomes, ServeList,
           ShowList, FailList, Search, RevokeRow, ServeRevocation, RevocationAnswered, OpenSend, ConfirmSend,
           Lapse, OthersApply, CancelSend, CheckSend, Mail, SendAnswered, listing, staffPage
  <2>. QED
    BY <2>1, RevokedStays DEF StaffInv, RowsTrue
<1>3. listLoad' = "answered" =>
        DOMAIN answer' = Held /\ \A c \in Held : answer'[c] = "revoked" => WasRevoked(c)'
  <2>1. \/ UNCHANGED <<answer, listLoad>> \/ listLoad' # "answered"
        \/ answer' = rowStatus' /\ DOMAIN answer' = Held
    BY DEF StaffInv, RowsTrue, StaffNext, RefreshSession, SessionRefreshed, PageRendered, UserBecomes, ServeList,
           ShowList, FailList, Search, RevokeRow, ServeRevocation, RevocationAnswered, OpenSend, ConfirmSend,
           Lapse, OthersApply, CancelSend, CheckSend, Mail, SendAnswered, listing, staffPage
  <2>. QED
    BY <2>1, RevokedStays DEF StaffInv, RowsTrue, WasRevoked
<1>4. \A c \in Held : revocations'[c] = "done" => WasRevoked(c)'
  <2>1. \A c \in Held : revocations'[c] = "done" => revocations[c] = "done" \/ WasRevoked(c)'
    BY ZenonT(60) DEF WasRevoked, Apply, StaffInv, RowsTrue, StaffNext, RefreshSession, SessionRefreshed, PageRendered, UserBecomes, ServeList,
           ShowList, FailList, Search, RevokeRow, ServeRevocation, RevocationAnswered, OpenSend, ConfirmSend,
           Lapse, OthersApply, CancelSend, CheckSend, Mail, SendAnswered
  <2>. QED
    BY <2>1, RevokedStays DEF StaffInv, RowsTrue
<1>. QED
  BY <1>0, <1>1, <1>2, <1>3, <1>4 DEF RowsTrue

\* Rows that leave the page: a button that has sent something is never used again.
LEMMA UnmountKeeps ==
  ASSUME MailTypeOK, OneMessage, NEW C, Unmount(C), UNCHANGED mail
  PROVE  MailTypeOK' /\ OneMessage'
<1>1. MailTypeOK'
  BY DEF MailTypeOK, Unmount, mail
<1>2. UNCHANGED <<sends, mailed, Pending>>
  BY DEF mail, Pending
<1>3. \A x \in Pending : x \in Letter
  BY DEF MailTypeOK, Pending, Letter, LetterOf
<1>4. ASSUME NEW x \in Pending
      PROVE  x.mount <= mount'[x.of] /\ (x.mount = mount'[x.of] => x.id = mailId'[x.of])
  <2>1. /\ x.of \in Held /\ x.mount \in Nat /\ x.id \in Nat \ {0} /\ x.mount <= mount[x.of]
        /\ x.mount = mount[x.of] => x.id = mailId[x.of]
    BY <1>3, <1>4 DEF Letter, OneMessage
  <2>. QED
    BY <2>1 DEF Unmount, MailTypeOK
<1>. QED
  BY <1>1, <1>2, <1>4 DEF OneMessage

\* A step that leaves the buttons and the messages alone.
LEMMA MailSame ==
  ASSUME MailTypeOK, OneMessage, UNCHANGED <<mailId, mount, mail>>
  PROVE  MailTypeOK' /\ OneMessage'
BY DEF MailTypeOK, OneMessage, mail, Pending

LEMMA ConfirmKeeps ==
  ASSUME MailTypeOK, OneMessage, NEW c \in Held, ConfirmSend(c)
  PROVE  MailTypeOK' /\ OneMessage'
<1>. DEFINE id == MessageId(c)
            new == [of |-> c, id |-> id, mount |-> mount[c], stage |-> "asked"]
<1>1. id \in Nat \ {0} /\ (mailId[c] = 0 \/ id = mailId[c])
  BY DEF MessageId, MailTypeOK
<1>2. /\ mailId' = [mailId EXCEPT ![c] = id] /\ sends' = sends \cup {new} /\ ~InFlight(c)
      /\ UNCHANGED <<mount, mailed, confirmed>> /\ lastMailId' \in {id, lastMailId}
  BY DEF ConfirmSend
<1>. HIDE DEF id
<1>3. MailTypeOK'
  BY <1>1, <1>2 DEF MailTypeOK
<1>4. Pending' = Pending \cup {LetterOf(new)}
  BY <1>2 DEF Pending
<1>5. \A x \in Pending : x \in Letter
  BY DEF MailTypeOK, Pending, Letter, LetterOf
<1>6. \A x \in Pending : x.of = c /\ x.mount = mount[c] => x.id = id
  BY <1>1, <1>5 DEF OneMessage, Letter
<1>7. LetterOf(new) = [of |-> c, id |-> id, mount |-> mount[c]]
  BY DEF LetterOf
<1>8. \A x, y \in Pending' : x.of = y.of /\ x.mount = y.mount => x.id = y.id
  BY <1>4, <1>6, <1>7 DEF OneMessage
<1>9. \A x \in Pending' :
        x.mount <= mount'[x.of] /\ (x.mount = mount'[x.of] => x.id = mailId'[x.of])
  BY <1>2, <1>4, <1>5, <1>6, <1>7 DEF OneMessage, MailTypeOK, Letter
<1>10. /\ \A s \in sends' : s.stage = "accepted" => LetterOf(s) \in mailed'
       /\ \A s, t \in sends' : s.of = t.of /\ s.mount = t.mount => s = t
  BY <1>2 DEF OneMessage, InFlight
<1>. QED
  BY <1>3, <1>8, <1>9, <1>10 DEF OneMessage

\* A message goes on: checked, accepted or failed.
LEMMA ProceedKeeps ==
  ASSUME MailTypeOK, OneMessage, NEW s \in sends, CheckSend(s) \/ Mail(s)
  PROVE  MailTypeOK' /\ OneMessage'
<1>1. PICK stage \in {"checked", "accepted", "failed"} :
        /\ Proceeds(s, stage) /\ UNCHANGED <<mailId, mount, confirmed, lastMailId>>
        /\ mailed' \in {mailed, mailed \cup {LetterOf(s)}}
        /\ stage = "accepted" => mailed' = mailed \cup {LetterOf(s)}
  BY DEF CheckSend, Mail, LetterOf, buttons
<1>. DEFINE next == [s EXCEPT !.stage = stage]
<1>2. /\ s.of \in Held /\ s.id \in Nat \ {0} /\ s.mount \in Nat
      /\ next = [of |-> s.of, id |-> s.id, mount |-> s.mount, stage |-> stage]
      /\ LetterOf(next) = LetterOf(s) /\ LetterOf(s) \in Letter
  BY DEF MailTypeOK, LetterOf, Letter
<1>3. sends' = (sends \ {s}) \cup {next}
  BY <1>1 DEF Proceeds
<1>. HIDE DEF next
<1>4. MailTypeOK'
  BY <1>1, <1>2, <1>3 DEF MailTypeOK
<1>5. Pending' \subseteq Pending
  BY <1>1, <1>2, <1>3 DEF Pending
<1>6. /\ \A r \in sends' : r.stage = "accepted" => LetterOf(r) \in mailed'
      /\ \A r, t \in sends' : r.of = t.of /\ r.mount = t.mount => r = t
  BY <1>1, <1>2, <1>3 DEF OneMessage
<1>. QED
  BY <1>1, <1>4, <1>5, <1>6 DEF OneMessage

LEMMA AnswerKeeps ==
  ASSUME MailTypeOK, OneMessage, NEW s \in sends, SendAnswered(s)
  PROVE  MailTypeOK' /\ OneMessage'
<1>1. s.of \in Held /\ s.id \in Nat \ {0} /\ s.mount \in Nat /\ LetterOf(s) \in Pending
  BY DEF MailTypeOK, Pending
<1>2. sends' = sends \ {s} /\ UNCHANGED <<mount, mailed, lastMailId>>
  BY DEF SendAnswered
<1>3. CASE mount[s.of] = s.mount /\ s.stage = "accepted"
  <2>1. /\ confirmed' = confirmed \cup {LetterOf(s)} /\ mailId' = [mailId EXCEPT ![s.of] = 0]
        /\ LetterOf(s) \in mailed
    BY <1>3 DEF SendAnswered, LetterOf, OneMessage
  <2>2. MailTypeOK'
    BY <1>1, <1>2, <2>1 DEF MailTypeOK
  <2>3. Pending' \subseteq Pending \ {LetterOf(s)}
    <3>1. \A t \in sends' : LetterOf(t) # LetterOf(s)
      BY <1>2 DEF OneMessage, LetterOf
    <3>. QED
      BY <1>2, <2>1, <3>1 DEF Pending
  <2>4. \A x \in Pending : x \in Letter
    BY DEF MailTypeOK, Pending, Letter, LetterOf
  <2>5. ASSUME NEW x \in Pending' PROVE x.of # s.of \/ x.mount # mount[s.of]
    <3>1. x \in Pending /\ x \in Letter /\ x # LetterOf(s)
      BY <2>3, <2>4
    <3>2. x = [of |-> x.of, id |-> x.id, mount |-> x.mount]
      BY <3>1 DEF Letter
    <3>3. LetterOf(s).of = s.of /\ LetterOf(s).id = s.id /\ LetterOf(s).mount = s.mount
      BY DEF LetterOf
    <3>4. x.of = s.of /\ x.mount = s.mount => x.id = s.id
      BY <1>1, <3>1, <3>3 DEF OneMessage
    <3>. QED
      BY <1>3, <3>1, <3>2, <3>4 DEF LetterOf
  <2>6. \A x \in Pending' :
          x.mount <= mount'[x.of] /\ (x.mount = mount'[x.of] => x.id = mailId'[x.of])
    BY <1>1, <1>2, <2>1, <2>3, <2>4, <2>5 DEF OneMessage, MailTypeOK, Letter
  <2>. QED
    BY <1>2, <2>2, <2>3, <2>6 DEF OneMessage
<1>4. CASE ~(mount[s.of] = s.mount /\ s.stage = "accepted")
  <2>1. UNCHANGED <<confirmed, mailId>>
    BY <1>4 DEF SendAnswered
  <2>2. Pending' \subseteq Pending
    BY <1>2, <2>1 DEF Pending
  <2>. QED
    BY <1>2, <2>1, <2>2 DEF OneMessage, MailTypeOK
<1>. QED
  BY <1>3, <1>4

LEMMA StaffStep == StaffInv /\ [StaffNext]_staffVars => StaffInv'
<1>1. StaffInv /\ UNCHANGED staffVars => StaffInv'
  BY MailSame DEF StaffInv, RowsTrue, WasRevoked, staffVars, records, staffPage, listing, buttons
<1>2. ASSUME StaffInv, StaffNext PROVE MailTypeOK' /\ OneMessage'
  <2>. USE DEF StaffInv
  <2>1. CASE \/ RefreshSession \/ ServeList \/ ShowList \/ FailList \/ CancelSend
             \/ \E c \in Held : \/ RevokeRow(c) \/ ServeRevocation(c) \/ RevocationAnswered(c)
                                \/ OpenSend(c) \/ Lapse(c)
                                \/ \E s \in {"issued", "suspended", "revoked"} : OthersApply(c, s)
    BY <1>2, <2>1, MailSame
       DEF RefreshSession, ServeList, ShowList, FailList, CancelSend, RevokeRow, ServeRevocation,
           RevocationAnswered, OpenSend, Lapse, OthersApply, buttons
  <2>2. ASSUME NEW known \in BOOLEAN, SessionRefreshed(known) \/ PageRendered(known)
        PROVE  MailTypeOK' /\ OneMessage'
    BY <1>2, <2>2, MailSame, UnmountKeeps DEF SessionRefreshed, PageRendered, UserBecomes, buttons
  <2>3. ASSUME NEW H \in SUBSET Held, Search(H) PROVE MailTypeOK' /\ OneMessage'
    BY <1>2, <2>3, UnmountKeeps DEF Search
  <2>4. ASSUME NEW c \in Held, ConfirmSend(c) PROVE MailTypeOK' /\ OneMessage'
    BY <1>2, <2>4, ConfirmKeeps
  <2>5. ASSUME NEW s \in sends, CheckSend(s) \/ Mail(s) \/ SendAnswered(s) PROVE MailTypeOK' /\ OneMessage'
    BY <1>2, <2>5, ProceedKeeps, AnswerKeeps
  <2>. QED
    BY <1>2, <2>1, <2>2, <2>3, <2>4, <2>5 DEF StaffNext
<1>. QED
  BY <1>1, <1>2, RowsKeep DEF StaffInv

LEMMA StaffBegin == StaffInit => StaffInv
BY DEF StaffInit, StaffInv, RowsTrue, MailTypeOK, OneMessage, Pending, Unsent, LetterOf

\* ReportedWasDone for any credentials: a row the page shows as revoked is
\* revoked, or has no status-list entries and was written over; a message it shows as accepted was accepted, and however often
\* ConfirmSend is clicked, a button repeats what it could not confirm under one id.
THEOREM ReportedWasDoneHolds == StaffSpec => []ReportedWasDone
<1>1. StaffInv => ReportedWasDone
  <2>. SUFFICES ASSUME StaffInv PROVE ReportedWasDone
    OBVIOUS
  <2>1. ASSUME NEW x \in mailed \ confirmed, NEW y \in mailed \ confirmed, x.of = y.of, x.mount = y.mount
        PROVE  x = y
    <3>1. x \in Letter /\ y \in Letter /\ x.id = y.id
      BY <2>1 DEF StaffInv, MailTypeOK, OneMessage, Pending
    <3>. QED
      BY <2>1, <3>1 DEF Letter
  <2>. QED
    BY <2>1 DEF StaffInv, RowsTrue, WasRevoked, MailTypeOK, ReportedWasDone
<1>. QED
  BY <1>1, StaffBegin, StaffStep, PTL DEF StaffSpec

-----------------------------------------------------------------------------

(*****************************************************************************)
(* The profile registry and the template builder.  Each call remembers for   *)
(* whom it was asked, and what it carries still goes with that issuer.       *)
(*****************************************************************************)

\* A profile goes with an issuer if it is the issuer's, or none at all.
GoesWith(of, profile) ==
  /\ profile \in Identity \cup {Unchosen}
  /\ profile # Unchosen => OwnedBy[profile] = of

\* What a call carries, and what it is answered, is still meant for whom it was asked.
CallMeant(k) ==
  /\ "stage" \in DOMAIN calls[k]
  /\ k = "change" /\ opened = "registry" /\ Stage(k) = "sent" => calls[k].of = calls[k].from
  /\ k = "change" /\ Stage(k) = "checked" => opened = "builder"
  /\ k = "change" /\ opened = "builder" /\ Stage(k) \in {"sent", "checked"} =>
       GoesWith(calls[k].of, calls[k].profile)
  /\ k = "options" /\ Stage(k) = "asked" => calls[k].of = owner
  /\ k = "options" /\ Stage(k) = "answered" =>
       \A p \in calls[k].list : p \in Identity /\ OwnedBy[p] = owner
  /\ k \notin {"offer", "options"} /\ opened = "builder" /\ Stage(k) = "answered" =>
       \A t \in calls[k].list : t.of \in Owner /\ GoesWith(t.of, t.profile)

\* The template of an issuer that has one names a profile that goes with it.
TemplatesMeant == \A o \in Owner : templates[o] # "none" => GoesWith(o, templates[o])

\* What the pages hold: the form of the registry, the choices of the builder.
ChoicesMeant ==
  /\ edited # Unchosen => filled = edited
  /\ GoesWith(owner, pick)
  /\ \A p \in options : p \in Identity /\ OwnedBy[p] = owner
  /\ \A t \in saved : t.of \in Owner /\ GoesWith(t.of, t.profile)

ProfilesInv ==
  /\ opened \in {"registry", "builder"}
  /\ DOMAIN calls = Call /\ DOMAIN templates = Owner /\ live \subseteq Identity
  /\ TemplatesMeant /\ ChoicesMeant /\ \A k \in Call : CallMeant(k)

\* The calls are told apart.
LEMMA CallNames ==
  /\ {"list", "change", "offer", "options"} \subseteq Call /\ Owner \subseteq Call /\ Identity \subseteq Call
  /\ \A k \in Owner \cup Identity : k \notin {"list", "change", "offer", "options", "none"} /\ k # Unchosen
BY ProfilesAssumption DEF Call

\* A call that stays as it is stays meant as it was.
LEMMA CallKept ==
  ASSUME NEW k, CallMeant(k), calls'[k] = calls[k], opened' = opened, owner' = owner \/ k # "options"
  PROVE  CallMeant(k)'
BY DEF CallMeant, Stage, GoesWith

\* One call goes on, and leaves the others as they are.
LEMMA OneCall ==
  ASSUME ProfilesInv, NEW k \in Call, NEW r, Goes(k, r), opened' = opened, owner' = owner,
         CallMeant(k)'
  PROVE  DOMAIN calls' = Call /\ \A j \in Call : CallMeant(j)'
<1>1. DOMAIN calls' = Call /\ \A j \in Call \ {k} : calls'[j] = calls[j]
  BY DEF Goes, ProfilesInv
<1>. QED
  BY <1>1, CallKept DEF ProfilesInv

\* Choices and templates that stay as they are stay meant as they were.
LEMMA ChoicesKept ==
  ASSUME UNCHANGED <<edited, filled, owner, pick, options, saved>>, ChoicesMeant
  PROVE  ChoicesMeant'
BY DEF ChoicesMeant, GoesWith
LEMMA TemplatesKept ==
  ASSUME UNCHANGED server, TemplatesMeant, DOMAIN templates = Owner, live \subseteq Identity
  PROVE  TemplatesMeant' /\ DOMAIN templates' = Owner /\ live' \subseteq Identity
BY DEF TemplatesMeant, GoesWith, server

\* The clicks and answers of the registry.
LEMMA RegistryKeeps ==
  ASSUME ProfilesInv,
         \/ Refresh \/ CancelProfileEdit \/ SubmitEdit \/ EditAnswered
         \/ \E p \in Identity : BeginEdit(p) \/ ToggleActive(p) \/ ToggleAnswered(p)
  PROVE  ProfilesInv'
<1>1. /\ opened = "registry" /\ UNCHANGED <<opened, server, owner, pick, options, saved>>
      /\ TemplatesMeant' /\ DOMAIN templates' = Owner /\ live' \subseteq Identity
  BY TemplatesKept
     DEF ProfilesInv, Refresh, CancelProfileEdit, SubmitEdit, EditAnswered, BeginEdit, ToggleActive,
         ToggleAnswered, InRegistry, builder, chosen
<1>2. ChoicesMeant'
  <2>1. edited' # Unchosen => filled' = edited'
    BY DEF ProfilesInv, ChoicesMeant, Refresh, CancelProfileEdit, SubmitEdit, EditAnswered, BeginEdit,
           ToggleActive, ToggleAnswered, registry
  <2>. QED
    BY <1>1, <2>1 DEF ProfilesInv, ChoicesMeant, GoesWith
<1>3. \/ UNCHANGED calls
      \/ \E r \in {[stage |-> "asked"], Idle} : \E k \in {"list", "change"} \cup Identity : Goes(k, r)
      \/ \E p \in Identity : \E on : Goes(p, [stage |-> "sent", on |-> on])
      \/ edited # Unchosen /\ Goes("change", [stage |-> "sent", of |-> edited, from |-> filled])
  BY DEF Refresh, CancelProfileEdit, SubmitEdit, EditAnswered, BeginEdit, ToggleActive, ToggleAnswered
<1>4. DOMAIN calls' = Call /\ \A k \in Call : CallMeant(k)'
  <2>1. CASE UNCHANGED calls
    BY <1>1, <2>1, CallKept DEF ProfilesInv
  <2>2. ASSUME NEW r \in {[stage |-> "asked"], Idle}, NEW k \in {"list", "change"} \cup Identity, Goes(k, r)
        PROVE  DOMAIN calls' = Call /\ \A j \in Call : CallMeant(j)'
    <3>1. k \in Call /\ k # "options"
      BY CallNames
    <3>2. calls'[k].stage \in {"asked", "idle"} /\ "stage" \in DOMAIN calls'[k]
      BY <2>2, <3>1 DEF Goes, Idle, ProfilesInv
    <3>3. CallMeant(k)'
      BY <3>1, <3>2 DEF CallMeant, Stage
    <3>. QED
      BY <1>1, <2>2, <3>1, <3>3, OneCall
  <2>3. ASSUME NEW p \in Identity, NEW on, Goes(p, [stage |-> "sent", on |-> on])
        PROVE  DOMAIN calls' = Call /\ \A j \in Call : CallMeant(j)'
    <3>1. p \in Call /\ p \notin {"change", "options"} /\ calls'[p] = [stage |-> "sent", on |-> on]
      BY <2>3, CallNames DEF Goes, ProfilesInv
    <3>2. CallMeant(p)'
      BY <3>1 DEF CallMeant, Stage
    <3>. QED
      BY <1>1, <2>3, <3>1, <3>2, OneCall
  <2>4. ASSUME edited # Unchosen, Goes("change", [stage |-> "sent", of |-> edited, from |-> filled])
        PROVE  DOMAIN calls' = Call /\ \A j \in Call : CallMeant(j)'
    <3>1. "change" \in Call /\ calls'["change"] = [stage |-> "sent", of |-> edited, from |-> filled]
      BY <2>4, CallNames DEF Goes, ProfilesInv
    <3>2. CallMeant("change")'
      BY <1>1, <2>4, <3>1 DEF CallMeant, Stage, ProfilesInv, ChoicesMeant
    <3>. QED
      BY <1>1, <2>4, <3>1, <3>2, OneCall
  <2>. QED
    BY <1>3, <2>1, <2>2, <2>3, <2>4
<1>. QED
  BY <1>1, <1>2, <1>4 DEF ProfilesInv

\* Another issuer, with a profile that goes with it: what was offered for the
\* issuer before goes, and the load under way is for the new one.
LEMMA OwnerMeant ==
  ASSUME ProfilesInv, NEW o, NEW p, OwnerBecomes(o, p), GoesWith(o, p),
         UNCHANGED <<opened, edited, filled, saved, server>>
  PROVE  ProfilesInv'
<1>1. ChoicesMeant'
  <2>1. GoesWith(owner', pick')
    BY DEF OwnerBecomes, GoesWith
  <2>2. \A q \in options' : q \in Identity /\ OwnedBy[q] = owner'
    BY DEF OwnerBecomes, ProfilesInv, ChoicesMeant
  <2>. QED
    BY <2>1, <2>2 DEF ProfilesInv, ChoicesMeant, GoesWith
<1>2. DOMAIN calls' = Call /\ \A k \in Call : CallMeant(k)'
  <2>1. CASE o = owner
    BY <2>1, CallKept DEF ProfilesInv, OwnerBecomes
  <2>2. CASE o # owner
    <3>1. /\ DOMAIN calls' = Call /\ \A j \in Call \ {"options"} : calls'[j] = calls[j]
          /\ calls'["options"] \in {Idle, [stage |-> "asked", of |-> owner']}
      BY <2>2, CallNames DEF ProfilesInv, OwnerBecomes, Goes
    <3>2. CallMeant("options")'
      BY <3>1 DEF CallMeant, Stage, Idle
    <3>. QED
      BY <3>1, <3>2, CallKept DEF ProfilesInv
  <2>. QED
    BY <2>1, <2>2
<1>. QED
  BY <1>1, <1>2, TemplatesKept DEF ProfilesInv

\* The clicks and answers of the builder.
LEMMA BuilderKeeps ==
  ASSUME ProfilesInv,
         \/ \E S \in SUBSET Owner : OfferOwners(S)
         \/ \E o \in issuers \cup {Unchosen} : PickOwner(o)
         \/ \E p \in options \cup {Unchosen} : PickProfile(p)
         \/ ServeOptions \/ ShowOptions \/ SaveTemplate
         \/ \E t \in saved : LoadTemplate(t) \/ DeleteTemplate(t)
         \/ \E k \in {"change"} \cup Owner : TemplatesChanged(k)
  PROVE  ProfilesInv'
<1>1. /\ opened = "builder" /\ UNCHANGED <<opened, server, edited, filled, saved>>
      /\ TemplatesMeant' /\ DOMAIN templates' = Owner /\ live' \subseteq Identity
  BY TemplatesKept
     DEF ProfilesInv, OfferOwners, PickOwner, PickProfile, ServeOptions, ShowOptions, SaveTemplate,
         LoadTemplate, DeleteTemplate, TemplatesChanged, InBuilder, registry, builder
<1>2. ASSUME NEW S \in SUBSET Owner, OfferOwners(S) PROVE ProfilesInv'
  <2>1. CASE Goes("offer", Idle) /\ UNCHANGED <<owner, options, optionsFail>>
    <3>1. CallMeant("offer")' /\ "offer" \in Call
      BY <2>1, CallNames DEF CallMeant, Goes, Idle, ProfilesInv
    <3>2. UNCHANGED pick
      BY <1>2 DEF OfferOwners
    <3>. QED
      BY <1>1, <2>1, <3>1, <3>2, OneCall, ChoicesKept DEF ProfilesInv
  <2>2. ASSUME NEW o \in S, owner' = o, owner \notin S, options' = {},
               calls' = [calls EXCEPT !["offer"] = Idle, !["options"] = [stage |-> "asked", of |-> o]]
        PROVE  ProfilesInv'
    <3>1. owner = Unchosen /\ pick' = pick /\ pick = Unchosen
      BY <1>2, <2>2, ProfilesAssumption DEF OfferOwners, ProfilesInv, ChoicesMeant, GoesWith
    <3>2. ChoicesMeant'
      BY <1>1, <2>2, <3>1 DEF ProfilesInv, ChoicesMeant, GoesWith
    <3>3. /\ DOMAIN calls' = Call /\ \A j \in Call \ {"offer", "options"} : calls'[j] = calls[j]
          /\ calls'["options"] = [stage |-> "asked", of |-> owner'] /\ calls'["offer"] = Idle
      BY <2>2, CallNames DEF ProfilesInv
    <3>4. CallMeant("options")' /\ CallMeant("offer")'
      BY <3>3 DEF CallMeant, Stage, Idle
    <3>. QED
      BY <1>1, <3>2, <3>3, <3>4, CallKept DEF ProfilesInv
  <2>. QED
    BY <1>2, <2>1, <2>2 DEF OfferOwners
<1>3. ASSUME NEW o \in issuers \cup {Unchosen}, PickOwner(o) PROVE ProfilesInv'
  BY <1>1, <1>3, OwnerMeant DEF PickOwner, GoesWith
<1>4. ASSUME NEW p \in options \cup {Unchosen}, PickProfile(p) PROVE ProfilesInv'
  <2>1. ChoicesMeant'
    BY <1>1, <1>4 DEF PickProfile, ProfilesInv, ChoicesMeant, GoesWith
  <2>. QED
    BY <1>1, <1>4, <2>1, CallKept DEF PickProfile, ProfilesInv
<1>5. CASE ServeOptions
  <2>1. /\ "options" \in Call /\ Stage("options") = "asked" /\ UNCHANGED <<owner, pick, options>>
        /\ Goes("options", [stage |-> "answered",
                            list |-> {p \in live : OwnedBy[p] = calls["options"].of}])
    BY <1>5, CallNames DEF ServeOptions, builder, chosen
  <2>2. CallMeant("options")'
    BY <1>1, <2>1, CallNames DEF ProfilesInv, CallMeant, Stage, Goes
  <2>. QED
    BY <1>1, <2>1, <2>2, OneCall, ChoicesKept DEF ProfilesInv
<1>6. CASE ShowOptions
  <2>1. "options" \in Call /\ Goes("options", Idle) /\ UNCHANGED <<owner, pick>>
    BY <1>6, CallNames DEF ShowOptions
  <2>2. \A p \in options' : p \in Identity /\ OwnedBy[p] = owner
    BY <1>6, <2>1 DEF ShowOptions, ProfilesInv, CallMeant, ChoicesMeant
  <2>3. ChoicesMeant'
    BY <1>1, <2>1, <2>2 DEF ProfilesInv, ChoicesMeant, GoesWith
  <2>4. CallMeant("options")'
    BY <2>1 DEF ProfilesInv, CallMeant, Stage, Goes, Idle
  <2>. QED
    BY <1>1, <2>1, <2>3, <2>4, OneCall DEF ProfilesInv
<1>7. CASE SaveTemplate
  <2>1. /\ "change" \in Call /\ UNCHANGED <<owner, pick, options>>
        /\ Goes("change", [stage |-> "sent", of |-> owner, profile |-> pick])
    BY <1>7, CallNames DEF SaveTemplate, builder, chosen
  <2>2. CallMeant("change")'
    BY <1>1, <2>1 DEF ProfilesInv, ChoicesMeant, CallMeant, GoesWith, Stage, Goes
  <2>. QED
    BY <1>1, <2>1, <2>2, OneCall, ChoicesKept DEF ProfilesInv
<1>8. ASSUME NEW t \in saved, LoadTemplate(t) PROVE ProfilesInv'
  BY <1>1, <1>8, OwnerMeant DEF LoadTemplate, ProfilesInv, ChoicesMeant
<1>9. ASSUME NEW k \in Call \ {"options"}, NEW r \in {[stage |-> "sent"], [stage |-> "asked"], Idle},
             k = "change" => r.stage # "sent", Goes(k, r), UNCHANGED builder
      PROVE  ProfilesInv'
  <2>1. UNCHANGED <<owner, pick, options>>
    BY <1>9 DEF builder, chosen
  <2>2. CallMeant(k)'
    BY <1>1, <1>9 DEF ProfilesInv, CallMeant, Stage, Goes, Idle
  <2>. QED
    BY <1>1, <1>9, <2>1, <2>2, OneCall, ChoicesKept DEF ProfilesInv
<1>10. ASSUME NEW t \in saved, DeleteTemplate(t) PROVE ProfilesInv'
  <2>1. t.of \in Call \ {"options", "change"}
    BY CallNames DEF ProfilesInv, ChoicesMeant
  <2>. QED
    BY <1>9, <1>10, <2>1 DEF DeleteTemplate
<1>11. ASSUME NEW k \in {"change"} \cup Owner, TemplatesChanged(k) PROVE ProfilesInv'
  <2>1. k \in Call \ {"options"}
    BY CallNames
  <2>. QED
    BY <1>9, <1>11, <2>1 DEF TemplatesChanged, Idle
<1>. QED
  BY <1>2, <1>3, <1>4, <1>5, <1>6, <1>7, <1>8, <1>10, <1>11

\* The server's steps, and the lists of both pages.
LEMMA ServerKeeps ==
  ASSUME ProfilesInv,
         \/ ServeEdit \/ CheckTemplate \/ StoreTemplate \/ OthersEdit
         \/ \E p \in Identity : ServeToggle(p)
         \/ \E o \in Owner : ServeDeletion(o)
         \/ \E k \in Call : AnswerListing(k) \/ ShowListing(k)
  PROVE  ProfilesInv'
<1>1. UNCHANGED <<opened, edited, filled, owner, pick, options>>
  BY DEF ServeEdit, CheckTemplate, StoreTemplate, OthersEdit, ServeToggle, ServeDeletion, AnswerListing,
         ShowListing, pageState, registry, builder, chosen
<1>2. /\ live' \subseteq Identity /\ DOMAIN templates' = Owner
      /\ \A o \in Owner : templates'[o] # templates[o] /\ templates'[o] # "none" =>
           GoesWith(o, templates'[o])
  <2>1. CASE StoreTemplate
    BY <2>1, CallNames DEF StoreTemplate, ProfilesInv, CallMeant, Stage
  <2>2. CASE OthersEdit
    BY <2>2 DEF OthersEdit, ProfilesInv, GoesWith
  <2>3. CASE ServeEdit \/ CheckTemplate \/ \E p \in Identity : ServeToggle(p)
    BY <2>3 DEF ServeEdit, CheckTemplate, ServeToggle, server, ProfilesInv
  <2>4. CASE \E o \in Owner : ServeDeletion(o)
    BY <2>4 DEF ServeDeletion, ProfilesInv
  <2>5. CASE \E k \in Call : AnswerListing(k) \/ ShowListing(k)
    BY <2>5 DEF AnswerListing, ShowListing, server, ProfilesInv
  <2>. QED
    BY <2>1, <2>2, <2>3, <2>4, <2>5
<1>3. TemplatesMeant'
  BY <1>2 DEF ProfilesInv, TemplatesMeant, GoesWith
<1>4. ASSUME NEW k \in Call \ {"options"}, NEW r, Goes(k, r), CallMeant(k)', UNCHANGED saved
      PROVE  ProfilesInv'
  BY <1>1, <1>2, <1>3, <1>4, OneCall, ChoicesKept DEF ProfilesInv
<1>5. ASSUME NEW k \in Call \ {"options"}, NEW stage \in {"done", "failed"}, Reaches(k, stage), UNCHANGED saved
      PROVE  ProfilesInv'
  <2>1. Goes(k, [calls[k] EXCEPT !.stage = stage])
    BY <1>5 DEF Reaches, Goes
  <2>2. calls'[k].stage = stage /\ "stage" \in DOMAIN calls'[k]
    BY <1>5, <2>1 DEF ProfilesInv, CallMeant, Goes
  <2>3. CallMeant(k)'
    BY <1>5, <2>2 DEF CallMeant, Stage
  <2>. QED
    BY <1>4, <1>5, <2>1, <2>3
<1>6. CASE ServeEdit \/ StoreTemplate
  BY <1>5, <1>6, CallNames DEF ServeEdit, StoreTemplate, pageState, builder
<1>7. CASE CheckTemplate
  <2>1. UNCHANGED saved /\ "change" \in Call /\ (Reaches("change", "checked") \/ Reaches("change", "failed"))
    BY <1>7, CallNames DEF CheckTemplate, pageState, builder
  <2>2. CASE Reaches("change", "checked")
    <3>1. Goes("change", [calls["change"] EXCEPT !.stage = "checked"])
      BY <2>2 DEF Reaches, Goes
    <3>2. CallMeant("change")
      BY <2>1 DEF ProfilesInv
    <3>3. /\ calls'["change"].stage = "checked" /\ "stage" \in DOMAIN calls'["change"]
          /\ calls'["change"].of = calls["change"].of /\ calls'["change"].profile = calls["change"].profile
      BY <2>1, <3>1, <3>2 DEF ProfilesInv, CallMeant, Goes
    <3>4. CallMeant("change")'
      BY <1>1, <1>7, <3>2, <3>3 DEF CheckTemplate, CallMeant, Stage, GoesWith
    <3>. QED
      BY <1>4, <2>1, <3>1, <3>4
  <2>. QED
    BY <1>5, <2>1, <2>2
<1>8. ASSUME NEW k \in Call, AnswerListing(k) PROVE ProfilesInv'
  <2>1. \A t \in Kept : t.of \in Owner /\ GoesWith(t.of, t.profile)
    BY DEF Kept, ProfilesInv, TemplatesMeant
  <2>2. /\ k \notin {"offer", "options"} /\ UNCHANGED saved
        /\ Goes(k, [stage |-> "answered",
                    list |-> IF opened = "registry" THEN [p \in OfHome |-> p \in live] ELSE Kept])
    BY <1>8 DEF AnswerListing, pageState, builder
  <2>3. CallMeant(k)'
    BY <1>1, <2>1, <2>2 DEF ProfilesInv, CallMeant, Stage, Goes, GoesWith
  <2>. QED
    BY <1>4, <2>2, <2>3
<1>9. ASSUME NEW k \in Call, ShowListing(k) PROVE ProfilesInv'
  <2>1. k \notin {"offer", "options"} /\ Goes(k, Idle)
    BY <1>9 DEF ShowListing
  <2>2. \A t \in saved' : t.of \in Owner /\ GoesWith(t.of, t.profile)
    BY <1>9, <2>1 DEF ShowListing, ProfilesInv, CallMeant, ChoicesMeant
  <2>3. ChoicesMeant'
    BY <1>1, <2>2 DEF ProfilesInv, ChoicesMeant, GoesWith
  <2>4. CallMeant(k)'
    BY <2>1 DEF ProfilesInv, CallMeant, Stage, Goes, Idle
  <2>. QED
    BY <1>1, <1>2, <1>3, <2>1, <2>3, <2>4, OneCall DEF ProfilesInv
<1>10. ASSUME NEW k \in Identity \cup Owner, \/ Reaches(k, "done") \/ Reaches(k, "failed"), UNCHANGED saved
       PROVE  ProfilesInv'
  BY <1>5, <1>10, CallNames
<1>11. CASE \/ \E p \in Identity : ServeToggle(p)
            \/ \E o \in Owner : ServeDeletion(o)
  BY <1>10, <1>11 DEF ServeToggle, ServeDeletion, pageState, builder
<1>12. CASE OthersEdit
  <2>1. UNCHANGED <<calls, saved>>
    BY <1>12 DEF OthersEdit, builder
  <2>. QED
    BY <1>1, <1>2, <1>3, <2>1, ChoicesKept, CallKept DEF ProfilesInv
<1>. QED
  BY <1>6, <1>7, <1>8, <1>9, <1>11, <1>12

LEMMA ProfilesStep == ProfilesInv /\ [ProfilesNext]_profileVars => ProfilesInv'
<1>1. CASE UNCHANGED profileVars
  <2>1. ASSUME ProfilesInv
        PROVE  ProfilesInv'
    BY <1>1, <2>1, CallKept, ChoicesKept, TemplatesKept
       DEF profileVars, builder, chosen, registry, ProfilesInv
  <2>. QED
    BY <2>1
<1>2. CASE ProfilesNext
  BY <1>2, RegistryKeeps, BuilderKeeps, ServerKeeps DEF ProfilesNext
<1>. QED
  BY <1>1, <1>2

LEMMA ProfilesBegin == ProfilesInit => ProfilesInv
<1>. SUFFICES ASSUME ProfilesInit PROVE ProfilesInv
  OBVIOUS
<1>1. TemplatesMeant /\ ChoicesMeant
  BY DEF ProfilesInit, TemplatesMeant, ChoicesMeant, GoesWith
<1>2. \A k \in Call : CallMeant(k)
  BY DEF ProfilesInit, CallMeant, Stage, Idle
<1>. QED
  BY <1>1, <1>2 DEF ProfilesInit, ProfilesInv

\* What the registry and the template builder send is meant for whom it is sent:
\* for any issuers and profiles, an edit of submitEdit reaches the profile that
\* filled the form, and saveTemplate sends a profile of the template's own issuer
\* or none, whatever lists and answers arrive meanwhile.
THEOREM AsksForItsOwnHolds == ProfilesSpec => []AsksForItsOwn
<1>1. ProfilesInv => AsksForItsOwn
  BY CallNames DEF ProfilesInv, CallMeant, AsksForItsOwn, GoesWith
<1>. QED
  BY <1>1, ProfilesBegin, ProfilesStep, PTL DEF ProfilesSpec
=============================================================================
