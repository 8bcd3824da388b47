----------------------------- MODULE Revocation -----------------------------
(***************************************************************************)
(* RevocationService.apply behind POST /api/revocation, run by concurrent  *)
(* calls against shared credential rows, the revocations journal and the   *)
(* Document Store contract.  A call looks the credential up and checks its *)
(* status, revokes the anchored hash on chain when the credential has a    *)
(* retained store, and then writes: a credential with Bitstring status     *)
(* entries through one transaction that locks the row, every other one by  *)
(* two separate statements that check nothing again.                       *)
(***************************************************************************)
EXTENDS CredentialLifecycle

CONSTANTS
  Request,     \* POST /api/revocation calls
  Listed,      \* credentials whose document has a BitstringStatusListEntry
  Anchored,    \* credentials whose revocation goes through their Document Store
  Allocated    \* credentials with a status allocation of their own profile

ASSUME KindsAssumption == /\ Listed \subseteq Credential
                          /\ Anchored \subseteq Credential
                          /\ Allocated \subseteq Credential

VARIABLES
  overdue,   \* credentials whose valid_until has passed
  anchor,    \* the credential's hash in its Document Store
  pc,        \* where each call stands
  target,    \* the credential a call names
  action,    \* the action a call asks for
  tx         \* the revocation transaction a call has sent

reqVars == <<pc, target, action, tx>>
allVars == <<status, journal, overdue, anchor, pc, target, action, tx>>

\* A call answers 200 (done), 404/409/500 (refused) or 502 (failed when the
\* contract refused, unavailable when it could not be reached in time), or dies.
CutShort == {"unavailable", "dead"}
Ended == {"done", "refused", "failed"} \cup CutShort

RevocationTypeOK ==
  /\ TypeOK
  /\ overdue \subseteq Credential
  /\ anchor \in [Credential -> {"absent", "issued", "revoked"}]
  /\ pc \in [Request -> {"idle", "probe", "send", "await", "rpc", "insert", "update"} \cup Ended]
  /\ target \in [Request -> Credential]
  /\ action \in [Request -> RevocationAction]
  /\ tx \in [Request -> {"none", "sent", "mined", "reverted"}]

\* What a call will ask for is fixed from the start; it is read once it begins.
RevocationInit ==
  /\ Init
  /\ overdue = {}
  /\ anchor = [c \in Credential |-> "absent"]
  /\ pc = [r \in Request |-> "idle"]
  /\ target \in [Request -> Credential]
  /\ action \in [Request -> RevocationAction]
  /\ tx = [r \in Request |-> "none"]

Goto(r, label) == pc' = [pc EXCEPT ![r] = label]

\* The write the call makes once nothing is left to do on chain.
WriteStep(r) == IF target[r] \in Listed THEN "rpc" ELSE "insert"

\* The lookup and the checks on the status it returned.
Lookup(r) ==
  /\ pc[r] = "idle"
  /\ Goto(r, IF Refused(status[target[r]], action[r]) THEN "refused"
             ELSE IF action[r] = "revoke" /\ target[r] \in Anchored THEN "probe"
             ELSE WriteStep(r))
  /\ UNCHANGED <<status, journal, overdue, anchor, target, action, tx>>

\* Mutant of Probe: isRevoked is not asked, every issued hash is revoked again.
ProbeIssuedOnly(r) ==
  /\ pc[r] = "probe"
  /\ Goto(r, IF anchor[target[r]] = "absent" THEN "failed" ELSE "send")
  /\ UNCHANGED <<status, journal, overdue, anchor, target, action, tx>>

\* isIssued and isRevoked: an unregistered hash ends the call, a revoked one
\* is taken as done, so that a call that was cut short can be repeated.
Probe(r) ==
  /\ pc[r] = "probe"
  /\ Goto(r, IF anchor[target[r]] = "absent" THEN "failed"
             ELSE IF anchor[target[r]] = "issued" THEN "send"
             ELSE WriteStep(r))
  /\ UNCHANGED <<status, journal, overdue, anchor, target, action, tx>>

\* Mutant of Send: the receipt is not awaited.
SendWithoutWait(r) ==
  /\ pc[r] = "send"
  /\ tx' = [tx EXCEPT ![r] = "sent"]
  /\ Goto(r, WriteStep(r))
  /\ UNCHANGED <<status, journal, overdue, anchor, target, action>>

Send(r) ==
  /\ pc[r] = "send"
  /\ tx' = [tx EXCEPT ![r] = "sent"]
  /\ Goto(r, "await")
  /\ UNCHANGED <<status, journal, overdue, anchor, target, action>>

\* tx.wait returned: only a successful receipt lets the call write.
Receipt(r) ==
  /\ pc[r] = "await"
  /\ tx[r] \in {"mined", "reverted"}
  /\ Goto(r, IF tx[r] = "mined" THEN WriteStep(r) ELSE "failed")
  /\ UNCHANGED <<status, journal, overdue, anchor, target, action, tx>>

\* Mutant of ChainError: tx.wait without a timeout.
ChainErrorWithoutTimeout(r) ==
  /\ pc[r] \in {"probe", "send"}
  /\ Goto(r, "unavailable")
  /\ UNCHANGED <<status, journal, overdue, anchor, target, action, tx>>

\* An RPC error, or no receipt within the sixty seconds tx.wait allows.  The
\* transaction stays in flight and may still be mined.
ChainError(r) ==
  /\ pc[r] \in {"probe", "send", "await"}
  /\ Goto(r, "unavailable")
  /\ UNCHANGED <<status, journal, overdue, anchor, target, action, tx>>

\* Mutant of ApplyBitstring: the journal row of a refused transition stays.
ApplyBitstringNoRollback(r) ==
  LET c == target[r] IN
  /\ pc[r] = "rpc"
  /\ IF ~Refused(status[c], action[r])
       THEN Transition(c, action[r]) /\ Goto(r, "done")
       ELSE /\ journal' = [journal EXCEPT ![c] = Append(@, action[r])]
            /\ UNCHANGED status
            /\ Goto(r, "refused")
  /\ UNCHANGED <<overdue, anchor, target, action, tx>>

\* apply_bitstring_revocation: allocation, transition, journal and status
\* under the lock of the credential's row.
ApplyBitstring(r) ==
  LET c == target[r] IN
  /\ pc[r] = "rpc"
  /\ IF c \in Allocated /\ ~Refused(status[c], action[r])
       THEN Transition(c, action[r]) /\ Goto(r, "done")
       ELSE UNCHANGED vars /\ Goto(r, "refused")
  /\ UNCHANGED <<overdue, anchor, target, action, tx>>

\* The other path: the journal row first, the status afterwards, unconditionally.
InsertLog(r) ==
  /\ pc[r] = "insert"
  /\ journal' = [journal EXCEPT ![target[r]] = Append(@, action[r])]
  /\ Goto(r, "update")
  /\ UNCHANGED <<status, overdue, anchor, target, action, tx>>

UpdateStatus(r) ==
  /\ pc[r] = "update"
  /\ status' = [status EXCEPT ![target[r]] = StatusForAction[action[r]]]
  /\ Goto(r, "done")
  /\ UNCHANGED <<journal, overdue, anchor, target, action, tx>>

\* The function instance is killed, or a database statement fails.
Crash(r) ==
  /\ pc[r] \notin Ended \cup {"idle"}
  /\ Goto(r, "dead")
  /\ UNCHANGED <<status, journal, overdue, anchor, target, action, tx>>

\* The contract revokes an issued hash; a second revocation of it reverts.
Mine(r) ==
  LET mined == anchor[target[r]] = "issued" IN
  /\ tx[r] = "sent"
  /\ tx' = [tx EXCEPT ![r] = IF mined THEN "mined" ELSE "reverted"]
  /\ anchor' = [anchor EXCEPT ![target[r]] = IF mined THEN "revoked" ELSE @]
  /\ UNCHANGED <<status, journal, overdue, pc, target, action>>

\* The registration the issuance of the credential sent is mined.
Anchor(c) ==
  /\ c \in Anchored
  /\ anchor[c] = "absent"
  /\ anchor' = [anchor EXCEPT ![c] = "issued"]
  /\ UNCHANGED <<status, journal, overdue, reqVars>>

PassValidUntil(c) ==
  /\ c \notin overdue
  /\ overdue' = overdue \cup {c}
  /\ UNCHANGED <<status, journal, anchor, reqVars>>

\* Mutant of ExpireOverdue: without the filter on status.
ExpireOverdueAnyStatus ==
  /\ status' = [c \in Credential |-> IF c \in overdue THEN "expired" ELSE status[c]]
  /\ UNCHANGED <<journal, overdue, anchor, reqVars>>

\* expireOverdue, run by every GET /api/credentials of a revoking user.
ExpireOverdue ==
  /\ Expire({c \in overdue : status[c] = "issued"})
  /\ UNCHANGED <<overdue, anchor, reqVars>>

CallStep(r) ==
  \/ Lookup(r) \/ Probe(r) \/ Send(r) \/ Receipt(r) \/ ChainError(r)
  \/ ApplyBitstring(r) \/ InsertLog(r) \/ UpdateStatus(r)

Environment ==
  \/ \E r \in Request : Crash(r) \/ Mine(r)
  \/ \E c \in Credential : Anchor(c) \/ PassValidUntil(c)
  \/ ExpireOverdue

RevocationNext == (\E r \in Request : CallStep(r)) \/ Environment

RevocationSpec == RevocationInit /\ [][RevocationNext]_allVars

\* A call that has begun is run until it answers: each of its waits is bounded.
FairSpec == RevocationSpec /\ \A r \in Request : WF_allVars(pc[r] # "idle" /\ CallStep(r))

-----------------------------------------------------------------------------
(***************************************************************************)
(* Properties.                                                             *)
(***************************************************************************)

\* Whatever calls and sweeps interleave, a status-list credential that has
\* been revoked keeps that status: apply_bitstring_revocation decides under
\* the row lock, not on the status the call looked up earlier.
RevokedIsFinal ==
  [][\A c \in Listed : status[c] = "revoked" => status'[c] = "revoked"]_allVars

\* The journal of a status-list credential explains its status: the last entry
\* led to it (an issued or expired one was reinstated last, or never touched),
\* and nothing is journaled after a revocation.
JournalTellsStatus ==
  \A c \in Listed :
    LET entries == journal[c] IN
    /\ status[c] \in {"issued", "expired"}
         <=> entries = <<>> \/ entries[Len(entries)] = "reinstate"
    /\ status[c] \in {"suspended", "revoked"}
         => StatusForAction[entries[Len(entries)]] = status[c]
    /\ \A i \in 1..(Len(entries) - 1) : entries[i] # "revoke"

\* A credential with a retained Document Store is revoked in the database only
\* after its hash is revoked on chain, on both write paths and whatever calls
\* time out, die or find the transaction of another call.
AnchorRevokedFirst ==
  \A c \in Anchored : status[c] = "revoked" => anchor[c] = "revoked"

\* No credential is suspended or revoked without a journal entry that says so,
\* even on the path that writes the two separately and may die in between.
NothingUnjournaled ==
  \A c \in Credential : status[c] \in {"suspended", "revoked"} =>
    \E i \in 1..Len(journal[c]) : StatusForAction[journal[c][i]] = status[c]

\* A call that has begun ends, mined transaction or not.
CallsEnd == \A r \in Request : (pc[r] # "idle") ~> (pc[r] \in Ended)

\* A repeated revocation finishes what an earlier call left half done: one that
\* finds the hash already revoked on chain leaves the credential revoked,
\* unless it is itself cut short.
RetryConverges ==
  \A r \in Request :
    (pc[r] = "probe" /\ anchor[target[r]] = "revoked")
      ~> (status[target[r]] = "revoked" \/ pc[r] \in CutShort)

\* What the service says of every credential: "A revoked credential cannot be
\* reinstated."  It is not so for one without status-list entries.
RevokedNeverReinstated ==
  [][\A c \in Credential : status[c] = "revoked" => status'[c] # "issued"]_allVars

\* What the calls do to the status-list credentials implements the abstract
\* lifecycle, whatever happens to the others next to them.
OfListed == INSTANCE CredentialLifecycle WITH
  Credential <- Listed,
  status <- [c \in Listed |-> status[c]], journal <- [c \in Listed |-> journal[c]]

Lifecycle == OfListed!Spec

=============================================================================
