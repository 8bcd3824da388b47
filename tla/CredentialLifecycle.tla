------------------------- MODULE CredentialLifecycle -------------------------
(***************************************************************************)
(* What the platform promises about the status of an issued credential,    *)
(* whichever process changes it: a credential is issued, suspended,        *)
(* expired or revoked, every administrative transition is atomic with its  *)
(* entry in the revocations journal, and a revocation is the end of it.    *)
(* Revocation.tla is shown to implement this module.                       *)
(***************************************************************************)
EXTENDS Integers, Sequences

CONSTANT Credential

VARIABLES status,   \* credentials.status
          journal   \* the rows of revocations, per credential, oldest first

vars == <<status, journal>>

Status == {"issued", "suspended", "expired", "revoked"}
RevocationAction == {"revoke", "suspend", "reinstate"}

\* STATUS_FOR_ACTION, the status each action leads to.
StatusForAction == [revoke |-> "revoked", suspend |-> "suspended", reinstate |-> "issued"]

\* A transition is refused from the final status and to the current one.
Refused(from, act) == from = "revoked" \/ from = StatusForAction[act]

TypeOK ==
  /\ status \in [Credential -> Status]
  /\ journal \in [Credential -> Seq(RevocationAction)]

Init ==
  /\ status = [c \in Credential |-> "issued"]
  /\ journal = [c \in Credential |-> <<>>]

Transition(c, act) ==
  /\ ~Refused(status[c], act)
  /\ status' = [status EXCEPT ![c] = StatusForAction[act]]
  /\ journal' = [journal EXCEPT ![c] = Append(@, act)]

\* The validity of any number of issued credentials ends; nothing is journaled.
Expire(C) ==
  /\ \A c \in C : status[c] = "issued"
  /\ status' = [c \in Credential |-> IF c \in C THEN "expired" ELSE status[c]]
  /\ UNCHANGED journal

Next ==
  \/ \E c \in Credential, act \in RevocationAction : Transition(c, act)
  \/ \E C \in SUBSET Credential : Expire(C)

Spec == Init /\ [][Next]_vars

=============================================================================
