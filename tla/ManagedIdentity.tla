-------------------------- MODULE ManagedIdentity --------------------------
(***************************************************************************)
(* What the managed DID of an organization promises to whoever resolves it,*)
(* whatever calls and transactions produce it: keys advance one way, an    *)
(* issuer never loses its signing key without a successor, and the public  *)
(* document is at every moment the one its keys and owners call for.       *)
(***************************************************************************)
CONSTANTS
  Issuer,
  Version

VARIABLES
  orgActive,  \* the organization may act
  active,     \* the issuers that may act
  keyStatus,  \* the status of each version of an issuer's key
  verifying,  \* the keys the document verifies with
  signing     \* the keys it authenticates with

Key == Issuer \X Version

vars == <<orgActive, active, keyStatus, verifying, signing>>

\* Who a reader of the document may believe, and about what.
MaySign == {k \in Key : keyStatus[k] = "active" /\ k[1] \in active /\ orgActive}
MayVerify == {k \in Key : keyStatus[k] \in {"active", "retired"}}

Documented == signing = MaySign /\ verifying = MayVerify

Init ==
  /\ orgActive = TRUE /\ active = {}
  /\ keyStatus = [k \in Key |-> "none"]
  /\ verifying = {} /\ signing = {}

Advance ==
  [none |-> {"none", "pending", "active"}, pending |-> {"pending", "active"},
   active |-> {"active", "retired"}, retired |-> {"retired"}]

\* The key that an issuer signs with, if any, gives way only to another one.
Succession(i) ==
  LET signer == {v \in Version : keyStatus[<<i, v>>] = "active"}
      next == {v \in Version : keyStatus'[<<i, v>>] = "active"}
  IN  /\ signer # {} => next # {}
      /\ \A v, w \in next : v = w

Change ==
  /\ \A k \in Key : keyStatus'[k] \in Advance[keyStatus[k]]
  /\ \A i \in Issuer : Succession(i)
  /\ Documented'

Spec == Init /\ [][Change]_vars

=============================================================================
