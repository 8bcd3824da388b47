--------------------------- MODULE MCVerification ---------------------------
(***************************************************************************)
(* Small instances for TLC of the requests of Verification and of the      *)
(* documents of CredentialDocument.  The two share no state; a behaviour   *)
(* is one of either, and the other module stays in its initial state.      *)
(***************************************************************************)
EXTENDS Verification, CredentialDocument

CONSTANTS listed, stored, plain, legacy, wallet, signed

VARIABLE part  \* which of the two modules takes the steps

FirstKey == [c \in Credential |-> 1]

MCInit ==
  /\ VerificationInit /\ DocumentInit
  /\ \/ part = "requests" /\ ~operator /\ configured = DefaultStore
     \/ part = "documents" /\ \A r \in Request : target[r] = listed /\ submitted[r]

MCNext ==
  /\ \/ part = "requests" /\ VerificationNext /\ UNCHANGED docVars
     \/ part = "documents" /\ DocumentNext /\ UNCHANGED verVars
  /\ UNCHANGED part

MCSpec == MCInit /\ [][MCNext]_<<verVars, docVars, part>>

=============================================================================
