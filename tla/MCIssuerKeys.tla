---------------------------- MODULE MCIssuerKeys ----------------------------
(***************************************************************************)
(* Small instances of IssuerKeys and KeyWrapping for TLC.  A behaviour is  *)
(* one of one of them, and the other keeps an initial state.               *)
(***************************************************************************)
EXTENDS IssuerKeys, KeyWrapping, TLC

VARIABLE part

MCInit ==
  \/ part = "keys" /\ Init /\ WrappingInit
  \/ part = "wrapping" /\ WrappingInit /\ Init /\ \A c, d \in Call : target[c] = target[d]

MCNext ==
  \/ part = "keys" /\ Next /\ UNCHANGED <<wrapVars, part>>
  \/ part = "wrapping" /\ WrappingNext /\ UNCHANGED <<vars, part>>

MCSpec == MCInit /\ [][MCNext]_<<vars, wrapVars, part>>

CallSymmetry ==
  Permutations(Issuer) \cup Permutations(Rotation) \cup Permutations(Download)

=============================================================================
