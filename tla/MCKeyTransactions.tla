-------------------------- MODULE MCKeyTransactions --------------------------
(***************************************************************************)
(* Small instances of KeyTransactions for TLC.                             *)
(***************************************************************************)
EXTENDS KeyTransactions, TLC

SessionSymmetry == Permutations(Tx) \cup Permutations(Issuer)

=============================================================================
