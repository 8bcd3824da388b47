---------------------------- MODULE MCRevocation ----------------------------
(***************************************************************************)
(* Small instances of Revocation for TLC.                                  *)
(***************************************************************************)
EXTENDS Revocation

CONSTANTS c1, c2

=============================================================================
