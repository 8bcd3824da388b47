----------------------------- MODULE MCIssuance -----------------------------
(***************************************************************************)
(* Small instances of Issuance for TLC.                                    *)
(***************************************************************************)
EXTENDS Issuance

CONSTANTS r1, r2

=============================================================================
