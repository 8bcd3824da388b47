-------------------------- MODULE MCSelfManagedDID --------------------------
(***************************************************************************)
(* A small instance of SelfManagedDID for TLC.                             *)
(***************************************************************************)
EXTENDS SelfManagedDID

OneVersion == 1..1

=============================================================================
