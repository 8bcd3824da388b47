-------------------------- MODULE MCIssuanceConsole --------------------------
(***************************************************************************)
(* Small instances of IssuanceConsole for TLC.                             *)
(***************************************************************************)
EXTENDS IssuanceConsole, TLC

\* A file of two good rows around a bad one, and a file of one good row.
MCValidRow == ("long" :> {1, 3}) @@ ("short" :> {1})
MCInvalidRow == ("long" :> {2}) @@ ("short" :> {})

=============================================================================
