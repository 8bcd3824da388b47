--------------------------- MODULE MCSubscriptions ---------------------------
(***************************************************************************)
(* Small instances of Subscriptions for TLC.                               *)
(***************************************************************************)
EXTENDS Subscriptions, TLC

\* One certificate a month and one issuer, or no limit.
MCCeiling == "starter" :> 1

MCOffer == {
  [plan |-> "starter", status |-> "active", expires |-> MaxMonth + 1],
  [plan |-> "enterprise", status |-> "active", expires |-> MaxMonth],
  [plan |-> "starter", status |-> "suspended", expires |-> MaxMonth + 1]}

Symmetry == Permutations(Admin) \cup Permutations(Creation) \cup Permutations(Org)

=============================================================================
