------------------------- MODULE MCOrganizationAdmin -------------------------
(***************************************************************************)
(* Small instances of OrganizationAdmin for TLC.                           *)
(***************************************************************************)
EXTENDS OrganizationAdmin, TLC

\* Two invitations that agree on the email only, and two on the issuer code.
MCDetails == {[org |-> "org", slug |-> "red", email |-> "ann"],
              [org |-> "org", slug |-> "blue", email |-> "ann"],
              [org |-> "org", slug |-> "blue", email |-> "bob"]}

Symmetry == Permutations(Session) \cup Permutations(Address)

=============================================================================
