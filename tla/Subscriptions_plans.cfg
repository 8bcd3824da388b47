\* Two organizations, two administrators and two creating sessions.
SPECIFICATION Spec
CONSTANTS
  Org = {o1, o2}
  Admin = {a1, a2}
  Creation = {c1, c2}
  Plan = {"starter", "enterprise"}
  Ceiling <- MCCeiling
  Offer <- MCOffer
  None = none
  MaxMonth = 2
  MaxCalls = 4
SYMMETRY Symmetry
CHECK_DEADLOCK FALSE
INVARIANT AdministratorRemains
PROPERTY WithinPlan
PROPERTY ReplacesWhatWasShown
