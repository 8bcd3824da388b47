\* Two sessions, two contracts of which any were approved before, and three calls or
\* changes around them.
SPECIFICATION Spec
CONSTANTS
  Org = {"org"}
  Actor = {"platform", "member"}
  Platform = {"platform"}
  Address = {a1, a2}
  Details <- MCDetails
  Session = {s1, s2}
  Limit = 1
  Window = 2
  Recent = 1
  None = none
  MaxTime = 2
  MaxCalls = 3
SYMMETRY Symmetry
CHECK_DEADLOCK FALSE
INVARIANT LimitHolds
INVARIANT LinkedWasInvited
PROPERTY ActivatedAfterGoodProbe
