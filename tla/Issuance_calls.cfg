\* Two anchored status-list calls race for two identifiers while the key is
\* rotated once and stores come and go; calls that have begun are run to their end.
SPECIFICATION FairSpec
CONSTANTS
  r1 = r1
  r2 = r2
  Request = {r1, r2}
  ExternalId = {e1, e2}
  Store = {s1}
  NoStore = NoStore
  MaxKey = 2
  Listed = {r1, r2}
  Anchored = {r1, r2}
  Profiled = {}
CHECK_DEADLOCK FALSE
INVARIANT IndexesOwned
INVARIANT AnsweredIsStored
PROPERTY WrittenAgainstCurrent
PROPERTY CallsEnd
