\* A status-list call whose template names an issuer profile.
SPECIFICATION Spec
CONSTANTS
  r1 = r1
  r2 = r2
  Request = {r1, r2}
  ExternalId = {e1}
  Store = {}
  NoStore = NoStore
  MaxKey = 1
  Listed = {r1, r2}
  Anchored = {}
  Profiled = {r1}
CHECK_DEADLOCK FALSE
INVARIANT ListedRowsRevocable
