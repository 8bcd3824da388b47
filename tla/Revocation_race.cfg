\* Two concurrent calls on a credential without status-list entries.
SPECIFICATION RevocationSpec
CONSTANTS
  c1 = c1
  c2 = c2
  Credential = {c1}
  Listed = {}
  Anchored = {}
  Allocated = {}
  Request = {r1, r2, r3}
CHECK_DEADLOCK FALSE
PROPERTY RevokedNeverReinstated
