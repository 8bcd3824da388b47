\* Two concurrent calls on two anchored credentials, one with status-list entries
\* and one without; calls that have begun are run to their end.
SPECIFICATION FairSpec
CONSTANTS
  c1 = c1
  c2 = c2
  Credential = {c1, c2}
  Listed = {c1}
  Anchored = {c1, c2}
  Allocated = {c1}
  Request = {r1, r2}
CHECK_DEADLOCK FALSE
INVARIANT JournalTellsStatus
INVARIANT AnchorRevokedFirst
PROPERTY Lifecycle
PROPERTY CallsEnd
PROPERTY RetryConverges
