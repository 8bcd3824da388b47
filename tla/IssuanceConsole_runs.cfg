\* Two uploads, two clicks on an Issue button and two panels.
SPECIFICATION ConsoleSpec
CONSTANTS
  File = {"long", "short"}
  ValidRow <- MCValidRow
  InvalidRow <- MCInvalidRow
  None = none
  MaxUploads = 2
  MaxRuns = 2
  MaxMounts = 2
CHECK_DEADLOCK FALSE
INVARIANT UploadIssuedOnce
INVARIANT NoSecondTransaction
INVARIANT ShownIsReal
