CONSTANTS
  Threshold = 1
  MaxCommands = 3
  MaxCrashes = 2
  DiskMayFail = TRUE
SPECIFICATION FairSpec
CHECK_DEADLOCK FALSE
INVARIANTS Aligned AppliedInOrder AcceptedDurable
PROPERTY AcceptedApplied
