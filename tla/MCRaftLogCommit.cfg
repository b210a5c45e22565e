CONSTANTS
  Threshold = 1
  MaxCommands = 2
  MaxCrashes = 0
  DiskMayFail = FALSE
SPECIFICATION FairSpec
CHECK_DEADLOCK FALSE
PROPERTY CommittedApplied
