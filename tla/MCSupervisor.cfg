SPECIFICATION FairSpec

CONSTANTS
  c1 = c1
  c2 = c2
  RestartDelay = 1
  MaxRestartDelay = 3
  Policies <- AllPolicies
  Caller <- TwoCallers
  MaxObjects = 1
  MaxLoops = 1
  MaxTries = 3
  MayFail = TRUE

INVARIANTS
  NoOrphan
  StoppedStaysStopped

PROPERTIES
  StopReturns
  CrashRestarts

CHECK_DEADLOCK FALSE
