SPECIFICATION FairSpec

CONSTANTS
  h1 = h1
  h2 = h2
  RestartDelay = 1
  MaxRestartDelay = 1
  Policies <- Always
  Caller <- Two
  MaxObjects = 2
  MaxLoops = 2
  MaxTries = 2
  MayFail = TRUE
  Plans <- Some

INVARIANTS
  InSync

PROPERTIES
  DeletedStays
  RequestsAnswered

CHECK_DEADLOCK FALSE
