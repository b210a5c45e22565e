SPECIFICATION SumSpec

CONSTANTS
  s1 = s1
  s2 = s2
  e1 = e1
  d1 = d1
  Schedule <- Two
  Matching <- Times
  MaxWorkers = 1
  Fallback = 1
  MaxTime = 3
  MaxRuns = 2
  MaxFaults = 1

INVARIANTS
  SlotsHeld
  RunningIsRunning
  ParseExact
  

PROPERTIES
  DueIsRun
  StopDrains
  RunRecorded

CHECK_DEADLOCK FALSE
