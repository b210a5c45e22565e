CONSTANTS
  Node = {n1, n2, n3}
  Nil = Nil
  MaxTerm = 1
  MaxCrashes = 1
  MaxTransfers = 0
  MaxLeaderRPCs = 0
  DiskMayFail = TRUE
SPECIFICATION Spec
SYMMETRY Symmetry
CHECK_DEADLOCK FALSE
INVARIANTS WinnersUnique
