CONSTANTS
  Node = {n1, n2, n3}
  Nil = Nil
  MaxTerm = 2
  MaxCrashes = 0
  MaxTransfers = 0
  MaxLeaderRPCs = 0
  DiskMayFail = FALSE
SPECIFICATION Spec
SYMMETRY Symmetry
CHECK_DEADLOCK FALSE
INVARIANT LeaderPerTerm
