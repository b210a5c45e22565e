CONSTANTS
  Node = {n1, n2}
  Nil = Nil
  MaxTerm = 2
  MaxCrashes = 1
  MaxTransfers = 1
  MaxLeaderRPCs = 2
  DiskMayFail = FALSE
SPECIFICATION Spec
SYMMETRY Symmetry
CHECK_DEADLOCK FALSE
INVARIANTS TypeOK VotesUnique ElectionInv
