SPECIFICATION SumSpec

CONSTANTS
  Node = {n1, n2, n3}
  Budgets <- ReplicationBudgets
  n1 = n1
  n2 = n2
  n3 = n3

PROPERTIES
  CatchesUp
  PeersFound

CHECK_DEADLOCK FALSE
