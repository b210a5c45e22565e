SPECIFICATION MCSpec

CONSTANTS
  Token = {t1, t2}
  Request = {q1, q2}
  Budgets <- MCTokenBudgets
  n1 = n1
  n2 = n2
  n3 = n3
  Node = {n1, n2, n3}
  ReplicationBudgets <- MCReplicationBudgets
  Member = {n1, n2}
  Name = {d1}
  Version = {v1}
  Replicas = {1}
  Nil = Nil
  ClusterBudgets <- MCClusterBudgets
  Namespace = {s1, s2}
  Value = {v1, v2}
  Client = {q1, q2, q3}
  RecordBudgets <- MCRecordBudgets
  Context = {a, b}
  Process = {q1, q2, q3}
  ContextBudgets <- MCContextBudgets

INVARIANTS
  StatesAgree
  EndedRefused
  ManagerRemains
  DeletedStaysGone
  CurrentResolves

PROPERTIES
  KeepsPromise

CHECK_DEADLOCK FALSE
