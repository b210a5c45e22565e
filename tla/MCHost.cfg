SPECIFICATION MCSpec

CONSTANTS
  Env = {e1}
  Runner = {g1, g2}
  Executor = {x1}
  Home <- Homes
  Nobody = Nobody
  Budgets <- MCEnvBudgets
  Key = {k1}
  Worker = {w1, w2}
  Reader = {r1}
  Caller = {c1}
  WarmSize = 1
  HotSize = 2
  MaxSize = 2
  QueueCap = 1
  MaxMade = 3
  CacheBudgets <- MCCacheBudgets
  Proc = {p1, p2}
  Base <- Bases
  BaseDef <- BaseDefs
  Project <- Projects
  Stdlib = {"sys"}
  None = None
  LayerBudgets <- MCLayerBudgets
  Child = {f1}
  Grace = 2
  Options <- ScriptOptions

INVARIANTS
  MapTrue
  QuietWhole
  StacksWhole
  TimeoutKillsAll

PROPERTIES
  NothingHangs

CHECK_DEADLOCK FALSE
