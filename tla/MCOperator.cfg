SPECIFICATION SumSpec

CONSTANTS
  Scheduled = {1, 2}
  Deadlines = {0, 1}
  SuccessLimit = 1
  FailLimit = 1
  TooLong = 1
  MaxTime = 3
  Budgets <- CronBudgets

INVARIANTS
  ForbidHolds

PROPERTIES
  DueRuns
  Converges
  JobSettles

CHECK_DEADLOCK FALSE
