SPECIFICATION Spec
CONSTANTS
  M = 2
  K = 1
  Programs = 3
  Budgets = {TRUE}
  Firsts = {1}
INVARIANTS SuccessEarned DroppedOnlyUnreadable SuccessOnDisk NewestWinsWithinYear
CHECK_DEADLOCK FALSE
