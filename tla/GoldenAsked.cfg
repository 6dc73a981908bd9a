SPECIFICATION CSpec
CONSTANTS
  M = 2
  N = 2
  K = 1
  Programs = 1
  Budgets = {FALSE}
  Firsts = {0}
  C = 1
  MediaCases = {}
  MaxAttempts = 1
  Orders <- MCOrders
  Plans <- MCPlans
  Visual = {}
INVARIANT GoldenAsksOwn
CHECK_DEADLOCK FALSE
