SPECIFICATION CFairSpec
CONSTANTS
  M = 2
  N = 2
  K = 1
  Programs = 1
  Budgets = {TRUE, FALSE}
  Firsts = {0}
  C = 2
  MediaCases = {2}
  MaxAttempts = 2
  Orders <- MCOrders
  Plans <- MCPlans
  Visual = {2}
INVARIANTS LabelTrue StressUniform Complete ZeroMeansClean DisturbedOnlyByTimedOut VerdictNeedsAnswer
PROPERTY CampaignReturns
CHECK_DEADLOCK FALSE
