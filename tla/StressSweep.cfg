SPECIFICATION FairSpec
CONSTANTS
  Passes = 2
  Reps = 3
  MaxQps = 20
  MinDown = 2
  InitialQps = 5
  Capacities = {0, 2, 3, 6, 11, 13, 30}
  Estimates = {1, 7}
  MaxSpoilt = 1
INVARIANTS Bracketed BracketMeasured HeadlineTight
PROPERTY Finishes
CHECK_DEADLOCK FALSE
