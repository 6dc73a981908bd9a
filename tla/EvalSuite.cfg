SPECIFICATION FairSpec
CONSTANTS
  Samples = {s1, s2}
  Concurrency = 1
  MaxToolRounds = 1
  Tries = 2
  CutShare = 2
INVARIANTS SuccessEarned FailedSound DanglingOnlyWhenFull
PROPERTY Finishes
CHECK_DEADLOCK FALSE
