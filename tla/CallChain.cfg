SPECIFICATION FairSpec
CONSTANTS
  Chains <- MCChains
  Wrong <- MCWrong
  Parallel = 3
  MaxRounds = 4
  Attempts = 2
INVARIANTS Aligned GoldenConserved SuccessMeansDone
PROPERTY EpisodeEnds
CHECK_DEADLOCK FALSE
