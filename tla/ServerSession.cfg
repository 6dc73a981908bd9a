SPECIFICATION FairSpec
CONSTANTS
  N = 3
  Guarded = {2}
  OtherServer = TRUE
  MayInterrupt = TRUE
  Docile = FALSE
INVARIANTS Reachable OwnServer NothingLeft
PROPERTY Finishes
CHECK_DEADLOCK FALSE
