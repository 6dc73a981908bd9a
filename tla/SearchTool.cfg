SPECIFICATION FairSpec
CONSTANTS
  Threads = {t1, t2}
  Models = 2
  Rounds = 2
  Attempts = 2
  Capacity = 2
  Ticks = 2
  Pauses = {1}
  Searches = 1
  Window = 4
INVARIANTS RateCapped TallyHonest
PROPERTY SearchesReturn
