SPECIFICATION LFairSpec
CONSTANTS
  r1 = r1
  c1 = c1
  c2 = c2
  d1 = d1
  v1 = v1
  Runs = {r1}
  Cancellers = {c1, c2}
  Readers = {d1}
  Viewers = {v1}
  MaxRestarts = 1
  PidReuse = FALSE
  PatientClient = FALSE
INVARIANTS EntryOwned LiveRecordSound
PROPERTIES ImplementsLifecycle EntryReleased StaleRecordSettled EndIsTheEnd
CHECK_DEADLOCK FALSE
