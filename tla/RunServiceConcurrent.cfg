SPECIFICATION Spec
CONSTANTS
  r1 = r1
  r2 = r2
  c1 = c1
  c2 = c2
  d1 = d1
  d2 = d2
  Runs = {r1, r2}
  Cancellers = {}
  Readers = {}
  MaxRestarts = 0
  PidReuse = FALSE
  PatientClient = FALSE
INVARIANT NoConcurrentExecutions
CHECK_DEADLOCK FALSE
