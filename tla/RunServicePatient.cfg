SPECIFICATION Spec
CONSTANTS
  r1 = r1
  r2 = r2
  c1 = c1
  c2 = c2
  d1 = d1
  d2 = d2
  Runs = {r1, r2}
  Cancellers = {c1}
  Readers = {d1}
  MaxRestarts = 1
  PidReuse = TRUE
  PatientClient = TRUE
SYMMETRY Symmetric
INVARIANTS OneBenchmark
CHECK_DEADLOCK FALSE
