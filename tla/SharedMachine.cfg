SPECIFICATION Spec
CONSTANTS
  Progs = {p1, p2}
  Commits = {c1, c2}
  Iterations = 2
  Restarts = 3
INVARIANTS   SuiteOnOwnBuild
SYMMETRY Symmetric
CHECK_DEADLOCK FALSE
