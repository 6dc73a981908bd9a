---------------------------- MODULE MCRunService ----------------------------
(* RunService on small instances: runs, cancel threads and status threads  *)
(* are interchangeable.                                                    *)
EXTENDS RunService, TLC

CONSTANTS r1, r2, c1, c2, d1, d2

Symmetric == Permutations(Runs) \cup Permutations(Cancellers) \cup Permutations(Readers)
=============================================================================
