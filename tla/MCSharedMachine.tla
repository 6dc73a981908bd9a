--------------------------- MODULE MCSharedMachine ----------------------------
(* SharedMachine on small instances: programs and commits are              *)
(* interchangeable.                                                        *)
EXTENDS SharedMachine, TLC

Symmetric == Permutations(Progs) \cup Permutations(Commits)
=============================================================================
