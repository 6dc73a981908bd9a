---------------------------- MODULE MCLogStream ----------------------------
(* LogStream, and the run service under it, on a small instance.           *)
EXTENDS LogStream

CONSTANTS r1, c1, c2, d1, v1
=============================================================================
