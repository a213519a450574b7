----------------------------- MODULE MCLogBuffer -----------------------------
(* Two threads log five records into a buffer of three: it fills, wraps around *)
(* while a snapshot is open, and the limits are below, at and above its size.  *)
EXTENDS LogBuffer

CONSTANTS t1, t2

Symmetry == Permutations(Thread)
==============================================================================
