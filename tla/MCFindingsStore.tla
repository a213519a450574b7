---------------------------- MODULE MCFindingsStore ----------------------------
(* Two runs that share their leaves and one operator who may click reset twice. *)
EXTENDS FindingsStore

CONSTANTS p, q, a, b
=============================================================================
