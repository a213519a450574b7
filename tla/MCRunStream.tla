------------------------------ MODULE MCRunStream ------------------------------
(* Two browsers on one run: events enough for a leaf to raise between two of  *)
(* them and for an orphan to emit afterwards.                                 *)
EXTENDS RunStream

CONSTANTS c1, c2
=============================================================================
