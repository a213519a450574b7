------------------------------- MODULE MCRouter -------------------------------
(* Two leaves call the router at once: two providers and the code's default  *)
(* of three attempts each.                                                   *)
EXTENDS Router

CONSTANTS c1, c2
=============================================================================
