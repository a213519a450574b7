----------------------------- MODULE MCCheckedRun -----------------------------
(* Two leaves under two aggregators, two rules, one of them with a leaf for a  *)
(* root; two providers, two attempts each: the least with a first and a last.  *)
EXTENDS CheckedRun

CONSTANTS l1, l2, a1, a2, r1, r2

MCConfigured == BuildAdapters({"anthropic", "openai"})
MCChildren   == [a \in {a1, a2} |-> IF a = a1 THEN {l1, l2} ELSE {a1, l2}]
MCTopo       == <<l1, l2, a1, a2>>
MCRoot       == [r \in {r1, r2} |-> IF r = r1 THEN a2 ELSE l1]
=============================================================================
