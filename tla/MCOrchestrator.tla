---------------------------- MODULE MCOrchestrator ----------------------------
(* Three leaves, two of them shared, under four aggregators two deep, and  *)
(* three rules: one on the deepest aggregator, one on an inner one and one *)
(* flat rule whose root is a leaf.                                         *)
EXTENDS Orchestrator

CONSTANTS l1, l2, l3, a1, a2, a3, a4, r1, r2, r3

MCChildren == [a \in {a1, a2, a3, a4} |->
                  CASE a = a1 -> {l1, l2}
                    [] a = a2 -> {l2, l3}
                    [] a = a3 -> {a1, l3}
                    [] a = a4 -> {a2, a3}]
MCTopo     == <<l1, l2, a1, l3, a2, a3, a4>>
MCRoot     == [r \in {r1, r2, r3} |->
                  CASE r = r1 -> a4 [] r = r2 -> a1 [] r = r3 -> l3]
=============================================================================
