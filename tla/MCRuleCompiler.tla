---------------------------- MODULE MCRuleCompiler ----------------------------
(* A rule of depth two and one of depth one, at most two children each, over *)
(* two leaves; with the same id and with different ones.                     *)
EXTENDS RuleMeaning

Leaves == {[op |-> "CITES", param |-> p, children |-> <<>>] : p \in {"x", "y"}}
Lists(S) == UNION {[1..n -> S] : n \in 0..2}
Over(S) == {[op |-> o, param |-> "", children |-> c] :
               o \in {"ALL_OF", "ANY_OF"}, c \in Lists(S)}
Shallow == Leaves \cup Over(Leaves)
Deep    == Leaves \cup Over(Shallow)

MCInput == {<<[id |-> "r1", root |-> t], [id |-> i, root |-> u]>> :
               t \in Deep, u \in Shallow, i \in {"r1", "r2"}}
=============================================================================
