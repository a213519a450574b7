------------------------------ MODULE RuleGraph ------------------------------
(***************************************************************************)
(* The execution graph (dsl/graph.py) that the compiler hands to the       *)
(* orchestrator, and the three-valued evaluation of its aggregators        *)
(* (executor/orchestrator.py).  A node is a leaf, which one LLM call        *)
(* answers, or an aggregator, ALL_OF or ANY_OF, over other nodes.  Leaves   *)
(* and aggregators may be shared by several parents and several rules.     *)
(***************************************************************************)
EXTENDS Integers, Sequences

CONSTANTS
    Leaf,       \* ids of the REQUIRES_CLAUSE, FORBIDS_PHRASE and CITES nodes
    Agg,        \* ids of the aggregators
    AllOf,      \* the aggregators whose op is ALL_OF; the others are ANY_OF
    Children,   \* Children[a]: the children of aggregator a, none allowed
    Topo,       \* topo_order: every node once, children before parents
    Rule,       \* ids of the rules
    Root,       \* Root[r]: the root node of rule r
    None        \* stands for Python's None

Node == Leaf \cup Agg

\* What passed and errored say of a node (run.py, NodeFinding).
Finding == [passed : BOOLEAN, errored : BOOLEAN]

ASSUME GraphAssumption ==
    /\ Leaf \cap Agg = {}
    /\ AllOf \subseteq Agg
    /\ Children \in [Agg -> SUBSET Node]
    /\ Root \in [Rule -> Node]
    /\ None \notin Node
    /\ None \notin Finding

ASSUME TopoAssumption ==
    /\ Topo \in Seq(Node)
    /\ \A n \in Node : \E i \in 1..Len(Topo) : Topo[i] = n
    /\ \A i, j \in 1..Len(Topo) : Topo[i] = Topo[j] => i = j
    /\ \A i \in 1..Len(Topo) :
          Topo[i] \in Agg => 
             \A c \in Children[Topo[i]] : \E j \in 1..(i-1) : Topo[j] = c

Pass(f) == f.passed /\ ~f.errored
\* Seeded bug: an errored child's placeholder passed=False counts as a failure.
FailBug(f) == ~f.passed
Fail(f) == ~f.passed /\ ~f.errored

\* Seeded bug: the error branch is tried before the definitive one.
AggregateBug(a, findings) ==
    LET kids    == {findings[c] : c \in Children[a]}
        missing == \E f \in kids : f.errored
    IN  [passed  |-> /\ ~missing
                     /\ IF a \in AllOf THEN \A f \in kids : Pass(f)
                                       ELSE \E f \in kids : Pass(f),
         errored |-> missing]

\* _aggregate: the (passed, errored) of aggregator a over its children's
\* findings.  A definitive child decides; otherwise an error degrades.
Aggregate(a, findings) ==
    LET kids    == {findings[c] : c \in Children[a]}
        decided == IF a \in AllOf THEN \E f \in kids : Fail(f)
                                  ELSE \E f \in kids : Pass(f)
        missing == \E f \in kids : f.errored
    IN  IF decided THEN [passed |-> a \notin AllOf, errored |-> FALSE]
        ELSE [passed |-> a \in AllOf /\ ~missing, errored |-> missing]

-----------------------------------------------------------------------------
(***************************************************************************)
(* The meaning of a rule, independent of how the orchestrator computes it: *)
(* the two-valued valuations that obey the connectives.                    *)
(***************************************************************************)
Obeys(v, a) ==
    v[a] = IF a \in AllOf THEN \A c \in Children[a] : v[c]
                          ELSE \E c \in Children[a] : v[c]

Models == {v \in [Node -> BOOLEAN] : \A a \in Agg : Obeys(v, a)}

\* v agrees with every leaf that was answered: a way the document could
\* really be, whatever the leaves that errored would have said.
Completes(v, findings) ==
    \A l \in Leaf : ~findings[l].errored => v[l] = findings[l].passed

\* ... and gives every leaf that errored the same answer b.
CompletesWith(v, findings, b) ==
    /\ Completes(v, findings)
    /\ \A l \in Leaf : findings[l].errored => v[l] = b
=============================================================================
