----------------------------- MODULE RuleCompiler -----------------------------
(***************************************************************************)
(* dsl/compiler.py: compile_rules turns rule trees into one execution      *)
(* graph.  Each tree is visited depth first; a node is registered after    *)
(* its children, under an id that is the hash of its content, so that      *)
(* equal sub-trees of any of the rules become one node.                    *)
(*                                                                         *)
(* The recursion of visit is the stack of the nodes being visited.  A hash *)
(* is its payload: sha256 is taken to be injective.                        *)
(***************************************************************************)
EXTENDS Integers, Sequences, FiniteSets

CONSTANTS
    LeafOps,        \* LEAF_OPS
    AggregatorOps,  \* AGGREGATOR_OPS
    Tree,           \* the nodes of rule trees (schema.py)
    RuleId,         \* the ids of rules
    Input           \* the arguments of compile_rules: sequences of rules

Rule == [id : RuleId, root : Tree]

ASSUME CompilerAssumption ==
    /\ LeafOps \cap AggregatorOps = {}
    /\ \A t \in Tree : /\ t.op \in LeafOps \cup AggregatorOps
                       /\ t.children \in Seq(Tree)
                       /\ t.op \in LeafOps => t.children = <<>>
    /\ Input \subseteq Seq(Rule)

VARIABLES
    rules,      \* the argument
    turn,       \* the rule in turn
    stack,      \* the calls of visit, innermost last
    nodes,      \* _Builder.nodes
    topo_order, \* _Builder.topo_order
    roots,      \* root id of each compiled rule
    status      \* how compile_rules ended, if it has

vars == <<rules, turn, stack, nodes, topo_order, roots, status>>

Elements(s) == {s[i] : i \in 1..Len(s)}

\* f with d[k] = v, k new or not.
Put(d, k, v) == [x \in DOMAIN d \cup {k} |-> IF x = k THEN v ELSE d[x]]

\* sorted(child_ids): how often each id occurs, and no order.
Sorted(ids) ==
    [c \in Elements(ids) |-> Cardinality({i \in 1..Len(ids) : ids[i] = c})]

\* Seeded bug: the children are hashed in the order of the YAML file.
HashOrderBug(t, ids) ==
    [op |-> t.op, param |-> t.param, children |-> ids]

\* Seeded bug: the operator is left out of the payload.
HashOpBug(t, ids) == [param |-> t.param, children |-> Sorted(ids)]

\* _hash_node
Hash(t, ids) == [op |-> t.op, param |-> t.param, children |-> Sorted(ids)]

GraphNode(t, ids) ==
    [op |-> t.op, param |-> t.param, child_ids |-> Sorted(ids)]

Frame(t) == [node |-> t, ids |-> <<>>]
Top      == stack[Len(stack)]
Below    == SubSeq(stack, 1, Len(stack) - 1)

Init ==
    /\ rules \in Input
    /\ turn = 1
    /\ stack = <<>>
    /\ nodes = <<>>
    /\ topo_order = <<>>
    /\ roots = <<>>
    /\ status = "compiling"

\* compile_rules looks at the next rule.
NextRule == status = "compiling" /\ stack = <<>> /\ turn <= Len(rules)

\* Seeded bug: a second rule of the same id replaces the first.
VisitRootBug ==
    /\ NextRule
    /\ stack' = <<Frame(rules[turn].root)>>
    /\ UNCHANGED <<rules, turn, nodes, topo_order, roots, status>>

\* builder.visit(rule.root)
VisitRoot ==
    /\ NextRule
    /\ rules[turn].id \notin DOMAIN roots
    /\ stack' = <<Frame(rules[turn].root)>>
    /\ UNCHANGED <<rules, turn, nodes, topo_order, roots, status>>

\* ValueError: duplicate rule id.
Refuse ==
    /\ NextRule
    /\ rules[turn].id \in DOMAIN roots
    /\ status' = "refused"
    /\ UNCHANGED <<rules, turn, stack, nodes, topo_order, roots>>

\* visit calls itself for the next child.
VisitChild ==
    /\ stack # <<>>
    /\ Len(Top.ids) < Len(Top.node.children)
    /\ stack' = Append(stack, Frame(Top.node.children[Len(Top.ids) + 1]))
    /\ UNCHANGED <<rules, turn, nodes, topo_order, roots, status>>

\* Every child of the node on top has been visited.
Complete == stack # <<>> /\ Len(Top.ids) = Len(Top.node.children)

\* Seeded bug: the id is listed whether or not it is known.
RegisterBug(id, n) ==
    /\ nodes' = Put(nodes, id, n)
    /\ topo_order' = Append(topo_order, id)

\* _register: a known id is kept as it is.
Register(id, n) ==
    IF id \in DOMAIN nodes THEN UNCHANGED <<nodes, topo_order>>
    ELSE /\ nodes' = Put(nodes, id, n)
         /\ topo_order' = Append(topo_order, id)

\* Seeded bug: the caller does not note the id of the child it visited.
ReturnBug ==
    /\ Complete
    /\ Len(stack) > 1
    /\ Register(Hash(Top.node, Top.ids), GraphNode(Top.node, Top.ids))
    /\ stack' = Below
    /\ UNCHANGED <<rules, turn, roots, status>>

\* visit registers a node and returns its id to the visit of its parent.
Return ==
    /\ Complete
    /\ Len(stack) > 1
    /\ LET id == Hash(Top.node, Top.ids)
       IN  /\ Register(id, GraphNode(Top.node, Top.ids))
           /\ stack' = [Below EXCEPT ![Len(Below)].ids = Append(@, id)]
    /\ UNCHANGED <<rules, turn, roots, status>>

\* ... or, for a root, to compile_rules.
ReturnRoot ==
    /\ Complete
    /\ Len(stack) = 1
    /\ LET id == Hash(Top.node, Top.ids)
       IN  /\ Register(id, GraphNode(Top.node, Top.ids))
           /\ roots' = Put(roots, rules[turn].id, id)
    /\ stack' = <<>>
    /\ turn' = turn + 1
    /\ UNCHANGED <<rules, status>>

\* Every aggregator comes after its children.
ChildrenFirst ==
    \A i \in 1..Len(topo_order) :
        LET n == nodes[topo_order[i]]
        IN  n.op \in AggregatorOps =>
                \A c \in DOMAIN n.child_ids : \E j \in 1..(i - 1) :
                    topo_order[j] = c

\* The sanity check, and the return or the AssertionError.
Finish ==
    /\ status = "compiling"
    /\ stack = <<>>
    /\ turn = Len(rules) + 1
    /\ status' = IF ChildrenFirst THEN "compiled" ELSE "asserted"
    /\ UNCHANGED <<rules, turn, stack, nodes, topo_order, roots>>

Ended == status # "compiling" /\ UNCHANGED vars

Compile == \/ VisitRoot \/ Refuse \/ VisitChild
           \/ Return \/ ReturnRoot \/ Finish

Next == Compile \/ Ended

Spec == Init /\ [][Next]_vars

\* compile_rules runs without interruption.
FairSpec == Spec /\ WF_vars(Compile)

-----------------------------------------------------------------------------
(* Properties. *)

\* Types: no visit notes more children than its node has, and visits run
\* only while compile_rules has a rule in turn.
TypeOK ==
    /\ turn \in 1..(Len(rules) + 1)
    /\ stack # <<>> => turn <= Len(rules)
    /\ \A k \in 1..Len(stack) :
          /\ DOMAIN stack[k] = {"node", "ids"}
          /\ Len(stack[k].ids) <= Len(stack[k].node.children)
    /\ status \in {"compiling", "compiled", "refused", "asserted"}

\* What the orchestrator's walk takes for granted: topo_order has every node
\* once and children first, so that the sanity check of compile_rules never
\* fires; every child and every root is a node of the graph; and a graph is
\* only returned for rules that all have an id, and so a root, of their own.
GraphDelivered ==
    /\ ChildrenFirst
    /\ Elements(topo_order) = DOMAIN nodes
    /\ \A i, j \in 1..Len(topo_order) :
          topo_order[i] = topo_order[j] => i = j
    /\ \A r \in DOMAIN roots : roots[r] \in DOMAIN nodes
    /\ status # "asserted"
    /\ status = "compiled" =>
          /\ DOMAIN roots = {rules[k].id : k \in 1..Len(rules)}
          /\ \A k, m \in 1..Len(rules) : rules[k].id = rules[m].id => k = m

\* The recursion ends for every finite tree.
CompileEnds == <>(status # "compiling")
=============================================================================
