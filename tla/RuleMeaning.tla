------------------------------ MODULE RuleMeaning ------------------------------
(***************************************************************************)
(* What the compiled graph must have in common with the rule trees: the    *)
(* value of every rule, and exactly one node for each content.             *)
(***************************************************************************)
EXTENDS RuleCompiler, FiniteSetsExt

\* The calls of visit below that of a tree.
Height[t \in Tree] ==
    IF t.children = <<>> THEN 0
    ELSE 1 + Max({Height[c] : c \in Elements(t.children)})

\* schema.py: a node has an operator, its parameters and its children, the
\* aggregators are these two, and a rule that could be read is a finite tree.
ASSUME MeaningAssumption ==
    /\ AggregatorOps = {"ALL_OF", "ANY_OF"}
    /\ \A t \in Tree :
          /\ t = [op |-> t.op, param |-> t.param, children |-> t.children]
          /\ Height[t] \in Nat
          /\ \A c \in Elements(t.children) : Height[c] < Height[t]

\* The values of the trees when v says what the leaf of each content answers.
TreeValue(v) ==
    LET val[t \in Tree] ==
            CASE t.op = "ALL_OF" -> \A c \in Elements(t.children) : val[c]
              [] t.op = "ANY_OF" -> \E c \in Elements(t.children) : val[c]
              [] OTHER           -> v[t]
    IN  val

\* The value of the nodes of the graph: the orchestrator's walk without errors.
GraphValue(v) ==
    LET val[id \in DOMAIN nodes] ==
            LET n == nodes[id]
            IN  CASE n.op = "ALL_OF" -> \A c \in DOMAIN n.child_ids : val[c]
                  [] n.op = "ANY_OF" -> \E c \in DOMAIN n.child_ids : val[c]
                  [] OTHER -> v[[op |-> n.op, param |-> n.param,
                                 children |-> <<>>]]
    IN  val

LeafTree == {t \in Tree : t.op \in LeafOps}

\* Two trees that differ in the order of children at most.
Same[p \in Tree \X Tree] ==
    LET t == p[1]
        u == p[2]
    IN  /\ t.op = u.op /\ t.param = u.param
        /\ \E f \in [1..Len(t.children) -> 1..Len(u.children)] :
              /\ \A k \in 1..Len(u.children) : \E m \in DOMAIN f : f[m] = k
              /\ \A k, m \in DOMAIN f : f[k] = f[m] => k = m
              /\ \A k \in DOMAIN f : Same[<<t.children[k], u.children[f[k]]>>]

SubTrees[t \in Tree] == {t} \cup UNION {SubTrees[c] : c \in Elements(t.children)}

\* Hashing and sharing keep what the rules say: whatever the leaves answer, the
\* root node of a rule has the value of the rule's tree.
MeaningKept ==
    status = "compiled" =>
        \A v \in [LeafTree -> BOOLEAN] : \A k \in 1..Len(rules) :
            GraphValue(v)[roots[rules[k].id]] = TreeValue(v)[rules[k].root]

\* The graph has one node for each content, children unordered, across all the
\* rules: so a question that several rules ask is one call of the LLM, and no
\* two questions share one.
OneNodePerContent ==
    status = "compiled" =>
        LET subs == UNION {SubTrees[rules[k].root] : k \in 1..Len(rules)}
        IN  Cardinality(DOMAIN nodes)
              = Cardinality({{u \in subs : Same[<<t, u>>]} : t \in subs})
=============================================================================
