-------------------------- MODULE RuleCompilerProofs --------------------------
(***************************************************************************)
(* Theorems about RuleCompiler.  First, for any rule trees: the graph it   *)
(* delivers is one that the orchestrator can walk.                         *)
(*                                                                         *)
(* Then, for finite trees, what the graph has in common with them: the     *)
(* stack computes a function of the tree, HashOf, so that a node is what   *)
(* its tree says, whichever tree of that id was visited first; and two     *)
(* trees have the same id if they differ in the order of children only.    *)
(***************************************************************************)
EXTENDS RuleMeaning, SequenceTheorems, FiniteSetTheorems, WellFoundedInduction, TLAPS

\* The calls of visit: the ids noted so far are ids of nodes, and a call that
\* is waiting for another has a child left to note.
Frames(ids) == [node : Tree, ids : Seq(ids)]

Calls ==
    /\ stack \in Seq(Frames(DOMAIN nodes))
    /\ \A k \in 1..Len(stack) :
          Len(stack[k].ids) <= Len(stack[k].node.children)
    /\ \A k \in 1..(Len(stack) - 1) :
          Len(stack[k].ids) < Len(stack[k].node.children)

\* The graph as far as it is built.
Graph ==
    /\ topo_order \in Seq(DOMAIN nodes)
    /\ Elements(topo_order) = DOMAIN nodes
    /\ \A i, j \in 1..Len(topo_order) :
          topo_order[i] = topo_order[j] => i = j
    /\ ChildrenFirst

\* The rules before the one in turn have a root each, and no other rule has.
Roots ==
    /\ DOMAIN roots = {rules[k].id : k \in 1..(turn - 1)}
    /\ \A k, m \in 1..(turn - 1) : rules[k].id = rules[m].id => k = m
    /\ \A r \in DOMAIN roots : roots[r] \in DOMAIN nodes

Turn ==
    /\ rules \in Seq(Rule)
    /\ turn \in 1..(Len(rules) + 1)
    /\ stack # <<>> => turn <= Len(rules) /\ rules[turn].id \notin DOMAIN roots
    /\ status \in {"compiling", "compiled", "refused"}
    /\ status = "compiled" => turn = Len(rules) + 1

CInv == Calls /\ Graph /\ Roots /\ Turn

\* A sequence over a set is one over a larger set.
LEMMA SeqMono ==
    ASSUME NEW A, NEW B, A \subseteq B, NEW s \in Seq(A)
    PROVE  s \in Seq(B)
OBVIOUS

LEMMA AllButLast ==
    ASSUME NEW S, NEW s \in Seq(S), s # <<>>
    PROVE  /\ SubSeq(s, 1, Len(s) - 1) \in Seq(S)
           /\ Len(SubSeq(s, 1, Len(s) - 1)) = Len(s) - 1
           /\ \A k \in 1..(Len(s) - 1) : SubSeq(s, 1, Len(s) - 1)[k] = s[k]
<1> DEFINE n == Len(s) - 1
           f == SubSeq(s, 1, n)
<1>1. n \in Nat /\ \A i \in 1..n : s[i] \in S
  OBVIOUS
<1> HIDE DEF n
<1>2. /\ f \in Seq(S)
      /\ Len(f) = IF 1 <= n THEN n - 1 + 1 ELSE 0
      /\ \A i \in 1..(n - 1 + 1) : f[i] = s[1 + i - 1]
  <2>1. 1 \in Int /\ n \in Int
    BY <1>1
  <2> QED  BY <1>1, <2>1, SubSeqProperties
<1> HIDE DEF f
<1>3. Len(f) = n /\ \A i \in 1..n : f[i] = s[i]
  BY <1>1, <1>2
<1> QED  BY <1>2, <1>3 DEF f, n

\* A frame with one more id noted.
LEMMA NoteId ==
    ASSUME NEW S, NEW f \in Frames(S), NEW id
    PROVE  [f EXCEPT !.ids = Append(@, id)]
              = [node |-> f.node, ids |-> Append(f.ids, id)]
<1>1. f \in [node : Tree, ids : Seq(S)]
  BY DEF Frames
<1>2. ASSUME NEW s
      PROVE  [f EXCEPT !.ids = s] = [node |-> f.node, ids |-> s]
  BY <1>1
<1> QED  BY <1>2

LEMMA FramesMono ==
    ASSUME NEW A, NEW B, A \subseteq B
    PROVE  Frames(A) \subseteq Frames(B)
BY SeqMono DEF Frames

\* What _register does to a graph whose new node has its children in place.
LEMMA RegisterKeeps ==
    ASSUME Graph, NEW id, NEW n, Register(id, n),
           DOMAIN n.child_ids \subseteq DOMAIN nodes
    PROVE  /\ Graph'
           /\ id \in DOMAIN nodes'
           /\ DOMAIN nodes \subseteq DOMAIN nodes'
<1>1. CASE id \in DOMAIN nodes
  BY <1>1 DEF Register, Graph, ChildrenFirst
<1>2. CASE id \notin DOMAIN nodes
  <2>1. /\ nodes' = Put(nodes, id, n)
        /\ topo_order' = Append(topo_order, id)
    BY <1>2 DEF Register
  <2>2. /\ DOMAIN nodes' = DOMAIN nodes \cup {id}
        /\ nodes'[id] = n
        /\ \A x \in DOMAIN nodes : nodes'[x] = nodes[x]
    BY <1>2, <2>1 DEF Put
  <2>3. topo_order \in Seq(DOMAIN nodes')
    BY <2>2, SeqMono DEF Graph
  <2>4. /\ topo_order' \in Seq(DOMAIN nodes')
        /\ Len(topo_order) \in Nat
        /\ Len(topo_order') = Len(topo_order) + 1
        /\ \A i \in 1..Len(topo_order) :
              topo_order'[i] = topo_order[i] /\ topo_order[i] \in DOMAIN nodes
        /\ topo_order'[Len(topo_order) + 1] = id
    BY <2>1, <2>2, <2>3 DEF Graph
  <2>5. Elements(topo_order') = DOMAIN nodes'
    <3>1. \A x \in DOMAIN nodes :
             \E i \in 1..Len(topo_order) : topo_order[i] = x
      BY DEF Graph, Elements
    <3>2. \A i \in 1..Len(topo_order') : topo_order'[i] \in DOMAIN nodes'
      BY <2>4
    <3>3. ASSUME NEW x \in DOMAIN nodes'
          PROVE  \E i \in 1..Len(topo_order') : topo_order'[i] = x
      <4>1. CASE x = id
        BY <2>4, <4>1
      <4>2. CASE x \in DOMAIN nodes
        BY <2>4, <3>1, <4>2
      <4> QED
        BY <2>2, <4>1, <4>2
    <3> QED  BY <3>2, <3>3 DEF Elements
  <2>6. \A i, j \in 1..Len(topo_order') :
           topo_order'[i] = topo_order'[j] => i = j
    BY <1>2, <2>4 DEF Graph
  <2>7. ChildrenFirst'
    <3> SUFFICES ASSUME NEW i \in 1..Len(topo_order'),
                        nodes'[topo_order'[i]].op \in AggregatorOps,
                        NEW c \in DOMAIN nodes'[topo_order'[i]].child_ids
                 PROVE  \E j \in 1..(i - 1) : topo_order'[j] = c
      BY DEF ChildrenFirst
    <3>1. CASE i \in 1..Len(topo_order)
      <4>1. nodes'[topo_order'[i]] = nodes[topo_order[i]]
        BY <2>2, <2>4, <3>1
      <4>2. PICK j \in 1..(i - 1) : topo_order[j] = c
        BY <3>1, <4>1 DEF Graph, ChildrenFirst
      <4> QED  BY <2>4, <3>1, <4>2
    <3>2. CASE i = Len(topo_order) + 1
      <4>1. c \in DOMAIN nodes
        BY <2>2, <2>4, <3>2
      <4>2. PICK j \in 1..Len(topo_order) : topo_order[j] = c
        <5>1. c \in Elements(topo_order)
          BY <4>1 DEF Graph
        <5> QED  BY <5>1 DEF Elements
      <4>3. topo_order'[j] = c
        BY <2>4, <4>2
      <4>4. j \in 1..(i - 1)
        BY <3>2
      <4> QED  BY <4>3, <4>4
    <3>3. i \in 1..Len(topo_order) \/ i = Len(topo_order) + 1
      BY <2>4
    <3> QED  BY <3>1, <3>2, <3>3
  <2> QED  BY <2>2, <2>4, <2>5, <2>6, <2>7 DEF Graph
<1> QED  BY <1>1, <1>2

\* The innermost call has noted ids of nodes only, so that its node's children
\* are in place.
LEMMA TopFrame ==
    ASSUME Calls, stack # <<>>
    PROVE  /\ Len(stack) \in Nat \ {0}
           /\ Top \in Frames(DOMAIN nodes)
           /\ Top.node.children \in Seq(Tree)
           /\ DOMAIN GraphNode(Top.node, Top.ids).child_ids \subseteq DOMAIN nodes
           /\ Below \in Seq(Frames(DOMAIN nodes))
           /\ Len(Below) = Len(stack) - 1
           /\ \A k \in 1..Len(Below) : Below[k] = stack[k]
<1>1. /\ Len(stack) \in Nat \ {0}
      /\ Top \in Frames(DOMAIN nodes)
  BY DEF Calls, Top
<1>2. Top.node \in Tree /\ Top.ids \in Seq(DOMAIN nodes)
  BY <1>1 DEF Frames
<1>3. Top.node.children \in Seq(Tree)
  BY <1>2, CompilerAssumption
<1>4. Elements(Top.ids) \subseteq DOMAIN nodes
  BY <1>2 DEF Elements
<1>5. DOMAIN GraphNode(Top.node, Top.ids).child_ids = Elements(Top.ids)
  BY DEF GraphNode, Sorted
<1>6. /\ Below \in Seq(Frames(DOMAIN nodes))
      /\ Len(Below) = Len(stack) - 1
      /\ \A k \in 1..Len(Below) : Below[k] = stack[k]
  <2>1. stack \in Seq(Frames(DOMAIN nodes))
    BY DEF Calls
  <2> QED  BY <2>1, AllButLast DEF Below
<1> QED  BY <1>1, <1>3, <1>4, <1>5, <1>6

\* A call of visit begins with no child visited.
LEMMA NewFrame ==
    ASSUME NEW t \in Tree
    PROVE  /\ Frame(t) \in Frames(DOMAIN nodes)
           /\ Len(Frame(t).ids) <= Len(Frame(t).node.children)
<1>1. t.children \in Seq(Tree)
  BY CompilerAssumption
<1>2. Len(t.children) \in Nat
  BY <1>1
<1>3. <<>> \in Seq(DOMAIN nodes) /\ Len(<<>>) = 0
  OBVIOUS
<1> QED  BY <1>2, <1>3 DEF Frame, Frames

-----------------------------------------------------------------------------
LEMMA InitCorrect == Init => CInv
<1> SUFFICES ASSUME Init PROVE CInv
  OBVIOUS
<1>1. rules \in Seq(Rule) /\ Len(rules) \in Nat
  BY CompilerAssumption DEF Init
<1>2. Calls /\ Roots
  BY <1>1 DEF Init, Calls, Roots
<1>3. Graph
  BY DEF Init, Graph, ChildrenFirst, Elements
<1>4. Turn
  BY <1>1 DEF Init, Turn
<1> QED  BY <1>2, <1>3, <1>4 DEF CInv

LEMMA NextCorrect == CInv /\ [Next]_vars => CInv'
<1> SUFFICES ASSUME CInv, [Next]_vars PROVE CInv'
  OBVIOUS
<1> USE DEF CInv
<1>0. rules \in Seq(Rule) /\ Len(rules) \in Nat /\ turn \in 1..(Len(rules) + 1)
  BY DEF Turn
<1>1. CASE VisitRoot
  <2>1. /\ turn \in 1..Len(rules)
        /\ rules[turn].id \notin DOMAIN roots
        /\ stack' = <<Frame(rules[turn].root)>>
        /\ UNCHANGED <<rules, turn, nodes, topo_order, roots, status>>
    BY <1>0, <1>1 DEF VisitRoot, NextRule
  <2>2. rules[turn].root \in Tree
    <3>1. rules[turn] \in Rule
      BY <1>0, <2>1
    <3> QED  BY <3>1 DEF Rule
  <2>3. /\ Frame(rules[turn].root) \in Frames(DOMAIN nodes)
        /\ Len(Frame(rules[turn].root).ids)
             <= Len(Frame(rules[turn].root).node.children)
    BY <2>2, NewFrame
  <2>4. Calls'
    BY <2>1, <2>3 DEF Calls
  <2>5. Turn'
    BY <1>0, <2>1 DEF Turn
  <2>6. Graph' /\ Roots'
    BY <2>1 DEF Graph, ChildrenFirst, Roots
  <2> QED  BY <2>4, <2>5, <2>6
<1>2. CASE Refuse
  BY <1>2 DEF Refuse, NextRule, Calls, Graph, ChildrenFirst, Roots, Turn
<1>3. CASE VisitChild
  <2>1. /\ stack # <<>>
        /\ Len(Top.ids) < Len(Top.node.children)
        /\ stack' = Append(stack,
                        Frame(Top.node.children[Len(Top.ids) + 1]))
        /\ UNCHANGED <<rules, turn, nodes, topo_order, roots, status>>
    BY <1>3 DEF VisitChild
  <2>2. Len(Top.ids) \in Nat
    BY <2>1, TopFrame DEF Frames
  <2> DEFINE child == Top.node.children[Len(Top.ids) + 1]
  <2>3. child \in Tree
    BY <2>1, <2>2, TopFrame
  <2>4. UNCHANGED <<rules, turn, nodes, topo_order, roots, status>>
    BY <2>1
  <2>5. /\ Frame(child) \in Frames(DOMAIN nodes)
        /\ Len(Frame(child).ids) <= Len(Frame(child).node.children)
    BY <2>3, NewFrame
  <2> HIDE DEF child
  <2>7. stack' = Append(stack, Frame(child))
    BY <2>1 DEF child
  <2>8. Calls'
    <3>1. /\ Len(stack) \in Nat \ {0}
          /\ Len(stack') = Len(stack) + 1
          /\ \A k \in 1..Len(stack) : stack'[k] = stack[k]
          /\ stack'[Len(stack) + 1] = Frame(child)
          /\ stack' \in Seq(Frames(DOMAIN nodes))
      BY <2>1, <2>5, <2>7 DEF Calls
    <3>2. \A k \in 1..Len(stack) :
             Len(stack[k].ids) < Len(stack[k].node.children)
      BY <2>1, <3>1 DEF Calls, Top
    <3>3. \A k \in 1..Len(stack) :
             Len(stack[k].ids) <= Len(stack[k].node.children)
      BY DEF Calls
    <3>4. stack' \in Seq(Frames(DOMAIN nodes'))
      BY <2>4, <3>1
    <3>5. \A k \in 1..Len(stack') : k \in 1..Len(stack) \/ k = Len(stack) + 1
      BY <3>1
    <3>6. \A k \in 1..Len(stack') :
             Len(stack'[k].ids) <= Len(stack'[k].node.children)
      BY <2>5, <3>1, <3>3, <3>5
    <3>7. \A k \in 1..(Len(stack') - 1) :
             Len(stack'[k].ids) < Len(stack'[k].node.children)
      BY <3>1, <3>2
    <3> QED  BY <3>4, <3>6, <3>7 DEF Calls
  <2>9. Turn'
    BY <2>1, <2>7 DEF Turn
  <2>10. Graph' /\ Roots'
    BY <2>4 DEF Graph, ChildrenFirst, Roots
  <2> QED  BY <2>8, <2>9, <2>10
<1>4. CASE Return
  <2>1. PICK id : /\ Register(id, GraphNode(Top.node, Top.ids))
                  /\ stack' = [Below EXCEPT ![Len(Below)].ids = Append(@, id)]
    BY <1>4 DEF Return
  <2>2. /\ stack # <<>>
        /\ Len(stack) > 1
        /\ UNCHANGED <<rules, turn, roots, status>>
    BY <1>4 DEF Return, Complete
  <2>3. /\ Graph'
        /\ id \in DOMAIN nodes'
        /\ DOMAIN nodes \subseteq DOMAIN nodes'
    BY <2>1, <2>2, TopFrame, RegisterKeeps
  <2>4. Calls'
    <3>1. /\ Len(Below) \in Nat \ {0}
          /\ Len(Below) = Len(stack) - 1
          /\ Below \in Seq(Frames(DOMAIN nodes'))
          /\ \A k \in 1..Len(Below) :
                Below[k] = stack[k] /\ Below[k] \in Frames(DOMAIN nodes')
      BY <2>2, <2>3, TopFrame, FramesMono, SeqMono
    <3> DEFINE caller == Below[Len(Below)]
               noted  == [caller EXCEPT !.ids = Append(@, id)]
    <3>2. /\ caller \in Frames(DOMAIN nodes')
          /\ Len(caller.ids) < Len(caller.node.children)
      BY <3>1 DEF Calls
    <3>3. /\ caller.node \in Tree
          /\ caller.ids \in Seq(DOMAIN nodes')
          /\ Len(caller.ids) \in Nat
          /\ caller = [node |-> caller.node, ids |-> caller.ids]
      BY <3>2 DEF Frames
    <3>4. Len(caller.node.children) \in Nat
      <4>1. caller.node.children \in Seq(Tree)
        BY <3>3, CompilerAssumption
      <4> QED  BY <4>1
    <3>5. noted = [node |-> caller.node, ids |-> Append(caller.ids, id)]
      BY <3>2, NoteId
    <3>6. /\ Append(caller.ids, id) \in Seq(DOMAIN nodes')
          /\ Len(Append(caller.ids, id)) = Len(caller.ids) + 1
      BY <2>3, <3>3
    <3> HIDE DEF noted
    <3>7. /\ noted \in Frames(DOMAIN nodes')
          /\ Len(noted.ids) <= Len(noted.node.children)
      BY <3>2, <3>3, <3>4, <3>5, <3>6 DEF Frames
    <3>8. stack' = [Below EXCEPT ![Len(Below)] = noted]
      BY <2>1 DEF noted, caller
    <3>9. /\ stack' \in Seq(Frames(DOMAIN nodes'))
          /\ Len(stack') = Len(Below)
          /\ stack'[Len(Below)] = noted
          /\ \A k \in 1..(Len(Below) - 1) : stack'[k] = stack[k]
      BY <3>1, <3>7, <3>8
    <3>10. \A k \in 1..(Len(Below) - 1) :
              Len(stack[k].ids) < Len(stack[k].node.children)
      BY <3>1 DEF Calls
    <3>11. \A k \in 1..(Len(Below) - 1) :
              Len(stack[k].ids) <= Len(stack[k].node.children)
      BY <3>1 DEF Calls
    <3>12. \A k \in 1..Len(stack') :
              k = Len(Below) \/ k \in 1..(Len(Below) - 1)
      BY <3>1, <3>9
    <3> QED  BY <3>1, <3>7, <3>9, <3>10, <3>11, <3>12 DEF Calls
  <2>5. Turn'
    BY <2>2, <2>4 DEF Turn
  <2>6. Roots'
    BY <2>2, <2>3 DEF Roots
  <2> QED  BY <2>3, <2>4, <2>5, <2>6
<1>5. CASE ReturnRoot
  <2>1. PICK id : /\ Register(id, GraphNode(Top.node, Top.ids))
                  /\ roots' = Put(roots, rules[turn].id, id)
    BY <1>5 DEF ReturnRoot
  <2>2. /\ stack # <<>>
        /\ stack' = <<>>
        /\ turn' = turn + 1
        /\ UNCHANGED <<rules, status>>
    BY <1>5 DEF ReturnRoot, Complete
  <2>3. /\ Graph'
        /\ id \in DOMAIN nodes'
        /\ DOMAIN nodes \subseteq DOMAIN nodes'
    BY <2>1, <2>2, TopFrame, RegisterKeeps
  <2>4. turn \in 1..Len(rules) /\ rules[turn].id \notin DOMAIN roots
    BY <1>0, <2>2 DEF Turn
  <2>5. /\ DOMAIN roots' = DOMAIN roots \cup {rules[turn].id}
        /\ roots'[rules[turn].id] = id
        /\ \A r \in DOMAIN roots : roots'[r] = roots[r]
    BY <2>1, <2>4 DEF Put
  <2>6. Roots'
    <3>1. DOMAIN roots' = {rules[k].id : k \in 1..turn}
      BY <2>4, <2>5 DEF Roots
    <3>2. \A k, m \in 1..turn : rules[k].id = rules[m].id => k = m
      BY <2>4 DEF Roots
    <3>3. \A r \in DOMAIN roots' : roots'[r] \in DOMAIN nodes'
      BY <2>3, <2>5 DEF Roots
    <3>4. turn' - 1 = turn
      BY <2>2, <2>4
    <3> QED  BY <2>2, <3>1, <3>2, <3>3, <3>4 DEF Roots
  <2>7. Calls'
    BY <2>2 DEF Calls
  <2>8. Turn'
    BY <1>0, <2>2, <2>4 DEF Turn
  <2> QED  BY <2>3, <2>6, <2>7, <2>8
<1>6. CASE Finish
  <2>1. /\ turn = Len(rules) + 1
        /\ UNCHANGED <<rules, turn, stack, nodes, topo_order, roots>>
        /\ status' = "compiled"
    BY <1>6 DEF Finish, Graph
  <2>2. Calls' /\ Graph' /\ Roots'
    BY <2>1 DEF Calls, Graph, ChildrenFirst, Roots
  <2>3. Turn'
    BY <2>1 DEF Turn
  <2> QED  BY <2>2, <2>3
<1>7. CASE UNCHANGED vars
  BY <1>7 DEF vars, Calls, Graph, ChildrenFirst, Roots, Turn
<1> QED
  BY <1>1, <1>2, <1>3, <1>4, <1>5, <1>6, <1>7 DEF Next, Compile, Ended

LEMMA Invariance == Spec => []CInv
BY InitCorrect, NextCorrect, PTL DEF Spec

-----------------------------------------------------------------------------
\* compile_rules stays within its argument, and no call of visit notes more
\* ids than its node has children.
THEOREM TypeCorrect == Spec => []TypeOK
<1>1. CInv => TypeOK
  <2> SUFFICES ASSUME CInv PROVE TypeOK
    OBVIOUS
  <2>1. ASSUME NEW k \in 1..Len(stack)
        PROVE  DOMAIN stack[k] = {"node", "ids"}
    <3>1. stack[k] \in Frames(DOMAIN nodes)
      BY DEF CInv, Calls
    <3>2. stack[k] \in [node : Tree, ids : Seq(DOMAIN nodes)]
      BY <3>1 DEF Frames
    <3> QED  BY <3>2
  <2> QED  BY <2>1 DEF CInv, Calls, Turn, TypeOK
<1> QED
  BY <1>1, Invariance, PTL

\* The graph that compile_rules delivers, or is about to deliver, has every
\* node once, children first and a root for every rule: its sanity check
\* never fires, and the orchestrator's walk finds every child evaluated.
THEOREM DeliveredCorrect == Spec => []GraphDelivered
<1>1. CInv => GraphDelivered
  <2> SUFFICES ASSUME CInv PROVE GraphDelivered
    OBVIOUS
  <2>1. status = "compiled" => turn - 1 = Len(rules)
    BY DEF CInv, Turn
  <2> QED  BY <2>1 DEF CInv, Graph, Roots, Turn, GraphDelivered
<1> QED
  BY <1>1, Invariance, PTL

-----------------------------------------------------------------------------
(* Recursion over rule trees, by least counterexamples. *)

LEMMA LeastNumber ==
    ASSUME NEW S \in SUBSET Nat, S # {}
    PROVE  \E x \in S : \A y \in S : x <= y
<1>1. PICK x \in S : \A y \in S : <<y, x>> \notin OpToRel(<, Nat)
  BY NatLessThanWellFounded, WFMin
<1>2. \A y \in S : ~(y < x)
  BY <1>1 DEF OpToRel
<1> QED
  BY <1>2

\* The parts of a tree.
LEMMA Parts ==
    ASSUME NEW t \in Tree
    PROVE  /\ t.children \in Seq(Tree) /\ Len(t.children) \in Nat
           /\ \A k \in 1..Len(t.children) : /\ t.children[k] \in Tree
                                            /\ t.children[k] \in Elements(t.children)
           /\ \A c \in Elements(t.children) :
                 /\ c \in Tree /\ Height[c] \in Nat /\ Height[c] < Height[t]
                 /\ \E k \in 1..Len(t.children) : c = t.children[k]
           /\ Height[t] \in Nat
<1>1. t.children \in Seq(Tree)
  BY CompilerAssumption
<1>2. Len(t.children) \in Nat /\ \A k \in 1..Len(t.children) : t.children[k] \in Tree
  BY <1>1
<1> QED
  BY <1>1, <1>2, MeaningAssumption DEF Elements

\* Some tree of a set has no child in it.
LEMMA LowestTree ==
    ASSUME NEW S \in SUBSET Tree, S # {}
    PROVE  \E t \in S : \A c \in Elements(t.children) : c \notin S
<1> DEFINE H == {Height[t] : t \in S}
<1>1. H \in SUBSET Nat /\ H # {}
  BY Parts
<1>2. PICK h \in H : \A y \in H : h <= y
  <2> HIDE DEF H
  <2> QED
    BY <1>1, LeastNumber
<1>3. PICK t \in S : h = Height[t]
  OBVIOUS
<1>4. ASSUME NEW c \in Elements(t.children), c \in S
      PROVE  FALSE
  <2>1. Height[t] <= Height[c]
    BY <1>2, <1>3, <1>4
  <2>2. Height[c] \in Nat /\ Height[c] < Height[t] /\ Height[t] \in Nat
    BY Parts
  <2> QED
    BY <2>1, <2>2
<1> QED
  BY <1>4

\* One step of the three recursions that the meaning of a graph rests on: the
\* id that visit gives a tree, its value, and its sub-trees.
ChildIds(g, t) == [k \in 1..Len(t.children) |-> g[t.children[k]].id]

OneStep(v, g, t) ==
    [id    |-> Hash(t, ChildIds(g, t)),
     value |-> CASE t.op = "ALL_OF" -> \A c \in Elements(t.children) : g[c].value
                 [] t.op = "ANY_OF" -> \E c \in Elements(t.children) : g[c].value
                 [] OTHER           -> v[t],
     subs  |-> {t} \cup UNION {g[c].subs : c \in Elements(t.children)}]

Under(n) == {t \in Tree : Height[t] < n}

Solves(v, g, n) == g = [t \in Under(n) |-> OneStep(v, g, t)]

LEMMA IdField ==
    ASSUME NEW v, NEW g, NEW t
    PROVE  OneStep(v, g, t).id = Hash(t, ChildIds(g, t))
BY DEF OneStep

LEMMA ValueField ==
    ASSUME NEW v, NEW g, NEW t
    PROVE  /\ t.op = "ALL_OF" =>
                 OneStep(v, g, t).value = \A c \in Elements(t.children) : g[c].value
           /\ t.op = "ANY_OF" =>
                 OneStep(v, g, t).value = \E c \in Elements(t.children) : g[c].value
BY DEF OneStep

LEMMA LeafField ==
    ASSUME NEW v, NEW g, NEW t, t.op \notin {"ALL_OF", "ANY_OF"}
    PROVE  OneStep(v, g, t).value = v[t]
BY DEF OneStep

LEMMA SubsField ==
    ASSUME NEW v, NEW g, NEW t
    PROVE  OneStep(v, g, t).subs = {t} \cup UNION {g[c].subs : c \in Elements(t.children)}
BY DEF OneStep

LEMMA StepIsLocal ==
    ASSUME NEW v, NEW g, NEW h, NEW t \in Tree,
           \A c \in Elements(t.children) : g[c] = h[c]
    PROVE  OneStep(v, g, t) = OneStep(v, h, t)
<1>1. \A k \in 1..Len(t.children) : g[t.children[k]] = h[t.children[k]]
  BY Parts
<1>2. ChildIds(g, t) = ChildIds(h, t)
  BY <1>1 DEF ChildIds
<1>3. UNION {g[c].subs : c \in Elements(t.children)}
      = UNION {h[c].subs : c \in Elements(t.children)}
  OBVIOUS
<1>4. /\ (\A c \in Elements(t.children) : g[c].value)
         = (\A c \in Elements(t.children) : h[c].value)
      /\ (\E c \in Elements(t.children) : g[c].value)
         = (\E c \in Elements(t.children) : h[c].value)
  OBVIOUS
<1> QED
  BY <1>2, <1>3, <1>4 DEF OneStep

LEMMA UnderChild ==
    ASSUME NEW n \in Nat, NEW t \in Under(n), NEW c \in Elements(t.children)
    PROVE  c \in Under(n) /\ (n > 0 => c \in Under(n - 1))
BY Parts DEF Under

LEMMA SolutionsAgree ==
    ASSUME NEW v, NEW g, NEW h, NEW m \in Nat, NEW n \in Nat,
           Solves(v, g, m), Solves(v, h, n),
           NEW t \in Under(m) \cap Under(n)
    PROVE  g[t] = h[t]
<1> DEFINE S == {u \in Under(m) \cap Under(n) : g[u] # h[u]}
<1> SUFFICES ASSUME S # {} PROVE FALSE
  OBVIOUS
<1>1. S \in SUBSET Tree
  BY DEF Under
<1>2. PICK u \in S : \A c \in Elements(u.children) : c \notin S
  <2> HIDE DEF S
  <2> QED
    BY <1>1, LowestTree
<1>3. \A c \in Elements(u.children) : g[c] = h[c]
  BY <1>2, UnderChild
<1>4. u \in Tree /\ g[u] = OneStep(v, g, u) /\ h[u] = OneStep(v, h, u)
  BY DEF Solves, Under
<1>5. g[u] = h[u]
  BY <1>3, <1>4, StepIsLocal
<1> QED
  BY <1>2, <1>5

LEMMA SolutionUnder ==
    ASSUME NEW v, NEW n \in Nat
    PROVE  \E g : Solves(v, g, n)
<1> DEFINE S == {m \in Nat : ~ \E g : Solves(v, g, m)}
<1> SUFFICES ASSUME S # {} PROVE FALSE
  OBVIOUS
<1>1. PICK m \in S : \A k \in S : m <= k
  <2>1. S \in SUBSET Nat
    OBVIOUS
  <2> HIDE DEF S
  <2> QED
    BY <2>1, LeastNumber
<1>2. CASE m = 0
  <2> DEFINE none == [t \in {} |-> 0]
  <2>1. Under(0) = {}
    BY Parts DEF Under
  <2>2. Solves(v, none, 0)
    BY <2>1 DEF Solves
  <2> QED
    BY <1>2, <2>2
<1>3. CASE m # 0
  <2>1. m - 1 \in Nat /\ m - 1 \notin S
    BY <1>1, <1>3
  <2>2. PICK g : Solves(v, g, m - 1)
    BY <2>1
  <2> DEFINE h == [t \in Under(m) |-> OneStep(v, g, t)]
  <2>3. ASSUME NEW t \in Under(m)
        PROVE  OneStep(v, g, t) = OneStep(v, h, t)
    <3>1. t \in Tree
      BY DEF Under
    <3>2. ASSUME NEW c \in Elements(t.children)
          PROVE  g[c] = h[c]
      <4>1. c \in Under(m) /\ c \in Under(m - 1)
        BY <1>3, UnderChild
      <4>2. g[c] = OneStep(v, g, c)
        BY <2>2, <4>1 DEF Solves
      <4>3. h[c] = OneStep(v, g, c)
        BY <4>1
      <4> QED
        BY <4>2, <4>3
    <3> HIDE DEF h
    <3> QED
      BY <3>1, <3>2, StepIsLocal
  <2>4. Solves(v, h, m)
    BY <2>3 DEF Solves
  <2> QED
    BY <2>4
<1> QED
  BY <1>2, <1>3

LEMMA Solution ==
    ASSUME NEW v
    PROVE  \E r : /\ DOMAIN r = Tree
                  /\ \A t \in Tree : r[t] = OneStep(v, r, t)
<1> DEFINE G(n) == CHOOSE g : Solves(v, g, n)
           r == [t \in Tree |-> G(Height[t] + 1)[t]]
<1>1. ASSUME NEW n \in Nat PROVE Solves(v, G(n), n)
  BY SolutionUnder
<1> HIDE DEF G
<1>2. ASSUME NEW t \in Tree PROVE r[t] = OneStep(v, r, t)
  <2> DEFINE n == Height[t] + 1
  <2>1. n \in Nat /\ t \in Under(n)
    BY Parts DEF Under
  <2>2. r[t] = OneStep(v, G(n), t)
    BY <1>1, <2>1 DEF Solves
  <2>3. ASSUME NEW c \in Elements(t.children)
        PROVE  G(n)[c] = r[c]
    <3>1. c \in Tree /\ Height[c] + 1 \in Nat /\ c \in Under(Height[c] + 1)
      BY Parts DEF Under
    <3>2. c \in Under(n)
      BY <2>1, UnderChild
    <3>3. G(n)[c] = G(Height[c] + 1)[c]
      <4> HIDE DEF n
      <4> QED
        BY <1>1, <2>1, <3>1, <3>2, SolutionsAgree
    <3> QED
      BY <3>1, <3>3
  <2> HIDE DEF n, r
  <2>4. OneStep(v, G(n), t) = OneStep(v, r, t)
    BY <2>3, StepIsLocal
  <2> QED
    BY <2>2, <2>4
<1> QED
  BY <1>2

\* The id of every tree: what visit returns for it.
HashOf[t \in Tree] == Hash(t, [k \in 1..Len(t.children) |-> HashOf[t.children[k]]])

KidIds(t) == [k \in 1..Len(t.children) |-> HashOf[t.children[k]]]

LEMMA HashOfDef == \A t \in Tree : HashOf[t] = Hash(t, KidIds(t))
<1> DEFINE Def(h) == [t \in Tree |-> Hash(t, [k \in 1..Len(t.children) |-> h[t.children[k]]])]
<1>1. PICK r : \A t \in Tree : r[t] = OneStep(0, r, t)
  BY Solution
<1> DEFINE w == [t \in Tree |-> r[t].id]
<1>2. ASSUME NEW t \in Tree
      PROVE  w[t] = Hash(t, [k \in 1..Len(t.children) |-> w[t.children[k]]])
  <2>1. r[t].id = Hash(t, ChildIds(r, t))
    <3>1. r[t] = OneStep(0, r, t)
      BY <1>1
    <3> QED
      BY <3>1, IdField
  <2>2. \A k \in 1..Len(t.children) : r[t.children[k]].id = w[t.children[k]]
    BY Parts
  <2> HIDE DEF w
  <2>3. ChildIds(r, t) = [k \in 1..Len(t.children) |-> w[t.children[k]]]
    BY <2>2 DEF ChildIds
  <2> QED
    BY <2>1, <2>3 DEF w
<1>3. w = Def(w)
  <2>1. \A t \in Tree : w[t] = Def(w)[t]
    BY <1>2
  <2>2. w = [t \in Tree |-> w[t]]
    OBVIOUS
  <2> HIDE DEF w
  <2> QED
    BY <1>2, <2>2
<1>4. HashOf = CHOOSE h : h = Def(h)
  BY DEF HashOf
<1>5. HashOf = Def(HashOf)
  <2> HIDE DEF Def, w
  <2> QED
    BY <1>3, <1>4
<1>6. \A t \in Tree : HashOf[t] = Def(HashOf)[t]
  <2> HIDE DEF Def
  <2> QED
    BY <1>5
<1> QED
  BY <1>6 DEF KidIds

LEMMA TreeValueDef ==
    ASSUME NEW v
    PROVE  \A t \in Tree :
              /\ t.op = "ALL_OF" =>
                    TreeValue(v)[t] = \A c \in Elements(t.children) : TreeValue(v)[c]
              /\ t.op = "ANY_OF" =>
                    TreeValue(v)[t] = \E c \in Elements(t.children) : TreeValue(v)[c]
              /\ t.op \notin {"ALL_OF", "ANY_OF"} => TreeValue(v)[t] = v[t]
<1> DEFINE Body(f, t) ==
              CASE t.op = "ALL_OF" -> \A c \in Elements(t.children) : f[c]
                [] t.op = "ANY_OF" -> \E c \in Elements(t.children) : f[c]
                [] OTHER           -> v[t]
           Def(f) == [t \in Tree |-> Body(f, t)]
<1>1. PICK r : \A t \in Tree : r[t] = OneStep(v, r, t)
  BY Solution
<1> DEFINE w == [t \in Tree |-> r[t].value]
<1>2. ASSUME NEW t \in Tree
      PROVE  w[t] = Body(w, t)
  <2>1. /\ t.op = "ALL_OF" =>
              r[t].value = \A c \in Elements(t.children) : r[c].value
        /\ t.op = "ANY_OF" =>
              r[t].value = \E c \in Elements(t.children) : r[c].value
        /\ t.op \notin {"ALL_OF", "ANY_OF"} => r[t].value = v[t]
    <3>1. r[t] = OneStep(v, r, t)
      BY <1>1
    <3>2. r[t].value = OneStep(v, r, t).value
      BY <3>1
    <3>3. ASSUME t.op = "ALL_OF"
          PROVE  OneStep(v, r, t).value = \A c \in Elements(t.children) : r[c].value
      BY <3>3, ValueField
    <3>4. ASSUME t.op = "ANY_OF"
          PROVE  OneStep(v, r, t).value = \E c \in Elements(t.children) : r[c].value
      BY <3>4, ValueField
    <3>5. ASSUME t.op \notin {"ALL_OF", "ANY_OF"}
          PROVE  OneStep(v, r, t).value = v[t]
      BY <3>5, LeafField
    <3> QED
      BY <3>2, <3>3, <3>4, <3>5
  <2>2. \A c \in Elements(t.children) : r[c].value = w[c]
    BY Parts
  <2>3. w[t] = r[t].value
    OBVIOUS
  <2> HIDE DEF w
  <2>4. CASE t.op = "ALL_OF"
    BY <2>1, <2>2, <2>3, <2>4
  <2>5. CASE t.op = "ANY_OF"
    BY <2>1, <2>2, <2>3, <2>5
  <2>6. CASE t.op \notin {"ALL_OF", "ANY_OF"}
    BY <2>1, <2>3, <2>6
  <2> QED
    BY <2>4, <2>5, <2>6
<1>3. w = Def(w)
  <2>1. w = [t \in Tree |-> w[t]]
    OBVIOUS
  <2> HIDE DEF w, Body
  <2> QED
    BY <1>2, <2>1
<1>4. TreeValue(v) = CHOOSE f : f = Def(f)
  BY DEF TreeValue
<1>5. TreeValue(v) = Def(TreeValue(v))
  <2> HIDE DEF Def, w
  <2> QED
    BY <1>3, <1>4
<1>6. \A t \in Tree : TreeValue(v)[t] = Body(TreeValue(v), t)
  <2> DEFINE f == TreeValue(v)
  <2>1. f = [t \in Tree |-> Body(f, t)]
    BY <1>5
  <2> HIDE DEF f, Body
  <2>2. \A t \in Tree : f[t] = Body(f, t)
    BY <2>1
  <2> QED
    BY <2>2 DEF f
<1> QED
  BY <1>6

LEMMA SubTreesDef ==
    \A t \in Tree : SubTrees[t] = {t} \cup UNION {SubTrees[c] : c \in Elements(t.children)}
<1> DEFINE Body(f, t) == {t} \cup UNION {f[c] : c \in Elements(t.children)}
           Def(f) == [t \in Tree |-> Body(f, t)]
<1>1. PICK r : \A t \in Tree : r[t] = OneStep(0, r, t)
  BY Solution
<1> DEFINE w == [t \in Tree |-> r[t].subs]
<1>2. ASSUME NEW t \in Tree
      PROVE  w[t] = Body(w, t)
  <2>1. r[t].subs = {t} \cup UNION {r[c].subs : c \in Elements(t.children)}
    <3>1. r[t] = OneStep(0, r, t)
      BY <1>1
    <3> QED
      BY <3>1, SubsField
  <2>2. \A c \in Elements(t.children) : r[c].subs = w[c]
    BY Parts
  <2>3. w[t] = r[t].subs
    OBVIOUS
  <2> HIDE DEF w
  <2> QED
    BY <2>1, <2>2, <2>3
<1>3. w = Def(w)
  <2>1. w = [t \in Tree |-> w[t]]
    OBVIOUS
  <2> HIDE DEF w, Body
  <2> QED
    BY <1>2, <2>1
<1>4. SubTrees = CHOOSE f : f = Def(f)
  BY DEF SubTrees
<1>5. SubTrees = Def(SubTrees)
  <2> HIDE DEF Def, w
  <2> QED
    BY <1>3, <1>4
<1>6. \A t \in Tree : SubTrees[t] = Body(SubTrees, t)
  <2> HIDE DEF Body
  <2> QED
    BY <1>5
<1> QED
  BY <1>6

\* A tree is one of its sub-trees, which are trees, and so are their children.
LEMMA SubTreesClosed ==
    ASSUME NEW t \in Tree
    PROVE  /\ t \in SubTrees[t]
           /\ SubTrees[t] \subseteq Tree
           /\ \A u \in SubTrees[t] : Elements(u.children) \subseteq SubTrees[t]
<1> DEFINE Good(s) == /\ SubTrees[s] \subseteq Tree
                      /\ \A u \in SubTrees[s] : Elements(u.children) \subseteq SubTrees[s]
           Bad == {s \in Tree : ~Good(s)}
<1>1. \A s \in Tree : s \in SubTrees[s]
  BY SubTreesDef
<1>2. ASSUME NEW s \in Bad, \A c \in Elements(s.children) : c \notin Bad
      PROVE  FALSE
  <2>1. \A c \in Elements(s.children) : Good(c) /\ c \in SubTrees[c]
    BY <1>1, <1>2, Parts
  <2>2. SubTrees[s] = {s} \cup UNION {SubTrees[c] : c \in Elements(s.children)}
    BY SubTreesDef
  <2>3. SubTrees[s] \subseteq Tree
    BY <2>1, <2>2
  <2>4. ASSUME NEW u \in SubTrees[s]
        PROVE  Elements(u.children) \subseteq SubTrees[s]
    <3>1. CASE u = s
      BY <2>1, <2>2, <3>1
    <3>2. CASE u # s
      <4>1. PICK c \in Elements(s.children) : u \in SubTrees[c]
        BY <2>2, <3>2
      <4> QED
        BY <2>1, <2>2, <4>1
    <3> QED
      BY <3>1, <3>2
  <2> QED
    BY <2>3, <2>4
<1>3. Bad = {}
  <2>1. Bad \in SUBSET Tree
    OBVIOUS
  <2> HIDE DEF Bad
  <2> QED
    BY <1>2, <2>1, LowestTree
<1> QED
  BY <1>1, <1>3

-----------------------------------------------------------------------------
(* The calls of visit compute HashOf. *)

\* The ids that a call has noted are those of its node's first children.
Noted ==
    \A k \in 1..Len(stack) : \A i \in 1..Len(stack[k].ids) :
        stack[k].ids[i] = HashOf[stack[k].node.children[i]]

\* A call is for the next child of the call before it, or for a root.
Calling ==
    /\ \A k \in 1..(Len(stack) - 1) :
          stack[k + 1].node = stack[k].node.children[Len(stack[k].ids) + 1]
    /\ stack # <<>> => stack[1].node = rules[turn].root
    /\ \A k \in 1..Len(stack) : stack[k].node \in SubTrees[rules[turn].root]

RootIds == \A k \in 1..(turn - 1) : roots[rules[k].id] = HashOf[rules[k].root]

\* The sub-trees of the rules.
Seen == UNION {SubTrees[rules[k].root] : k \in 1..Len(rules)}

\* What is registered under an id is a tree of that id.
Kept ==
    \A id \in DOMAIN nodes : \E t \in Seen :
        id = HashOf[t] /\ nodes[id] = GraphNode(t, KidIds(t))

HInv == Noted /\ Calling /\ RootIds /\ Kept

LEMMA RootTree ==
    ASSUME Turn, NEW k \in 1..Len(rules)
    PROVE  rules[k].root \in Tree
<1>1. rules[k] \in Rule
  BY DEF Turn
<1> QED
  BY <1>1 DEF Rule

LEMMA SeenTrees ==
    ASSUME Turn
    PROVE  /\ Seen \subseteq Tree
           /\ \A t \in Seen : Elements(t.children) \subseteq Seen
           /\ \A k \in 1..Len(rules) : rules[k].root \in Seen
<1>1. \A k \in 1..Len(rules) :
         /\ SubTrees[rules[k].root] \subseteq Tree
         /\ rules[k].root \in SubTrees[rules[k].root]
         /\ \A t \in SubTrees[rules[k].root] :
               Elements(t.children) \subseteq SubTrees[rules[k].root]
  BY RootTree, SubTreesClosed
<1> QED
  BY <1>1 DEF Seen

\* What visit registers when the last child has been noted.
LEMMA TopDone ==
    ASSUME Calls, Turn, Noted, Calling, Complete
    PROVE  /\ Top.node \in Tree /\ Top.node \in Seen
           /\ Top.ids = KidIds(Top.node)
           /\ Hash(Top.node, Top.ids) = HashOf[Top.node]
<1>1. stack # <<>> /\ Len(Top.ids) = Len(Top.node.children)
  BY DEF Complete
<1>2. /\ Len(stack) \in 1..Len(stack) /\ Top = stack[Len(stack)]
      /\ Top \in Frames(DOMAIN nodes)
  BY <1>1, TopFrame DEF Top
<1>3. Top.node \in Tree /\ Top.ids \in Seq(DOMAIN nodes)
  BY <1>2 DEF Frames
<1>4. \A i \in 1..Len(Top.ids) : Top.ids[i] = HashOf[Top.node.children[i]]
  BY <1>2 DEF Noted
<1>5. Top.ids = [i \in 1..Len(Top.ids) |-> Top.ids[i]]
  BY <1>3
<1>6. Top.ids = KidIds(Top.node)
  BY <1>1, <1>4, <1>5 DEF KidIds
<1>7. Top.node \in Seen
  <2>1. Top.node \in SubTrees[rules[turn].root]
    BY <1>2 DEF Calling
  <2>2. turn \in 1..Len(rules)
    BY <1>1 DEF Turn
  <2> QED
    BY <2>1, <2>2 DEF Seen
<1> QED
  BY <1>3, <1>6, <1>7, HashOfDef

LEMMA KeptStays ==
    ASSUME Calls, Turn, Noted, Calling, Kept, Complete, rules' = rules,
           Register(Hash(Top.node, Top.ids), GraphNode(Top.node, Top.ids))
    PROVE  Kept'
<1> DEFINE id == Hash(Top.node, Top.ids)
           n  == GraphNode(Top.node, Top.ids)
<1>1. PICK t \in Seen : id = HashOf[t] /\ n = GraphNode(t, KidIds(t))
  BY TopDone
<1> HIDE DEF id, n
<1>2. Register(id, n)
  BY DEF id, n
<1>3. Seen' = Seen
  BY DEF Seen
<1>4. CASE id \in DOMAIN nodes
  BY <1>2, <1>3, <1>4 DEF Register, Kept
<1>5. CASE id \notin DOMAIN nodes
  <2>1. nodes' = Put(nodes, id, n)
    BY <1>2, <1>5 DEF Register
  <2>2. PICK d, m : d = id /\ m = n
    OBVIOUS
  <2>3. /\ DOMAIN nodes' = DOMAIN nodes \cup {d} /\ nodes'[d] = m
        /\ \A x \in DOMAIN nodes : nodes'[x] = nodes[x]
    BY <1>5, <2>1, <2>2 DEF Put
  <2> QED
    BY <1>1, <1>3, <2>2, <2>3 DEF Kept
<1> QED
  BY <1>4, <1>5

LEMMA HInit == Init => HInv
BY DEF Init, HInv, Noted, Calling, RootIds, Kept

LEMMA HVisitRoot ==
    ASSUME CInv, HInv, VisitRoot
    PROVE  HInv'
<1>1. /\ stack' = <<Frame(rules[turn].root)>> /\ turn <= Len(rules)
      /\ UNCHANGED <<rules, turn, nodes, topo_order, roots, status>>
  BY DEF VisitRoot, NextRule
<1>2. turn \in 1..Len(rules)
  BY <1>1 DEF CInv, Turn
<1>3. rules[turn].root \in SubTrees[rules[turn].root]
  BY <1>2, RootTree, SubTreesClosed DEF CInv
<1>4. PICK f : f = Frame(rules[turn].root)
  OBVIOUS
<1>5. stack' = <<f>> /\ f.node = rules[turn].root /\ f.ids = <<>> /\ Len(f.ids) = 0
  BY <1>1, <1>4 DEF Frame
<1>6. Len(stack') = 1 /\ stack'[1] = f
  BY <1>5
<1>7. Noted'
  BY <1>5, <1>6 DEF Noted
<1>8. Calling'
  BY <1>1, <1>3, <1>5, <1>6 DEF Calling
<1>9. RootIds' /\ Kept'
  BY <1>1 DEF HInv, RootIds, Kept, Seen
<1> QED
  BY <1>7, <1>8, <1>9 DEF HInv

LEMMA HVisitChild ==
    ASSUME CInv, HInv, VisitChild
    PROVE  HInv'
<1>1. /\ stack # <<>> /\ Len(Top.ids) < Len(Top.node.children)
      /\ stack' = Append(stack, Frame(Top.node.children[Len(Top.ids) + 1]))
      /\ UNCHANGED <<rules, turn, nodes, topo_order, roots, status>>
  BY DEF VisitChild
<1>2. /\ Len(stack) \in Nat \ {0} /\ Top = stack[Len(stack)]
      /\ Top \in Frames(DOMAIN nodes) /\ stack \in Seq(Frames(DOMAIN nodes))
  BY <1>1, TopFrame DEF Top, CInv, Calls
<1>3. Top.node \in Tree /\ Top.ids \in Seq(DOMAIN nodes)
  BY <1>2 DEF Frames
<1>4. PICK c, f : c = Top.node.children[Len(Top.ids) + 1] /\ f = Frame(c)
  OBVIOUS
<1>5. f.node = c /\ f.ids = <<>> /\ Len(f.ids) = 0
  BY <1>4 DEF Frame
<1>6. /\ Len(stack') = Len(stack) + 1 /\ stack'[Len(stack) + 1] = f
      /\ \A k \in 1..Len(stack) : stack'[k] = stack[k]
      /\ \A k \in 1..Len(stack') : k \in 1..Len(stack) \/ k = Len(stack) + 1
  BY <1>1, <1>2, <1>4
<1>7. Noted'
  BY <1>5, <1>6 DEF HInv, Noted
<1>8. c \in Elements(Top.node.children)
  <2>1. Len(Top.ids) + 1 \in 1..Len(Top.node.children)
    BY <1>1, <1>3, Parts
  <2> QED
    BY <1>4, <2>1 DEF Elements
<1>9. c \in SubTrees[rules[turn].root]
  <2>1. Top.node \in SubTrees[rules[turn].root]
    BY <1>2 DEF HInv, Calling
  <2>2. turn \in 1..Len(rules)
    BY <1>1 DEF CInv, Turn
  <2>3. rules[turn].root \in Tree
    BY <2>2, RootTree DEF CInv
  <2> QED
    BY <1>8, <2>1, <2>3, SubTreesClosed
<1>10. Calling'
  <2>1. ASSUME NEW k \in 1..(Len(stack') - 1)
        PROVE  stack'[k + 1].node = stack'[k].node.children[Len(stack'[k].ids) + 1]
    <3>1. CASE k = Len(stack)
      <4>1. stack'[k + 1].node = c
        BY <1>5, <1>6, <3>1
      <4>2. stack'[k] = Top
        BY <1>2, <1>6, <3>1
      <4> QED
        BY <1>4, <4>1, <4>2
    <3>2. CASE k \in 1..(Len(stack) - 1)
      <4>1. k \in 1..Len(stack) /\ k + 1 \in 1..Len(stack)
        BY <1>2, <3>2
      <4>2. stack'[k] = stack[k] /\ stack'[k + 1] = stack[k + 1]
        BY <1>6, <4>1
      <4> QED
        BY <3>2, <4>2 DEF HInv, Calling
    <3> QED
      BY <1>2, <1>6, <3>1, <3>2
  <2>2. stack'[1].node = rules'[turn'].root
    BY <1>1, <1>2, <1>6 DEF HInv, Calling
  <2>3. \A k \in 1..Len(stack') : stack'[k].node \in SubTrees[rules'[turn'].root]
    BY <1>1, <1>5, <1>6, <1>9 DEF HInv, Calling
  <2> QED
    BY <2>1, <2>2, <2>3 DEF Calling
<1>11. RootIds' /\ Kept'
  BY <1>1 DEF HInv, RootIds, Kept, Seen
<1> QED
  BY <1>7, <1>10, <1>11 DEF HInv

LEMMA HReturn ==
    ASSUME CInv, HInv, Return
    PROVE  HInv'
<1>1. PICK id : id = Hash(Top.node, Top.ids)
  OBVIOUS
<1>2. /\ Complete /\ Len(stack) > 1 /\ stack # <<>>
      /\ Register(id, GraphNode(Top.node, Top.ids))
      /\ stack' = [Below EXCEPT ![Len(Below)].ids = Append(@, id)]
      /\ UNCHANGED <<rules, turn, roots, status>>
  BY <1>1 DEF Return, Complete
<1>3. id = HashOf[Top.node]
  BY <1>1, <1>2, TopDone DEF CInv, HInv
<1>4. /\ Len(stack) \in Nat \ {0} /\ Top = stack[Len(stack)]
      /\ Len(Below) = Len(stack) - 1
      /\ Below \in Seq(Frames(DOMAIN nodes))
      /\ \A k \in 1..Len(Below) : Below[k] = stack[k]
  BY <1>2, TopFrame DEF Top, CInv
<1>5. PICK n \in Nat \ {0} : n = Len(Below) /\ n + 1 = Len(stack)
  BY <1>2, <1>4
<1>6. PICK f : f = stack[n]
  OBVIOUS
<1>7. f = Below[n] /\ f \in Frames(DOMAIN nodes)
  BY <1>4, <1>5, <1>6
<1>8. /\ f = [node |-> f.node, ids |-> f.ids] /\ f.ids \in Seq(DOMAIN nodes)
      /\ Len(f.ids) \in Nat
  BY <1>7 DEF Frames
<1>9. PICK g : g = [node |-> f.node, ids |-> Append(f.ids, id)]
  OBVIOUS
<1>10. [f EXCEPT !.ids = Append(@, id)] = g
  BY <1>7, <1>9, NoteId
<1>11. stack' = [Below EXCEPT ![n] = g]
  BY <1>2, <1>5, <1>7, <1>10
<1>12. /\ Len(stack') = n /\ stack'[n] = g
       /\ \A k \in 1..(n - 1) : stack'[k] = stack[k]
       /\ \A k \in 1..Len(stack') : k = n \/ k \in 1..(n - 1)
  <2>1. /\ DOMAIN Below = 1..n /\ n \in 1..n
        /\ \A k \in 1..(n - 1) : k \in 1..n /\ k # n
    BY <1>4, <1>5
  <2>2. DOMAIN stack' = 1..n /\ stack'[n] = g /\ \A k \in 1..(n - 1) : stack'[k] = stack[k]
    BY <1>4, <1>5, <1>11, <2>1
  <2>3. Len(stack') = n
    BY <1>5, <2>2
  <2> QED
    BY <2>2, <2>3
<1>13. id = HashOf[f.node.children[Len(f.ids) + 1]]
  <2>1. n \in 1..(Len(stack) - 1)
    BY <1>5
  <2>2. stack[n + 1].node = f.node.children[Len(f.ids) + 1]
    BY <1>6, <2>1 DEF HInv, Calling
  <2> QED
    BY <1>3, <1>4, <1>5, <2>2
<1>14. Noted'
  <2>1. ASSUME NEW i \in 1..Len(g.ids)
        PROVE  g.ids[i] = HashOf[g.node.children[i]]
    <3>1. /\ g.ids = Append(f.ids, id) /\ g.node = f.node
          /\ Len(g.ids) = Len(f.ids) + 1
      BY <1>8, <1>9
    <3>2. CASE i \in 1..Len(f.ids)
      <4>1. f.ids[i] = HashOf[f.node.children[i]]
        <5>1. n \in 1..Len(stack)
          BY <1>5
        <5> QED
          BY <1>6, <3>2, <5>1 DEF HInv, Noted
      <4> QED
        BY <1>8, <3>1, <3>2, <4>1
    <3>3. CASE i = Len(f.ids) + 1
      BY <1>8, <1>13, <3>1, <3>3
    <3> QED
      BY <1>8, <3>1, <3>2, <3>3
  <2>2. \A k \in 1..(n - 1) : k \in 1..Len(stack)
    BY <1>5
  <2> QED
    BY <1>12, <2>1, <2>2 DEF HInv, Noted
<1>15. g.node = f.node
  BY <1>9
<1>16. Calling'
  <2>1. ASSUME NEW k \in 1..(n - 1)
        PROVE  stack'[k + 1].node = stack'[k].node.children[Len(stack'[k].ids) + 1]
    <3>1. /\ k \in 1..(Len(stack) - 1) /\ k + 1 \in 1..n
          /\ (k + 1 = n \/ k + 1 \in 1..(n - 1))
      BY <1>5
    <3>2. stack[k + 1].node = stack[k].node.children[Len(stack[k].ids) + 1]
      BY <3>1 DEF HInv, Calling
    <3>3. stack'[k + 1].node = stack[k + 1].node
      BY <1>6, <1>12, <1>15, <3>1
    <3> QED
      BY <1>12, <3>2, <3>3
  <2>2. stack[1].node = rules[turn].root
    BY <1>2 DEF HInv, Calling
  <2>3. stack'[1].node = rules'[turn'].root
    <3>1. n = 1 \/ 1 \in 1..(n - 1)
      BY <1>5
    <3> QED
      BY <1>2, <1>6, <1>12, <1>15, <2>2, <3>1
  <2>4. ASSUME NEW k \in 1..Len(stack')
        PROVE  stack'[k].node \in SubTrees[rules'[turn'].root]
    <3>1. k \in 1..Len(stack)
      BY <1>5, <1>12
    <3>2. stack'[k].node = stack[k].node
      BY <1>6, <1>12, <1>15
    <3> QED
      BY <1>2, <3>1, <3>2 DEF HInv, Calling
  <2> QED
    BY <1>12, <2>1, <2>3, <2>4 DEF Calling
<1>17. Kept'
  BY <1>1, <1>2, KeptStays DEF CInv, HInv
<1>18. RootIds'
  BY <1>2 DEF HInv, RootIds
<1> QED
  BY <1>14, <1>16, <1>17, <1>18 DEF HInv

LEMMA HReturnRoot ==
    ASSUME CInv, HInv, ReturnRoot
    PROVE  HInv'
<1>1. PICK id : id = Hash(Top.node, Top.ids)
  OBVIOUS
<1>2. /\ Complete /\ Len(stack) = 1 /\ stack # <<>>
      /\ Register(id, GraphNode(Top.node, Top.ids))
      /\ roots' = Put(roots, rules[turn].id, id)
      /\ stack' = <<>> /\ turn' = turn + 1
      /\ UNCHANGED <<rules, status>>
  BY <1>1 DEF ReturnRoot, Complete
<1>3. turn \in 1..Len(rules) /\ rules[turn].id \notin DOMAIN roots
  BY <1>2 DEF CInv, Turn
<1>4. Top = stack[1] /\ Top.node = rules[turn].root
  BY <1>2 DEF Top, HInv, Calling
<1>5. id = HashOf[rules[turn].root]
  BY <1>1, <1>2, <1>4, TopDone DEF CInv, HInv
<1>6. PICK t0 : t0 = turn
  OBVIOUS
<1>7. /\ roots'[rules[t0].id] = id
      /\ \A r \in DOMAIN roots : roots'[r] = roots[r]
  BY <1>2, <1>3, <1>6 DEF Put
<1>8. RootIds'
  <2>1. \A k \in 1..(t0 - 1) : rules[k].id \in DOMAIN roots
    BY <1>6 DEF CInv, Roots
  <2>2. \A k \in 1..(t0 - 1) : roots'[rules[k].id] = HashOf[rules[k].root]
    BY <1>6, <1>7, <2>1 DEF HInv, RootIds
  <2>3. \A k \in 1..(turn' - 1) : k = t0 \/ k \in 1..(t0 - 1)
    BY <1>2, <1>3, <1>6
  <2> QED
    BY <1>2, <1>5, <1>6, <1>7, <2>2, <2>3 DEF RootIds
<1>9. Kept'
  BY <1>1, <1>2, KeptStays DEF CInv, HInv
<1>10. Noted' /\ Calling'
  BY <1>2 DEF Noted, Calling
<1> QED
  BY <1>8, <1>9, <1>10 DEF HInv

LEMMA HNext == CInv /\ HInv /\ [Next]_vars => HInv'
<1> SUFFICES ASSUME CInv, HInv, [Next]_vars PROVE HInv'
  OBVIOUS
<1>1. ASSUME UNCHANGED <<rules, turn, stack, nodes, roots>>
      PROVE  HInv'
  BY <1>1 DEF HInv, Noted, Calling, RootIds, Kept, Seen
<1>2. CASE Refuse \/ Finish \/ UNCHANGED vars
  BY <1>1, <1>2 DEF Refuse, Finish, vars
<1> QED
  BY <1>2, HVisitRoot, HVisitChild, HReturn, HReturnRoot DEF Next, Compile, Ended

LEMMA HInvariance == Spec => [](CInv /\ HInv)
BY InitCorrect, NextCorrect, HInit, HNext, PTL DEF Spec

-----------------------------------------------------------------------------
(* The meaning of the graph. *)

\* Trees of one id have the same operator and parameters, and children of the
\* same ids.
LEMMA SameId ==
    ASSUME NEW t \in Tree, NEW u \in Tree, HashOf[t] = HashOf[u]
    PROVE  /\ t.op = u.op /\ t.param = u.param
           /\ Sorted(KidIds(t)) = Sorted(KidIds(u))
           /\ {HashOf[c] : c \in Elements(t.children)} = {HashOf[c] : c \in Elements(u.children)}
           /\ GraphNode(t, KidIds(t)) = GraphNode(u, KidIds(u))
<1>1. Hash(t, KidIds(t)) = Hash(u, KidIds(u))
  BY HashOfDef
<1>2. /\ t.op = u.op /\ t.param = u.param
      /\ Sorted(KidIds(t)) = Sorted(KidIds(u))
  BY <1>1 DEF Hash
<1>3. ASSUME NEW s \in Tree
      PROVE  DOMAIN Sorted(KidIds(s)) = {HashOf[c] : c \in Elements(s.children)}
  <2>1. Len(KidIds(s)) = Len(s.children)
    BY Parts DEF KidIds
  <2>2. \A k \in 1..Len(s.children) : KidIds(s)[k] = HashOf[s.children[k]]
    BY DEF KidIds
  <2>3. DOMAIN Sorted(KidIds(s)) = {KidIds(s)[k] : k \in 1..Len(s.children)}
    BY <2>1 DEF Sorted, Elements
  <2> QED
    BY <2>2, <2>3 DEF Elements
<1> QED
  BY <1>2, <1>3 DEF GraphNode

\* The node of a tree, and of its children.
LEMMA NodeOf ==
    ASSUME CInv, HInv, NEW t \in Tree, HashOf[t] \in DOMAIN nodes
    PROVE  /\ nodes[HashOf[t]].op = t.op
           /\ nodes[HashOf[t]].param = t.param
           /\ DOMAIN nodes[HashOf[t]].child_ids = {HashOf[c] : c \in Elements(t.children)}
           /\ \A c \in Elements(t.children) : HashOf[c] \in DOMAIN nodes
<1>1. nodes[HashOf[t]] = GraphNode(t, KidIds(t))
  <2>1. PICK u \in Seen : /\ HashOf[t] = HashOf[u]
                          /\ nodes[HashOf[t]] = GraphNode(u, KidIds(u))
    BY DEF HInv, Kept
  <2>2. u \in Tree
    BY SeenTrees DEF CInv
  <2> QED
    BY <2>1, <2>2, SameId
<1>2. DOMAIN GraphNode(t, KidIds(t)).child_ids = {HashOf[c] : c \in Elements(t.children)}
  <2>1. Len(KidIds(t)) = Len(t.children)
    BY Parts DEF KidIds
  <2>2. \A k \in 1..Len(t.children) : KidIds(t)[k] = HashOf[t.children[k]]
    BY DEF KidIds
  <2>3. DOMAIN GraphNode(t, KidIds(t)).child_ids = {KidIds(t)[k] : k \in 1..Len(t.children)}
    BY <2>1 DEF GraphNode, Sorted, Elements
  <2> QED
    BY <2>2, <2>3 DEF Elements
<1>3. GraphNode(t, KidIds(t)).op = t.op /\ GraphNode(t, KidIds(t)).param = t.param
  BY DEF GraphNode
<1>4. ASSUME NEW c \in Elements(t.children)
      PROVE  HashOf[c] \in DOMAIN nodes
  <2>1. t.op \in AggregatorOps
    <3>1. t.op \in LeafOps => t.children = <<>>
      BY CompilerAssumption
    <3>2. t.children # <<>>
      BY DEF Elements
    <3> QED
      BY <3>1, <3>2, CompilerAssumption
  <2>2. PICK i \in 1..Len(topo_order) : topo_order[i] = HashOf[t]
    <3>1. HashOf[t] \in Elements(topo_order)
      BY DEF CInv, Graph
    <3> QED
      BY <3>1 DEF Elements
  <2>3. \E j \in 1..(i - 1) : topo_order[j] = HashOf[c]
    <3>1. /\ nodes[topo_order[i]].op \in AggregatorOps
          /\ HashOf[c] \in DOMAIN nodes[topo_order[i]].child_ids
      BY <1>1, <1>2, <1>3, <2>1, <2>2
    <3>2. ChildrenFirst
      BY DEF CInv, Graph
    <3> QED
      BY <3>1, <3>2 DEF ChildrenFirst
  <2>4. \A j \in 1..(i - 1) : j \in 1..Len(topo_order)
    <3>1. topo_order \in Seq(DOMAIN nodes)
      BY DEF CInv, Graph
    <3> QED
      BY <3>1
  <2> QED
    BY <2>3, <2>4 DEF CInv, Graph, Elements
<1> QED
  BY <1>1, <1>2, <1>3, <1>4

\* A leaf is its operator and parameters; the other trees are aggregators.
LEMMA TreeKinds ==
    ASSUME NEW t \in Tree
    PROVE  /\ t.op \in {"ALL_OF", "ANY_OF"} => t.op \notin LeafOps
           /\ t.op \notin {"ALL_OF", "ANY_OF"} =>
                 /\ t = [op |-> t.op, param |-> t.param, children |-> <<>>]
                 /\ t \in LeafTree
<1>1. t = [op |-> t.op, param |-> t.param, children |-> t.children]
  BY MeaningAssumption
<1>2. t.op \in LeafOps => t.children = <<>>
  BY CompilerAssumption
<1>3. t.op \notin {"ALL_OF", "ANY_OF"} => t.op \in LeafOps
  BY CompilerAssumption, MeaningAssumption
<1> QED
  BY <1>1, <1>2, <1>3, CompilerAssumption, MeaningAssumption DEF LeafTree

\* Trees of one id have one value.
LEMMA ValueOfId ==
    ASSUME NEW v, NEW t \in Tree, NEW u \in Tree, HashOf[t] = HashOf[u]
    PROVE  TreeValue(v)[t] = TreeValue(v)[u]
<1> DEFINE Bad == {s \in Tree : \E r \in Tree :
                      HashOf[s] = HashOf[r] /\ TreeValue(v)[s] # TreeValue(v)[r]}
<1>1. ASSUME NEW s \in Bad, \A c \in Elements(s.children) : c \notin Bad
      PROVE  FALSE
  <2>1. PICK r \in Tree : HashOf[s] = HashOf[r] /\ TreeValue(v)[s] # TreeValue(v)[r]
    OBVIOUS
  <2>0. s \in Tree
    OBVIOUS
  <2>2. /\ s.op = r.op /\ s.param = r.param
        /\ {HashOf[c] : c \in Elements(s.children)} = {HashOf[c] : c \in Elements(r.children)}
    BY <2>0, <2>1, SameId
  <2>3. \A c \in Elements(s.children) : \A d \in Tree :
           HashOf[c] = HashOf[d] => TreeValue(v)[c] = TreeValue(v)[d]
    BY <1>1, Parts
  <2> HIDE DEF Bad
  <2>4. /\ \A c \in Elements(s.children) : \E d \in Elements(r.children) :
              TreeValue(v)[c] = TreeValue(v)[d]
        /\ \A d \in Elements(r.children) : \E c \in Elements(s.children) :
              TreeValue(v)[c] = TreeValue(v)[d]
    <3>1. ASSUME NEW c \in Elements(s.children)
          PROVE  \E d \in Elements(r.children) : TreeValue(v)[c] = TreeValue(v)[d]
      <4>1. PICK d \in Elements(r.children) : HashOf[c] = HashOf[d]
        BY <2>2
      <4> QED
        BY <2>3, <4>1, Parts
    <3>2. ASSUME NEW d \in Elements(r.children)
          PROVE  \E c \in Elements(s.children) : TreeValue(v)[c] = TreeValue(v)[d]
      <4>1. PICK c \in Elements(s.children) : HashOf[c] = HashOf[d]
        BY <2>2
      <4> QED
        BY <2>3, <4>1, Parts
    <3> QED
      BY <3>1, <3>2
  <2>5. CASE s.op = "ALL_OF"
    <3>1. TreeValue(v)[s] = \A c \in Elements(s.children) : TreeValue(v)[c]
      BY <2>0, <2>5, TreeValueDef
    <3>2. r \in Tree /\ r.op = "ALL_OF"
      BY <2>2, <2>5
    <3>3. TreeValue(v)[r] = \A d \in Elements(r.children) : TreeValue(v)[d]
      BY <3>2, TreeValueDef
    <3>4. (\A c \in Elements(s.children) : TreeValue(v)[c])
          = (\A d \in Elements(r.children) : TreeValue(v)[d])
      BY <2>4
    <3>5. TreeValue(v)[s] = TreeValue(v)[r]
      BY <3>1, <3>3, <3>4, Zenon
    <3> QED
      BY <2>1, <3>5
  <2>6. CASE s.op = "ANY_OF"
    <3>1. TreeValue(v)[s] = \E c \in Elements(s.children) : TreeValue(v)[c]
      BY <2>0, <2>6, TreeValueDef
    <3>2. r \in Tree /\ r.op = "ANY_OF"
      BY <2>2, <2>6
    <3>3. TreeValue(v)[r] = \E d \in Elements(r.children) : TreeValue(v)[d]
      BY <3>2, TreeValueDef
    <3>4. (\E c \in Elements(s.children) : TreeValue(v)[c])
          = (\E d \in Elements(r.children) : TreeValue(v)[d])
      BY <2>4
    <3>5. TreeValue(v)[s] = TreeValue(v)[r]
      BY <3>1, <3>3, <3>4, Zenon
    <3> QED
      BY <2>1, <3>5
  <2>7. CASE s.op \notin {"ALL_OF", "ANY_OF"}
    <3>1. s = [op |-> s.op, param |-> s.param, children |-> <<>>]
      BY <2>0, <2>7, TreeKinds
    <3>2. r \in Tree /\ r.op \notin {"ALL_OF", "ANY_OF"}
      BY <2>2, <2>7
    <3>3. r = [op |-> r.op, param |-> r.param, children |-> <<>>]
      BY <3>2, TreeKinds
    <3>4. s = r
      BY <2>2, <3>1, <3>3
    <3> QED
      BY <2>1, <3>4
  <2> QED
    BY <2>5, <2>6, <2>7
<1>2. Bad = {}
  <2>1. Bad \in SUBSET Tree
    OBVIOUS
  <2> HIDE DEF Bad
  <2> QED
    BY <1>1, <2>1, LowestTree
<1> QED
  BY <1>2

\* The recursion of GraphValue, over the nodes instead of the trees.
LEMMA GraphValueDef ==
    ASSUME CInv, HInv, NEW v
    PROVE  \A t \in Tree : HashOf[t] \in DOMAIN nodes =>
              /\ t.op = "ALL_OF" => GraphValue(v)[HashOf[t]]
                    = \A c \in Elements(t.children) : GraphValue(v)[HashOf[c]]
              /\ t.op = "ANY_OF" => GraphValue(v)[HashOf[t]]
                    = \E c \in Elements(t.children) : GraphValue(v)[HashOf[c]]
              /\ t.op \notin {"ALL_OF", "ANY_OF"} => GraphValue(v)[HashOf[t]] = v[t]
<1> DEFINE Body(f, id) ==
              CASE nodes[id].op = "ALL_OF" -> \A c \in DOMAIN nodes[id].child_ids : f[c]
                [] nodes[id].op = "ANY_OF" -> \E c \in DOMAIN nodes[id].child_ids : f[c]
                [] OTHER -> v[[op |-> nodes[id].op, param |-> nodes[id].param,
                               children |-> <<>>]]
           Def(f) == [id \in DOMAIN nodes |-> Body(f, id)]
           T(id) == CHOOSE t \in Tree : HashOf[t] = id
           w == [id \in DOMAIN nodes |-> TreeValue(v)[T(id)]]
<1>1. ASSUME NEW t \in Tree, HashOf[t] \in DOMAIN nodes
      PROVE  w[HashOf[t]] = TreeValue(v)[t]
  <2>1. T(HashOf[t]) \in Tree /\ HashOf[T(HashOf[t])] = HashOf[t]
    OBVIOUS
  <2>2. w[HashOf[t]] = TreeValue(v)[T(HashOf[t])]
    BY <1>1
  <2> HIDE DEF w, T
  <2> QED
    BY <2>1, <2>2, ValueOfId
<1> HIDE DEF w, T
\* What Body says of a function, in terms of the trees.
<1>2. ASSUME NEW f, NEW t \in Tree, HashOf[t] \in DOMAIN nodes
      PROVE  /\ t.op = "ALL_OF" =>
                   Body(f, HashOf[t]) = \A c \in Elements(t.children) : f[HashOf[c]]
             /\ t.op = "ANY_OF" =>
                   Body(f, HashOf[t]) = \E c \in Elements(t.children) : f[HashOf[c]]
             /\ t.op \notin {"ALL_OF", "ANY_OF"} => Body(f, HashOf[t]) = v[t]
  <2>1. /\ nodes[HashOf[t]].op = t.op
        /\ nodes[HashOf[t]].param = t.param
        /\ DOMAIN nodes[HashOf[t]].child_ids = {HashOf[c] : c \in Elements(t.children)}
    BY <1>2, NodeOf
  <2>2. CASE t.op = "ALL_OF"
    BY <2>1, <2>2
  <2>3. CASE t.op = "ANY_OF"
    BY <2>1, <2>3
  <2>4. CASE t.op \notin {"ALL_OF", "ANY_OF"}
    <3>1. t = [op |-> t.op, param |-> t.param, children |-> <<>>]
      BY <2>4, TreeKinds
    <3>2. Body(f, HashOf[t]) = v[[op |-> t.op, param |-> t.param, children |-> <<>>]]
      BY <2>1, <2>4
    <3> QED
      BY <2>4, <3>1, <3>2
  <2> QED
    BY <2>2, <2>3, <2>4
<1> HIDE DEF Body
<1>3. \A id \in DOMAIN nodes : w[id] = Body(w, id)
  <2> SUFFICES ASSUME NEW t \in Tree, HashOf[t] \in DOMAIN nodes
               PROVE  w[HashOf[t]] = Body(w, HashOf[t])
    BY SeenTrees DEF CInv, HInv, Kept
  <2>1. \A c \in Elements(t.children) :
           c \in Tree /\ HashOf[c] \in DOMAIN nodes /\ w[HashOf[c]] = TreeValue(v)[c]
    BY <1>1, NodeOf, Parts
  <2>2. CASE t.op = "ALL_OF"
    <3>1. TreeValue(v)[t] = \A c \in Elements(t.children) : TreeValue(v)[c]
      BY <2>2, TreeValueDef
    <3>2. Body(w, HashOf[t]) = \A c \in Elements(t.children) : w[HashOf[c]]
      BY <1>2, <2>2
    <3> QED
      BY <1>1, <2>1, <3>1, <3>2
  <2>3. CASE t.op = "ANY_OF"
    <3>1. TreeValue(v)[t] = \E c \in Elements(t.children) : TreeValue(v)[c]
      BY <2>3, TreeValueDef
    <3>2. Body(w, HashOf[t]) = \E c \in Elements(t.children) : w[HashOf[c]]
      BY <1>2, <2>3
    <3> QED
      BY <1>1, <2>1, <3>1, <3>2
  <2>4. CASE t.op \notin {"ALL_OF", "ANY_OF"}
    <3>1. TreeValue(v)[t] = v[t]
      BY <2>4, TreeValueDef
    <3>2. Body(w, HashOf[t]) = v[t]
      BY <1>2, <2>4
    <3> QED
      BY <1>1, <3>1, <3>2
  <2> QED
    BY <2>2, <2>3, <2>4
<1>4. w = Def(w)
  <2>1. w = [id \in DOMAIN nodes |-> w[id]]
    BY DEF w
  <2> QED
    BY <1>3, <2>1
<1>5. GraphValue(v) = CHOOSE f : f = Def(f)
  BY DEF GraphValue, Body
<1>6. GraphValue(v) = Def(GraphValue(v))
  <2> HIDE DEF Def
  <2> QED
    BY <1>4, <1>5
<1>7. \A id \in DOMAIN nodes : GraphValue(v)[id] = Body(GraphValue(v), id)
  <2> DEFINE f == GraphValue(v)
  <2>1. f = [id \in DOMAIN nodes |-> Body(f, id)]
    BY <1>6
  <2> HIDE DEF f
  <2>2. \A id \in DOMAIN nodes : f[id] = Body(f, id)
    BY <2>1
  <2> QED
    BY <2>2 DEF f
<1> QED
  BY <1>2, <1>7

LEMMA NodeValue ==
    ASSUME CInv, HInv, NEW v, NEW t \in Tree, HashOf[t] \in DOMAIN nodes
    PROVE  GraphValue(v)[HashOf[t]] = TreeValue(v)[t]
<1> DEFINE Bad == {s \in Tree : /\ HashOf[s] \in DOMAIN nodes
                                /\ GraphValue(v)[HashOf[s]] # TreeValue(v)[s]}
<1>1. ASSUME NEW s \in Bad, \A c \in Elements(s.children) : c \notin Bad
      PROVE  FALSE
  <2>1. /\ s \in Tree /\ HashOf[s] \in DOMAIN nodes
        /\ GraphValue(v)[HashOf[s]] # TreeValue(v)[s]
    OBVIOUS
  <2>2. \A c \in Elements(s.children) : GraphValue(v)[HashOf[c]] = TreeValue(v)[c]
    BY <1>1, <2>1, NodeOf, Parts
  <2> HIDE DEF Bad
  <2>3. CASE s.op = "ALL_OF"
    <3>1. TreeValue(v)[s] = \A c \in Elements(s.children) : TreeValue(v)[c]
      BY <2>1, <2>3, TreeValueDef
    <3>2. GraphValue(v)[HashOf[s]] = \A c \in Elements(s.children) : GraphValue(v)[HashOf[c]]
      BY <2>1, <2>3, GraphValueDef
    <3> QED
      BY <2>1, <2>2, <3>1, <3>2
  <2>4. CASE s.op = "ANY_OF"
    <3>1. TreeValue(v)[s] = \E c \in Elements(s.children) : TreeValue(v)[c]
      BY <2>1, <2>4, TreeValueDef
    <3>2. GraphValue(v)[HashOf[s]] = \E c \in Elements(s.children) : GraphValue(v)[HashOf[c]]
      BY <2>1, <2>4, GraphValueDef
    <3> QED
      BY <2>1, <2>2, <3>1, <3>2
  <2>5. CASE s.op \notin {"ALL_OF", "ANY_OF"}
    <3>1. TreeValue(v)[s] = v[s]
      BY <2>1, <2>5, TreeValueDef
    <3>2. GraphValue(v)[HashOf[s]] = v[s]
      BY <2>1, <2>5, GraphValueDef
    <3> QED
      BY <2>1, <3>1, <3>2
  <2> QED
    BY <2>3, <2>4, <2>5
<1>2. Bad = {}
  <2>1. Bad \in SUBSET Tree
    OBVIOUS
  <2> HIDE DEF Bad
  <2> QED
    BY <1>1, <2>1, LowestTree
<1> QED
  BY <1>2

\* compile_rules keeps what the rules say: hashing, sharing and the sorting of
\* children do not change the value of any rule, whatever its leaves answer.
THEOREM MeaningCorrect == Spec => []MeaningKept
<1>1. CInv /\ HInv => MeaningKept
  <2> SUFFICES ASSUME CInv, HInv, status = "compiled",
                      NEW v \in [LeafTree -> BOOLEAN], NEW k \in 1..Len(rules)
               PROVE  GraphValue(v)[roots[rules[k].id]] = TreeValue(v)[rules[k].root]
    BY DEF MeaningKept
  <2>1. k \in 1..(turn - 1)
    <3>1. turn = Len(rules) + 1 /\ rules \in Seq(Rule)
      BY DEF CInv, Turn
    <3> QED
      BY <3>1
  <2>2. roots[rules[k].id] = HashOf[rules[k].root]
    BY <2>1 DEF HInv, RootIds
  <2>3. HashOf[rules[k].root] \in DOMAIN nodes
    BY <2>1, <2>2 DEF CInv, Roots
  <2>4. rules[k].root \in Tree
    BY RootTree DEF CInv
  <2> QED
    BY <2>2, <2>3, <2>4, NodeValue
<1> QED
  BY <1>1, HInvariance, PTL
-----------------------------------------------------------------------------
(* One node for each content. *)

Positions(s, c) == {i \in 1..Len(s) : s[i] = c}

\* f gives every position of x a position of y of its own with the same
\* element, and uses all of y.
Matching(x, y, f) ==
    /\ f \in [1..Len(x) -> 1..Len(y)]
    /\ \A k \in 1..Len(y) : \E m \in 1..Len(x) : f[m] = k
    /\ \A k, m \in 1..Len(x) : f[k] = f[m] => k = m
    /\ \A k \in 1..Len(x) : x[k] = y[f[k]]

LEMMA FinitePositions ==
    ASSUME NEW S, NEW s \in Seq(S), NEW c
    PROVE  IsFiniteSet(Positions(s, c))
<1>1. Len(s) \in Int /\ 1 \in Int
  OBVIOUS
<1>2. IsFiniteSet(1..Len(s))
  BY <1>1, FS_Interval
<1>3. Positions(s, c) \in SUBSET (1..Len(s))
  BY DEF Positions
<1> QED
  BY <1>2, <1>3, FS_Subset

\* Lists that match are the same when sorted.
LEMMA MatchingSorts ==
    ASSUME NEW S, NEW x \in Seq(S), NEW y \in Seq(S), NEW f, Matching(x, y, f)
    PROVE  Sorted(x) = Sorted(y)
<1>1. Elements(x) = Elements(y)
  <2>1. ASSUME NEW k \in 1..Len(x)
        PROVE  x[k] \in Elements(y)
    BY DEF Elements, Matching
  <2>2. ASSUME NEW k \in 1..Len(y)
        PROVE  y[k] \in Elements(x)
    <3>1. PICK m \in 1..Len(x) : f[m] = k
      BY DEF Matching
    <3> QED
      BY <3>1 DEF Elements, Matching
  <2> QED
    BY <2>1, <2>2 DEF Elements
<1>2. ASSUME NEW c
      PROVE  Cardinality(Positions(x, c)) = Cardinality(Positions(y, c))
  <2> DEFINE g == [i \in Positions(x, c) |-> f[i]]
  <2>1. g \in [Positions(x, c) -> Positions(y, c)]
    BY DEF Positions, Matching
  <2>2. \A i, j \in Positions(x, c) : g[i] = g[j] => i = j
    BY DEF Positions, Matching
  <2>3. \A j \in Positions(y, c) : \E i \in Positions(x, c) : g[i] = j
    BY DEF Positions, Matching
  <2> HIDE DEF g
  <2>4. g \in Bijection(Positions(x, c), Positions(y, c))
    BY <2>1, <2>2, <2>3 DEF Bijection, Injection, Surjection, IsInjective
  <2>5. ExistsBijection(Positions(x, c), Positions(y, c))
    BY <2>4 DEF ExistsBijection
  <2> QED
    BY <2>5, FinitePositions, FS_Bijection
<1> QED
  BY <1>1, <1>2 DEF Sorted, Positions

\* Lists that are the same when sorted match.
LEMMA SortedMatches ==
    ASSUME NEW S, NEW x \in Seq(S), NEW y \in Seq(S), Sorted(x) = Sorted(y)
    PROVE  \E f : Matching(x, y, f)
<1>1. Elements(x) = Elements(y)
  <2>1. DOMAIN Sorted(x) = Elements(x) /\ DOMAIN Sorted(y) = Elements(y)
    BY DEF Sorted
  <2> QED
    BY <2>1
<1>2. ASSUME NEW c \in Elements(x)
      PROVE  ExistsBijection(Positions(x, c), Positions(y, c))
  <2>1. /\ Sorted(x)[c] = Cardinality(Positions(x, c))
        /\ Sorted(y)[c] = Cardinality(Positions(y, c))
    BY <1>1 DEF Sorted, Positions
  <2>2. Cardinality(Positions(x, c)) = Cardinality(Positions(y, c))
    BY <2>1
  <2> QED
    BY <2>2, FinitePositions, FS_SameCardinalityBij
<1> DEFINE G(c) == CHOOSE g : g \in Bijection(Positions(x, c), Positions(y, c))
           f == [k \in 1..Len(x) |-> G(x[k])[k]]
<1>3. ASSUME NEW c \in Elements(x)
      PROVE  /\ G(c) \in [Positions(x, c) -> Positions(y, c)]
             /\ \A i, j \in Positions(x, c) : G(c)[i] = G(c)[j] => i = j
             /\ \A j \in Positions(y, c) : \E i \in Positions(x, c) : G(c)[i] = j
  <2>1. G(c) \in Bijection(Positions(x, c), Positions(y, c))
    BY <1>2 DEF ExistsBijection
  <2> HIDE DEF G
  <2> QED
    BY <2>1 DEF Bijection, Injection, Surjection, IsInjective
<1> HIDE DEF G
<1>4. ASSUME NEW k \in 1..Len(x)
      PROVE  /\ x[k] \in Elements(x)
             /\ k \in Positions(x, x[k])
             /\ f[k] = G(x[k])[k]
             /\ f[k] \in Positions(y, x[k])
  <2>1. x[k] \in Elements(x) /\ k \in Positions(x, x[k])
    BY DEF Elements, Positions
  <2> QED
    BY <1>3, <2>1
<1> HIDE DEF f
<1>5. \A k \in 1..Len(x) : f[k] \in 1..Len(y) /\ y[f[k]] = x[k]
  BY <1>4 DEF Positions
<1>6. f \in [1..Len(x) -> 1..Len(y)]
  BY <1>5 DEF f
<1>7. ASSUME NEW k \in 1..Len(x), NEW m \in 1..Len(x), f[k] = f[m]
      PROVE  k = m
  <2>1. x[k] = x[m]
    BY <1>5, <1>7
  <2>2. k \in Positions(x, x[k]) /\ m \in Positions(x, x[k])
    BY <1>4, <2>1
  <2>3. G(x[k])[k] = G(x[k])[m]
    BY <1>4, <1>7, <2>1
  <2> QED
    BY <1>3, <1>4, <2>2, <2>3
<1>8. ASSUME NEW j \in 1..Len(y)
      PROVE  \E m \in 1..Len(x) : f[m] = j
  <2>1. y[j] \in Elements(x) /\ j \in Positions(y, y[j])
    BY <1>1 DEF Elements, Positions
  <2>2. PICK i \in Positions(x, y[j]) : G(y[j])[i] = j
    BY <1>3, <2>1
  <2>3. i \in 1..Len(x) /\ x[i] = y[j]
    BY DEF Positions
  <2> QED
    BY <1>4, <2>2, <2>3
<1>9. Matching(x, y, f)
  BY <1>5, <1>6, <1>7, <1>8 DEF Matching
<1> QED
  BY <1>9
\* The body of Same, when f says which children are the same.
SameBody(f, t, u) ==
    /\ t.op = u.op /\ t.param = u.param
    /\ \E g \in [1..Len(t.children) -> 1..Len(u.children)] :
          /\ \A k \in 1..Len(u.children) : \E m \in DOMAIN g : g[m] = k
          /\ \A k, m \in DOMAIN g : g[k] = g[m] => k = m
          /\ \A k \in DOMAIN g : f[<<t.children[k], u.children[g[k]]>>]

\* The payload of a hash is what Same compares.
LEMMA EqualIds ==
    ASSUME NEW t \in Tree, NEW u \in Tree, NEW f,
           \A c \in Elements(t.children), d \in Elements(u.children) :
               f[<<c, d>>] = (HashOf[c] = HashOf[d])
    PROVE  SameBody(f, t, u) = (HashOf[t] = HashOf[u])
<1> DEFINE x == KidIds(t)
           y == KidIds(u)
           Any == {HashOf[c] : c \in Tree}
<1>1. /\ Len(t.children) \in Nat /\ Len(u.children) \in Nat
      /\ \A k \in 1..Len(t.children) : t.children[k] \in Elements(t.children)
      /\ \A k \in 1..Len(u.children) : u.children[k] \in Elements(u.children)
  BY Parts DEF Elements
<1>2. /\ x \in Seq(Any) /\ Len(x) = Len(t.children)
      /\ y \in Seq(Any) /\ Len(y) = Len(u.children)
      /\ \A k \in 1..Len(t.children) : x[k] = HashOf[t.children[k]]
      /\ \A k \in 1..Len(u.children) : y[k] = HashOf[u.children[k]]
  BY <1>1, Parts DEF KidIds
<1> HIDE DEF x, y, Any
<1>3. ASSUME NEW g
      PROVE  Matching(x, y, g)
             <=> /\ g \in [1..Len(t.children) -> 1..Len(u.children)]
                 /\ \A k \in 1..Len(u.children) : \E m \in DOMAIN g : g[m] = k
                 /\ \A k, m \in DOMAIN g : g[k] = g[m] => k = m
                 /\ \A k \in DOMAIN g : f[<<t.children[k], u.children[g[k]]>>]
  <2>1. ASSUME g \in [1..Len(t.children) -> 1..Len(u.children)]
        PROVE  \A k \in 1..Len(t.children) :
                  f[<<t.children[k], u.children[g[k]]>>] = (x[k] = y[g[k]])
    <3>1. ASSUME NEW k \in 1..Len(t.children)
          PROVE  f[<<t.children[k], u.children[g[k]]>>] = (x[k] = y[g[k]])
      <4>1. /\ t.children[k] \in Elements(t.children)
            /\ g[k] \in 1..Len(u.children)
            /\ u.children[g[k]] \in Elements(u.children)
        BY <1>1, <2>1
      <4>2. x[k] = HashOf[t.children[k]] /\ y[g[k]] = HashOf[u.children[g[k]]]
        BY <1>2, <4>1
      <4>3. f[<<t.children[k], u.children[g[k]]>>]
               = (HashOf[t.children[k]] = HashOf[u.children[g[k]]])
        BY <4>1
      <4> QED
        BY <4>2, <4>3
    <3> QED
      BY <3>1
  <2>2. ASSUME g \in [1..Len(t.children) -> 1..Len(u.children)]
        PROVE  (\A k \in DOMAIN g : f[<<t.children[k], u.children[g[k]]>>])
               <=> \A k \in 1..Len(t.children) : x[k] = y[g[k]]
    BY <2>1, <2>2
  <2>3. Matching(x, y, g)
        <=> /\ g \in [1..Len(t.children) -> 1..Len(u.children)]
            /\ \A k \in 1..Len(u.children) : \E m \in DOMAIN g : g[m] = k
            /\ \A k, m \in DOMAIN g : g[k] = g[m] => k = m
            /\ \A k \in 1..Len(t.children) : x[k] = y[g[k]]
    BY <1>2 DEF Matching
  <2> QED
    BY <2>2, <2>3
<1>4. SameBody(f, t, u) <=> /\ t.op = u.op /\ t.param = u.param
                            /\ \E g : Matching(x, y, g)
  BY <1>3 DEF SameBody
<1>5. (\E g : Matching(x, y, g)) <=> Sorted(x) = Sorted(y)
  BY <1>2, MatchingSorts, SortedMatches
<1>6. HashOf[t] = HashOf[u] <=> /\ t.op = u.op /\ t.param = u.param
                                /\ Sorted(x) = Sorted(y)
  <2>1. /\ HashOf[t] = [op |-> t.op, param |-> t.param, children |-> Sorted(x)]
        /\ HashOf[u] = [op |-> u.op, param |-> u.param, children |-> Sorted(y)]
    BY HashOfDef DEF Hash, x, y
  <2> QED
    BY <2>1
<1>7. SameBody(f, t, u) <=> HashOf[t] = HashOf[u]
  BY <1>4, <1>5, <1>6
<1> QED
  BY <1>7 DEF SameBody

LEMMA SameDef == \A t, u \in Tree : Same[<<t, u>>] = SameBody(Same, t, u)
<1> DEFINE Def(f) == [p \in Tree \X Tree |-> SameBody(f, p[1], p[2])]
           w == [p \in Tree \X Tree |-> HashOf[p[1]] = HashOf[p[2]]]
<1>1. ASSUME NEW t \in Tree, NEW u \in Tree
      PROVE  w[<<t, u>>] = SameBody(w, t, u)
  <2>1. \A c, d \in Tree : w[<<c, d>>] = (HashOf[c] = HashOf[d])
    OBVIOUS
  <2> HIDE DEF w
  <2>2. ASSUME NEW c \in Elements(t.children), NEW d \in Elements(u.children)
        PROVE  w[<<c, d>>] = (HashOf[c] = HashOf[d])
    <3>1. c \in Tree
      BY Parts
    <3>2. d \in Tree
      BY Parts
    <3> QED
      BY <2>1, <3>1, <3>2, Zenon
  <2>3. SameBody(w, t, u) = (HashOf[t] = HashOf[u])
    BY <2>2, EqualIds
  <2> QED
    BY <2>1, <2>3
<1>2. w = Def(w)
  <2>1. \A p \in Tree \X Tree : w[p] = SameBody(w, p[1], p[2])
    <3> SUFFICES ASSUME NEW p \in Tree \X Tree
                 PROVE  w[p] = SameBody(w, p[1], p[2])
      OBVIOUS
    <3>1. p[1] \in Tree /\ p[2] \in Tree /\ p = <<p[1], p[2]>>
      OBVIOUS
    <3> HIDE DEF w
    <3>2. w[<<p[1], p[2]>>] = SameBody(w, p[1], p[2])
      BY <1>1, <3>1
    <3> QED
      BY <3>1, <3>2
  <2>2. w = [p \in Tree \X Tree |-> w[p]]
    OBVIOUS
  <2> HIDE DEF w
  <2> QED
    BY <2>1, <2>2
<1>3. Same = CHOOSE f : f = Def(f)
  BY DEF Same, SameBody
<1>4. Same = Def(Same)
  <2> HIDE DEF Def, w
  <2> QED
    BY <1>2, <1>3
<1>5. ASSUME NEW t \in Tree, NEW u \in Tree
      PROVE  Same[<<t, u>>] = SameBody(Same, t, u)
  <2> DEFINE f == Same
  <2>1. f = [p \in Tree \X Tree |-> SameBody(f, p[1], p[2])]
    BY <1>4
  <2>2. <<t, u>> \in Tree \X Tree /\ <<t, u>>[1] = t /\ <<t, u>>[2] = u
    OBVIOUS
  <2> HIDE DEF f
  <2>3. f[<<t, u>>] = SameBody(f, <<t, u>>[1], <<t, u>>[2])
    BY <2>1, <2>2
  <2>4. f[<<t, u>>] = SameBody(f, t, u)
    BY <2>2, <2>3
  <2> QED
    BY <2>4 DEF f
<1> QED
  BY <1>5
\* Two trees are the same, but for the order of children, if their ids are.
LEMMA SameIsId ==
    ASSUME NEW t \in Tree, NEW u \in Tree
    PROVE  Same[<<t, u>>] = (HashOf[t] = HashOf[u])
<1> DEFINE Good(s) == \A r \in Tree : Same[<<s, r>>] = (HashOf[s] = HashOf[r])
           Bad == {s \in Tree : ~Good(s)}
<1>1. ASSUME NEW s \in Bad, \A c \in Elements(s.children) : c \notin Bad
      PROVE  FALSE
  <2>1. \A c \in Elements(s.children) : c \in Tree /\ Good(c)
    BY <1>1, Parts
  <2>2. s \in Tree
    OBVIOUS
  <2>3. ASSUME NEW r \in Tree
        PROVE  Same[<<s, r>>] = (HashOf[s] = HashOf[r])
    <3>1. Elements(r.children) \subseteq Tree
      BY Parts
    <3>2. \A c \in Elements(s.children), d \in Elements(r.children) :
             Same[<<c, d>>] = (HashOf[c] = HashOf[d])
      BY <2>1, <3>1
    <3>3. SameBody(Same, s, r) = (HashOf[s] = HashOf[r])
      BY <2>2, <3>2, EqualIds
    <3> QED
      BY <2>2, <3>3, SameDef
  <2>4. Good(s)
    BY <2>3
  <2> QED
    BY <2>4
<1>2. Bad = {}
  <2>1. Bad \in SUBSET Tree
    OBVIOUS
  <2> HIDE DEF Bad
  <2> QED
    BY <1>1, <2>1, LowestTree
<1> QED
  BY <1>2

\* A node of the graph has the nodes of all its sub-trees below it.
LEMMA SubTreesAreNodes ==
    ASSUME CInv, HInv, NEW t \in Tree, HashOf[t] \in DOMAIN nodes,
           NEW u \in SubTrees[t]
    PROVE  HashOf[u] \in DOMAIN nodes
<1> DEFINE Bad == {s \in Tree : /\ HashOf[s] \in DOMAIN nodes
                                /\ \E r \in SubTrees[s] : HashOf[r] \notin DOMAIN nodes}
<1>1. ASSUME NEW s \in Bad, \A c \in Elements(s.children) : c \notin Bad
      PROVE  FALSE
  <2>1. s \in Tree /\ HashOf[s] \in DOMAIN nodes
    OBVIOUS
  <2>2. \A c \in Elements(s.children) :
           \A r \in SubTrees[c] : HashOf[r] \in DOMAIN nodes
    BY <1>1, <2>1, NodeOf, Parts
  <2>3. SubTrees[s] = {s} \cup UNION {SubTrees[c] : c \in Elements(s.children)}
    BY <2>1, SubTreesDef
  <2> QED
    BY <2>1, <2>2, <2>3
<1>2. Bad = {}
  <2>1. Bad \in SUBSET Tree
    OBVIOUS
  <2> HIDE DEF Bad
  <2> QED
    BY <1>1, <2>1, LowestTree
<1> QED
  BY <1>2

\* A graph that is delivered has the nodes of the sub-trees of the rules, and
\* no others.
LEMMA NodesAreSeen ==
    ASSUME CInv, HInv, status = "compiled"
    PROVE  DOMAIN nodes = {HashOf[t] : t \in Seen}
<1>1. ASSUME NEW t \in Seen
      PROVE  HashOf[t] \in DOMAIN nodes
  <2>1. PICK k \in 1..Len(rules) : t \in SubTrees[rules[k].root]
    BY DEF Seen
  <2>2. k \in 1..(turn - 1)
    <3>1. turn = Len(rules) + 1 /\ rules \in Seq(Rule)
      BY DEF CInv, Turn
    <3> QED
      BY <3>1
  <2>3. HashOf[rules[k].root] \in DOMAIN nodes
    BY <2>2 DEF HInv, RootIds, CInv, Roots
  <2>4. rules[k].root \in Tree
    BY RootTree DEF CInv
  <2> QED
    BY <2>1, <2>3, <2>4, SubTreesAreNodes
<1> QED
  BY <1>1 DEF HInv, Kept

LEMMA NodesAreFinite ==
    ASSUME CInv
    PROVE  IsFiniteSet(DOMAIN nodes)
<1> DEFINE T == 1..Len(topo_order)
<1>1. Len(topo_order) \in Nat /\ topo_order \in [T -> DOMAIN nodes]
  BY DEF CInv, Graph
<1>2. /\ \A i, j \in T : topo_order[i] = topo_order[j] => i = j
      /\ \A id \in DOMAIN nodes : \E i \in T : topo_order[i] = id
  BY DEF CInv, Graph, Elements
<1>3. IsFiniteSet(T)
  <2>1. 1 \in Int /\ Len(topo_order) \in Int
    BY <1>1
  <2> QED
    BY <2>1, FS_Interval
<1> HIDE DEF T
<1>4. topo_order \in Bijection(T, DOMAIN nodes)
  BY <1>1, <1>2 DEF Bijection, Injection, Surjection, IsInjective
<1>5. ExistsBijection(T, DOMAIN nodes)
  BY <1>4 DEF ExistsBijection
<1> QED
  BY <1>3, <1>5, FS_Bijection

\* compile_rules makes one node of each content, the order of children aside,
\* across all the rules: no question is asked twice, and no two share a node.
THEOREM OneNodeCorrect == Spec => []OneNodePerContent
<1>1. CInv /\ HInv => OneNodePerContent
  <2> DEFINE Class(t) == {u \in Seen : Same[<<t, u>>]}
             Classes == {Class(t) : t \in Seen}
             b == [id \in DOMAIN nodes |-> {u \in Seen : HashOf[u] = id}]
  <2> SUFFICES ASSUME CInv, HInv, status = "compiled"
               PROVE  Cardinality(DOMAIN nodes) = Cardinality(Classes)
    BY DEF OneNodePerContent, Seen
  <2>1. DOMAIN nodes = {HashOf[t] : t \in Seen}
    BY NodesAreSeen
  <2>2. ASSUME NEW t \in Seen
        PROVE  b[HashOf[t]] = Class(t) /\ t \in b[HashOf[t]]
    <3>1. Seen \subseteq Tree
      BY SeenTrees DEF CInv
    <3>2. \A u \in Seen : Same[<<t, u>>] = (HashOf[t] = HashOf[u])
      BY <3>1, SameIsId
    <3> QED
      BY <2>1, <3>2
  <2>3. \A id \in DOMAIN nodes : \A u \in b[id] : HashOf[u] = id
    OBVIOUS
  <2>4. b \in [DOMAIN nodes -> Classes]
    <3>1. \A id \in DOMAIN nodes : b[id] \in Classes
      <4> HIDE DEF b
      <4> QED
        BY <2>1, <2>2
    <3> QED
      BY <3>1
  <2>5. \A i, j \in DOMAIN nodes : b[i] = b[j] => i = j
    <3> HIDE DEF b
    <3> QED
      BY <2>1, <2>2, <2>3
  <2>6. \A c \in Classes : \E id \in DOMAIN nodes : b[id] = c
    <3> HIDE DEF b
    <3> QED
      BY <2>1, <2>2
  <2>7. b \in Bijection(DOMAIN nodes, Classes)
    <3> HIDE DEF b, Classes
    <3> QED
      BY <2>4, <2>5, <2>6 DEF Bijection, Injection, Surjection, IsInjective
  <2>8. ExistsBijection(DOMAIN nodes, Classes)
    BY <2>7 DEF ExistsBijection
  <2> HIDE DEF Classes
  <2> QED
    BY <2>8, NodesAreFinite, FS_Bijection
<1> QED
  BY <1>1, HInvariance, PTL
-----------------------------------------------------------------------------
(* The graph as the orchestrator reads it. *)

LeafNodes  == {id \in DOMAIN nodes : nodes[id].op \in LeafOps}
AggNodes   == {id \in DOMAIN nodes : nodes[id].op \in AggregatorOps}
ChildrenOf == [a \in AggNodes |-> DOMAIN nodes[a].child_ids]
RuleIds    == {rules[k].id : k \in 1..Len(rules)}
RootOf     == [r \in RuleIds |-> roots[r]]

\* What RuleGraph assumes of its constants (GraphAssumption, TopoAssumption),
\* with Leaf, Agg, AllOf, Children, Topo, Rule and Root taken from the graph
\* that was compiled.
Walkable ==
    /\ LeafNodes \cap AggNodes = {}
    /\ {a \in AggNodes : nodes[a].op = "ALL_OF"} \subseteq AggNodes
    /\ ChildrenOf \in [AggNodes -> SUBSET (LeafNodes \cup AggNodes)]
    /\ RootOf \in [RuleIds -> LeafNodes \cup AggNodes]
    /\ topo_order \in Seq(LeafNodes \cup AggNodes)
    /\ \A n \in LeafNodes \cup AggNodes :
          \E i \in 1..Len(topo_order) : topo_order[i] = n
    /\ \A i, j \in 1..Len(topo_order) : topo_order[i] = topo_order[j] => i = j
    /\ \A i \in 1..Len(topo_order) :
          topo_order[i] \in AggNodes =>
              \A c \in ChildrenOf[topo_order[i]] :
                  \E j \in 1..(i - 1) : topo_order[j] = c

LEMMA KindsOfNodes ==
    ASSUME CInv, HInv
    PROVE  /\ LeafNodes \cap AggNodes = {}
           /\ LeafNodes \cup AggNodes = DOMAIN nodes
           /\ \A a \in AggNodes : ChildrenOf[a] \in SUBSET (DOMAIN nodes)
<1>1. ASSUME NEW id \in DOMAIN nodes
      PROVE  /\ nodes[id].op \in LeafOps \cup AggregatorOps
             /\ DOMAIN nodes[id].child_ids \subseteq DOMAIN nodes
  <2>1. PICK t \in Seen : id = HashOf[t]
    BY DEF HInv, Kept
  <2>2. t \in Tree
    BY SeenTrees DEF CInv
  <2> QED
    BY <2>1, <2>2, NodeOf, CompilerAssumption
<1>2. LeafNodes \cap AggNodes = {}
  BY CompilerAssumption DEF LeafNodes, AggNodes
<1>3. LeafNodes \cup AggNodes = DOMAIN nodes
  BY <1>1 DEF LeafNodes, AggNodes
<1>4. \A a \in AggNodes : ChildrenOf[a] \in SUBSET (DOMAIN nodes)
  BY <1>1 DEF AggNodes, ChildrenOf
<1> QED
  BY <1>2, <1>3, <1>4

\* A graph that compile_rules delivers satisfies all that the module RuleGraph
\* assumes of a graph, so the theorems about the orchestrator's run hold for
\* whatever rules are compiled.
THEOREM WalkableCorrect == Spec => [](status = "compiled" => Walkable)
<1>1. CInv /\ HInv => (status = "compiled" => Walkable)
  <2> SUFFICES ASSUME CInv, HInv, status = "compiled"
               PROVE  Walkable
    OBVIOUS
  <2>1. /\ LeafNodes \cap AggNodes = {}
        /\ LeafNodes \cup AggNodes = DOMAIN nodes
        /\ \A a \in AggNodes : ChildrenOf[a] \in SUBSET (DOMAIN nodes)
    BY KindsOfNodes
  <2>2. {a \in AggNodes : nodes[a].op = "ALL_OF"} \subseteq AggNodes
    OBVIOUS
  <2>3. ChildrenOf \in [AggNodes -> SUBSET (LeafNodes \cup AggNodes)]
    BY <2>1 DEF ChildrenOf
  <2>4. RootOf \in [RuleIds -> LeafNodes \cup AggNodes]
    <3>1. turn - 1 = Len(rules)
      BY DEF CInv, Turn
    <3>2. \A r \in RuleIds : roots[r] \in DOMAIN nodes
      BY <3>1 DEF CInv, Roots, RuleIds
    <3> QED
      BY <2>1, <3>2 DEF RootOf
  <2>5. /\ topo_order \in Seq(DOMAIN nodes)
        /\ \A n \in DOMAIN nodes : \E i \in 1..Len(topo_order) : topo_order[i] = n
        /\ \A i, j \in 1..Len(topo_order) : topo_order[i] = topo_order[j] => i = j
    BY DEF CInv, Graph, Elements
  <2>6. ASSUME NEW i \in 1..Len(topo_order), topo_order[i] \in AggNodes,
               NEW c \in ChildrenOf[topo_order[i]]
        PROVE  \E j \in 1..(i - 1) : topo_order[j] = c
    BY <2>6 DEF CInv, Graph, ChildrenFirst, AggNodes, ChildrenOf
  <2> QED
    BY <2>1, <2>2, <2>3, <2>4, <2>5, <2>6 DEF Walkable
<1> QED
  BY <1>1, HInvariance, PTL
=============================================================================
