-------------------------- MODULE OrchestratorProofs --------------------------
(***************************************************************************)
(* Orchestrator's verdicts are sound for every graph, every rule set and   *)
(* every outcome of the leaves.  The walk needs no induction over the      *)
(* graph: soundness of the nodes already computed is itself inductive,     *)
(* because topo_order puts the children of a node before it.               *)
(***************************************************************************)
EXTENDS Orchestrator, TLAPS

\* What Aggregate computes from complete findings is a finding.
LEMMA AggregateType ==
    ASSUME NEW a \in Agg, NEW F \in [Node -> Finding \cup {None}],
           \A c \in Children[a] : F[c] \in Finding
    PROVE  Aggregate(a, F) \in Finding
BY GraphAssumption, Zenon DEF Aggregate, Finding

\* A definitive aggregate is the truth of the connective under any valuation
\* that agrees with the definitive children.
LEMMA AggregateSound ==
    ASSUME NEW a \in Agg, NEW F \in [Node -> Finding \cup {None}],
           \A c \in Children[a] : F[c] \in Finding,
           NEW v \in [Node -> BOOLEAN], Obeys(v, a),
           \A c \in Children[a] : ~F[c].errored => v[c] = F[c].passed,
           ~Aggregate(a, F).errored
    PROVE  v[a] = Aggregate(a, F).passed
<1> Children[a] \subseteq Node
  BY GraphAssumption
<1>a. \A c \in Children[a] : /\ v[c] \in BOOLEAN
                             /\ F[c].passed \in BOOLEAN /\ F[c].errored \in BOOLEAN
  BY DEF Finding
<1>1. CASE a \in AllOf
  <2>1. v[a] = \A c \in Children[a] : v[c]
    BY <1>1 DEF Obeys
  <2> QED
    BY <1>1, <1>a, <2>1 DEF Aggregate, Pass, Fail
<1>2. CASE a \notin AllOf
  <2>1. v[a] = \E c \in Children[a] : v[c]
    BY <1>2 DEF Obeys
  <2> QED
    BY <1>2, <1>a, <2>1 DEF Aggregate, Pass, Fail
<1> QED
  BY <1>1, <1>2

\* A degraded aggregate is whatever its open children are.
LEMMA AggregateOpen ==
    ASSUME NEW a \in Agg, NEW F \in [Node -> Finding \cup {None}],
           \A c \in Children[a] : F[c] \in Finding,
           NEW v \in [Node -> BOOLEAN], Obeys(v, a), NEW b \in BOOLEAN,
           \A c \in Children[a] : ~F[c].errored => v[c] = F[c].passed,
           \A c \in Children[a] : F[c].errored => v[c] = b,
           Aggregate(a, F).errored
    PROVE  v[a] = b
<1> Children[a] \subseteq Node
  BY GraphAssumption
<1>a. \A c \in Children[a] : /\ v[c] \in BOOLEAN
                             /\ F[c].passed \in BOOLEAN /\ F[c].errored \in BOOLEAN
  BY DEF Finding
<1>1. CASE a \in AllOf
  <2>1. v[a] = \A c \in Children[a] : v[c]
    BY <1>1 DEF Obeys
  <2> QED
    BY <1>1, <1>a, <2>1 DEF Aggregate, Pass, Fail
<1>2. CASE a \notin AllOf
  <2>1. v[a] = \E c \in Children[a] : v[c]
    BY <1>2 DEF Obeys
  <2> QED
    BY <1>2, <1>a, <2>1 DEF Aggregate, Pass, Fail
<1> QED
  BY <1>1, <1>2

-----------------------------------------------------------------------------
(* The bookkeeping of a run, without which neither types nor verdicts are  *)
(* inductive: what is filled when, and that the walk only reads findings   *)
(* that are there.                                                         *)

Walking == phase \in {"walk", "finished"}

Bookkeeping ==
    /\ \A l \in Leaf : pc[l] = "returned" => outcome[l] \in Finding
    /\ ~Walking => idx = 1 /\ \A n \in Node : findings[n] = None
    /\ phase # "finished" => result = None
    /\ Walking => /\ \A l \in Leaf : pc[l] = "returned" /\ findings[l] = outcome[l]
                  /\ errors = {l \in Leaf : findings[l].errored}
                  /\ \A i \in 1..(idx - 1) : findings[Topo[i]] \in Finding
    /\ phase = "finished" => idx = Len(Topo) + 1

\* While the walk runs, every child of the aggregator it has reached has its
\* finding, and at the end every node has.
LEMMA WalkReads ==
    ASSUME TypeOK, Bookkeeping, Walking
    PROVE  /\ \A l \in Leaf : findings[l] \in Finding
           /\ idx \in 1..Len(Topo) /\ Topo[idx] \in Agg =>
                 \A c \in Children[Topo[idx]] : findings[c] \in Finding
           /\ idx = Len(Topo) + 1 => \A n \in Node : findings[n] \in Finding
<1>1. \A l \in Leaf : findings[l] \in Finding
  BY DEF Bookkeeping
<1>2. ASSUME idx \in 1..Len(Topo), Topo[idx] \in Agg, NEW c \in Children[Topo[idx]]
      PROVE  findings[c] \in Finding
  <2>1. PICK j \in 1..(idx - 1) : Topo[j] = c
    BY <1>2, TopoAssumption
  <2> QED
    BY <2>1 DEF Bookkeeping
<1>3. ASSUME idx = Len(Topo) + 1, NEW n \in Node
      PROVE  findings[n] \in Finding
  <2>1. PICK j \in 1..Len(Topo) : Topo[j] = n
    BY TopoAssumption
  <2>2. j \in 1..(idx - 1)
    BY <1>3, TopoAssumption
  <2> QED
    BY <2>1, <2>2 DEF Bookkeeping
<1> QED
  BY <1>1, <1>2, <1>3

\* The aggregator the walk has reached gets a finding.
LEMMA WalkWrites ==
    ASSUME TypeOK, Bookkeeping, Walking, idx \in 1..Len(Topo), Topo[idx] \in Agg
    PROVE  Aggregate(Topo[idx], findings) \in Finding
BY WalkReads, AggregateType DEF TypeOK

-----------------------------------------------------------------------------
(* Type correctness. *)

\* Bookkeeping is part of the induction: Finish reads the findings of the roots,
\* and they are there because the walk is over.
LEMMA TypeStep ==
    ASSUME TypeOK, Bookkeeping, [Next]_vars
    PROVE  TypeOK'
<1> USE GraphAssumption, TopoAssumption DEF TypeOK, Phases, LeafPcs
<1>a. ASSUME NEW k, NEW n, NEW f, Emit(k, n, f),
             [kind |-> k, node |-> n, finding |-> f] \in Event
      PROVE  events' \in Seq(Event)
  BY <1>a DEF Emit
<1>1. ASSUME NEW l \in Leaf, LeafStart(l)
      PROVE  TypeOK'
  BY <1>1, <1>a DEF LeafStart, Event, Node
<1>2. ASSUME NEW l \in Leaf, NEW f \in Finding, LeafReturn(l, f)
      PROVE  TypeOK'
  BY <1>2, <1>a DEF LeafReturn, Event, Node
<1>3. ASSUME NEW l \in Leaf, LeafRaise(l)
      PROVE  TypeOK'
  BY <1>3 DEF LeafRaise
<1>4. ASSUME NEW l \in Leaf, CacheMiss(l)
      PROVE  TypeOK'
  BY <1>4 DEF CacheMiss
<1>5. CASE RunStart
  BY <1>5, <1>a DEF RunStart, Event
<1>6. CASE Abort
  BY <1>6 DEF Abort
<1>7. CASE Gathered
  BY <1>7 DEF Gathered, Node
<1>8. CASE SkipLeaf
  BY <1>8 DEF SkipLeaf
<1>9. CASE EvalAggregator
  <2>1. Aggregate(Topo[idx], findings) \in Finding
    BY <1>9, WalkWrites DEF EvalAggregator, Walking
  <2>2. events' \in Seq(Event)
    BY <1>9, <1>a, <2>1 DEF EvalAggregator, Event, Node
  <2> QED
    BY <1>9, <2>1, <2>2 DEF EvalAggregator
<1>10. CASE Finish
  <2>1. \A n \in Node : findings[n] \in Finding
    <3>1. phase = "walk" /\ idx = Len(Topo) + 1
      BY <1>10 DEF Finish
    <3> QED
      BY <3>1, WalkReads DEF Walking
  <2>2. \A r \in Rule : findings[Root[r]].passed \in BOOLEAN
                    /\ findings[Root[r]].errored \in BOOLEAN
    BY <2>1 DEF Finding
  <2>3. \A p, e : RunStatus(p, e) \in Statuses
    BY DEF RunStatus, Statuses
  <2>4. result' \in RunResult
    BY <1>10, <2>2, <2>3 DEF Finish, RunResult
  <2>5. events' \in Seq(Event)
    BY <1>10, <1>a DEF Finish, Event
  <2> QED
    BY <1>10, <2>4, <2>5 DEF Finish
<1>11. CASE UNCHANGED vars
  BY <1>11 DEF vars
<1> QED
  BY <1>1, <1>2, <1>3, <1>4, <1>5, <1>6, <1>7, <1>8, <1>9, <1>10, <1>11
     DEF Next, RunNext, LeafNext, CacheHit, CacheRaise, CheckAnswer, CheckErrored,
         CheckRaise, Quiescent, Clean, Errored, Finding

LEMMA BookkeepingStep ==
    ASSUME TypeOK, Bookkeeping, [Next]_vars
    PROVE  Bookkeeping'
<1> USE GraphAssumption, TopoAssumption DEF TypeOK, Bookkeeping, Walking
<1>b. phase = "walk" => result = None
  OBVIOUS
<1>1. ASSUME NEW l \in Leaf, LeafStart(l)
      PROVE  Bookkeeping'
  BY <1>1 DEF LeafStart
<1>2. ASSUME NEW l \in Leaf, NEW f \in Finding, pc[l] \in {"cache", "llm"},
             LeafReturn(l, f)
      PROVE  Bookkeeping'
  BY <1>2 DEF LeafReturn
<1>3. ASSUME NEW l \in Leaf, pc[l] \in {"cache", "llm"}, LeafRaise(l)
      PROVE  Bookkeeping'
  BY <1>3 DEF LeafRaise
<1>4. ASSUME NEW l \in Leaf, CacheMiss(l)
      PROVE  Bookkeeping'
  BY <1>4 DEF CacheMiss
<1>5. CASE RunStart
  BY <1>5 DEF RunStart
<1>6. CASE Abort
  BY <1>6 DEF Abort
<1>7. CASE Gathered
  BY <1>7 DEF Gathered, Node
<1>8. CASE SkipLeaf
  <2>1. findings[Topo[idx]] \in Finding
    BY <1>8 DEF SkipLeaf
  <2>2. \A i \in 1..(idx' - 1) : findings'[Topo[i]] \in Finding
    BY <1>8, <2>1 DEF SkipLeaf
  <2> QED
    BY <1>8, <2>2 DEF SkipLeaf
<1>9. CASE EvalAggregator
  <2>1. Aggregate(Topo[idx], findings) \in Finding
    BY <1>9, WalkWrites DEF EvalAggregator
  <2>2. \A l \in Leaf : findings'[l] = findings[l]
    BY <1>9 DEF EvalAggregator, Node
  <2>3. \A i \in 1..(idx' - 1) : findings'[Topo[i]] \in Finding
    <3>1. /\ findings' = [findings EXCEPT ![Topo[idx]] = Aggregate(Topo[idx], findings)]
          /\ idx' = idx + 1
      BY <1>9 DEF EvalAggregator
    <3>2. ASSUME NEW i \in 1..(idx' - 1)
          PROVE  findings'[Topo[i]] \in Finding
      <4>1. i = idx \/ i \in 1..(idx - 1)
        BY <1>9, <3>1 DEF EvalAggregator
      <4>2. Topo[i] \in Node
        BY <1>9, <4>1 DEF EvalAggregator
      <4>3. CASE Topo[i] = Topo[idx]
        BY <2>1, <3>1, <4>2, <4>3
      <4>4. CASE Topo[i] # Topo[idx]
        <5>1. findings[Topo[i]] \in Finding
          BY <1>9, <4>1, <4>4 DEF EvalAggregator
        <5> QED
          BY <3>1, <4>2, <4>4, <5>1
      <4> QED
        BY <4>3, <4>4
    <3> QED
      BY <3>2
  <2>4. UNCHANGED <<phase, pc, outcome, errors, result>> /\ phase = "walk"
    BY <1>9 DEF EvalAggregator
  <2>5. \A l \in Leaf : pc'[l] = "returned" => outcome'[l] \in Finding
    BY <2>4
  <2>6. /\ \A l \in Leaf : pc'[l] = "returned" /\ findings'[l] = outcome'[l]
        /\ errors' = {l \in Leaf : findings'[l].errored}
    <3>1. \A l \in Leaf : pc[l] = "returned" /\ findings[l] = outcome[l]
      BY <2>4
    <3>2. errors = {l \in Leaf : findings[l].errored}
      BY <2>4
    <3> HIDE DEF TypeOK, Bookkeeping
    <3>3. {l \in Leaf : findings[l].errored} = {l \in Leaf : findings'[l].errored}
      BY <2>2
    <3> QED
      BY <2>2, <2>4, <3>1, <3>2, <3>3
  <2>7. result' = None
    BY <2>4, <1>b
  <2>8. phase' = "walk"
    BY <2>4
  <2>9. Walking' /\ phase' # "finished"
    BY <2>8
  <2> HIDE DEF TypeOK, Walking
  <2> QED
    BY <2>3, <2>5, <2>6, <2>7, <2>9
<1>10. CASE Finish
  BY <1>10 DEF Finish
<1>11. CASE UNCHANGED vars
  BY <1>11 DEF vars
<1> QED
  BY <1>1, <1>2, <1>3, <1>4, <1>5, <1>6, <1>7, <1>8, <1>9, <1>10, <1>11
     DEF Next, RunNext, LeafNext, CacheHit, CacheRaise, CheckAnswer, CheckErrored,
         CheckRaise, Quiescent, Clean, Errored, Finding

\* Every variable keeps its type: in particular no finding the walk or the
\* roll-up reads is still missing.
THEOREM TypeCorrect == Spec => [](TypeOK /\ Bookkeeping)
<1>1. Init => TypeOK /\ Bookkeeping
  BY GraphAssumption, TopoAssumption
     DEF Init, TypeOK, Phases, LeafPcs, Bookkeeping, Walking
<1>2. TypeOK /\ Bookkeeping /\ [Next]_vars => (TypeOK /\ Bookkeeping)'
  BY TypeStep, BookkeepingStep
<1> QED
  BY <1>1, <1>2, PTL DEF Spec

-----------------------------------------------------------------------------
(* The verdicts. *)

\* An errored node is never without a reported error.
DegradedHasCause ==
    \A n \in Node : findings[n] # None /\ findings[n].errored => errors # {}

Verdicts == VerdictSound /\ DegradedExact /\ DegradedHasCause

\* The evaluation of one aggregator keeps every verdict right.
LEMMA EvalKeepsVerdicts ==
    ASSUME TypeOK, Bookkeeping, Verdicts, EvalAggregator
    PROVE  Verdicts'
<1> DEFINE a == Topo[idx]
<1>1. /\ Walking
      /\ a \in Agg
      /\ a \in Node
      /\ \A c \in Children[a] : c \in Node /\ findings[c] \in Finding /\ findings[c] # None
      /\ findings \in [Node -> Finding \cup {None}]
  BY WalkReads, GraphAssumption DEF EvalAggregator, Walking, TypeOK, Node
<1>2. /\ findings' = [findings EXCEPT ![a] = Aggregate(a, findings)]
      /\ errors' = errors
      /\ findings'[a] = Aggregate(a, findings)
      /\ \A n \in Node : n # a => findings'[n] = findings[n]
  BY <1>1 DEF EvalAggregator
<1>3. \A l \in Leaf : l \in Node /\ findings'[l] = findings[l]
  BY <1>1, <1>2, GraphAssumption DEF Node
<1>4. ASSUME NEW v \in Models, Completes(v, findings),
             ~Aggregate(a, findings).errored
      PROVE  v[a] = Aggregate(a, findings).passed
  <2>1. \A c \in Children[a] : ~findings[c].errored => v[c] = findings[c].passed
    BY <1>1, <1>4 DEF Verdicts, VerdictSound
  <2>2. v \in [Node -> BOOLEAN] /\ Obeys(v, a)
    BY <1>1 DEF Models
  <2> QED
    BY <1>1, <1>4, <2>1, <2>2, AggregateSound
<1>5. ASSUME NEW b \in BOOLEAN, NEW v \in Models, CompletesWith(v, findings, b),
             Aggregate(a, findings).errored
      PROVE  v[a] = b
  <2>1. \A c \in Children[a] : ~findings[c].errored => v[c] = findings[c].passed
    BY <1>1, <1>5 DEF Verdicts, VerdictSound, CompletesWith
  <2>2. \A c \in Children[a] : findings[c].errored => v[c] = b
    BY <1>1, <1>5 DEF Verdicts, DegradedExact
  <2>3. v \in [Node -> BOOLEAN] /\ Obeys(v, a)
    BY <1>1 DEF Models
  <2> QED
    BY <1>1, <1>5, <2>1, <2>2, <2>3, AggregateOpen
<1>6. \A v : Completes(v, findings') => Completes(v, findings)
  BY <1>3 DEF Completes
<1>7. \A v, b : CompletesWith(v, findings', b) => CompletesWith(v, findings, b)
  BY <1>3 DEF Completes, CompletesWith
<1>8. VerdictSound'
  <2> SUFFICES ASSUME NEW n \in Node, findings'[n] # None, ~findings'[n].errored,
                      NEW v \in Models, Completes(v, findings')
               PROVE  v[n] = findings'[n].passed
    BY DEF VerdictSound
  <2>1. CASE n = a
    <3>1. findings'[a] = Aggregate(a, findings)
      BY <1>2
    <3> QED
      BY <2>1, <3>1, <1>4, <1>6
  <2>2. CASE n # a
    BY <2>2, <1>2, <1>6 DEF Verdicts, VerdictSound
  <2> QED
    BY <2>1, <2>2
<1>9. DegradedExact'
  <2> SUFFICES ASSUME NEW n \in Node, findings'[n] # None, findings'[n].errored,
                      NEW b \in BOOLEAN, NEW v \in Models,
                      CompletesWith(v, findings', b)
               PROVE  v[n] = b
    BY DEF DegradedExact
  <2>1. CASE n = a
    <3>1. findings'[a] = Aggregate(a, findings)
      BY <1>2
    <3> QED
      BY <2>1, <3>1, <1>5, <1>7
  <2>2. CASE n # a
    <3>1. findings[n] # None /\ findings[n].errored
      BY <2>2, <1>2
    <3>2. CompletesWith(v, findings, b)
      BY <1>7
    <3> QED
      BY <3>1, <3>2 DEF Verdicts, DegradedExact
  <2> QED
    BY <2>1, <2>2
<1>10. DegradedHasCause'
  <2>1. ASSUME Aggregate(a, findings).errored
        PROVE  \E c \in Children[a] : findings[c].errored
    BY <2>1, <1>1 DEF Aggregate
  <2> QED
    BY <2>1, <1>1, <1>2 DEF Verdicts, DegradedHasCause
<1> QED
  BY <1>8, <1>9, <1>10 DEF Verdicts

LEMMA VerdictStep ==
    ASSUME TypeOK, Bookkeeping, Verdicts, [Next]_vars
    PROVE  Verdicts'
<1>1. ASSUME UNCHANGED <<findings, errors>>
      PROVE  Verdicts'
  BY <1>1 DEF Verdicts, VerdictSound, DegradedExact, DegradedHasCause,
              Completes, CompletesWith
<1>2. CASE Gathered
  <2>1. /\ findings' = [n \in Node |-> IF n \in Leaf THEN outcome[n] ELSE None]
        /\ errors' = {l \in Leaf : outcome[l].errored}
        /\ \A l \in Leaf : findings'[l] = outcome[l]
        /\ \A n \in Node : findings'[n] # None => n \in Leaf
    BY <1>2 DEF Gathered, Node
  <2>2. VerdictSound'
    BY <2>1 DEF VerdictSound, Completes
  <2>3. DegradedExact'
    BY <2>1 DEF DegradedExact, CompletesWith
  <2>4. DegradedHasCause'
    BY <2>1 DEF DegradedHasCause
  <2> QED
    BY <2>2, <2>3, <2>4 DEF Verdicts
<1>3. CASE EvalAggregator
  BY <1>3, EvalKeepsVerdicts
<1>4. [Next]_vars /\ ~Gathered /\ ~EvalAggregator => UNCHANGED <<findings, errors>>
  BY DEF Next, RunNext, RunStart, Abort, SkipLeaf, Finish, LeafNext, LeafStart,
         CacheHit, CacheMiss, CacheRaise, CheckAnswer, CheckErrored, CheckRaise,
         LeafReturn, LeafRaise, Quiescent, vars
<1> QED
  BY <1>1, <1>2, <1>3, <1>4

\* The roll-up of right verdicts is a right result, and nothing the run does
\* afterwards changes what it rests on.
LEMMA ResultStep ==
    ASSUME TypeOK, Bookkeeping, Verdicts, ResultSound, [Next]_vars
    PROVE  ResultSound'
<1>1. CASE Finish
  <2>1. \A r \in Rule : Root[r] \in Node
    BY GraphAssumption
  <2>2. \A n \in Node : findings[n] \in Finding /\ findings[n] # None
    BY <1>1, WalkReads, GraphAssumption DEF Finish, Walking
  <2>3. \A v \in Models : \A r \in Rule :
          Completes(v, findings) /\ ~findings[Root[r]].errored =>
             v[Root[r]] = findings[Root[r]].passed
    BY <2>1, <2>2 DEF Verdicts, VerdictSound
  <2>4. \A r \in Rule : findings[Root[r]].errored =>
          /\ errors # {}
          /\ \A b \in BOOLEAN : \A v \in Models :
                CompletesWith(v, findings, b) => v[Root[r]] = b
    BY <2>1, <2>2 DEF Verdicts, DegradedExact, DegradedHasCause
  <2>5. findings' = findings /\ errors' = errors
    BY <1>1 DEF Finish
  <2>6. /\ result'.status = "DEGRADED" => \E r \in Rule : findings[Root[r]].errored
        /\ result'.status = "PASSED" => \A r \in Rule :
              ~findings[Root[r]].errored /\ findings[Root[r]].passed
        /\ result'.status = "FAILED" =>
              /\ \A r \in Rule : ~findings[Root[r]].errored
              /\ \E r \in Rule : ~findings[Root[r]].passed
    BY <1>1 DEF Finish, RunStatus
  <2>7. \A v \in Models : Completes(v, findings') <=> Completes(v, findings)
    BY <2>5 DEF Completes
  <2>8. \A v \in Models, b \in BOOLEAN :
          CompletesWith(v, findings', b) <=> CompletesWith(v, findings, b)
    BY <2>5 DEF Completes, CompletesWith
  <2>9. ASSUME result'.status = "PASSED"
        PROVE  \A v \in Models : Completes(v, findings') =>
                  \A r \in Rule : v[Root[r]]
    BY <2>9, <2>3, <2>6, <2>7
  <2>10. ASSUME result'.status = "FAILED"
         PROVE  \E r \in Rule : \A v \in Models : Completes(v, findings') => ~v[Root[r]]
    BY <2>10, <2>3, <2>6, <2>7
  <2>11. ASSUME result'.status = "DEGRADED"
         PROVE  /\ errors' # {}
                /\ \E r \in Rule : \A b \in BOOLEAN : \A v \in Models :
                      CompletesWith(v, findings', b) => v[Root[r]] = b
    BY <2>11, <2>4, <2>5, <2>6, <2>8
  <2> QED
    BY <2>9, <2>10, <2>11 DEF ResultSound
<1>2. CASE ~Finish
  <2>1. result' = result
    BY <1>2 DEF Next, RunNext, RunStart, Abort, Gathered, SkipLeaf, EvalAggregator,
         LeafNext, LeafStart, CacheHit, CacheMiss, CacheRaise, CheckAnswer,
         CheckErrored, CheckRaise, LeafReturn, LeafRaise, Quiescent, vars
  <2>2. CASE result = None
    BY <2>1, <2>2 DEF ResultSound
  <2>3. CASE result # None
    <3>1. phase = "finished"
      BY <2>3 DEF Bookkeeping
    <3>2. UNCHANGED <<findings, errors>>
      BY <3>1 DEF Next, RunNext, RunStart, Abort, Gathered, SkipLeaf, EvalAggregator,
           Finish, LeafNext, LeafStart, CacheHit, CacheMiss, CacheRaise, CheckAnswer,
           CheckErrored, CheckRaise, LeafReturn, LeafRaise, Quiescent, vars
    <3> QED
      BY <2>1, <3>2 DEF ResultSound, Completes, CompletesWith
  <2> QED
    BY <2>2, <2>3
<1> QED
  BY <1>1, <1>2

IInv == TypeOK /\ Bookkeeping /\ Verdicts /\ ResultSound

\* Every verdict, every degradation and every result of every run, whatever
\* the graph, the rules and the order in which the leaves answer or fail.
THEOREM IInvCorrect == Spec => []IInv
<1>1. Init => IInv
  BY GraphAssumption, TopoAssumption
     DEF Init, IInv, TypeOK, Phases, LeafPcs, Bookkeeping, Walking, Verdicts,
         VerdictSound, DegradedExact, DegradedHasCause, ResultSound
<1>2. IInv /\ [Next]_vars => IInv'
  BY TypeStep, BookkeepingStep, VerdictStep, ResultStep DEF IInv
<1> QED
  BY <1>1, <1>2, PTL DEF Spec

\* A verdict not marked errored is the one every completion of the missing
\* leaves gives (_aggregate never decides by an errored child's placeholder).
THEOREM VerdictCorrect == Spec => []VerdictSound
BY IInvCorrect, PTL DEF IInv, Verdicts

\* A node is marked errored only if its verdict hangs on the leaves that
\* errored (_aggregate does not degrade what the clean children decide).
THEOREM DegradedCorrect == Spec => []DegradedExact
BY IInvCorrect, PTL DEF IInv, Verdicts

\* The status of a returned RunResult says the truth about its rules
\* (_run_status and the roll-up of _run).
THEOREM ResultCorrect == Spec => []ResultSound
BY IInvCorrect, PTL DEF IInv

-----------------------------------------------------------------------------
(* The events: what has been emitted follows from where the tasks are.     *)

Emitted(kind, node) ==
    \E i \in 1..Len(events) : events[i].kind = kind /\ events[i].node = node

\* The finding of a node that its event carries: a leaf's comes from its own task.
Told(n) == IF n \in Leaf THEN outcome[n] ELSE findings[n]

Agrees(i) ==
    events[i].kind = "check_finished" =>
        events[i].node \in Node /\ events[i].finding = Told(events[i].node)

StreamBook ==
    /\ phase = "created" <=> events = <<>>
    /\ phase = "created" => \A l \in Leaf : pc[l] = "new"
    /\ \A l \in Leaf : Emitted("check_started", l) <=> pc[l] # "new"
    /\ \A l \in Leaf : Emitted("check_finished", l) <=> pc[l] = "returned"
    /\ \A a \in Agg : Emitted("check_finished", a) <=>
                          Walking /\ \E i \in 1..(idx - 1) : Topo[i] = a
    /\ \A n : Emitted("run_finished", n) => phase = "finished"
    /\ \A i \in 1..Len(events) : Agrees(i)

\* What an emit does to the stream.
Grows(k, n, f) ==
    /\ Len(events) \in Nat
    /\ events = <<>> <=> Len(events) = 0
    /\ events' # <<>>
    /\ Len(events') = Len(events) + 1
    /\ \A i \in 1..Len(events) : events'[i] = events[i]
    /\ events'[Len(events) + 1] = [kind |-> k, node |-> n, finding |-> f]

LEMMA EmitAppends ==
    ASSUME TypeOK, NEW k, NEW n, NEW f, Emit(k, n, f)
    PROVE  Grows(k, n, f)
BY DEF Emit, TypeOK, Grows

LEMMA EmitAdds ==
    ASSUME TypeOK, NEW k, NEW n, NEW f, Emit(k, n, f), NEW k2, NEW n2
    PROVE  Emitted(k2, n2)' <=> Emitted(k2, n2) \/ (k2 = k /\ n2 = n)
<1>1. Grows(k, n, f)
  BY EmitAppends
<1> USE DEF Grows
<1>2. ASSUME Emitted(k2, n2)
      PROVE  Emitted(k2, n2)'
  BY <1>1, <1>2 DEF Emitted
<1>3. ASSUME k2 = k, n2 = n
      PROVE  Emitted(k2, n2)'
  BY <1>1, <1>3 DEF Emitted
<1>4. ASSUME Emitted(k2, n2)', ~Emitted(k2, n2)
      PROVE  k2 = k /\ n2 = n
  <2>1. PICK i \in 1..Len(events') : events'[i].kind = k2 /\ events'[i].node = n2
    BY <1>4 DEF Emitted
  <2>2. i = Len(events) + 1
    BY <1>1, <1>4, <2>1 DEF Emitted
  <2> QED
    BY <1>1, <2>1, <2>2
<1> QED
  BY <1>2, <1>3, <1>4

\* What EventOrder says of the j-th event.
OrderAt(j) ==
    LET e == events[j]
    IN  /\ e.kind = "run_started" <=> j = 1
        /\ \A i \in 1..(j-1) : events[i].kind = e.kind => events[i].node # e.node
        /\ e.kind = "check_finished" /\ e.node \in Leaf =>
              \E i \in 1..(j-1) : events[i].kind = "check_started"
                                /\ events[i].node = e.node
        /\ e.kind = "check_finished" /\ e.node \in Agg =>
              \A c \in Children[e.node] : FinishedBefore(c, j)
        /\ e.kind = "run_finished" =>
              j = Len(events) /\ \A m \in Node : FinishedBefore(m, j)

\* An event that comes after all it depends on keeps the order.
LEMMA EmitKeepsOrder ==
    ASSUME TypeOK, EventOrder, NEW k, NEW n, NEW f, Emit(k, n, f),
           k = "run_started" <=> events = <<>>,
           ~Emitted(k, n),
           \A m : ~Emitted("run_finished", m),
           k = "check_finished" /\ n \in Leaf => Emitted("check_started", n),
           k = "check_finished" /\ n \in Agg =>
              \A c \in Children[n] : Emitted("check_finished", c),
           k = "run_finished" => \A m \in Node : Emitted("check_finished", m)
    PROVE  EventOrder'
<1>1. Grows(k, n, f)
  BY EmitAppends
<1>2. PICK N \in Nat \ {0} : N = Len(events) + 1
  BY <1>1 DEF Grows
<1>3. /\ Len(events') = N
      /\ \A i \in 1..(N-1) : events'[i] = events[i]
      /\ events'[N] = [kind |-> k, node |-> n, finding |-> f]
      /\ events = <<>> <=> N = 1
      /\ Len(events) = N - 1
  BY <1>1, <1>2 DEF Grows
<1>4. ASSUME NEW m, Emitted("check_finished", m)
      PROVE  FinishedBefore(m, N)'
  BY <1>3, <1>4 DEF Emitted, FinishedBefore
<1>5. ASSUME NEW j \in 1..(N-1)
      PROVE  OrderAt(j)'
  <2>1. OrderAt(j)
    BY <1>3 DEF EventOrder, OrderAt
  <2>2. events[j].kind # "run_finished"
    <3>1. ~Emitted("run_finished", events[j].node)
      OBVIOUS
    <3> QED
      BY <1>3, <3>1 DEF Emitted
  <2>3. /\ events'[j] = events[j]
        /\ \A i \in 1..(j-1) : events'[i] = events[i]
    BY <1>3
  <2>4. \A m : FinishedBefore(m, j)' <=> FinishedBefore(m, j)
    BY <2>3 DEF FinishedBefore
  <2> QED
    BY <2>1, <2>2, <2>3, <2>4 DEF OrderAt
<1>6. OrderAt(N)'
  <2>1. \A i \in 1..(N-1) : events'[i].kind = k => events'[i].node # n
    BY <1>3 DEF Emitted
  <2>2. k = "check_finished" /\ n \in Leaf =>
           \E i \in 1..(N-1) : events'[i].kind = "check_started" /\ events'[i].node = n
    BY <1>3 DEF Emitted
  <2>3. k = "run_started" <=> N = 1
    BY <1>3
  <2>4. k = "check_finished" /\ n \in Agg =>
           \A c \in Children[n] : FinishedBefore(c, N)'
    BY <1>4
  <2>5. k = "run_finished" => \A m \in Node : FinishedBefore(m, N)'
    BY <1>4
  <2>6. /\ events'[N].kind = k
        /\ events'[N].node = n
    BY <1>3
  <2> QED
    BY <1>3, <2>1, <2>2, <2>3, <2>4, <2>5, <2>6 DEF OrderAt
<1>7. \A j \in 1..Len(events') : j \in 1..(N-1) \/ j = N
  BY <1>3
<1>8. \A j \in 1..Len(events') : OrderAt(j)'
  BY <1>5, <1>6, <1>7
<1> QED
  BY <1>8 DEF EventOrder, OrderAt

\* What a step that emits nothing leaves alone.
LEMMA SilentStep ==
    ASSUME StreamBook, EventOrder, events' = events
    PROVE  /\ EventOrder'
           /\ \A k, n : Emitted(k, n)' <=> Emitted(k, n)
BY DEF EventOrder, FinishedBefore, Emitted

\* An event that carries its node's finding agrees, and so do the older ones as
\* long as nothing is filed anew for a node that has been reported.
LEMMA EmitAgrees ==
    ASSUME TypeOK, StreamBook, NEW k, NEW n, NEW f, Emit(k, n, f),
           k = "check_finished" => n \in Node /\ f = Told(n)',
           \A m \in Node : Emitted("check_finished", m) => Told(m)' = Told(m)
    PROVE  \A i \in 1..Len(events') : Agrees(i)'
<1>1. Grows(k, n, f)
  BY EmitAppends
<1>2. ASSUME NEW i \in 1..Len(events)
      PROVE  Agrees(i)'
  <2>1. events'[i] = events[i] /\ Agrees(i)
    BY <1>1 DEF Grows, StreamBook
  <2>2. events[i].kind = "check_finished" => Emitted("check_finished", events[i].node)
    BY DEF Emitted
  <2>3. PICK m : m = events[i].node
    OBVIOUS
  <2>4. events[i].kind = "check_finished" => m \in Node /\ Told(m)' = Told(m)
    BY <2>1, <2>2, <2>3 DEF Agrees
  <2> QED
    BY <2>1, <2>3, <2>4 DEF Agrees, Told
<1>3. ASSUME NEW i, i = Len(events) + 1
      PROVE  Agrees(i)'
  BY <1>1, <1>3 DEF Grows, Agrees, Told
<1>4. \A i \in 1..Len(events') : i \in 1..Len(events) \/ i = Len(events) + 1
  BY <1>1 DEF Grows
<1> QED
  BY <1>2, <1>3, <1>4

\* A leaf task returns: its event is the one after its check_started.
LEMMA ReturnKeepsStream ==
    ASSUME TypeOK, Bookkeeping, StreamBook, EventOrder,
           NEW l \in Leaf, NEW f, pc[l] \in {"cache", "llm"}, LeafReturn(l, f)
    PROVE  StreamBook' /\ EventOrder'
<1>1. /\ Emit("check_finished", l, f)
      /\ phase' = phase /\ findings' = findings /\ idx' = idx
      /\ pc' = [pc EXCEPT ![l] = "returned"]
      /\ outcome' = [outcome EXCEPT ![l] = f]
  BY DEF LeafReturn
<1>2. /\ pc'[l] = "returned" /\ outcome'[l] = f
      /\ \A m \in Leaf : m # l => pc'[m] = pc[m] /\ outcome'[m] = outcome[m]
  BY <1>1 DEF TypeOK
<1>3. phase # "created" /\ ~Walking /\ l \in Node /\ l \notin Agg
  BY GraphAssumption DEF StreamBook, Bookkeeping, Node
<1>4. \A k2, n2 : Emitted(k2, n2)' <=>
         Emitted(k2, n2) \/ (k2 = "check_finished" /\ n2 = l)
  BY <1>1, EmitAdds
<1>5. Grows("check_finished", l, f)
  BY <1>1, EmitAppends
<1>6. /\ ~Emitted("check_finished", l)
      /\ Emitted("check_started", l)
      /\ \A m : ~Emitted("run_finished", m)
      /\ events # <<>>
  BY <1>3 DEF StreamBook, Walking
<1>7. EventOrder'
  BY <1>1, <1>3, <1>6, EmitKeepsOrder
<1>8. \A i \in 1..Len(events') : Agrees(i)'
  <2>1. f = Told(l)'
    BY <1>2 DEF Told
  <2>2. \A m \in Node : Emitted("check_finished", m) => Told(m)' = Told(m)
    BY <1>1, <1>2, <1>6 DEF Told
  <2> QED
    BY <1>1, <1>3, <2>1, <2>2, EmitAgrees
<1>9. StreamBook'
  BY <1>1, <1>2, <1>3, <1>4, <1>5, <1>8, GraphAssumption DEF StreamBook, Walking, Grows
<1> QED
  BY <1>7, <1>9

\* The walk reports an aggregator after all of its children.
LEMMA EvalKeepsStream ==
    ASSUME TypeOK, Bookkeeping, StreamBook, EventOrder, EvalAggregator
    PROVE  StreamBook' /\ EventOrder'
<1>0. PICK a \in Agg : /\ a = Topo[idx]
                       /\ LET f == Aggregate(a, findings)
                          IN  /\ Emit("check_finished", a, f)
                              /\ findings' = [findings EXCEPT ![a] = f]
  BY DEF EvalAggregator
<1>1. PICK f : /\ a = Topo[idx] /\ f = Aggregate(a, findings)
               /\ Emit("check_finished", a, f)
               /\ findings' = [findings EXCEPT ![a] = f]
  BY <1>0
<1>2. /\ phase = "walk" /\ phase' = phase /\ pc' = pc /\ outcome' = outcome
      /\ idx' = idx + 1 /\ idx \in 1..Len(Topo)
  BY DEF EvalAggregator
<1>3. Walking /\ Walking' /\ a \in Node /\ a \notin Leaf
  BY <1>1, <1>2, GraphAssumption DEF Walking, Node
<1>4. /\ findings'[a] = f
      /\ \A m \in Node : m # a => findings'[m] = findings[m]
  BY <1>1, <1>3 DEF TypeOK
<1>5. \A k2, n2 : Emitted(k2, n2)' <=>
         Emitted(k2, n2) \/ (k2 = "check_finished" /\ n2 = a)
  BY <1>1, EmitAdds
<1>6. Grows("check_finished", a, f)
  BY <1>1, EmitAppends
<1>7. \A i \in 1..(idx - 1) : Topo[i] # a
  BY <1>1, <1>2, TopoAssumption
<1>8. /\ ~Emitted("check_finished", a)
      /\ \A m : ~Emitted("run_finished", m)
      /\ events # <<>>
  BY <1>2, <1>7 DEF StreamBook
<1>9. ASSUME NEW c \in Children[a]
      PROVE  Emitted("check_finished", c)
  <2>1. CASE c \in Leaf
    BY <1>3, <2>1 DEF StreamBook, Bookkeeping
  <2>2. CASE c \in Agg
    <3>1. PICK j \in 1..(idx - 1) : Topo[j] = c
      BY <1>1, <1>2, TopoAssumption
    <3> QED
      BY <1>3, <2>2, <3>1 DEF StreamBook
  <2> QED
    BY <2>1, <2>2, GraphAssumption DEF Node
<1>10. EventOrder'
  BY <1>1, <1>3, <1>8, <1>9, EmitKeepsOrder
<1>11. \A i \in 1..Len(events') : Agrees(i)'
  <2>1. f = Told(a)'
    BY <1>3, <1>4 DEF Told
  <2>2. \A m \in Node : Emitted("check_finished", m) => Told(m)' = Told(m)
    BY <1>2, <1>4, <1>8 DEF Told
  <2> QED
    BY <1>1, <1>3, <2>1, <2>2, EmitAgrees
<1>12. ASSUME NEW b \in Agg
       PROVE  Emitted("check_finished", b)' <=> \E i \in 1..(idx' - 1) : Topo[i] = b
  <2>1. Emitted("check_finished", b) <=> \E i \in 1..(idx - 1) : Topo[i] = b
    BY <1>3 DEF StreamBook
  <2>2. (\E i \in 1..(idx' - 1) : Topo[i] = b) <=>
           (\E i \in 1..(idx - 1) : Topo[i] = b) \/ b = a
    BY <1>1, <1>2, TopoAssumption
  <2> QED
    BY <1>5, <2>1, <2>2
<1>13. \A l \in Leaf : Emitted("check_finished", l)' <=> pc'[l] = "returned"
  BY <1>2, <1>3, <1>5 DEF StreamBook
<1>14. StreamBook'
  BY <1>2, <1>3, <1>5, <1>6, <1>11, <1>12, <1>13 DEF StreamBook, Grows
<1> QED
  BY <1>10, <1>14

\* A leaf task begins.
LEMMA StartKeepsStream ==
    ASSUME TypeOK, Bookkeeping, StreamBook, EventOrder, NEW l \in Leaf, LeafStart(l)
    PROVE  StreamBook' /\ EventOrder'
<1>1. /\ Emit("check_started", l, None) /\ phase # "created" /\ pc[l] = "new"
      /\ pc' = [pc EXCEPT ![l] = "cache"]
      /\ UNCHANGED <<phase, outcome, findings, idx>>
  BY DEF LeafStart
<1>2. ~Walking
  BY <1>1 DEF Bookkeeping
<1>3. \A k2, n2 : Emitted(k2, n2)' <=>
         Emitted(k2, n2) \/ (k2 = "check_started" /\ n2 = l)
  BY <1>1, EmitAdds
<1>4. Grows("check_started", l, None)
  BY <1>1, EmitAppends
<1>5. /\ ~Emitted("check_started", l)
      /\ \A m : ~Emitted("run_finished", m)
      /\ events # <<>>
  BY <1>1, <1>2 DEF StreamBook, Walking
<1>6. EventOrder'
  BY <1>1, <1>5, EmitKeepsOrder
<1>7. \A i \in 1..Len(events') : Agrees(i)'
  <2>1. \A m \in Node : Told(m)' = Told(m)
    BY <1>1 DEF Told
  <2> QED
    BY <1>1, <2>1, EmitAgrees
<1>8. StreamBook'
  BY <1>1, <1>2, <1>3, <1>4, <1>7 DEF StreamBook, Walking, Grows, TypeOK
<1> QED
  BY <1>6, <1>8

\* The run task begins.
LEMMA RunStartKeepsStream ==
    ASSUME TypeOK, Bookkeeping, StreamBook, EventOrder, RunStart
    PROVE  StreamBook' /\ EventOrder'
<1>1. /\ Emit("run_started", None, None) /\ phase = "created" /\ phase' = "gather"
      /\ UNCHANGED <<pc, outcome, findings, idx>>
  BY DEF RunStart
<1>2. events = <<>> /\ \A k, n : ~Emitted(k, n)
  BY <1>1 DEF StreamBook, Emitted
<1>3. \A k2, n2 : Emitted(k2, n2)' <=>
         Emitted(k2, n2) \/ (k2 = "run_started" /\ n2 = None)
  BY <1>1, EmitAdds
<1>4. Grows("run_started", None, None)
  BY <1>1, EmitAppends
<1>5. EventOrder'
  BY <1>1, <1>2, EmitKeepsOrder
<1>6. \A i \in 1..Len(events') : Agrees(i)'
  BY <1>1, <1>2, EmitAgrees
<1>7. StreamBook'
  BY <1>1, <1>2, <1>3, <1>4, <1>6 DEF StreamBook, Walking, Grows
<1> QED
  BY <1>5, <1>7

\* The run task ends: every node has been reported.
LEMMA FinishKeepsStream ==
    ASSUME TypeOK, Bookkeeping, StreamBook, EventOrder, Finish
    PROVE  StreamBook' /\ EventOrder'
<1>1. /\ Emit("run_finished", None, None) /\ phase = "walk" /\ phase' = "finished"
      /\ idx = Len(Topo) + 1
      /\ UNCHANGED <<pc, outcome, findings, idx>>
  BY DEF Finish
<1>2. Walking /\ Walking'
  BY <1>1 DEF Walking
<1>3. \A k2, n2 : Emitted(k2, n2)' <=>
         Emitted(k2, n2) \/ (k2 = "run_finished" /\ n2 = None)
  BY <1>1, EmitAdds
<1>4. Grows("run_finished", None, None)
  BY <1>1, EmitAppends
<1>5. ASSUME NEW n \in Node
      PROVE  Emitted("check_finished", n)
  <2>1. CASE n \in Leaf
    BY <1>2, <2>1 DEF StreamBook, Bookkeeping
  <2>2. CASE n \in Agg
    <3>1. PICK i \in 1..Len(Topo) : Topo[i] = n
      BY TopoAssumption
    <3>2. i \in 1..(idx - 1)
      BY <1>1, TopoAssumption
    <3> QED
      BY <1>2, <2>2, <3>1, <3>2 DEF StreamBook
  <2> QED
    BY <2>1, <2>2 DEF Node
<1>6. /\ \A m : ~Emitted("run_finished", m)
      /\ events # <<>>
  BY <1>1 DEF StreamBook
<1>7. EventOrder'
  BY <1>1, <1>5, <1>6, EmitKeepsOrder
<1>8. \A i \in 1..Len(events') : Agrees(i)'
  <2>1. \A m \in Node : Told(m)' = Told(m)
    BY <1>1 DEF Told
  <2> QED
    BY <1>1, <2>1, EmitAgrees
<1>9. StreamBook'
  BY <1>1, <1>2, <1>3, <1>4, <1>8 DEF StreamBook, Grows
<1> QED
  BY <1>7, <1>9

LEMMA StreamStep ==
    ASSUME TypeOK, Bookkeeping, StreamBook, EventOrder, [Next]_vars
    PROVE  StreamBook' /\ EventOrder'
<1>1. ASSUME NEW l \in Leaf, NEW f, pc[l] \in {"cache", "llm"}, LeafReturn(l, f)
      PROVE  StreamBook' /\ EventOrder'
  BY <1>1, ReturnKeepsStream
<1>2. ASSUME NEW l \in Leaf, pc[l] \in {"cache", "llm"},
             LeafRaise(l) \/ CacheMiss(l)
      PROVE  StreamBook' /\ EventOrder'
  <2>1. /\ UNCHANGED <<phase, outcome, findings, idx, events>>
        /\ \A m \in Leaf : /\ pc'[m] = "new" <=> pc[m] = "new"
                           /\ pc'[m] = "returned" <=> pc[m] = "returned"
    BY <1>2 DEF LeafRaise, CacheMiss, TypeOK
  <2> QED
    BY <2>1, SilentStep DEF StreamBook, Agrees, Told, Walking
<1>3. CASE Abort
  BY <1>3, SilentStep DEF Abort, StreamBook, Agrees, Told, Walking
<1>4. CASE Gathered
  <2>1. /\ phase = "gather" /\ phase' = "walk" /\ idx' = 1
        /\ UNCHANGED <<pc, outcome, events>>
    BY <1>4 DEF Gathered, Bookkeeping, Walking
  <2>2. \A a \in Agg : ~Emitted("check_finished", a)
    BY <2>1 DEF StreamBook, Walking
  <2>3. ASSUME NEW i \in 1..Len(events)
        PROVE  Agrees(i)'
    <3>1. Agrees(i)
      BY DEF StreamBook
    <3>2. events[i].kind = "check_finished" => events[i].node \in Leaf
      BY <2>2, <3>1 DEF Agrees, Emitted, Node
    <3> QED
      BY <2>1, <3>1, <3>2 DEF Agrees, Told
  <2> QED
    BY <2>1, <2>2, <2>3, SilentStep DEF StreamBook, Walking
<1>5. CASE SkipLeaf
  <2>1. /\ phase = "walk" /\ Topo[idx] \notin Agg /\ idx \in 1..Len(Topo) /\ idx' = idx + 1
        /\ UNCHANGED <<phase, pc, outcome, findings, events>>
    BY <1>5, GraphAssumption DEF SkipLeaf
  <2>2. ASSUME NEW a \in Agg
        PROVE  (\E i \in 1..(idx' - 1) : Topo[i] = a)
                  <=> (\E i \in 1..(idx - 1) : Topo[i] = a)
    <3>1. \A i \in 1..(idx' - 1) : i \in 1..(idx - 1) \/ i = idx
      BY <2>1
    <3>2. \A i \in 1..(idx - 1) : i \in 1..(idx' - 1)
      BY <2>1
    <3>3. Topo[idx] # a
      BY <2>1
    <3> QED
      BY <3>1, <3>2, <3>3
  <2>3. ASSUME NEW i \in 1..Len(events)
        PROVE  Agrees(i)'
    <3>1. Agrees(i)
      BY DEF StreamBook
    <3>2. UNCHANGED <<outcome, findings, events>>
      BY <2>1
    <3> QED
      BY <3>1, <3>2 DEF Agrees, Told
  <2>4. Walking <=> Walking'
    BY <2>1 DEF Walking
  <2> QED
    BY <2>1, <2>2, <2>3, <2>4, SilentStep DEF StreamBook
<1>6. CASE UNCHANGED vars
  BY <1>6, SilentStep DEF StreamBook, Agrees, Told, Walking, vars
<1>7. [Next]_vars =>
         \/ \E l \in Leaf : LeafStart(l)
         \/ \E l \in Leaf : \E f : pc[l] \in {"cache", "llm"} /\ LeafReturn(l, f)
         \/ \E l \in Leaf : pc[l] \in {"cache", "llm"} /\ (LeafRaise(l) \/ CacheMiss(l))
         \/ RunStart \/ Abort \/ Gathered \/ SkipLeaf \/ EvalAggregator \/ Finish
         \/ UNCHANGED vars
  BY DEF Next, RunNext, LeafNext, CacheHit, CacheMiss, CacheRaise, CheckAnswer,
         CheckErrored, CheckRaise, Quiescent
<1> QED
  BY <1>1, <1>2, <1>3, <1>4, <1>5, <1>6, <1>7, StartKeepsStream, RunStartKeepsStream,
     EvalKeepsStream, FinishKeepsStream

LEMMA StreamInvariant == Spec => [](Bookkeeping /\ StreamBook /\ EventOrder)
<1>1. Init => StreamBook /\ EventOrder
  BY GraphAssumption DEF Init, StreamBook, EventOrder, Emitted, Walking
<1>2. (TypeOK /\ Bookkeeping) /\ (StreamBook /\ EventOrder) /\ [Next]_vars
         => (StreamBook /\ EventOrder)'
  BY StreamStep
<1> QED
  BY <1>1, <1>2, TypeCorrect, PTL DEF Spec

\* on_event's consumers see run_started first, a node's check_finished after its
\* own check_started or after its children's, no node twice and run_finished
\* last, for every graph and however asyncio interleaves the leaf tasks.
THEOREM OrderCorrect == Spec => []EventOrder
BY StreamInvariant, PTL

\* The findings in the streamed events are those of the RunResult.
THEOREM StreamAgreesCorrect == Spec => []StreamAgrees
<1>1. Bookkeeping /\ StreamBook => StreamAgrees
  BY GraphAssumption DEF Bookkeeping, Walking, StreamBook, Agrees, StreamAgrees, Told, Node
<1> QED
  BY <1>1, StreamInvariant, PTL
=============================================================================
