SPECIFICATION FairSpec
CONSTANTS
    l1 = l1  l2 = l2  l3 = l3
    a1 = a1  a2 = a2  a3 = a3  a4 = a4
    r1 = r1  r2 = r2  r3 = r3
    None = None
    Leaf = {l1, l2, l3}
    Agg = {a1, a2, a3, a4}
    AllOf = {a1, a4}
    Rule = {r1, r2, r3}
    Children <- MCChildren
    Topo <- MCTopo
    Root <- MCRoot
INVARIANTS
    VerdictSound
    DegradedExact
    ResultSound
    EventOrder
    StreamAgrees
PROPERTIES
    RunSettles
