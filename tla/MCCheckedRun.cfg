SPECIFICATION SysSpec
CONSTANTS
    l1 = l1  l2 = l2  a1 = a1  a2 = a2  r1 = r1  r2 = r2
    None = None
    Call = {l1, l2}
    NumAdapters = 2
    MaxAttempts = 2
    Configured <- MCConfigured
    Agg = {a1, a2}
    AllOf = {a1}
    Rule = {r1, r2}
    Children <- MCChildren
    Topo <- MCTopo
    Root <- MCRoot
INVARIANTS
    OutageResilience
    RecordsAreAnswers
    LedgerMatchesResult
PROPERTIES
    RefinesPromise
    ImplementsRun
    OutageOnlyDegrades
