SPECIFICATION FairSpec
CONSTANTS
    LeafOps = {"CITES"}
    AggregatorOps = {"ALL_OF", "ANY_OF"}
    RuleId = {"r1", "r2"}
    Tree <- Deep
    Input <- MCInput
INVARIANTS
    GraphDelivered
    MeaningKept
    OneNodePerContent
PROPERTIES
    CompileEnds
