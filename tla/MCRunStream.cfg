SPECIFICATION FairSpec
CONSTANTS
    c1 = c1  c2 = c2
    Client = {c1, c2}
    LeafEvents = 3
    AggEvents = 0
    MaxDrops = 1
INVARIANTS
    TypeOK
    InOrder
    Conservation
PROPERTIES
    EndsForAReason
    GeneratorsEnd
    BusyForAReason
