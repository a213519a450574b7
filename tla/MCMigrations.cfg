SPECIFICATION FairSpec
CONSTANTS
    p1 = p1  p2 = p2  p3 = p3
    Process = {p1, p2, p3}
    NumMigrations = 2
INVARIANTS
    SchemaOnRecord
    AppliedOnce
    PersistsToFullSchema
    LoneStartPersists
PROPERTIES
    StartsEnd
