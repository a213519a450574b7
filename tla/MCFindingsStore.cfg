SPECIFICATION FairSpec
CONSTANTS
    p = p  q = q  a = a  b = b
    None = None
    Run = {p, q}
    Check = {1, 2}
    Reset = {a, b}
INVARIANTS
    TypeOK
    AllOrNothing
    StaleOnlyByOverlap
    WarmRunIsFree
PROPERTIES
    CountsAreRemoved
    AllEnd
