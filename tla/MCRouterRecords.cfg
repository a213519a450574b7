SPECIFICATION FairSpec
CONSTANTS
    c1 = c1  c2 = c2
    Call = {c1, c2}
    NumAdapters = 2
    MaxAttempts = 3
INVARIANTS
    EveryAttemptRecorded
