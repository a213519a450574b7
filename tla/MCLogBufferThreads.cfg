SPECIFICATION Spec
CONSTANTS
    t1 = t1  t2 = t2
    Thread = {t1, t2}
    Capacity = 3
    MaxLogged = 3
    Limits = {2}
INVARIANTS
    SnapshotNeverRaises
