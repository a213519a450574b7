SPECIFICATION Spec
CONSTANTS
    t1 = t1  t2 = t2
    Thread = {t1, t2}
    Capacity = 3
    MaxLogged = 5
    Limits = {0, 1, 2, 4}
SYMMETRY Symmetry
INVARIANTS
    KeepsNewest
    SnapshotIsAnInstant
