SPECIFICATION ObjectsSpec
CONSTANTS
    t1 = t1
    t2 = t2
    u1 = u1
    u2 = u2
    s1 = s1
    s2 = s2
    Threads = {t1, t2}
    Units = {u1, u2}
    Scratches = {s1, s2}
    NULL = NULL
    Need <- MCNeed
    MaxReceivers = 2
SYMMETRY MCSymmetry
INVARIANTS
    ObjectsTypeOK
    DanglingOnlyIfAbandoned
    ScratchOfItsOwn
    ScanWithOwnScratch
CHECK_DEADLOCK FALSE
