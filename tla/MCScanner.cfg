CONSTANTS
    t1 = t1
    t2 = t2
    u1 = u1
    u2 = u2
    Threads <- MCThreads
    Units <- MCUnits
    NotAUnit = NotAUnit
    NoThread = NoThread
    MaxPhases = 3
    MaxCalls = 6
SYMMETRY MCSymmetry
SPECIFICATION ScannerSpec
INVARIANTS
    ScannerTypeOK
    OffIsOff
    PromisedStaysOn
PROPERTY
    ScanCompletes
CHECK_DEADLOCK FALSE
