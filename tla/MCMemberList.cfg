CONSTANTS
    c1 = c1
    c2 = c2
    c3 = c3
    c4 = c4
    c5 = c5
    NULL = NULL
    Cells <- MCCells
    MaxPuts = 6
    Events <- MCEvents
    ReuseTail = TRUE
SYMMETRY MCSymmetry
SPECIFICATION MemberSpec
INVARIANTS
    MemberTypeOK
    HeadListIntact
    UndefinedOnlyByReuse
PROPERTY
    ImplementsEventList
CHECK_DEADLOCK FALSE
