CONSTANTS
    c1 = c1
    c2 = c2
    r1 = r1
    r2 = r2
    NoThread = NoThread
    NoEvent = NoEvent
    Scanners <- MCAll
    Switchers <- MCSwitchers
    Receivers <- MCReceivers
    Producers <- MCAll
    Controllers <- MCSwitchers
    Consumers <- MCReceivers
    Drainers <- MCNobody
    MaxEvents = 2
    Events <- MCEvents
    MaxLeaks = 3
    MaxScans = 2
    MaxSwitches = 3
    Interrupts = TRUE
    Paced = FALSE
SYMMETRY MCSymmetry
SPECIFICATION RuntimeSpec
INVARIANTS
    RuntimeTypeOK
    ScanExclusive
    HangHasCause
    RunningMeansOpen
    RunningHasReceiver
    ClosedIsUnlocked
    HandlerGetsEvent
    HandledOnce
    OrderNeedsOneReceiver
PROPERTIES
    UsesQueue
    ServesMatches
CHECK_DEADLOCK FALSE
