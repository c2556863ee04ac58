CONSTANTS
    c1 = c1
    c2 = c2
    r1 = r1
    r2 = r2
    NoThread = NoThread
    NoEvent = NoEvent
    Scanners <- MCOneClient
    Switchers <- MCOtherClient
    Receivers <- MCReceivers
    Producers <- MCOneClient
    Controllers <- MCOtherClient
    Consumers <- MCReceivers
    Drainers <- MCNobody
    MaxEvents = 2
    Events <- MCEvents
    MaxLeaks = 1
    MaxScans = 2
    MaxSwitches = 4
    Interrupts = FALSE
    Paced = TRUE
SPECIFICATION FairSpec
PROPERTIES
    ScanReturns
    SwitchReturns
    EventReachesHandler
    ReceiversLeave
CHECK_DEADLOCK FALSE
