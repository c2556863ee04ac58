CONSTANTS
    c1 = c1
    c2 = c2
    r1 = r1
    r2 = r2
    NoThread = NoThread
    NoEvent = NoEvent
    Scanners <- MCOneClient
    Switchers <- MCOneClient
    Receivers <- MCReceivers
    Producers <- MCOneClient
    Controllers <- MCOneClient
    Consumers <- MCReceivers
    Drainers <- MCNobody
    MaxEvents = 3
    Events <- MCEvents
    MaxLeaks = 4
    MaxScans = 2
    MaxSwitches = 2
    Interrupts = FALSE
    Paced = FALSE
SPECIFICATION FairSpec
PROPERTIES
    SwitchReturns
CHECK_DEADLOCK FALSE
