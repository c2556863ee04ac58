CONSTANTS
    c1 = c1
    c2 = c2
    r1 = r1
    r2 = r2
    NoThread = NoThread
    NoEvent = NoEvent
    Scanners <- MCClients
    Switchers <- MCOneClient
    Receivers <- MCReceivers
    Producers <- MCClients
    Controllers <- MCOneClient
    Consumers <- MCReceivers
    Drainers <- MCNobody
    MaxEvents = 0
    Events <- MCEvents
    MaxLeaks = 1
    MaxScans = 2
    MaxSwitches = 0
    Interrupts = FALSE
    Paced = FALSE
SPECIFICATION FairSpec
PROPERTIES
    ScanReturns
CHECK_DEADLOCK FALSE
