CONSTANTS
    s1 = s1
    s2 = s2
    r1 = r1
    r2 = r2
    d1 = d1
    NoThread = NoThread
    Producers <- MCProducers
    Consumers <- MCConsumers
    Controllers <- MCControllers
    Drainers <- MCDrainers
    MaxEvents = 4
    Events <- MCEvents
    MaxLeaks = 2
SYMMETRY MCSymmetry
SPECIFICATION QueueSpec
INVARIANT
    NothingStranded
CHECK_DEADLOCK FALSE
