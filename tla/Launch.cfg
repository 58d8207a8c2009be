CONSTANTS
    c1 = c1
    c2 = c2
    Devices = {c1, c2}
    Docs = {d1}
    Counted = {}
    MaxLaunches <- Twice
    MaxCounts = 1
    Null = Null
SPECIFICATION FairSpec
INVARIANTS
    TypeOK
    InitialisedOncePerDevice
    InstalledOnce
PROPERTIES
    ImplementsTally
    LaunchEnds
CHECK_DEADLOCK FALSE
