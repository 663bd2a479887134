SPECIFICATION FairSpec
CONSTANTS
    Clients = {c1}
    NoClient = NoClient
    MaxConns = 1
    MaxSessions = 1
    HighWater = 0
    MaxFaults = 1
    MaxUp = 1
    MaxDown = 1
    MaxBeats = 0
    WatchdogRuns = TRUE
    WaitClosedBlocks = FALSE
    SlowClients = {}
PROPERTIES
    CloseReachesUsbmuxd
    CloseReachesClient
    DisconnectTearsDown
    DisconnectCleansUp
    CyclicWaitEnds
CHECK_DEADLOCK FALSE
