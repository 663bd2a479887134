SPECIFICATION FairSpec
CONSTANTS
    Clients = {c1, c2}
    NoClient = NoClient
    MaxConns = 1
    MaxSessions = 2
    HighWater = 0
    MaxFaults = 0
    MaxUp = 0
    MaxDown = 2
    MaxBeats = 0
    WatchdogRuns = FALSE
    WaitClosedBlocks = FALSE
    SlowClients = {c1}
PROPERTY OwnPace
CHECK_DEADLOCK FALSE
