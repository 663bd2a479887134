SPECIFICATION Spec
CONSTANTS
    Clients = {c1, c2}
    NoClient = NoClient
    MaxConns = 2
    MaxSessions = 2
    HighWater = 5
    MaxFaults = 1
    MaxUp = 1
    MaxDown = 0
    MaxBeats = 0
    WatchdogRuns = FALSE
    WaitClosedBlocks = FALSE
    SlowClients = {}
SYMMETRY Symmetry
INVARIANTS
    UpIsolation
    CloseIsEarnedUp
    BridgeReleasesAll
CHECK_DEADLOCK FALSE
