SPECIFICATION Spec
CONSTANTS
    Clients = {c1, c2}
    NoClient = NoClient
    MaxConns = 1
    MaxSessions = 2
    HighWater = 0
    MaxFaults = 0
    MaxUp = 1
    MaxDown = 1
    MaxBeats = 0
    WatchdogRuns = FALSE
    WaitClosedBlocks = FALSE
    SlowClients = {}
SYMMETRY Symmetry
INVARIANTS
    TypeOK
    DownIsolation
    CloseIsEarnedDown
    Agreement
CHECK_DEADLOCK FALSE
