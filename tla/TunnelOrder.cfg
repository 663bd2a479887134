SPECIFICATION Spec
CONSTANTS
    Clients = {c1}
    NoClient = NoClient
    MaxConns = 2
    MaxSessions = 1
    HighWater = 0
    MaxFaults = 1
    MaxUp = 2
    MaxDown = 2
    MaxBeats = 1
    WatchdogRuns = FALSE
    WaitClosedBlocks = TRUE
    SlowClients = {}
INVARIANTS
    InOrder
    AgentReleasesAll
CHECK_DEADLOCK FALSE
PROPERTY ImplementsPipes
