SPECIFICATION Spec
CONSTANTS
    MaxConns = 2
    MaxCuts = 0
    MaxCancels = 2
    WaitClosedBlocks = TRUE
    MaxSess = 0
INVARIANTS
    NothingStale
    CleanExit
    ServesAuthenticated
CHECK_DEADLOCK FALSE
