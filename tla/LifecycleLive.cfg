SPECIFICATION FairSpec
CONSTANTS
    MaxConns = 1
    MaxCuts = 1
    MaxCancels = 1
    WaitClosedBlocks = TRUE
    MaxSess = 2
INVARIANTS
    TypeOK
    ForgetsOnShutdownOnly
PROPERTIES
    ShutdownEnds
    AbandonedEnds
    CancelHeeded
CHECK_DEADLOCK FALSE
