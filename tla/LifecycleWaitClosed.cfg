SPECIFICATION FairSpec
CONSTANTS
    MaxConns = 1
    MaxCuts = 0
    MaxCancels = 1
    WaitClosedBlocks = TRUE
    MaxSess = 0
PROPERTY TeardownEnds
CHECK_DEADLOCK FALSE
