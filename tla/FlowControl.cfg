SPECIFICATION Spec
CONSTANTS
    Sids = {s1, s2}
    Tasks = {k1, k2}
    Lengths = {1, 2}
    MaxSessions = 1
    MaxBytes = 3
    MaxItems = 2
    MaxQueues = 3
INVARIANTS
    TypeOK
    NeverOvercounts
    ExactUnlessStrayed
    ReleasesCounts
CHECK_DEADLOCK FALSE
