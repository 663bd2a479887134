SPECIFICATION Spec
CONSTANTS
    MaxId = 5
    Starts <- MCStarts
INVARIANTS
    TypeOK
    NoSpuriousExhaustion
    ScanInvariant
PROPERTY LateReuse
