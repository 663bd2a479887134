SPECIFICATION Spec
CONSTANTS
    Agents = {a1, a2}
    None = None
    MaxResets = 1
    MaxMade = 3
    Bridges = {b1}
    Homes = {h1}
    Home <- OneHome
INVARIANTS
    TypeOK
    StartsClean
    NoFalseMismatch
    TokenGoesToPinned
PROPERTIES
    PinKept
SYMMETRY Symmetry
