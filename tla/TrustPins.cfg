SPECIFICATION Spec
CONSTANTS
    Agents = {a1, a2}
    None = None
    MaxResets = 0
    MaxMade = 1
    Bridges = {b1, b2}
    Homes = {h1}
    Home <- OneHome
PROPERTIES
    PinKept
