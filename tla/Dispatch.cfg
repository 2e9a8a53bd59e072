CONSTANTS
    h1 = h1
    h2 = h2
    h3 = h3
    Hosts = {h1, h2, h3}
    Owned <- MCOwned
    Files <- WellFormed
    Blank = Blank
    Invalid = Invalid
    NotFound = NotFound
    MAX_IPS = 3
    IpBits = 3
SPECIFICATION Spec
CHECK_DEADLOCK FALSE
INVARIANT TypeOK
INVARIANT OneRoot
INVARIANT RootServesAll
PROPERTY Termination
