SPECIFICATION Spec
CONSTANTS
    host = host
    alias = alias
    unknown = unknown
    leaf = leaf
    other = other
    root = root
    NoName = NoName
    Names <- MCNames
    Host = host
    ServerNames <- MCServerNames
    Presents <- MCPresents
    Trusted <- MCTrusted
    TimeoutsMs <- MCTimeoutsMs
    Half = 32
    MsUnits = 4
    DefaultTimeout = 5
    MaxClock = 10
INVARIANT NoEarlyTimeout
