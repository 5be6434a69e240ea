SPECIFICATION Spec
CONSTANTS
    h1 = h1
    h2 = h2
    s1 = s1
    Holders = {h1, h2}
    Durable = {h1, h2}
    States = {s1}
    NoState = NoState
    TTL = 2
    Wait = 1
    Deadline <- OneLaunch
    Infinity = Infinity
    Skew <- ClocksAgree
    MaxTime = 4
    MaxWrites = 6
INVARIANTS
    TypeOK
    MutualExclusion
    HolderSeesAuthority
    LaunchExpiryCapped
PROPERTIES
    ExpiredStaysExpired
    FencedAuthority
CHECK_DEADLOCK FALSE
