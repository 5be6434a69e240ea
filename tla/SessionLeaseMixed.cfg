\* A session (durable) and an older-format caller, one clock ahead, fairness on.
SPECIFICATION FairSpec
CONSTANTS
    h1 = h1
    h2 = h2
    s1 = s1
    Holders = {h1, h2}
    Durable = {h1}
    States = {s1}
    NoState = NoState
    TTL = 2
    Wait = 1
    Deadline <- NoDeadlines
    Infinity = Infinity
    Skew <- OthersAhead
    MaxTime = 3
    MaxWrites = 4
PROPERTIES
    AuthorityNeverDowngraded
    AcquisitionEnds
CHECK_DEADLOCK FALSE
