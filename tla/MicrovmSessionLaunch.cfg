SPECIFICATION FairSpec
CONSTANTS
    a = a
    b = b
    old = old
    new = new
    Handles = {a, b}
    Nobody = Nobody
    Worlds <- LaunchWorlds
    NoConfig = NoConfig
    MaxGen = 3
    MaxCaptures = 2
INVARIANTS
    TypeOK
    SameTokenSameRequest
    AdoptedNeverKilled
    CheckpointPresent
PROPERTIES
    LinearHistory
    OnlyOwnersForget
    LaunchSettles
CHECK_DEADLOCK FALSE
