SPECIFICATION FairSpec
CONSTANTS
    a = a
    b = b
    old = old
    new = new
    Handles = {a, b}
    Nobody = Nobody
    Worlds <- StopWorlds
    NoConfig = NoConfig
    MaxGen = 3
    MaxCaptures = 1
PROPERTIES
    StoppedHandleLetsGo
CHECK_DEADLOCK FALSE
