SPECIFICATION Spec
CONSTANTS
    a = a
    b = b
    old = old
    new = new
    Handles = {a, b}
    Nobody = Nobody
    Worlds <- CommitWorlds
    NoConfig = NoConfig
    MaxGen = 4
    MaxCaptures = 3
PROPERTIES
    LinearHistory
CHECK_DEADLOCK FALSE
