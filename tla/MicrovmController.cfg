\* One write, one removal and a process, around two captures.
CONSTANTS
    p = p
    w = w
    f = f
    Old = Old
    Nothing = Nothing
    Writes = {w}
    Removals = {f}
    Processes = {p}
    Lingering = {"spawn", "kill", "upload", "commit"}
    Chunks = 2
    MaxTries = 2
    MaxCaptures = 2
    MaxFaults = 3
SPECIFICATION Spec
CHECK_DEADLOCK FALSE
INVARIANTS TypeOK CheckpointComplete NothingLeftBehind
