SPECIFICATION Spec
CONSTANTS
    k1 = k1
    k2 = k2
    k3 = k3
    k4 = k4
    k5 = k5
    o1 = o1
    o2 = o2
    o3 = o3
    o4 = o4
    o5 = o5
    Nothing = Nothing
    Calls = {k1, k2, k3, k4, k5}
    OpIds = {o1, o2, o3, o4, o5}
    Users = {"user", "other"}
    Names = {1, 2, 3, 4}
    Runs = {1}
    Workloads <- AllWorkloads
    PageLimit = 1
    MaxFamilies = 3
INVARIANTS
    TypeOK
    EditsKept
    OwnerLimits
    PagesComplete
PROPERTIES
    CallsAtomic
    HistoryGrows
    RunsActiveVersion
CHECK_DEADLOCK FALSE
