SPECIFICATION Spec
CONSTANTS
    s = s
    u = u
    tpl = tpl
    b = b
    d = d
    k1 = k1
    k2 = k2
    k3 = k3
    k4 = k4
    k5 = k5
    k6 = k6
    k7 = k7
    Nothing = Nothing
    Cells = {s, u, tpl, b, d}
    KindOf <- MCKindOf
    TemplateOf <- MCTemplateOf
    Calls = {k1, k2, k3, k4, k5, k6, k7}
    JournalCount = 2
    MaxAttempts = 2
    Workloads <- Reopened
    Pending = 4
    MaxCrashes = 0
    MaxDrops = 0
INVARIANTS
    Fenced
CHECK_DEADLOCK FALSE
