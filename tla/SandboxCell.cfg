SPECIFICATION FairSpec
CONSTANTS
    s = s
    u = u
    tpl = tpl
    b = b
    d = d
    k1 = k1
    k2 = k2
    k3 = k3
    k4 = k4
    k5 = k5
    k6 = k6
    k7 = k7
    Nothing = Nothing
    Cells = {s, u, tpl, b, d}
    KindOf <- MCKindOf
    TemplateOf <- MCTemplateOf
    Calls = {k1, k2, k3, k4, k5, k6, k7}
    JournalCount = 2
    MaxAttempts = 2
    Workloads <- AllWorkloads
    Pending = 2
    MaxCrashes = 1
    MaxDrops = 1
INVARIANTS
    TypeOK
    AnswersTrue
    CommittedOnce
    StopBarrier
    SessionsKeepTemplate
PROPERTIES
    EveryCallEnds
CHECK_DEADLOCK FALSE
