\* An archived family whose draft waits for publication.
CONSTANTS
    pm = pm
    pm2 = pm2
    impl = impl
    qa = qa
    qa2 = qa2
    tester = tester
    probe = probe
    look = look
    Children = {pm, pm2, impl, qa, tester, qa2}
    RoleOf <- MCRoleOf
    Roots = {root}
    Turns = {turn1, turn2}
    Steps = {probe, look}
    CapabilityOf <- MCCapabilityOf
    Required = {probe}
    Consequential = {probe}
    Scenarios <- ArchiveScenarios
    MaxTransitions = 7
    MaxRevision = 3
SPECIFICATION Spec
SYMMETRY Interchangeable
CHECK_DEADLOCK FALSE
PROPERTIES OnlyRestoreUnarchives
