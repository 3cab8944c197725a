SPECIFICATION RetentionSpec
CONSTANTS
    a1 = a1
    a2 = a2
    w1 = w1
    w2 = w2
    t1 = t1
    d1 = d1
    d2 = d2
    x1 = x1
    x2 = x2
    Artifacts = {a1}
    Writers = {w1, w2}
    Deleters = {t1}
    Deletions = {d1, d2}
    Executors = {x1, x2}
    MaxCalls = 3
    MaxFaults = 1
    MaxClaims = 2
    MaxProviderFaults = 1
    NoArtifact = NoArtifact
    NoDeletion = NoDeletion
    NoExecutor = NoExecutor
SYMMETRY Interchangeable
INVARIANTS
    AvailableHasObject
    DeletedHasNoObject
    PurgedStaysPurged
PROPERTIES
    ProviderFirst
CHECK_DEADLOCK FALSE
