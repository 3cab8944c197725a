SPECIFICATION FairRetentionSpec
CONSTANTS
    a1 = a1
    a2 = a2
    w1 = w1
    w2 = w2
    t1 = t1
    d1 = d1
    d2 = d2
    x1 = x1
    x2 = x2
    Artifacts = {a1}
    Writers = {w1}
    Deleters = {}
    Deletions = {d1}
    Executors = {x1}
    MaxCalls = 1
    MaxFaults = 0
    MaxClaims = 2
    MaxProviderFaults = 1
    NoArtifact = NoArtifact
    NoDeletion = NoDeletion
    NoExecutor = NoExecutor
PROPERTIES
    FailedDeletionRetried
CHECK_DEADLOCK FALSE
