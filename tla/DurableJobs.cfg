SPECIFICATION Spec
CONSTANTS
    r1 = r1
    r2 = r2
    r3 = r3
    w1 = w1
    w2 = w2
    Requests = {r1, r2, r3}
    Workers = {w1, w2}
    KeyOf <- OneKey
    HashOf <- RepeatedAndOther
    Verdicts = {"VERIFIED"}
    MaxAttempts = 3
    LeaseTicks = 1
    RetryTicks <- Doubling
    QuotaTicks = 1
    ActiveJobLimit = 1
    NoWorker = NoWorker
    NoJob = NoJob
SYMMETRY WorkerSymmetry
INVARIANTS
    VersionsInStep
    QueuedIsAnnounced
    OneJobPerKey
PROPERTIES
    LiveLeaseIsExclusive
    ImplementsLifecycle
CHECK_DEADLOCK FALSE
