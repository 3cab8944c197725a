SPECIFICATION Spec
CONSTANTS
    r1 = r1
    r2 = r2
    r3 = r3
    w1 = w1
    w2 = w2
    Requests = {r1, r2}
    Workers = {w1}
    KeyOf <- OwnKeys
    HashOf <- OwnKeys
    Verdicts = {"NOT_REPRODUCED"}
    MaxAttempts = 2
    LeaseTicks = 1
    RetryTicks <- Doubling
    QuotaTicks = 2
    ActiveJobLimit = 1
    NoWorker = NoWorker
    NoJob = NoJob
INVARIANTS
    QuotaReleasedAtEnd
    ReservationsWithinLimit
CHECK_DEADLOCK FALSE
