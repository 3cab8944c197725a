SPECIFICATION DispatchSpec
CONSTANTS
    r1 = r1
    w1 = w1
    w2 = w2
    p1 = p1
    p2 = p2
    Requests = {r1}
    Workers = {w1}
    Publishers = {p1, p2}
    KeyOf <- OwnKeys
    HashOf <- OwnKeys
    Verdicts = {"VERIFIED"}
    MaxAttempts = 2
    LeaseTicks = 1
    RetryTicks <- OneTick
    QuotaTicks = 1
    ActiveJobLimit = 1
    Events <- EventIds
    MaxDeliveries = 2
    ClaimTicks = 1
    PublishDelay <- Backoff
    MaxPublisherCrashes = 0
    DeliveryBound = 3
    NoWorker = NoWorker
    NoJob = NoJob
    NoPublisher = NoPublisher
    NoEvent = NoEvent
SYMMETRY Publishing
INVARIANTS
    NoLostWakeup
PROPERTIES
    EventsStaySettled
CHECK_DEADLOCK FALSE
