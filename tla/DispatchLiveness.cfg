SPECIFICATION FairDispatchSpec
CONSTANTS
    r1 = r1
    w1 = w1
    w2 = w2
    p1 = p1
    p2 = p2
    Requests = {r1}
    Workers = {w1}
    Publishers = {p1}
    KeyOf <- OwnKeys
    HashOf <- OwnKeys
    Verdicts = {"VERIFIED"}
    MaxAttempts = 2
    LeaseTicks = 1
    RetryTicks <- OneTick
    QuotaTicks = 1
    ActiveJobLimit = 1
    Events <- EventIds
    MaxDeliveries = 1
    ClaimTicks = 1
    PublishDelay <- Backoff
    MaxPublisherCrashes = 1
    DeliveryBound = 2
    NoWorker = NoWorker
    NoJob = NoJob
    NoPublisher = NoPublisher
    NoEvent = NoEvent
PROPERTIES
    JobSettles
    CancellationSettles
    SuspensionSettles
CHECK_DEADLOCK FALSE
