SPECIFICATION QuarantineSpec
CONSTANTS
    o1 = o1
    o2 = o2
    Runs = 2
    MaxProviderRetries = 1
    Budget = 1
    MaxWait = 0
    MaxFailedStops = 2
    MaxFaults = 1
    Operators = {o1}
    NoResource = NoResource
INVARIANTS
    NothingLeaks
    CleanIsTrue
    OneSandbox
    LockedDown
    OutcomeExplained
    ResolvedIsGone
PROPERTIES
    AttemptEnds
CHECK_DEADLOCK FALSE
