SPECIFICATION ServicesSpec
CONSTANTS
    NoDocument = NoDocument
    Undefined = Undefined
    Marker = "[REDACTED]"
    Redacted <- Redact
    Matched <- EvaluateOracle
    WellFormed <- ValidExpression
    Outputs <- MCOutputs
    Oracles <- MCOracles
    SecretSets = {{}, {"token"}}
    RequiredRuns = {3}
    MaxWords = 1
    SampleOracle <- MCSampleOracle
    SampleControl <- Passing
    SampleCandidate <- Failing
    Proposals <- MCProposals
    Clients = {c1, c2}
    SampleKeys = {"key"}
    Budgets = {1, 2}
    MaxCases = 3
    MaxTries = 2
    Platform = Platform
    NoKey = NoKey
    k1 = k1
    k2 = k2
    s1 = s1
    e1 = e1
    e2 = e2
    Callers = {c1, c2}
    Askers = {c1, c2}
    Keys = {k1, k2}
    CacheTicks = 1
    FetchTicks = 1
    NoMaterial = NoMaterial
    Probes = {"health", "admission"}
    KnownTicks = 1
    ProbeTicks = 1
    NoFinding = NoFinding
    Subjects = {s1}
    ExportKeys = {e1, e2}
    ExportsPerDay = 1
    MaxDays = 1
    MaxDeletions = 1
    Requests <- MCRequests
    FlagSets = {"none", "starts", "private", "profile"}
    NoRequest = NoRequest
SYMMETRY Symmetry
ACTION_CONSTRAINT Confined
INVARIANTS
    VerdictEarned
    LargestReduction
    DeletedStaysEmpty
    ExportIsCharged
PROPERTIES
    AnswersAgree
    TrustFollowsProvider
    ReadyIsRecent
CHECK_DEADLOCK FALSE
