SPECIFICATION Spec
CONSTANTS
    k1 = k1
    k2 = k2
    p1 = p1
    p2 = p2
    Cases = {k1, k2}
    Kept <- NothingKept
    Restorers = {p1}
    Exporter = Exporter
    MaxExports = 1
    MaxIncidents = 0
    NoFile = NoFile
INVARIANT
    QuiescentTenantExports
CHECK_DEADLOCK FALSE
