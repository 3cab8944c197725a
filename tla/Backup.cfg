SPECIFICATION Spec
CONSTANTS
    k1 = k1
    k2 = k2
    p1 = p1
    p2 = p2
    Cases = {k1, k2}
    Kept <- KeptFiles
    Restorers = {p1, p2}
    Exporter = Exporter
    MaxExports = 2
    MaxIncidents = 1
    NoFile = NoFile
INVARIANTS
    ArchivesAgree
    OnlyExportedIsRestored
    RestoredIsComplete
    FailedRestoreLeavesNothing
PROPERTIES
    RestoreOverwritesNothing
    VerifiedWasEqual
SYMMETRY Symmetry
CHECK_DEADLOCK FALSE
