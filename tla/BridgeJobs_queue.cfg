SPECIFICATION Spec
CONSTANTS
    Kinds = {"sidecars.generate", "sidecars.describe"}
    Paths = {b1, b2}
    MaxAttempts = 2
    Lease = 0
    MaxJobs = 2
    MaxTime = 2
    EarlyReader = FALSE
    ReportErrors = {"keep"}
    ReportResults = {FALSE}
    b1 = b1
    b2 = b2
SYMMETRY PathSymmetry
INVARIANTS
    OneOpenPerKey
    FreshAttempt
    ToldOnce
PROPERTIES
    OnlyMovesOverlap
CHECK_DEADLOCK FALSE
