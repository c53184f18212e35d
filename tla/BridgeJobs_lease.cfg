SPECIFICATION Spec
CONSTANTS
    Kinds = {"chapters.detect"}
    Paths = {b1}
    MaxAttempts = 3
    Lease = 1
    MaxJobs = 1
    MaxTime = 6
    EarlyReader = TRUE
    ReportErrors = {"keep", "bridge"}
    ReportResults = {FALSE, TRUE}
    b1 = b1
INVARIANTS
    TypeOK
    QueuedIsClaimable
    QueuedReadsFresh
PROPERTIES
    CancelSticks
CHECK_DEADLOCK FALSE
