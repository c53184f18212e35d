SPECIFICATION Spec
CONSTANTS
    Kinds = {"chapters.detect", "readalong.align"}
    Paths = {b1, b2}
    MaxAttempts = 1
    Lease = 0
    MaxJobs = 2
    MaxTime = 1
    EarlyReader = FALSE
    ReportErrors = {"keep", "bridge"}
    ReportResults = {FALSE, TRUE}
    b1 = b1
    b2 = b2
INVARIANT NeverOverlap
CHECK_DEADLOCK FALSE
