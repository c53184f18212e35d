SPECIFICATION FairSpec
CONSTANTS
    w1 = w1
    w2 = w2
    Waiters = {w1, w2}
    MaxJobs = 2
    CanClaim <- LaneCanClaim
    NeedModule = {2}
    MaxReturns = 1
    MaxPairings = 2
INVARIANTS
    NoLostWakeup
PROPERTIES
    Served
    LapseNoticed
    Recovered
CHECK_DEADLOCK FALSE
