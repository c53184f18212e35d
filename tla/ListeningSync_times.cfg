SPECIFICATION Spec
CONSTANTS
    Players = {p1}
    Accounts = {acct}
    End = 1
    Starts = {"jump"}
    OmitBase = TRUE
    RejectAge = 1
    Retention = 2
    Ahead = 1
    MaxSkew = 1
    MaxBatch = 2
    MaxClock = 4
    MaxEvents = 2
    MaxVersion = 2
    MaxOthers = 1
INVARIANTS RowInOrder CountedOnce FinishConverges
CHECK_DEADLOCK FALSE
