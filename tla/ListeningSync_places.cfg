SPECIFICATION Spec
CONSTANTS
    Players = {p1, p2}
    Accounts = {}
    End = 2
    Starts = {"resume", "jump"}
    OmitBase = FALSE
    RejectAge = 9
    Retention = 9
    Ahead = 0
    MaxSkew = 0
    MaxBatch = 2
    MaxClock = 2
    MaxEvents = 3
    MaxVersion = 0
    MaxOthers = 0
SYMMETRY PlayerSymmetry
PROPERTIES DivergedNotSilent OfferSeen
CHECK_DEADLOCK FALSE
