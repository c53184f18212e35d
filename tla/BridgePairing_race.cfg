SPECIFICATION Spec
CONSTANTS
    s1 = s1
    s2 = s2
    r1 = r1
    Savers = {s1, s2}
    Readers = {r1}
    MaxCodes = 2
    MaxBeats = 2
    MaxUnpairs = 1
    AdminMoves = TRUE
SYMMETRY SaverSymmetry
INVARIANTS
    BeatOfPaired
    CacheCurrent
CHECK_DEADLOCK FALSE
