SPECIFICATION FairSpec
CONSTANTS
    m1 = m1
    m2 = m2
    Mods = {m1, m2}
    MaxRuns = 3
INVARIANTS
    OneRunAtATime
    StoppedIsQuiet
PROPERTIES
    OnRuns
    OffQuiets
    StopEnds
CHECK_DEADLOCK FALSE
