SPECIFICATION FairSpec
CONSTANTS
    a = a
    Libs = {a}
    MaxChanges = 2
    MaxSlots = 2
    MaxCrashes = 1
INVARIANTS
    ChangeGetsScanned
    IdleMeansRecorded
    NoLostWake
PROPERTIES
    SlotOnce
    ChangeApplied
CHECK_DEADLOCK FALSE
