SPECIFICATION Spec
CONSTANTS
    Faults = {"inspect", "stage", "copy", "fold", "aside", "undo", "side", "swap", "marker", "write", "remove"}
    Keep = 1
    MaxCommits = 2
    MaxBackups = 2
    MaxAsks = 2
    MaxStarts = 3
INVARIANTS
    NoForeignWal
    NoReplay
PROPERTIES
    KeepsPromise
CHECK_DEADLOCK FALSE
