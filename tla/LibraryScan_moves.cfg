SPECIFICATION Spec
CONSTANTS
    Paths = {"p1", "p2", "p3"}
    Books = {x, y}
    Requests = {r1}
    Wild = {}
    MaxChanges = 3
    MaxFaults = 1
    MaxScans = 2
    MaxOpens = 2
SYMMETRY BookSymmetry
INVARIANTS IndexMatchesDisk StateWithBook
PROPERTIES PrunesOnlyGone PresentKeepsState
CHECK_DEADLOCK FALSE
