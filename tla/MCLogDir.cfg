SPECIFICATION Spec
CONSTANTS
    Threads = {w1, w2}
    Clocks = {heart}
    Levels = {debug}
    Months = 2
    MaxMonth = 2
    MaxCalls = 3
INVARIANTS
    FewDropped
    OwnDateUnlessOverwritten
SYMMETRY Symmetry
CHECK_DEADLOCK FALSE
