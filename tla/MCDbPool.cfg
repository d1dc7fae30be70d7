SPECIFICATION FairSpec
CONSTANTS
    Threads = {w1, w2, w3}
    Normal = 2
    MaxConnect = 3
    Extra = {x1, x2}
    None = None
INVARIANTS
    ConnExclusive
    ConnConserved
    CountersAgree
    NullOnlyAfterPartialInit
PROPERTIES
    MutexReleased
    ImplementsLease
