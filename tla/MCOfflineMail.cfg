SPECIFICATION Spec
CONSTANTS
    Workers = {w1, w2}
    Sessions = {1, 2}
    Uids = {1, 11}
    MaxMessages = 2
    MaxLogins = 3
    DbFails = TRUE
INVARIANTS
    AtMostOnce
    LeftBehindOnlyByRace
PROPERTIES
    ImplementsMailbox
SYMMETRY Symmetry
CHECK_DEADLOCK FALSE
