SPECIFICATION Spec
CONSTANTS
    Callers = {c1}
    Heart = heart
    Main = main
    MaxConn = 4
    Null = Null
INVARIANTS
    ListSurvives
    StaleOnlyIfHeld
    NullOnlyAtHead
    NeverMisled
CHECK_DEADLOCK FALSE
