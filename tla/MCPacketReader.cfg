SPECIFICATION FairSpec
CONSTANTS
    Body = 3
    Base = 2
    MaxLen = 4
    BadGameId = {1}
    MaxPackets = 3
INVARIANTS
    HeadsFreed
    TasksAreWhole
    StaysInStep
    StallsOnlyBehindAnother
PROPERTIES
    HangUpNoticed
CHECK_DEADLOCK FALSE
