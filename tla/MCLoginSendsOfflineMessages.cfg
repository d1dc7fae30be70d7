SPECIFICATION Spec
CONSTANTS
    Workers = {w1, w2}
    Sessions = {1, 2}
    Uids = {1, 2}
    MaxMessages = 2
    MaxLogins = 3
    DbFails = FALSE
INVARIANTS
    LoginSendsOfflineMessages
SYMMETRY Symmetry
CHECK_DEADLOCK FALSE
