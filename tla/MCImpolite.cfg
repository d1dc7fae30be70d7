SPECIFICATION Spec
CONSTANTS
    Workers = {w1, w2}
    Epoll = epoll
    Heart = heart
    Main = main
    None = None
    Fds = {f1}
    MaxConn = 2
    MaxPackets = 2
    Timeout = 0
    MaxRounds = 1
    Cmds = {"logout", "badBeat", "beat"}
    Benign = FALSE
INVARIANTS
    HandlersExclusive
    ListTellsTruth
    NothingLeaks
SYMMETRY Symmetry
CHECK_DEADLOCK FALSE
