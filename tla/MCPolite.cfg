SPECIFICATION FairSpec
CONSTANTS
    Workers = {w1, w2}
    Epoll = epoll
    Heart = heart
    Main = main
    None = None
    Fds = {f1, f2}
    MaxConn = 2
    MaxPackets = 2
    Timeout = 1
    MaxRounds = 2
    Cmds = {"login", "chat", "logout"}
    Benign = TRUE
INVARIANTS
    OwnNeverStale
    EventsAreKnown
    RepliesReachSender
PROPERTIES
    NoPeerForgotten
CHECK_DEADLOCK FALSE
