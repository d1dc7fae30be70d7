SPECIFICATION FairSpec
CONSTANTS
    Workers = {w1, w2}
    Epoll = epoll
    Addrs = {a1, a2, a3}
    MaxRequests = 4
    Null = Null
INVARIANTS
    QueueIsList
    OneOwner
    NoLostWakeup
PROPERTIES
    EveryTaskHandled
    ImplementsFifo
