----------------------------- MODULE ConnLease -----------------------------
(***************************************************************************)
(* What the pool of db.c promises to its callers: a lease.  A thread has   *)
(* at most one connection at a time, and a connection is leased to at most *)
(* one thread.  A lease ends when the thread gives the connection back,    *)
(* or when it drops it: a dropped connection is never leased again.        *)
(***************************************************************************)
CONSTANTS Threads, Conns, None

VARIABLES
    lease,    \* lease[t]: the connection thread t may use, or None
    dropped   \* the connections that were dropped

leaseVars == <<lease, dropped>>

Available == Conns \ ({lease[t] : t \in Threads} \cup dropped)

LeaseInit ==
    /\ lease = [t \in Threads |-> None]
    /\ dropped = {}

Grant(t) ==
    /\ lease[t] = None
    /\ \E c \in Available : lease' = [lease EXCEPT ![t] = c]
    /\ UNCHANGED dropped

Return(t) ==
    /\ lease[t] # None
    /\ lease' = [lease EXCEPT ![t] = None]
    /\ UNCHANGED dropped

Drop(t) ==
    /\ lease[t] # None
    /\ dropped' = dropped \cup {lease[t]}
    /\ lease' = [lease EXCEPT ![t] = None]

LeaseNext == \E t \in Threads : Grant(t) \/ Return(t) \/ Drop(t)

LeaseSpec == LeaseInit /\ [][LeaseNext]_leaseVars

=============================================================================
