------------------------------- MODULE DbPool -------------------------------
(***************************************************************************)
(* The MySQL connection pool of db.c.                                      *)
(*                                                                         *)
(* initMysql opens a fixed list of "normal" connections, each with an      *)
(* is_use flag, and sets conn_sum to the number it MEANT to open.          *)
(* getConnect hands out a normal connection under mysql_normal_mutex, or,  *)
(* when conn_sum is zero, opens an extra one under mysql_courrent_mutex up *)
(* to MAX_MYSQL_CONNECT connections in all.  destoryConnect gives a normal *)
(* connection back and closes an extra one.  Worker threads call both; the *)
(* friend-list handler calls only getConnect.                              *)
(*                                                                         *)
(* A thread's step is what it does between two points where another thread *)
(* can observe it: taking a mutex, and each critical section, which ends   *)
(* with the unlock.  The scan for a free connection and the update of its  *)
(* is_use flag are two steps of one critical section.                      *)
(*                                                                         *)
(* A definition A_Variant is a wrong form of action A, defined to test     *)
(* that a property can tell it from the code; no specification uses it.    *)
(***************************************************************************)
EXTENDS Integers, FiniteSets

CONSTANTS
    Threads,     \* the threads that use the pool: the workers of readtask
    Normal,      \* NORMARL_MYSQL_CONNECT
    MaxConnect,  \* MAX_MYSQL_CONNECT
    Extra,       \* addresses malloc may return for an extra DBConn
    None         \* NULL, and the owner of a free mutex

NormalConns == 1 .. Normal
Conns == NormalConns \cup Extra

ASSUME PoolAssumption ==
    /\ Normal \in Nat \ {0}
    /\ MaxConnect \in Nat
    /\ Normal <= MaxConnect
    /\ IsFiniteSet(Threads)
    /\ IsFiniteSet(Extra)
    /\ Extra \cap NormalConns = {}
    /\ None \notin Threads
    /\ None \notin Conns

VARIABLES
    serving,      \* initMysql has returned and the server takes requests
    linked,       \* how many normal connections initMysql put in the list
    inUse,        \* the normal connections whose is_use is not 0
    connSum,      \* sql_conn->conn_sum
    extra,        \* the extra connections that are open
    currentSum,   \* mysql_courrent_connet_sum
    normalLock,   \* owner of mysql_normal_mutex
    currentLock,  \* owner of mysql_courrent_mutex
    pc,           \* where each thread is
    conn,         \* each thread's local DBConn pointer
    lost,         \* connections whose last reference a thread dropped
    crashed       \* a thread dereferenced NULL: the process is gone

initVars == <<serving, linked>>
normalVars == <<inUse, connSum, normalLock>>
currentVars == <<extra, currentSum, currentLock>>
vars == <<initVars, normalVars, currentVars, pc, conn, lost, crashed>>

-----------------------------------------------------------------------------
(* Where a thread can be.                                                  *)

InNormal == {"scan", "mark", "giveBack"}      \* holds mysql_normal_mutex
InCurrent == {"open", "uncount"}              \* holds mysql_courrent_mutex
Uncounting == {"lockUncount", "uncount"}      \* closed, not yet subtracted
Owning == {"holding", "lockGiveBack", "giveBack", "close"}
Labels == {"idle", "lockNormal", "lockCurrent"}
            \cup InNormal \cup InCurrent \cup Uncounting \cup Owning

Goto(t, label) == pc' = [pc EXCEPT ![t] = label]

Running(t, label) == serving /\ ~crashed /\ pc[t] = label

-----------------------------------------------------------------------------
Init ==
    /\ serving = FALSE
    /\ linked = 0
    /\ inUse = {}
    /\ connSum = Normal
    /\ extra = {}
    /\ currentSum = Normal
    /\ normalLock = None
    /\ currentLock = None
    /\ pc = [t \in Threads |-> "idle"]
    /\ conn = [t \in Threads |-> None]
    /\ lost = {}
    /\ crashed = FALSE

(* initMysql, one mysql_real_connect at a time.  A failure ends it early;  *)
(* main only logs that, and goes on to serve with the list as it is.       *)
LinkConnect ==
    /\ ~serving
    /\ linked' = linked + 1
    /\ serving' = (linked' = Normal)
    /\ UNCHANGED <<normalVars, currentVars, pc, conn, lost, crashed>>

LinkFails ==
    /\ ~serving
    /\ serving' = TRUE
    /\ UNCHANGED <<linked, normalVars, currentVars, pc, conn, lost, crashed>>

-----------------------------------------------------------------------------
(* getConnect.                                                             *)

CallGetConnect(t) ==
    /\ Running(t, "idle")
    /\ Goto(t, "lockNormal")
    /\ UNCHANGED <<initVars, normalVars, currentVars, conn, lost, crashed>>

LockNormal(t, from, to) ==
    /\ Running(t, from)
    /\ normalLock = None
    /\ normalLock' = t
    /\ Goto(t, to)
    /\ UNCHANGED <<initVars, inUse, connSum, currentVars, conn, lost, crashed>>

LockCurrent(t, from, to) ==
    /\ Running(t, from)
    /\ currentLock = None
    /\ currentLock' = t
    /\ Goto(t, to)
    /\ UNCHANGED <<initVars, normalVars, extra, currentSum, conn, lost, crashed>>

Drained_KeepsMutex(t) ==
    /\ Running(t, "scan")
    /\ connSum = 0
    /\ Goto(t, "lockCurrent")
    /\ UNCHANGED <<initVars, normalVars, currentVars, conn, lost, crashed>>

(* No normal connection is left: give the first mutex back, ask for the    *)
(* second.                                                                 *)
Drained(t) ==
    /\ Running(t, "scan")
    /\ connSum = 0
    /\ normalLock' = None
    /\ Goto(t, "lockCurrent")
    /\ UNCHANGED <<initVars, inUse, connSum, currentVars, conn, lost, crashed>>

Unused == (1 .. linked) \ inUse

(* The walk along the list stops at the first connection whose is_use is 0.*)
Scan(t) ==
    /\ Running(t, "scan")
    /\ connSum # 0
    /\ \E c \in Unused :
        /\ \A d \in Unused : c <= d
        /\ conn' = [conn EXCEPT ![t] = c]
    /\ Goto(t, "mark")
    /\ UNCHANGED <<initVars, normalVars, currentVars, lost, crashed>>

(* The walk ran off the list, and temp->is_use is written through NULL.    *)
(* With no connection linked sql_conn->db was never written: it is taken   *)
(* to be the NULL of fresh memory.                                         *)
ScanFallsOff(t) ==
    /\ Running(t, "scan")
    /\ connSum # 0
    /\ Unused = {}
    /\ crashed' = TRUE
    /\ UNCHANGED <<initVars, normalVars, currentVars, pc, conn, lost>>

Mark_LeavesFlag(t) ==
    /\ Running(t, "mark")
    /\ connSum' = connSum - 1
    /\ normalLock' = None
    /\ Goto(t, "holding")
    /\ UNCHANGED <<initVars, inUse, currentVars, conn, lost, crashed>>

Mark(t) ==
    /\ Running(t, "mark")
    /\ inUse' = inUse \cup {conn[t]}
    /\ connSum' = connSum - 1
    /\ normalLock' = None
    /\ Goto(t, "holding")
    /\ UNCHANGED <<initVars, currentVars, conn, lost, crashed>>

OpenExtra(t) ==
    /\ Running(t, "open")
    /\ currentSum < MaxConnect
    /\ \E c \in Extra \ extra :
        /\ extra' = extra \cup {c}
        /\ conn' = [conn EXCEPT ![t] = c]
    /\ currentSum' = currentSum + 1
    /\ currentLock' = None
    /\ Goto(t, "holding")
    /\ UNCHANGED <<initVars, normalVars, lost, crashed>>

(* getConnect returns NULL: the limit is reached, or malloc or             *)
(* mysql_real_connect failed.                                              *)
OpenReturnsNull(t) ==
    /\ Running(t, "open")
    /\ currentLock' = None
    /\ Goto(t, "idle")
    /\ UNCHANGED <<initVars, normalVars, extra, currentSum, conn, lost, crashed>>

-----------------------------------------------------------------------------
(* destoryConnect, and the caller that never calls it.                     *)

CallDestoryConnect(t) ==
    /\ Running(t, "holding")
    /\ Goto(t, IF conn[t] \in NormalConns THEN "lockGiveBack" ELSE "close")
    /\ UNCHANGED <<initVars, normalVars, currentVars, conn, lost, crashed>>

GiveBack_LeavesFlag(t) ==
    /\ Running(t, "giveBack")
    /\ connSum' = connSum + 1
    /\ normalLock' = None
    /\ conn' = [conn EXCEPT ![t] = None]
    /\ Goto(t, "idle")
    /\ UNCHANGED <<initVars, inUse, currentVars, lost, crashed>>

GiveBack(t) ==
    /\ Running(t, "giveBack")
    /\ inUse' = inUse \ {conn[t]}
    /\ connSum' = connSum + 1
    /\ normalLock' = None
    /\ conn' = [conn EXCEPT ![t] = None]
    /\ Goto(t, "idle")
    /\ UNCHANGED <<initVars, currentVars, lost, crashed>>

CloseExtra_Uncounts(t) ==
    /\ Running(t, "close")
    /\ extra' = extra \ {conn[t]}
    /\ conn' = [conn EXCEPT ![t] = None]
    /\ currentSum' = currentSum - 1
    /\ Goto(t, "lockUncount")
    /\ UNCHANGED <<initVars, normalVars, currentLock, lost, crashed>>

(* mysql_close and free come before the mutex that guards the count.       *)
CloseExtra(t) ==
    /\ Running(t, "close")
    /\ extra' = extra \ {conn[t]}
    /\ conn' = [conn EXCEPT ![t] = None]
    /\ Goto(t, "lockUncount")
    /\ UNCHANGED <<initVars, normalVars, currentSum, currentLock, lost, crashed>>

Uncount(t) ==
    /\ Running(t, "uncount")
    /\ currentSum' = currentSum - 1
    /\ currentLock' = None
    /\ Goto(t, "idle")
    /\ UNCHANGED <<initVars, normalVars, extra, conn, lost, crashed>>

(* mod_friend_get_friend_list returns, on every path after getConnect,     *)
(* without destoryConnect.                                                 *)
FriendListReturns(t) ==
    /\ Running(t, "holding")
    /\ lost' = lost \cup {conn[t]}
    /\ conn' = [conn EXCEPT ![t] = None]
    /\ Goto(t, "idle")
    /\ UNCHANGED <<initVars, normalVars, currentVars, crashed>>

-----------------------------------------------------------------------------
ThreadStep(t) ==
    \/ LockNormal(t, "lockNormal", "scan")
    \/ Drained(t)
    \/ Scan(t)
    \/ ScanFallsOff(t)
    \/ Mark(t)
    \/ LockCurrent(t, "lockCurrent", "open")
    \/ OpenExtra(t)
    \/ OpenReturnsNull(t)
    \/ CallDestoryConnect(t)
    \/ LockNormal(t, "lockGiveBack", "giveBack")
    \/ GiveBack(t)
    \/ CloseExtra(t)
    \/ LockCurrent(t, "lockUncount", "uncount")
    \/ Uncount(t)
    \/ FriendListReturns(t)

(* The process is gone: nothing moves any more.                            *)
Gone == crashed /\ UNCHANGED vars

Next ==
    \/ LinkConnect
    \/ LinkFails
    \/ \E t \in Threads : CallGetConnect(t) \/ ThreadStep(t)
    \/ Gone

Spec == Init /\ [][Next]_vars

(* The scheduler runs every thread that can run.  Nothing is assumed of    *)
(* which thread gets a contended mutex, nor that a thread calls getConnect.*)
FairSpec == Spec /\ \A t \in Threads : WF_vars(ThreadStep(t))

-----------------------------------------------------------------------------
(* Properties.                                                             *)

TypeOK ==
    /\ serving \in BOOLEAN
    /\ linked \in 0 .. Normal
    /\ inUse \in SUBSET NormalConns
    /\ connSum \in 0 .. Normal
    /\ extra \in SUBSET Extra
    /\ currentSum \in Normal .. MaxConnect
    /\ normalLock \in Threads \cup {None}
    /\ currentLock \in Threads \cup {None}
    /\ pc \in [Threads -> Labels]
    /\ conn \in [Threads -> Conns \cup {None}]
    /\ lost \in SUBSET Conns
    /\ crashed \in BOOLEAN

(* The connections some thread of T points to.                             *)
HeldBy(T) == {conn[t] : t \in T} \ {None}

(* Two threads never send SQL on the same MYSQL handle, nor does one use a *)
(* handle that was dropped earlier: getConnect (db.c:51) hands a           *)
(* connection to one caller at a time.                                     *)
ConnExclusive ==
    /\ \A t, u \in Threads : t # u /\ conn[t] = conn[u] => conn[t] = None
    /\ HeldBy(Threads) \cap lost = {}

(* Every connection that is marked in use, or open as an extra one, is     *)
(* accounted for: exactly one thread owns it, or the friend-list handler   *)
(* dropped it.  No other path of db.c leaks a connection.                  *)
Owners == {t \in Threads : pc[t] \in Owning}
ConnConserved == inUse \cup extra = HeldBy(Owners) \cup lost

(* The two counters agree with the lists they summarise, whatever the      *)
(* interleaving: conn_sum counts the normal connections not in use, and    *)
(* mysql_courrent_connet_sum everything open plus what is closed but not   *)
(* subtracted yet (db.c:106-111), so that it errs on the high side only.   *)
CountersAgree ==
    /\ connSum = Normal - Cardinality(inUse)
    /\ currentSum = Normal + Cardinality(extra)
                       + Cardinality({t \in Threads : pc[t] \in Uncounting})

(* The server never has more than MAX_MYSQL_CONNECT connections open       *)
(* (db.c:59), though an extra one is closed outside the mutex.             *)
WithinLimit == linked + Cardinality(extra) <= MaxConnect

(* getConnect dereferences NULL (db.c:91) only when initMysql gave up      *)
(* early, main went on (spider_tcp_server.c:48), and all the connections   *)
(* that were linked are in use.                                            *)
NullOnlyAfterPartialInit == crashed => linked < Normal /\ Unused = {}

(* Each mutex is held by the thread whose program counter is inside its    *)
(* critical section, and by no other.                                      *)
LocksMatch ==
    \A t \in Threads :
        /\ normalLock = t <=> pc[t] \in InNormal
        /\ currentLock = t <=> pc[t] \in InCurrent

(* The friend-list handler's leak is fatal for the pool: once it dropped   *)
(* MAX_MYSQL_CONNECT connections no thread ever has one again, and every   *)
(* getConnect (db.c:51) returns NULL until the server is restarted.        *)
ExhaustedForGood ==
    Cardinality(lost) = MaxConnect => \A t \in Threads : conn[t] = None

(* No path through getConnect or destoryConnect leaves a mutex locked:     *)
(* each of their returns unlocks.                                          *)
MutexReleased ==
    \A t \in Threads :
        /\ normalLock = t ~> (normalLock # t \/ crashed)
        /\ currentLock = t ~> (currentLock # t \/ crashed)

(* What a caller sees of the pool is a lease of each connection to one     *)
(* thread at a time: a thread owns a connection from the unlock that ends  *)
(* getConnect to the point where destoryConnect clears is_use or frees it. *)
Lease == INSTANCE ConnLease WITH
    lease <- [t \in Threads |-> IF pc[t] \in Owning THEN conn[t] ELSE None],
    dropped <- lost
ImplementsLease == Lease!LeaseSpec

-----------------------------------------------------------------------------
(* The inductive invariant behind these properties.                        *)

BasicType ==
    /\ serving \in BOOLEAN
    /\ linked \in 0 .. Normal
    /\ inUse \in SUBSET (1 .. linked)
    /\ connSum \in Int
    /\ extra \in SUBSET Extra
    /\ currentSum \in Int
    /\ normalLock \in Threads \cup {None}
    /\ currentLock \in Threads \cup {None}
    /\ pc \in [Threads -> Labels]
    /\ conn \in [Threads -> Conns \cup {None}]
    /\ lost \in SUBSET (inUse \cup extra)
    /\ crashed \in BOOLEAN

(* The local pointer is set exactly while the thread is about to own, or   *)
(* owns, a connection, and of the kind its program counter says.           *)
PointerMatchesPc ==
    \A t \in Threads :
        /\ conn[t] # None <=> pc[t] \in Owning \cup {"mark"}
        /\ pc[t] = "mark" => conn[t] \in Unused
        /\ pc[t] \in Owning => conn[t] \in inUse \cup extra
        /\ pc[t] \in {"lockGiveBack", "giveBack"} => conn[t] \in NormalConns
        /\ pc[t] = "close" => conn[t] \in Extra

Exclusive ==
    \A t, u \in Threads :
        /\ conn[t] # None => conn[t] \notin lost
        /\ t # u /\ conn[t] # None => conn[t] # conn[u]

Accounted ==
    \A c \in inUse \cup extra :
        c \in lost \/ \E t \in Threads : pc[t] \in Owning /\ conn[t] = c

PoolInv ==
    /\ BasicType
    /\ serving \/ linked < Normal
    /\ LocksMatch
    /\ PointerMatchesPc
    /\ Exclusive
    /\ Accounted
    /\ CountersAgree
    /\ currentSum <= MaxConnect
    /\ crashed => serving /\ linked < Normal /\ Unused = {}

=============================================================================
