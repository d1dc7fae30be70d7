---------------------------- MODULE DbPoolProofs ----------------------------
(***************************************************************************)
(* Proofs about the connection pool for any number of threads, any sizes   *)
(* of the pool and any set of addresses.  PoolInv is inductive; the        *)
(* properties follow from it.                                              *)
(***************************************************************************)
EXTENDS DbPool, FiniteSetTheorems, TLAPS

LEMMA InitPool == Init => PoolInv
<1> SUFFICES ASSUME Init PROVE PoolInv
  OBVIOUS
<1> USE PoolAssumption DEF Init
<1>1. BasicType
  <2>1. serving \in BOOLEAN /\ crashed \in BOOLEAN
    OBVIOUS
  <2>2. pc \in [Threads -> Labels]
    BY DEF Labels
  <2>3. conn \in [Threads -> Conns \cup {None}]
    OBVIOUS
  <2>4. /\ linked \in 0 .. Normal
        /\ inUse \in SUBSET (1 .. linked)
        /\ connSum \in Int
        /\ extra \in SUBSET Extra
        /\ currentSum \in Int
        /\ normalLock \in Threads \cup {None}
        /\ currentLock \in Threads \cup {None}
        /\ lost \in SUBSET (inUse \cup extra)
    OBVIOUS
  <2> QED
    BY <2>1, <2>2, <2>3, <2>4 DEF BasicType
<1>2. LocksMatch
  BY DEF LocksMatch, InNormal, InCurrent
<1>3. PointerMatchesPc /\ Exclusive /\ Accounted
  BY DEF PointerMatchesPc, Exclusive, Accounted, Owning
<1>4. CountersAgree
  <2>1. {t \in Threads : pc[t] \in Uncounting} = {}
    BY DEF Uncounting
  <2>2. /\ Cardinality(inUse) = 0
        /\ Cardinality(extra) = 0
        /\ Cardinality({t \in Threads : pc[t] \in Uncounting}) = 0
    BY <2>1, FS_EmptySet, Zenon
  <2> QED
    BY <2>2 DEF CountersAgree
<1> QED
  BY <1>1, <1>2, <1>3, <1>4 DEF PoolInv

-----------------------------------------------------------------------------
(* The sets whose sizes the counters track are finite.                     *)

LEMMA FinitePool ==
  ASSUME BasicType
  PROVE  /\ IsFiniteSet(inUse) /\ Cardinality(inUse) \in Nat
         /\ Cardinality(inUse) <= linked
         /\ IsFiniteSet(extra) /\ Cardinality(extra) \in Nat
         /\ IsFiniteSet({t \in Threads : pc[t] \in Uncounting})
         /\ Cardinality({t \in Threads : pc[t] \in Uncounting}) \in Nat
         /\ linked = Normal /\ Unused = {} => Cardinality(inUse) = Normal
<1> USE PoolAssumption DEF BasicType
<1>1. IsFiniteSet(1 .. linked) /\ Cardinality(1 .. linked) = linked
  BY FS_Interval
<1>2. IsFiniteSet(inUse) /\ Cardinality(inUse) <= linked
  <2>1. inUse \in SUBSET (1 .. linked)
    OBVIOUS
  <2>2. IsFiniteSet(inUse) /\ Cardinality(inUse) <= Cardinality(1 .. linked)
    BY <1>1, <2>1, FS_Subset, Zenon
  <2> QED
    BY <1>1, <2>2
<1>3. IsFiniteSet(extra)
  BY FS_Subset
<1>4. IsFiniteSet({t \in Threads : pc[t] \in Uncounting})
  BY FS_Subset, {t \in Threads : pc[t] \in Uncounting} \in SUBSET Threads
<1>5. ASSUME linked = Normal, Unused = {}
      PROVE  Cardinality(inUse) = Normal
  <2>1. inUse = 1 .. linked
    BY <1>5 DEF Unused
  <2> QED
    BY <2>1, <1>1, <1>5
<1> QED
  BY <1>2, <1>3, <1>4, <1>5, FS_CardinalityType

(* A thread that enters or leaves Uncounting changes their number by one.  *)
LEMMA UncountingSet ==
  ASSUME BasicType, NEW t \in Threads, NEW label \in Labels,
         pc' = [pc EXCEPT ![t] = label]
  PROVE  {u \in Threads : pc'[u] \in Uncounting} =
           IF label \in Uncounting
           THEN {u \in Threads : pc[u] \in Uncounting} \cup {t}
           ELSE {u \in Threads : pc[u] \in Uncounting} \ {t}
BY DEF BasicType

(* Steps of a thread that neither enter nor leave Uncounting.              *)
LEMMA UncountingSame ==
  ASSUME BasicType, NEW t \in Threads, NEW label \in Labels,
         pc' = [pc EXCEPT ![t] = label],
         pc[t] \in Uncounting <=> label \in Uncounting
  PROVE  {u \in Threads : pc'[u] \in Uncounting}
           = {u \in Threads : pc[u] \in Uncounting}
BY DEF BasicType

-----------------------------------------------------------------------------
(* One lemma per step of initMysql and of the threads.                     *)

LEMMA StepInit ==
  ASSUME PoolInv, LinkConnect \/ LinkFails
  PROVE  PoolInv'
<1> USE PoolAssumption DEF PoolInv, LinkConnect, LinkFails, normalVars, currentVars
<1>1. linked' \in 0 .. Normal /\ linked <= linked'
  BY DEF BasicType
<1>2. serving' \in BOOLEAN
  <2>1. (linked' = Normal) \in BOOLEAN
    OBVIOUS
  <2> QED
    BY <2>1, Zenon
<1>3. serving' \/ linked' < Normal
  <2>1. CASE LinkFails
    BY <2>1, Zenon
  <2>2. CASE LinkConnect
    <3>1. serving' \/ linked' # Normal
      BY <2>2, Zenon
    <3> QED
      BY <3>1, <1>1
  <2> QED
    BY <2>1, <2>2
<1>4. BasicType'
  <2>1. ASSUME NEW c \in inUse PROVE c \in 1 .. linked'
    <3>1. linked \in Int /\ c \in 1 .. linked
      BY DEF BasicType
    <3> QED
      BY <1>1, <3>1
  <2>2. inUse' \in SUBSET (1 .. linked')
    BY <2>1
  <2> QED
    BY <1>1, <1>2, <2>2, Zenon DEF BasicType
<1>5. PointerMatchesPc'
  BY <1>1 DEF PointerMatchesPc, Unused, BasicType
<1>6. LocksMatch' /\ Exclusive' /\ Accounted' /\ CountersAgree'
  BY DEF LocksMatch, Exclusive, Accounted, CountersAgree
<1>7. crashed' => serving' /\ linked' < Normal /\ Unused' = {}
  OBVIOUS
<1> QED
  BY <1>3, <1>4, <1>5, <1>6, <1>7

(* Steps that move the program counter, and perhaps a mutex, and nothing   *)
(* else.                                                                   *)
LEMMA MovesOnly ==
  ASSUME PoolInv, NEW t \in Threads, NEW label \in Labels,
         pc' = [pc EXCEPT ![t] = label],
         UNCHANGED <<initVars, inUse, connSum, extra, currentSum, conn, lost, crashed>>,
         normalLock' \in Threads \cup {None},
         currentLock' \in Threads \cup {None},
         pc[t] \in Uncounting <=> label \in Uncounting,
         pc[t] \in Owning <=> label \in Owning,
         LocksMatch', PointerMatchesPc'
  PROVE  PoolInv'
<1> USE DEF PoolInv, initVars
<1>1. BasicType'
  BY DEF BasicType
<1>2. Exclusive' /\ Accounted'
  BY DEF Exclusive, Accounted, BasicType
<1>3. CountersAgree'
  <2>1. {u \in Threads : pc'[u] \in Uncounting}
          = {u \in Threads : pc[u] \in Uncounting}
    BY UncountingSame
  <2> QED
    BY <2>1 DEF CountersAgree
<1> QED
  BY <1>1, <1>2, <1>3 DEF Unused

LEMMA StepCallGetConnect ==
  ASSUME PoolInv, NEW t \in Threads, CallGetConnect(t)
  PROVE  PoolInv'
<1> USE PoolAssumption DEF PoolInv, CallGetConnect, Running, Goto, initVars, normalVars, currentVars
<1>1. /\ "lockNormal" \in Labels
      /\ pc[t] \in Uncounting <=> "lockNormal" \in Uncounting
      /\ pc[t] \in Owning <=> "lockNormal" \in Owning
  BY DEF Labels, InNormal, InCurrent, Uncounting, Owning
<1>2. LocksMatch'
  BY DEF LocksMatch, BasicType, InNormal, InCurrent
<1>3. PointerMatchesPc'
  BY DEF PointerMatchesPc, BasicType, Unused, Owning, Conns
<1> QED
  BY <1>1, <1>2, <1>3, MovesOnly DEF BasicType

LEMMA StepLockNormalGet ==
  ASSUME PoolInv, NEW t \in Threads, LockNormal(t, "lockNormal", "scan")
  PROVE  PoolInv'
<1> USE PoolAssumption DEF PoolInv, LockNormal, Running, Goto, initVars, currentVars
<1>1. /\ "scan" \in Labels
      /\ pc[t] \in Uncounting <=> "scan" \in Uncounting
      /\ pc[t] \in Owning <=> "scan" \in Owning
  BY DEF Labels, InNormal, InCurrent, Uncounting, Owning
<1>2. LocksMatch'
  BY DEF LocksMatch, BasicType, InNormal, InCurrent
<1>3. PointerMatchesPc'
  BY DEF PointerMatchesPc, BasicType, Unused, Owning, Conns
<1> QED
  BY <1>1, <1>2, <1>3, MovesOnly DEF BasicType

LEMMA StepLockNormalPut ==
  ASSUME PoolInv, NEW t \in Threads, LockNormal(t, "lockGiveBack", "giveBack")
  PROVE  PoolInv'
<1> USE PoolAssumption DEF PoolInv, LockNormal, Running, Goto, initVars, currentVars
<1>1. /\ "giveBack" \in Labels
      /\ pc[t] \in Uncounting <=> "giveBack" \in Uncounting
      /\ pc[t] \in Owning <=> "giveBack" \in Owning
  BY DEF Labels, InNormal, InCurrent, Uncounting, Owning
<1>2. LocksMatch'
  BY DEF LocksMatch, BasicType, InNormal, InCurrent
<1>3. PointerMatchesPc'
  BY DEF PointerMatchesPc, BasicType, Unused, Owning, Conns
<1> QED
  BY <1>1, <1>2, <1>3, MovesOnly DEF BasicType

LEMMA StepLockCurrentGet ==
  ASSUME PoolInv, NEW t \in Threads, LockCurrent(t, "lockCurrent", "open")
  PROVE  PoolInv'
<1> USE PoolAssumption DEF PoolInv, LockCurrent, Running, Goto, initVars, normalVars
<1>1. /\ "open" \in Labels
      /\ pc[t] \in Uncounting <=> "open" \in Uncounting
      /\ pc[t] \in Owning <=> "open" \in Owning
  BY DEF Labels, InNormal, InCurrent, Uncounting, Owning
<1>2. LocksMatch'
  BY DEF LocksMatch, BasicType, InNormal, InCurrent
<1>3. PointerMatchesPc'
  BY DEF PointerMatchesPc, BasicType, Unused, Owning, Conns
<1> QED
  BY <1>1, <1>2, <1>3, MovesOnly DEF BasicType

LEMMA StepLockCurrentPut ==
  ASSUME PoolInv, NEW t \in Threads, LockCurrent(t, "lockUncount", "uncount")
  PROVE  PoolInv'
<1> USE PoolAssumption DEF PoolInv, LockCurrent, Running, Goto, initVars, normalVars
<1>1. /\ "uncount" \in Labels
      /\ pc[t] \in Uncounting <=> "uncount" \in Uncounting
      /\ pc[t] \in Owning <=> "uncount" \in Owning
  BY DEF Labels, InNormal, InCurrent, Uncounting, Owning
<1>2. LocksMatch'
  BY DEF LocksMatch, BasicType, InNormal, InCurrent
<1>3. PointerMatchesPc'
  BY DEF PointerMatchesPc, BasicType, Unused, Owning, Conns
<1> QED
  BY <1>1, <1>2, <1>3, MovesOnly DEF BasicType

LEMMA StepDrained ==
  ASSUME PoolInv, NEW t \in Threads, Drained(t)
  PROVE  PoolInv'
<1> USE PoolAssumption DEF PoolInv, Drained, Running, Goto, initVars, currentVars
<1>1. /\ "lockCurrent" \in Labels
      /\ pc[t] \in Uncounting <=> "lockCurrent" \in Uncounting
      /\ pc[t] \in Owning <=> "lockCurrent" \in Owning
  BY DEF Labels, InNormal, InCurrent, Uncounting, Owning
<1>2. LocksMatch'
  BY DEF LocksMatch, BasicType, InNormal, InCurrent
<1>3. PointerMatchesPc'
  BY DEF PointerMatchesPc, BasicType, Unused, Owning, Conns
<1> QED
  BY <1>1, <1>2, <1>3, MovesOnly DEF BasicType

LEMMA StepOpenReturnsNull ==
  ASSUME PoolInv, NEW t \in Threads, OpenReturnsNull(t)
  PROVE  PoolInv'
<1> USE PoolAssumption DEF PoolInv, OpenReturnsNull, Running, Goto, initVars, normalVars
<1>1. /\ "idle" \in Labels
      /\ pc[t] \in Uncounting <=> "idle" \in Uncounting
      /\ pc[t] \in Owning <=> "idle" \in Owning
  BY DEF Labels, InNormal, InCurrent, Uncounting, Owning
<1>2. LocksMatch'
  BY DEF LocksMatch, BasicType, InNormal, InCurrent
<1>3. PointerMatchesPc'
  BY DEF PointerMatchesPc, BasicType, Unused, Owning, Conns
<1> QED
  BY <1>1, <1>2, <1>3, MovesOnly DEF BasicType

LEMMA StepCallDestoryConnect ==
  ASSUME PoolInv, NEW t \in Threads, CallDestoryConnect(t)
  PROVE  PoolInv'
<1> DEFINE label == IF conn[t] \in NormalConns THEN "lockGiveBack" ELSE "close"
<1> USE PoolAssumption DEF PoolInv, CallDestoryConnect, Running, Goto, initVars,
                           normalVars, currentVars
<1>1. /\ label \in Labels
      /\ pc[t] \in Uncounting <=> label \in Uncounting
      /\ pc[t] \in Owning <=> label \in Owning
  BY DEF Labels, Uncounting, Owning
<1>2. LocksMatch'
  BY DEF LocksMatch, BasicType, InNormal, InCurrent
<1>3. PointerMatchesPc'
  BY DEF PointerMatchesPc, BasicType, Unused, Owning, Conns
<1> QED
  BY <1>1, <1>2, <1>3, MovesOnly DEF BasicType

(* The walk along the list: it finds a connection, or runs off the end.    *)
LEMMA StepScan ==
  ASSUME PoolInv, NEW t \in Threads, Scan(t)
  PROVE  PoolInv'
<1> USE PoolAssumption DEF PoolInv, Scan, Running, Goto, initVars, normalVars, currentVars
<1>1. PICK c \in Unused : conn' = [conn EXCEPT ![t] = c]
  OBVIOUS
<1>2. c \in Conns /\ c # None
  BY DEF Unused, BasicType, Conns, NormalConns
<1>3. pc[t] = "scan" /\ conn[t] = None /\ normalLock = t
  BY DEF PointerMatchesPc, LocksMatch, Owning, InNormal
<1>4. BasicType'
  BY <1>1, <1>2 DEF BasicType, Labels, InNormal
<1>5. LocksMatch'
  BY DEF LocksMatch, BasicType, InNormal, InCurrent
<1>6. PointerMatchesPc'
  BY <1>1, <1>2 DEF PointerMatchesPc, BasicType, Unused, Owning
<1>7. Exclusive'
  <2>1. c \notin inUse \cup extra
    BY DEF Unused, BasicType, NormalConns
  <2>2. c \notin lost
    BY <2>1 DEF BasicType
  <2>3. ASSUME NEW u \in Threads, u # t
        PROVE  conn[u] # c
    <3>1. pc[u] # "mark"
      BY <1>3, <2>3 DEF LocksMatch, InNormal
    <3> QED
      BY <1>2, <2>1, <3>1 DEF PointerMatchesPc
  <2> QED
    BY <1>1, <1>3, <2>2, <2>3 DEF Exclusive, BasicType
<1>8. Accounted'
  BY <1>1, <1>3 DEF Accounted, BasicType, Owning
<1>9. CountersAgree'
  <2>1. {u \in Threads : pc'[u] \in Uncounting}
          = {u \in Threads : pc[u] \in Uncounting}
    BY UncountingSame DEF Labels, InNormal, Uncounting
  <2> QED
    BY <2>1 DEF CountersAgree
<1> QED
  BY <1>4, <1>5, <1>6, <1>7, <1>8, <1>9 DEF Unused

LEMMA StepScanFallsOff ==
  ASSUME PoolInv, NEW t \in Threads, ScanFallsOff(t)
  PROVE  PoolInv'
<1> USE PoolAssumption DEF PoolInv, ScanFallsOff, Running, initVars, normalVars, currentVars
<1>1. BasicType' /\ LocksMatch' /\ PointerMatchesPc' /\ Exclusive' /\ Accounted'
  BY DEF BasicType, LocksMatch, PointerMatchesPc, Exclusive, Accounted, Unused
<1>2. CountersAgree'
  BY DEF CountersAgree
<1>3. linked < Normal
  BY FinitePool DEF CountersAgree, BasicType
<1> QED
  BY <1>1, <1>2, <1>3 DEF Unused

(* Steps that take, give back, open, close or drop a connection.           *)

LEMMA StepMark ==
  ASSUME PoolInv, NEW t \in Threads, Mark(t)
  PROVE  PoolInv'
<1> USE PoolAssumption DEF PoolInv, Mark, Running, Goto, initVars, currentVars
<1>1. conn[t] \in Unused /\ conn[t] \in NormalConns /\ conn[t] # None
  BY DEF PointerMatchesPc, BasicType, Unused, NormalConns, Conns
<1>2. BasicType'
  <2>1. inUse' \in SUBSET (1 .. linked') /\ lost' \in SUBSET (inUse' \cup extra')
    BY <1>1 DEF BasicType, Unused
  <2>2. connSum' \in Int
    BY DEF BasicType
  <2>3. pc' \in [Threads -> Labels]
    BY DEF BasicType, Labels, Owning
  <2> QED
    BY <2>1, <2>2, <2>3 DEF BasicType
<1>3. LocksMatch'
  BY DEF LocksMatch, BasicType, InNormal, InCurrent
<1>4. PointerMatchesPc'
  BY <1>1 DEF PointerMatchesPc, BasicType, Unused, LocksMatch, InNormal, Owning
<1>5. Exclusive'
  BY DEF Exclusive, BasicType
<1>6. Accounted'
  BY DEF Accounted, BasicType, Owning
<1>7. CountersAgree'
  <2>1. Cardinality(inUse') = Cardinality(inUse) + 1
    BY <1>1, FinitePool, FS_AddElement DEF Unused
  <2>2. {u \in Threads : pc'[u] \in Uncounting}
          = {u \in Threads : pc[u] \in Uncounting}
    BY UncountingSame DEF Labels, InNormal, Uncounting, Owning
  <2>3. connSum' = Normal - Cardinality(inUse')
    BY <2>1, FinitePool DEF CountersAgree
  <2> QED
    BY <2>2, <2>3 DEF CountersAgree
<1> QED
  BY <1>2, <1>3, <1>4, <1>5, <1>6, <1>7

LEMMA StepOpenExtra ==
  ASSUME PoolInv, NEW t \in Threads, OpenExtra(t)
  PROVE  PoolInv'
<1> USE PoolAssumption DEF PoolInv, OpenExtra, Running, Goto, initVars, normalVars
<1>1. PICK c \in Extra \ extra : /\ extra' = extra \cup {c}
                                 /\ conn' = [conn EXCEPT ![t] = c]
  OBVIOUS
<1>2. c \in Conns /\ c # None /\ c \notin NormalConns
  BY DEF Conns
<1>3. pc[t] = "open" /\ conn[t] = None /\ currentLock = t
  BY DEF PointerMatchesPc, LocksMatch, Owning, InCurrent
<1>4. BasicType'
  <2>1. extra' \in SUBSET Extra /\ lost' \in SUBSET (inUse' \cup extra')
    BY <1>1 DEF BasicType
  <2>2. currentSum' \in Int
    BY DEF BasicType
  <2>3. pc' \in [Threads -> Labels] /\ conn' \in [Threads -> Conns \cup {None}]
    BY <1>1, <1>2 DEF BasicType, Labels, Owning
  <2> QED
    BY <2>1, <2>2, <2>3 DEF BasicType
<1>5. LocksMatch'
  BY DEF LocksMatch, BasicType, InNormal, InCurrent
<1>6. PointerMatchesPc'
  BY <1>1, <1>2, <1>3 DEF PointerMatchesPc, BasicType, Unused, Owning
<1>7. Exclusive'
  <2>1. c \notin inUse \cup extra
    <3>1. inUse \subseteq NormalConns
      BY DEF BasicType, NormalConns
    <3> QED
      BY <1>1, <1>2, <3>1
  <2>2. c \notin lost
    BY <2>1 DEF BasicType
  <2>3. \A u \in Threads : conn[u] # c
    BY <1>2, <2>1 DEF PointerMatchesPc, Unused, NormalConns, BasicType
  <2> QED
    BY <1>1, <1>3, <2>2, <2>3 DEF Exclusive, BasicType
<1>8. Accounted'
  <2>1. ASSUME NEW d \in inUse' \cup extra'
        PROVE  d \in lost' \/ \E u \in Threads : pc'[u] \in Owning /\ conn'[u] = d
    <3>1. CASE d = c
      BY <1>1, <3>1 DEF BasicType, Owning
    <3>2. CASE d # c
      <4>1. d \in inUse \cup extra
        BY <1>1, <3>2
      <4> QED
        BY <1>1, <1>3, <4>1 DEF Accounted, BasicType, Owning
    <3> QED
      BY <3>1, <3>2
  <2> QED
    BY <2>1 DEF Accounted
<1>9. CountersAgree'
  <2>1. Cardinality(extra') = Cardinality(extra) + 1
    BY <1>1, FinitePool, FS_AddElement
  <2>2. {u \in Threads : pc'[u] \in Uncounting}
          = {u \in Threads : pc[u] \in Uncounting}
    BY UncountingSame DEF Labels, InCurrent, Uncounting, Owning
  <2> DEFINE n == Cardinality({u \in Threads : pc[u] \in Uncounting})
  <2>3. currentSum' = Normal + Cardinality(extra') + n
    <3>1. n \in Nat /\ currentSum = Normal + Cardinality(extra) + n
      BY FinitePool DEF CountersAgree
    <3> HIDE DEF n
    <3> QED
      BY <2>1, <3>1, FinitePool
  <2> QED
    BY <2>2, <2>3 DEF CountersAgree
<1>10. currentSum' <= MaxConnect
  BY DEF BasicType
<1> QED
  BY <1>4, <1>5, <1>6, <1>7, <1>8, <1>9, <1>10 DEF Unused


LEMMA StepGiveBack ==
  ASSUME PoolInv, NEW t \in Threads, GiveBack(t)
  PROVE  PoolInv'
<1> USE PoolAssumption DEF PoolInv, GiveBack, Running, Goto, initVars, currentVars
<1>1. conn[t] \in inUse /\ conn[t] # None /\ conn[t] \notin lost
  BY DEF PointerMatchesPc, Exclusive, BasicType, Owning, NormalConns, Conns
<1>2. BasicType'
  <2>1. /\ inUse' \in SUBSET (1 .. linked')
        /\ lost' \in SUBSET (inUse' \cup extra')
    BY <1>1 DEF BasicType
  <2>2. connSum' \in Int
    BY DEF BasicType
  <2>3. pc' \in [Threads -> Labels] /\ conn' \in [Threads -> Conns \cup {None}]
    BY DEF BasicType, Labels
  <2> QED
    BY <2>1, <2>2, <2>3 DEF BasicType
<1>3. LocksMatch'
  BY DEF LocksMatch, BasicType, InNormal, InCurrent
<1>4. PointerMatchesPc'
  BY <1>1 DEF PointerMatchesPc, BasicType, Unused, Exclusive, Owning
<1>5. Exclusive'
  BY DEF Exclusive, BasicType
<1>6. Accounted'
  <2>1. ASSUME NEW d \in inUse' \cup extra'
        PROVE  d \in lost' \/ \E u \in Threads : pc'[u] \in Owning /\ conn'[u] = d
    <3>1. d \in inUse \cup extra /\ d # conn[t]
      BY <1>1 DEF BasicType, NormalConns
    <3>2. CASE d \in lost
      BY <3>2
    <3>3. CASE \E u \in Threads : pc[u] \in Owning /\ conn[u] = d
      <4>1. PICK u \in Threads : pc[u] \in Owning /\ conn[u] = d
        BY <3>3
      <4>2. u # t /\ pc'[u] = pc[u] /\ conn'[u] = conn[u]
        BY <3>1, <4>1 DEF BasicType
      <4> QED
        BY <4>1, <4>2
    <3> QED
      BY <3>1, <3>2, <3>3 DEF Accounted
  <2> QED
    BY <2>1 DEF Accounted
<1>7. CountersAgree'
  <2>1. Cardinality(inUse') = Cardinality(inUse) - 1
    BY <1>1, FinitePool, FS_RemoveElement
  <2>2. {u \in Threads : pc'[u] \in Uncounting}
          = {u \in Threads : pc[u] \in Uncounting}
    BY UncountingSame DEF Labels, Uncounting
  <2>3. connSum' = Normal - Cardinality(inUse')
    BY <2>1, FinitePool DEF CountersAgree
  <2> QED
    BY <2>2, <2>3 DEF CountersAgree
<1>8. crashed' => serving' /\ linked' < Normal /\ Unused' = {}
  OBVIOUS
<1> QED
  BY <1>2, <1>3, <1>4, <1>5, <1>6, <1>7, <1>8

LEMMA StepCloseExtra ==
  ASSUME PoolInv, NEW t \in Threads, CloseExtra(t)
  PROVE  PoolInv'
<1> USE PoolAssumption DEF PoolInv, CloseExtra, Running, Goto, initVars, normalVars
<1>1. conn[t] \in extra /\ conn[t] # None /\ conn[t] \notin lost
  <2>1. inUse \subseteq NormalConns
    BY DEF BasicType, NormalConns
  <2> QED
    BY <2>1 DEF PointerMatchesPc, Exclusive, BasicType, Owning, Conns
<1>2. BasicType'
  <2>1. extra' \in SUBSET Extra /\ lost' \in SUBSET (inUse' \cup extra')
    BY <1>1 DEF BasicType
  <2>2. pc' \in [Threads -> Labels] /\ conn' \in [Threads -> Conns \cup {None}]
    BY DEF BasicType, Labels, Uncounting
  <2> QED
    BY <2>1, <2>2 DEF BasicType
<1>3. LocksMatch'
  BY DEF LocksMatch, BasicType, InNormal, InCurrent
<1>4. PointerMatchesPc'
  BY <1>1 DEF PointerMatchesPc, BasicType, Unused, Exclusive, Owning
<1>5. Exclusive'
  BY DEF Exclusive, BasicType
<1>6. Accounted'
  <2>1. ASSUME NEW d \in inUse' \cup extra'
        PROVE  d \in lost' \/ \E u \in Threads : pc'[u] \in Owning /\ conn'[u] = d
    <3>1. d \in inUse \cup extra /\ d # conn[t]
      BY <1>1 DEF BasicType, NormalConns
    <3>2. CASE d \in lost
      BY <3>2
    <3>3. CASE \E u \in Threads : pc[u] \in Owning /\ conn[u] = d
      <4>1. PICK u \in Threads : pc[u] \in Owning /\ conn[u] = d
        BY <3>3
      <4>2. u # t /\ pc'[u] = pc[u] /\ conn'[u] = conn[u]
        BY <3>1, <4>1 DEF BasicType
      <4> QED
        BY <4>1, <4>2
    <3> QED
      BY <3>1, <3>2, <3>3 DEF Accounted
  <2> QED
    BY <2>1 DEF Accounted
<1>7. CountersAgree'
  <2>1. Cardinality(extra') = Cardinality(extra) - 1
    BY <1>1, FinitePool, FS_RemoveElement
  <2> DEFINE U == {u \in Threads : pc[u] \in Uncounting}
             V == {u \in Threads : pc'[u] \in Uncounting}
  <2>2. V = U \cup {t}
    BY UncountingSet DEF Labels, Uncounting
  <2>3. t \notin U
    BY DEF Uncounting
  <2>4. IsFiniteSet(U) /\ Cardinality(U) \in Nat
    BY FinitePool
  <2>5. currentSum = Normal + Cardinality(extra) + Cardinality(U)
    BY DEF CountersAgree
  <2>6. connSum = Normal - Cardinality(inUse)
    BY DEF CountersAgree
  <2> HIDE DEF U, V
  <2>7. Cardinality(V) = Cardinality(U) + 1
    BY <2>2, <2>3, <2>4, FS_AddElement
  <2>8. currentSum' = Normal + Cardinality(extra') + Cardinality(V)
    BY <2>1, <2>4, <2>5, <2>7, FinitePool
  <2> QED
    BY <2>6, <2>8 DEF CountersAgree, V
<1>8. crashed' => serving' /\ linked' < Normal /\ Unused' = {}
  BY DEF Unused
<1> QED
  BY <1>2, <1>3, <1>4, <1>5, <1>6, <1>7, <1>8

LEMMA StepUncount ==
  ASSUME PoolInv, NEW t \in Threads, Uncount(t)
  PROVE  PoolInv'
<1> USE PoolAssumption DEF PoolInv, Uncount, Running, Goto, initVars, normalVars
<1>1. BasicType'
  <2>1. pc' \in [Threads -> Labels] /\ currentSum' \in Int
    BY DEF BasicType, Labels
  <2> QED
    BY <2>1 DEF BasicType
<1>2. LocksMatch'
  BY DEF LocksMatch, BasicType, InNormal, InCurrent
<1>3. PointerMatchesPc'
  BY DEF PointerMatchesPc, BasicType, Unused, Owning
<1>4. Exclusive' /\ Accounted'
  BY DEF Exclusive, Accounted, BasicType, Owning
<1>5. CountersAgree'
  <2> DEFINE U == {u \in Threads : pc[u] \in Uncounting}
             V == {u \in Threads : pc'[u] \in Uncounting}
  <2>1. V = U \ {t}
    BY UncountingSet DEF Labels, Uncounting
  <2>2. t \in U
    BY DEF Uncounting
  <2>3. IsFiniteSet(U) /\ Cardinality(U) \in Nat
    BY FinitePool
  <2>4. currentSum = Normal + Cardinality(extra) + Cardinality(U)
    BY DEF CountersAgree
  <2>5. connSum = Normal - Cardinality(inUse)
    BY DEF CountersAgree
  <2> HIDE DEF U, V
  <2>6. Cardinality(V) = Cardinality(U) - 1
    BY <2>1, <2>2, <2>3, FS_RemoveElement
  <2>7. currentSum' = Normal + Cardinality(extra') + Cardinality(V)
    BY <2>3, <2>4, <2>6, FinitePool
  <2> QED
    BY <2>5, <2>7 DEF CountersAgree, V
<1>6. currentSum' <= MaxConnect
  BY DEF BasicType
<1> QED
  BY <1>1, <1>2, <1>3, <1>4, <1>5, <1>6 DEF Unused

LEMMA StepFriendListReturns ==
  ASSUME PoolInv, NEW t \in Threads, FriendListReturns(t)
  PROVE  PoolInv'
<1> USE PoolAssumption DEF PoolInv, FriendListReturns, Running, Goto, initVars,
                           normalVars, currentVars
<1>1. conn[t] \in inUse \cup extra /\ conn[t] # None
  BY DEF PointerMatchesPc, BasicType, Owning
<1>2. BasicType'
  <2>1. lost' \in SUBSET (inUse' \cup extra')
    BY <1>1 DEF BasicType
  <2>2. pc' \in [Threads -> Labels] /\ conn' \in [Threads -> Conns \cup {None}]
    BY DEF BasicType, Labels
  <2> QED
    BY <2>1, <2>2 DEF BasicType
<1>3. LocksMatch'
  BY DEF LocksMatch, BasicType, InNormal, InCurrent
<1>4. PointerMatchesPc'
  BY DEF PointerMatchesPc, BasicType, Unused, Owning
<1>5. Exclusive'
  BY DEF Exclusive, BasicType
<1>6. Accounted'
  BY DEF Accounted, BasicType, Owning
<1>7. CountersAgree'
  <2>1. {u \in Threads : pc'[u] \in Uncounting}
          = {u \in Threads : pc[u] \in Uncounting}
    BY UncountingSame DEF Labels, Uncounting
  <2> QED
    BY <2>1 DEF CountersAgree
<1> QED
  BY <1>2, <1>3, <1>4, <1>5, <1>6, <1>7 DEF Unused

-----------------------------------------------------------------------------
(* PoolInv is inductive.                                                   *)

LEMMA PoolInvariant == Spec => []PoolInv
<1>1. ASSUME PoolInv, [Next]_vars PROVE PoolInv'
  <2>1. CASE LinkConnect \/ LinkFails
    BY <1>1, <2>1, StepInit
  <2>2. ASSUME NEW t \in Threads, CallGetConnect(t) \/ ThreadStep(t)
        PROVE  PoolInv'
    BY <1>1, <2>2, StepCallGetConnect, StepLockNormalGet, StepDrained,
       StepScan, StepScanFallsOff, StepMark, StepLockCurrentGet,
       StepOpenExtra, StepOpenReturnsNull, StepCallDestoryConnect,
       StepLockNormalPut, StepGiveBack, StepCloseExtra, StepLockCurrentPut,
       StepUncount, StepFriendListReturns DEF ThreadStep
  <2>3. CASE UNCHANGED vars
    BY <1>1, <2>3 DEF PoolInv, BasicType, LocksMatch, PointerMatchesPc,
       Exclusive, Accounted, CountersAgree, Unused, vars, initVars,
       normalVars, currentVars
  <2> QED
    BY <1>1, <2>1, <2>2, <2>3 DEF Next, Gone
<1> QED
  BY <1>1, InitPool, PTL DEF Spec

-----------------------------------------------------------------------------
(* What follows from it.                                                   *)

(* Every variable keeps the range the code means it to have; the two       *)
(* counters never leave 0..Normal and Normal..MaxConnect.                  *)
THEOREM TypeCorrect == Spec => []TypeOK
<1>1. PoolInv => TypeOK
  <2> SUFFICES ASSUME PoolInv PROVE TypeOK
    OBVIOUS
  <2> USE PoolAssumption DEF PoolInv
  <2>1. connSum \in 0 .. Normal
    BY FinitePool DEF CountersAgree, BasicType
  <2>2. currentSum \in Normal .. MaxConnect
    <3> DEFINE n == Cardinality({t \in Threads : pc[t] \in Uncounting})
    <3>1. n \in Nat /\ currentSum = Normal + Cardinality(extra) + n
      BY FinitePool DEF CountersAgree
    <3> HIDE DEF n
    <3> QED
      BY <3>1, FinitePool DEF BasicType
  <2>3. inUse \in SUBSET NormalConns /\ lost \in SUBSET Conns
    BY DEF BasicType, NormalConns, Conns
  <2> QED
    BY <2>1, <2>2, <2>3 DEF TypeOK, BasicType
<1> QED
  BY <1>1, PoolInvariant, PTL

(* getConnect (db.c:51) leases a connection to one caller at a time, and   *)
(* never leases one that the friend-list handler dropped.                  *)
THEOREM LeaseExclusive == Spec => []ConnExclusive
<1>1. PoolInv => ConnExclusive
  BY DEF PoolInv, Exclusive, ConnExclusive, HeldBy
<1> QED
  BY <1>1, PoolInvariant, PTL

(* No connection leaks except through the friend-list handler.             *)
THEOREM NothingLeaksElsewhere == Spec => []ConnConserved
<1>1. PoolInv => ConnConserved
  <2> SUFFICES ASSUME PoolInv PROVE ConnConserved
    OBVIOUS
  <2>1. ASSUME NEW c \in inUse \cup extra
        PROVE  c \in HeldBy(Owners) \cup lost
    <3>1. c # None
      BY PoolAssumption DEF PoolInv, BasicType, Conns, NormalConns
    <3> QED
      BY <3>1 DEF PoolInv, Accounted, HeldBy, Owners
  <2>2. lost \subseteq inUse \cup extra
    BY DEF PoolInv, BasicType
  <2>3. HeldBy(Owners) \subseteq inUse \cup extra
    BY DEF PoolInv, PointerMatchesPc, HeldBy, Owners
  <2> QED
    BY <2>1, <2>2, <2>3 DEF ConnConserved
<1> QED
  BY <1>1, PoolInvariant, PTL

(* The counters that decide between waiting, lending and opening a         *)
(* connection agree with the lists they summarise.                         *)
THEOREM CountersCorrect == Spec => []CountersAgree
<1>1. PoolInv => CountersAgree
  BY DEF PoolInv
<1> QED
  BY <1>1, PoolInvariant, PTL

(* MAX_MYSQL_CONNECT bounds the open connections, although destoryConnect  *)
(* closes an extra one before it takes the mutex that guards the count.    *)
THEOREM LimitRespected == Spec => []WithinLimit
<1>1. PoolInv => WithinLimit
  <2> SUFFICES ASSUME PoolInv PROVE WithinLimit
    OBVIOUS
  <2> DEFINE n == Cardinality({t \in Threads : pc[t] \in Uncounting})
  <2>1. n \in Nat /\ currentSum = Normal + Cardinality(extra) + n
    BY FinitePool DEF PoolInv, CountersAgree
  <2>2. currentSum <= MaxConnect /\ linked \in 0 .. Normal
    BY DEF PoolInv, BasicType
  <2> HIDE DEF n
  <2> QED
    BY <2>1, <2>2, FinitePool, PoolAssumption DEF WithinLimit, PoolInv
<1> QED
  BY <1>1, PoolInvariant, PTL

(* The NULL dereference of db.c:91 needs an initMysql that failed part-way *)
(* and a list with no connection left: with a complete list there is none. *)
THEOREM NullNeedsPartialInit == Spec => []NullOnlyAfterPartialInit
<1>1. PoolInv => NullOnlyAfterPartialInit
  BY DEF PoolInv, NullOnlyAfterPartialInit
<1> QED
  BY <1>1, PoolInvariant, PTL

(* Once MAX_MYSQL_CONNECT connections are lost to the friend-list handler  *)
(* no caller has a connection, now or later.                               *)
THEOREM ExhaustionIsFinal == Spec => []ExhaustedForGood
<1>1. PoolInv => ExhaustedForGood
  <2> SUFFICES ASSUME PoolInv, Cardinality(lost) = MaxConnect,
                      NEW t \in Threads, conn[t] # None
               PROVE  FALSE
    BY DEF ExhaustedForGood
  <2> USE DEF PoolInv
  <2> DEFINE n == Cardinality({u \in Threads : pc[u] \in Uncounting})
  <2>1. n \in Nat /\ currentSum = Normal + Cardinality(extra) + n
    BY FinitePool DEF CountersAgree
  <2> HIDE DEF n
  <2>2. inUse \cap extra = {}
    <3>1. 1 .. linked \subseteq NormalConns
      BY PoolAssumption DEF BasicType, NormalConns
    <3> QED
      BY <3>1, PoolAssumption DEF BasicType
  <2>3. /\ IsFiniteSet(inUse \cup extra)
        /\ Cardinality(inUse \cup extra)
             = Cardinality(inUse) + Cardinality(extra)
    <3>1. IsFiniteSet(inUse) /\ IsFiniteSet(extra)
      BY FinitePool
    <3>2. /\ IsFiniteSet(inUse \cup extra)
          /\ Cardinality(inUse \cup extra)
               = Cardinality(inUse) + Cardinality(extra) - Cardinality(inUse \cap extra)
      BY <3>1, FS_Union, Zenon
    <3>3. Cardinality(inUse \cap extra) = 0
      BY <2>2, FS_EmptySet, Zenon
    <3> QED
      BY <3>2, <3>3, FinitePool
  <2>4. lost \subseteq inUse \cup extra /\ Cardinality(lost) <= Cardinality(inUse \cup extra)
    BY <2>3, FS_Subset DEF BasicType
  <2>5. /\ Cardinality(inUse) <= linked /\ linked <= Normal
        /\ Cardinality(inUse) + Cardinality(extra) = MaxConnect
        /\ Cardinality(inUse) = linked /\ linked = Normal
    <3>1. linked \in 0 .. Normal /\ currentSum <= MaxConnect
      BY DEF BasicType
    <3> QED
      BY <2>1, <2>3, <2>4, <3>1, FinitePool, PoolAssumption
  <2>6. lost = inUse \cup extra
    BY <2>3, <2>4, <2>5, FS_Subset
  <2>7. inUse = 1 .. linked
    <3>1. IsFiniteSet(1 .. linked) /\ Cardinality(1 .. linked) = linked
      BY FS_Interval, PoolAssumption DEF BasicType
    <3>2. inUse \in SUBSET (1 .. linked)
      BY DEF BasicType
    <3> QED
      BY <2>5, <3>1, <3>2, FS_Subset
  <2>8. Unused = {}
    BY <2>7 DEF Unused
  <2> QED
    BY <2>6, <2>8 DEF PointerMatchesPc, Exclusive
<1> QED
  BY <1>1, PoolInvariant, PTL

-----------------------------------------------------------------------------
(* The pool implements the lease.                                          *)

leaseBar == [t \in Threads |-> IF pc[t] \in Owning THEN conn[t] ELSE None]

(* Steps that change neither what a thread owns nor what was dropped.      *)
LEMMA SameLease ==
  ASSUME PoolInv, NEW t \in Threads, NEW label,
         pc' = [pc EXCEPT ![t] = label],
         UNCHANGED lost,
         \A u \in Threads : u # t => conn'[u] = conn[u],
         \/ pc[t] \in Owning /\ label \in Owning /\ conn'[t] = conn[t]
         \/ pc[t] \notin Owning /\ label \notin Owning
  PROVE  leaseBar' = leaseBar /\ lost' = lost
BY DEF leaseBar, PoolInv, BasicType

LEMMA GrantStep ==
  ASSUME PoolInv, PoolInv', NEW t \in Threads, NEW c,
         pc' = [pc EXCEPT ![t] = "holding"],
         UNCHANGED lost,
         pc[t] \notin Owning,
         c = conn'[t],
         \A u \in Threads : u # t => conn'[u] = conn[u]
  PROVE  Lease!Grant(t)
<1> USE DEF PoolInv
<1>1. c # None /\ c \notin lost /\ c \in Conns
  BY DEF PointerMatchesPc, Exclusive, BasicType, Owning
<1>2. \A u \in Threads : leaseBar[u] # c
  BY <1>1 DEF leaseBar, Exclusive, Owning
<1>3. c \in Conns \ ({leaseBar[u] : u \in Threads} \cup lost)
  BY <1>1, <1>2
<1>4. leaseBar[t] = None /\ leaseBar' = [leaseBar EXCEPT ![t] = c]
  BY DEF leaseBar, BasicType, Owning
<1> QED
  BY <1>3, <1>4 DEF Lease!Grant, Lease!Available, leaseBar

LEMMA ReturnStep ==
  ASSUME PoolInv, NEW t \in Threads, NEW label,
         pc' = [pc EXCEPT ![t] = label],
         conn' = [conn EXCEPT ![t] = None],
         pc[t] \in Owning
  PROVE  /\ leaseBar[t] = conn[t] /\ conn[t] # None
         /\ leaseBar' = [leaseBar EXCEPT ![t] = None]
BY DEF PoolInv, PointerMatchesPc, leaseBar, BasicType

LEMMA StepImplements ==
  ASSUME PoolInv, PoolInv', [Next]_vars
  PROVE  [Lease!LeaseNext]_<<leaseBar, lost>>
<1>1. CASE UNCHANGED vars
  BY <1>1 DEF vars, leaseBar
<1>2. CASE LinkConnect \/ LinkFails
  BY <1>2 DEF LinkConnect, LinkFails, leaseBar
<1>3. ASSUME NEW t \in Threads, CallGetConnect(t) \/ ThreadStep(t)
      PROVE  [Lease!LeaseNext]_<<leaseBar, lost>>
  <2> USE DEF Running, Goto
  <2>1. CASE \/ CallGetConnect(t)
             \/ LockNormal(t, "lockNormal", "scan")
             \/ LockNormal(t, "lockGiveBack", "giveBack")
             \/ LockCurrent(t, "lockCurrent", "open")
             \/ LockCurrent(t, "lockUncount", "uncount")
             \/ Drained(t)
             \/ OpenReturnsNull(t)
             \/ CallDestoryConnect(t)
             \/ Scan(t)
             \/ Uncount(t)
    <3>1. leaseBar' = leaseBar /\ lost' = lost
      BY <2>1, SameLease DEF CallGetConnect, LockNormal, LockCurrent, Drained,
         OpenReturnsNull, CallDestoryConnect, Scan, Uncount, Owning, PoolInv, BasicType
    <3> QED
      BY <3>1
  <2>2. CASE ScanFallsOff(t)
    BY <2>2 DEF ScanFallsOff, leaseBar
  <2>3. CASE Mark(t) \/ OpenExtra(t)
    <3>1. Lease!Grant(t)
      BY <2>3, GrantStep DEF Mark, OpenExtra, Owning, PoolInv, BasicType
    <3> QED
      BY <3>1 DEF Lease!LeaseNext
  <2>4. CASE GiveBack(t) \/ CloseExtra(t)
    <3>1. Lease!Return(t)
      BY <2>4, ReturnStep DEF GiveBack, CloseExtra, Owning, Lease!Return, leaseBar
    <3> QED
      BY <3>1 DEF Lease!LeaseNext
  <2>5. CASE FriendListReturns(t)
    <3>1. Lease!Drop(t)
      BY <2>5, ReturnStep DEF FriendListReturns, Owning, Lease!Drop, leaseBar
    <3> QED
      BY <3>1 DEF Lease!LeaseNext
  <2> QED
    BY <1>3, <2>1, <2>2, <2>3, <2>4, <2>5 DEF ThreadStep
<1> QED
  BY <1>1, <1>2, <1>3 DEF Next, Gone

(* The pool of db.c implements the lease of ConnLease: every step grants,  *)
(* returns or drops one lease, or changes none.                            *)
THEOREM PoolImplementsLease == Spec => ImplementsLease
<1>1. Init => Lease!LeaseInit
  BY DEF Init, Lease!LeaseInit
<1>2. PoolInv /\ PoolInv' /\ [Next]_vars => [Lease!LeaseNext]_<<leaseBar, lost>>
  BY StepImplements
<1>3. PoolInv /\ PoolInv' /\ [Next]_vars => [Lease!LeaseNext]_(Lease!leaseVars)
  BY <1>2 DEF Lease!leaseVars, leaseBar
<1> QED
  BY <1>1, <1>3, PoolInvariant, PTL DEF Spec, ImplementsLease, Lease!LeaseSpec

=============================================================================
