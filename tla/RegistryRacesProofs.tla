------------------------- MODULE RegistryRacesProofs -------------------------
(***************************************************************************)
(* Proofs about RegistryRaces: for any number of threads and connections,  *)
(* what the threads that use the list of clients without a lock can and    *)
(* cannot do to it, up to the first undefined access or the first two      *)
(* calls that change neighbouring nodes at once.                           *)
(*                                                                         *)
(* The inductive invariant says how far each call under way has changed    *)
(* the list: `order' is the list without them, and a field may differ from *)
(* it only next to a node that some thread deletes, in the way that the    *)
(* thread's label says.  As long as no two such nodes are neighbours, the  *)
(* differences cannot meet.                                                *)
(***************************************************************************)
EXTENDS RegistryRaces, FiniteSets, FiniteSetTheorems, SequenceTheorems, TLAPS

-----------------------------------------------------------------------------
(* The inductive invariant: the types, and what each thread runs.          *)

Calls == {"none", "add", "exists", "uid", "close", "beat"}
CallsOf(t) ==
    CASE t = Main -> {"none", "add"}
      [] t = Heart -> {"none", "beat"}
      [] OTHER -> {"none", "exists", "uid", "close"}
LabelsOf(t, call) ==
    CASE call = "none" -> {Idle(t)}
      [] call = "add" -> Adding
      [] call = "exists" -> {"start", "match", "step", "client"}
      [] call = "uid" -> {"start", "uid", "step"}
      [] call = "close" -> {"start", "match", "step", "freeClient", "close"} \cup Deleting
      [] call = "beat" -> {"start", "beat", "step", "age", "freeClient", "close"} \cup Deleting
Labels == {"accept", "idle", "sleep", "start", "match", "uid", "beat", "step", "client",
           "age", "freeClient", "close"} \cup Adding \cup Deleting
OwnCode ==
    \A t \in Threads :
        /\ loc[t].call \in CallsOf(t)
        /\ pc[t] \in LabelsOf(t, loc[t].call)
        /\ loc[t].call = "none" => loc[t] = NoLocals

Pointers == Nodes \cup {Null}
Fields == [fd : 0 .. MaxConn, client : Conn \cup {Null}, next : Pointers, prev : Pointers]
Locals == [call : Calls, conn : 0 .. MaxConn, node : Pointers, ptr : Pointers,
           walk : Pointers, during : SUBSET Nodes]

TypeOK ==
    /\ head \in Pointers
    /\ node \in Seq(Fields) /\ Len(node) <= MaxConn
    /\ freed \subseteq 1 .. Len(node) /\ gone \subseteq 1 .. conns
    /\ loc \in [Threads -> Locals] /\ pc \in [Threads -> Labels]
    /\ conns \in 0 .. MaxConn /\ watched \subseteq 1 .. conns
    /\ order \in Seq(Nodes) /\ replaced \in BOOLEAN

-----------------------------------------------------------------------------
(* The list and the calls that change it.                                  *)

(* Some thread deletes node n and is at one of these labels.               *)
Deleter(n, labels) == \E t \in Closers : Mine(t) = n /\ pc[t] \in labels
InDeletion(n) == Deleter(n, Deleting)
PassedOver(n) == Deleter(n, {"selfPrev", "freeHead"})  \* fd2clients is past n,
SelfLinked(n) == Deleter(n, {"freeHead"})              \* and the new head has its prev
Bridged(n) == Deleter(n, {"following", "backLink", "freeNode"})  \* next is past n,
Unlinked(n) == Deleter(n, {"freeNode"})                          \* and prev too
NoFd(n) == Deleter(n, {"zeroClient", "zeroPrev", "zeroNext"})
NoClient(n) == Deleter(n, {"zeroPrev", "zeroNext"})

Emptied == {"zeroClient", "zeroPrev", "zeroNext"}
HeadCase == {"delHead", "headNext", "moveHead", "selfPrev", "freeHead", "zeroFd"} \cup Emptied
OtherCase == {"delNext", "bridge", "following", "backLink", "cutLast", "freeNode"}

(* The nodes in use are live, and the only live nodes beside them are the  *)
(* empty head and the new node that main has not linked yet.               *)
ListShape ==
    /\ \A i, j \in 1 .. Len(order) : order[i] = order[j] => i = j
    /\ \A i \in 1 .. Len(order) : Alive(order[i])
    /\ \A n \in Nodes : Alive(n) =>
          \/ n \in Listed
          \/ n = head /\ order = << >>
          \/ n = loc[Main].ptr /\ pc[Main] = "addLink"

(* fd2clients leads to the first node, or past it once it is moved on.     *)
HeadFirst ==
    order # << >> =>
        IF PassedOver(order[1])
        THEN Len(order) > 1 /\ head = order[2] /\ replaced
        ELSE head = order[1]

(* next leads to the following node, or past it once it is bridged.        *)
OrderAt(i) == IF i <= Len(order) THEN order[i] ELSE Null
NextChain ==
    \A i \in 1 .. Len(order) :
        node[order[i]].next =
            IF i < Len(order) /\ Bridged(order[i + 1])
            THEN OrderAt(i + 2) ELSE OrderAt(i + 1)

(* prev leads to the node before, or past it once it is linked back.       *)
(* That of the first node is NULL, and once fd2clients was moved the node  *)
(* itself.                                                                 *)
PrevChain ==
    \A i \in 2 .. Len(order) :
        node[order[i]].prev =
            IF Unlinked(order[i - 1]) THEN node[order[i - 1]].prev
            ELSE IF i = 2 /\ SelfLinked(order[1]) THEN order[2]
            ELSE order[i - 1]
FirstPrev ==
    order # << >> =>
        \/ node[order[1]].prev = Null
        \/ node[order[1]].prev = order[1] /\ replaced

(* Who deletes, deletes a node in use, and has taken the branches of       *)
(* del_fd2client that this node calls for.                                 *)
Branches(t) ==
    \E i \in 1 .. Len(order) :
        /\ order[i] = Mine(t)
        /\ pc[t] \in HeadCase => i = 1 /\ node[Mine(t)].prev = Null
        /\ pc[t] \in {"headNext", "moveHead", "selfPrev", "freeHead"} => loc[t].ptr = Mine(t)
        /\ pc[t] \in {"zeroFd"} \cup Emptied => Len(order) = 1
        /\ pc[t] \in {"moveHead", "selfPrev", "freeHead"} => Len(order) > 1
        /\ pc[t] \in OtherCase => node[Mine(t)].prev # Null
        /\ pc[t] \in {"bridge", "following", "backLink"} => i < Len(order)
        /\ pc[t] \in {"bridge", "backLink"} => loc[t].ptr = OrderAt(i + 1)
        /\ pc[t] = "cutLast" => i = Len(order)
RightBranch == \A t \in Closers : pc[t] \in Deleting => Branches(t)

(* What the nodes in use hold: fd and client are one connection's, and     *)
(* each connection has one node.                                           *)
Contents ==
    /\ \A i \in 1 .. Len(order) :
        LET n == order[i]
        IN  /\ IF NoFd(n) THEN node[n].fd = 0 ELSE node[n].fd \in 1 .. conns
            /\ IF NoClient(n) THEN node[n].client = Null
               ELSE node[n].client \in 1 .. conns
            /\ node[n].fd # 0 => node[n].client = node[n].fd
    /\ \A i, j \in 1 .. Len(order) : node[order[i]].client = node[order[j]].client => i = j

(* The list is empty: the head is, but for what main has filled in.        *)
EmptyHead ==
    order = << >> =>
        /\ node[head].next = Null /\ node[head].prev = Null
        /\ node[head].fd =
               IF pc[Main] \in {"fillClient", "fillNext", "fillPrev"} THEN loc[Main].conn ELSE 0
        /\ node[head].client =
               IF pc[Main] \in {"fillNext", "fillPrev"} THEN loc[Main].conn ELSE Null

(* main adds a connection that nobody has seen, in the place for it.       *)
Appends ==
    pc[Main] \in Adding =>
        /\ loc[Main].conn = conns /\ conns \notin watched \cup gone /\ conns > 0
        /\ \A i \in 1 .. Len(order) : node[order[i]].client # conns
        /\ \A t \in Callers : loc[t].conn # conns
        /\ pc[Main] \in {"fillFd", "fillClient", "fillNext", "fillPrev"} => order = << >>
        /\ pc[Main] \in {"addHead", "addTest", "addNext", "addNew", "addLink"} => order # << >>
        /\ pc[Main] = "addNext" => Mine(Main) # order[Len(order)]
        /\ pc[Main] \in {"addNew", "addLink"} => Mine(Main) = order[Len(order)]
        /\ pc[Main] = "addLink" =>
            /\ Alive(loc[Main].ptr) /\ loc[Main].ptr \notin Listed
            /\ node[loc[Main].ptr] = [fd |-> conns, client |-> conns, next |-> Null,
                                      prev |-> Mine(Main)]

(* malloc is called once for each connection after the first.              *)
NodeCount ==
    \/ Len(node) = 1
    \/ IF pc[Main] \in Adding \ {"addLink"} THEN Len(node) < conns ELSE Len(node) <= conns

(* A freed client is met only in the node of one who deletes it.           *)
GoneHeld ==
    \A n \in Nodes : Alive(n) /\ node[n].client \in gone => InDeletion(n)

-----------------------------------------------------------------------------
(* What each thread holds.                                                 *)

Walking == {"match", "uid", "beat", "step", "client", "age", "freeClient", "addTest", "addNext"}
KeptBy(t, n) == n = Null \/ Alive(n) \/ n \in loc[t].during
Held ==
    \A t \in Threads :
        /\ pc[t] \in Walking => KeptBy(t, Mine(t))
        /\ pc[t] \in Walking \ Loops => Mine(t) # Null
        /\ KeptBy(t, loc[t].walk)

(* The node was full when the thread looked, and if it is not so now it    *)
(* was emptied or filled since.                                            *)
Looked ==
    \A t \in Closers :
        Alive(Mine(t)) =>
            /\ pc[t] \in {"age", "freeClient"} =>
                Mine(t) \in loc[t].during \/ node[Mine(t)].fd # 0
            /\ pc[t] = "client" =>
                Mine(t) \in loc[t].during \/ node[Mine(t)].fd = loc[t].conn

(* is_exists_fd has not passed the node it looks for.                      *)
Sought(t, i) == Settled(order[i]) /\ node[order[i]].fd = loc[t].conn
NotPassed ==
    \A t \in Callers :
        /\ loc[t].call # "none" => loc[t].conn \in 1 .. conns
        /\ loc[t].call = "exists" =>
            \A i \in 1 .. Len(order) : Sought(t, i) =>
                /\ pc[t] = "match" => Mine(t) # Null
                /\ pc[t] \in {"match", "step"} /\ Alive(Mine(t)) =>
                    \E j \in 1 .. i : order[j] = Mine(t) /\ (pc[t] = "step" => j < i)

(* Nobody has come to the node that main has not linked yet.               *)
Unseen ==
    \A t \in Closers : \A n \in {Mine(t), loc[t].walk} :
        /\ n # Null => n \in DOMAIN node
        /\ pc[Main] = "addLink" => n # loc[Main].ptr

Good ==
    /\ ListShape /\ HeadFirst /\ NextChain /\ PrevChain /\ FirstPrev
    /\ RightBranch /\ Contents /\ EmptyHead /\ Appends /\ NodeCount /\ GoneHeld
    /\ Held /\ Looked /\ NotPassed /\ Unseen

RacesInv ==
    /\ TypeOK /\ OwnCode
    /\ ~Clash => Alive(head) \/ replaced
    /\ ~Clash /\ Alive(head) => Good
    /\ StaleOnlyIfHeld /\ NullOnlyAtHead /\ NeverMisled

-----------------------------------------------------------------------------
(* Induction over an interval, from the pigeonhole principle: if S missed  *)
(* m, adding one would map the members of S up to m into those after 1.    *)
LEMMA UpTo ==
  ASSUME NEW n \in Nat, NEW S, n > 0 => 1 \in S,
         \A i \in 1 .. n - 1 : i \in S => i + 1 \in S
  PROVE  1 .. n \subseteq S
<1> SUFFICES ASSUME NEW m \in 1 .. n, m \notin S
             PROVE  FALSE
  OBVIOUS
<1> DEFINE T == {i \in 1 .. m : i \in S}
           f == [i \in T |-> i + 1]
<1>1. T \in SUBSET (1 .. m) /\ 1 \in T
  OBVIOUS
<1>2. f \in [T -> T \ {1}] /\ \A x, y \in T : f[x] = f[y] => x = y
  <2>1. ASSUME NEW i \in T
        PROVE  i + 1 \in T \ {1}
    <3>1. i # m
      OBVIOUS
    <3> QED
      BY <3>1
  <2> QED
    BY <2>1
<1> HIDE DEF T, f
<1>3. IsFiniteSet(T)
  <2>1. IsFiniteSet(1 .. m)
    BY FS_Interval
  <2> QED
    BY <1>1, <2>1, FS_Subset
<1>4. Cardinality(T) \in Nat
  BY <1>3, FS_CardinalityType
<1>5. IsFiniteSet(T \ {1}) /\ Cardinality(T \ {1}) = Cardinality(T) - 1
  BY <1>1, <1>3, FS_RemoveElement
<1>6. Cardinality(T \ {1}) < Cardinality(T)
  BY <1>4, <1>5
<1>7. \E x, y \in T : x # y /\ f[x] = f[y]
  BY <1>2, <1>3, <1>5, <1>6, FS_PigeonHole
<1> QED
  BY <1>2, <1>7

(* Taking the i-th element out of a sequence.                              *)
LEMMA RemovalAt ==
  ASSUME NEW S, NEW s \in Seq(S), NEW i \in 1 .. Len(s)
  PROVE  /\ RemoveAt(s, i) \in Seq(S)
         /\ Len(RemoveAt(s, i)) = Len(s) - 1
         /\ \A j \in 1 .. Len(s) - 1 :
              RemoveAt(s, i)[j] = IF j < i THEN s[j] ELSE s[j + 1]
<1>0. Len(s) \in Nat
  BY LenProperties
<1>1. \A j \in 1 .. Len(s) : s[j] \in S
  BY ElementOfSeq
<1> DEFINE a == SubSeq(s, 1, i - 1)
           b == SubSeq(s, i + 1, Len(s))
<1>2. /\ a \in Seq(S) /\ Len(a) = i - 1
      /\ \A j \in 1 .. i - 1 : a[j] = s[j]
  BY <1>0, <1>1, SubSeqProperties
<1>3. /\ b \in Seq(S) /\ Len(b) = Len(s) - i
      /\ \A j \in 1 .. Len(s) - i : b[j] = s[i + j]
  BY <1>0, <1>1, SubSeqProperties
<1>4. RemoveAt(s, i) = a \o b
  BY DEF RemoveAt
<1> HIDE DEF a, b
<1>5. /\ a \o b \in Seq(S) /\ Len(a \o b) = Len(a) + Len(b)
      /\ \A j \in 1 .. Len(a) + Len(b) :
           (a \o b)[j] = IF j <= Len(a) THEN a[j] ELSE b[j - Len(a)]
  BY <1>2, <1>3, ConcatProperties
<1> DEFINE r == a \o b
<1> HIDE DEF r
<1>6. /\ r \in Seq(S) /\ Len(r) = Len(s) - 1
      /\ \A j \in 1 .. Len(s) - 1 :
           r[j] = IF j <= i - 1 THEN a[j] ELSE b[j - (i - 1)]
  BY <1>0, <1>2, <1>3, <1>5 DEF r
<1>7. ASSUME NEW j \in 1 .. Len(s) - 1
      PROVE  r[j] = IF j < i THEN s[j] ELSE s[j + 1]
  <2>1. CASE j < i
    BY <1>0, <1>2, <1>6, <2>1
  <2>2. CASE ~(j < i)
    <3>1. j - (i - 1) \in 1 .. Len(s) - i /\ i + (j - (i - 1)) = j + 1
      BY <1>0, <2>2
    <3> QED
      BY <1>0, <1>3, <1>6, <2>2, <3>1
  <2> QED
    BY <2>1, <2>2
<1> QED
  BY <1>4, <1>6, <1>7 DEF r

-----------------------------------------------------------------------------
(* The threads and their steps.                                            *)

LEMMA Kinds ==
  /\ Callers \subseteq Closers /\ Closers \subseteq Threads /\ Threads = Closers \cup {Main}
  /\ Heart \in Closers /\ Heart \notin Callers
  /\ Main \in Threads /\ Main \notin Closers
BY RacesAssumption DEF Threads, Closers

LEMMA Bounds ==
  /\ MaxConn \in Nat \ {0} /\ Null \notin Nodes /\ Null \notin 0 .. MaxConn
  /\ Conn = Nodes /\ Nodes = 1 .. MaxConn
BY RacesAssumption DEF Conn, Nodes

LEMMA NullNotGone ==
  ASSUME TypeOK
  PROVE  Null \notin gone /\ Null \notin 1 .. conns /\ 1 .. conns \subseteq Nodes /\ Null # 0
<1>1. gone \subseteq 1 .. conns /\ conns \in 0 .. MaxConn
  BY DEF TypeOK
<1>2. 1 .. conns \subseteq 1 .. MaxConn
  BY <1>1, Bounds
<1>3. 0 \in 0 .. MaxConn /\ 1 .. MaxConn \subseteq 0 .. MaxConn
  BY Bounds
<1> QED
  BY <1>1, <1>2, <1>3, Bounds, Zenon

(* Who is in which code.                                                   *)
LEMMA Code ==
  ASSUME OwnCode
  PROVE  /\ pc[Main] \in {"accept"} \cup Adding
         /\ \A t \in Closers : pc[t] \notin Adding /\ pc[t] # "accept"
         /\ \A t \in Callers : pc[t] \notin {"sleep", "beat", "age"}
         /\ pc[Heart] \notin {"idle", "match", "client", "uid"}
         /\ \A t \in Threads : pc[t] = Idle(t) <=> loc[t].call = "none"
<1>1. pc[Main] \in {"accept"} \cup Adding /\ (pc[Main] = "accept" <=> loc[Main].call = "none")
  BY Kinds DEF OwnCode, CallsOf, LabelsOf, Idle, Adding
<1>2. ASSUME NEW t \in Closers
      PROVE  /\ pc[t] \notin Adding /\ pc[t] # "accept" /\ t # Main /\ t \in Threads
             /\ pc[t] = Idle(t) <=> loc[t].call = "none"
             /\ t # Heart => pc[t] \notin {"sleep", "beat", "age"}
             /\ t = Heart => pc[t] \notin {"idle", "match", "client", "uid"}
  <2>1. t # Main /\ t \in Threads
    BY Kinds
  <2>2. loc[t].call \in CallsOf(t) /\ pc[t] \in LabelsOf(t, loc[t].call)
    BY <2>1 DEF OwnCode
  <2>3. CASE t = Heart
    BY <2>1, <2>2, <2>3 DEF CallsOf, LabelsOf, Idle, Adding, Deleting
  <2>4. CASE t # Heart
    BY <2>1, <2>2, <2>4 DEF CallsOf, LabelsOf, Idle, Adding, Deleting
  <2> QED
    BY <2>1, <2>3, <2>4
<1> QED
  BY <1>1, <1>2, Kinds DEF Idle

LEMMA Parts ==
  ASSUME RacesInv, Sound
  PROVE  /\ TypeOK /\ OwnCode /\ ListShape /\ HeadFirst /\ NextChain /\ PrevChain /\ FirstPrev
         /\ RightBranch /\ Contents /\ EmptyHead /\ Appends /\ NodeCount /\ GoneHeld
         /\ Held /\ Looked /\ NotPassed /\ Unseen
         /\ ~Clash /\ Alive(head) /\ misled = "no" /\ broken = << >>
BY DEF RacesInv, Good, Sound

(* The converse: it is enough to follow the list while it is in order.     *)
LEMMA Whole ==
  ASSUME TypeOK', OwnCode', misled' \in {"no", "refilled"}, broken' = << >>,
         (~Clash)' => (Alive(head) \/ replaced)',
         (~Clash)' /\ Alive(head)' => Good'
  PROVE  RacesInv'
BY DEF RacesInv, StaleOnlyIfHeld, NullOnlyAtHead, NeverMisled

Moves(t, label, r) ==
    /\ pc' = [pc EXCEPT ![t] = label]
    /\ loc' = [loc EXCEPT ![t] = r]

LEMMA Moved ==
  ASSUME TypeOK, NEW t \in Threads, NEW label \in Labels, NEW r \in Locals,
         Moves(t, label, r)
  PROVE  /\ pc' \in [Threads -> Labels] /\ loc' \in [Threads -> Locals]
         /\ pc'[t] = label /\ loc'[t] = r
         /\ \A u \in Threads : u # t => pc'[u] = pc[u] /\ loc'[u] = loc[u]
BY DEF TypeOK, Moves

(* A step of t within an operation that changes the list: t keeps its      *)
(* locals but for ptr, and all that change for the others is `during'.     *)
Advances(t, label) ==
    /\ pc' \in [Threads -> Labels] /\ loc' \in [Threads -> Locals]
    /\ pc'[t] = label
    /\ \A u \in Threads : u # t => pc'[u] = pc[u] /\ loc'[u].ptr = loc[u].ptr
    /\ \A u \in Threads :
          /\ loc'[u].call = loc[u].call /\ loc'[u].conn = loc[u].conn
          /\ loc'[u].node = loc[u].node /\ loc'[u].walk = loc[u].walk
          /\ loc[u].during \subseteq loc'[u].during
          /\ pc[u] = Idle(u) /\ u # t => loc'[u] = loc[u]

LEMMA StayAdvances ==
  ASSUME TypeOK, NEW t \in Threads, NEW label \in Labels, Stay(t, label)
  PROVE  Advances(t, label) /\ loc'[t].ptr = loc[t].ptr
BY DEF TypeOK, Stay, Goto, Advances

LEMMA PtrAdvances ==
  ASSUME TypeOK, NEW t \in Threads, NEW label \in Labels, NEW n \in Pointers,
         Hold(t, label, "ptr", n)
  PROVE  Advances(t, label) /\ loc'[t].ptr = n
<1>1. loc[t] \in Locals /\ [loc[t] EXCEPT !.ptr = n] \in Locals
  BY DEF TypeOK, Locals
<1>2. Moves(t, label, [loc[t] EXCEPT !.ptr = n])
  BY DEF Hold, Goto, Moves
<1>3. /\ pc' \in [Threads -> Labels] /\ loc' \in [Threads -> Locals]
      /\ pc'[t] = label /\ loc'[t] = [loc[t] EXCEPT !.ptr = n]
      /\ \A u \in Threads : u # t => pc'[u] = pc[u] /\ loc'[u] = loc[u]
  BY <1>1, <1>2, Moved
<1>4. \A u \in Threads : loc[u] \in Locals
  BY DEF TypeOK
<1> QED
  BY <1>1, <1>3, <1>4 DEF Advances, Locals

LEMMA NotingAdvances ==
  ASSUME TypeOK, NEW t \in Threads, NEW label \in Labels, NEW n \in Nodes,
         StayNoting(t, label, n)
  PROVE  /\ Advances(t, label) /\ loc'[t].ptr = loc[t].ptr
         /\ \A u \in Threads : pc[u] # Idle(u) => n \in loc'[u].during
<1>1. ASSUME NEW u \in Threads
      PROVE  /\ loc[u] \in Locals
             /\ loc'[u] = IF pc[u] = Idle(u) THEN loc[u]
                          ELSE [loc[u] EXCEPT !.during = loc[u].during \cup {n}]
  BY DEF TypeOK, StayNoting
<1>2. ASSUME NEW u \in Threads
      PROVE  /\ loc'[u] \in Locals
             /\ loc'[u].call = loc[u].call /\ loc'[u].conn = loc[u].conn
             /\ loc'[u].node = loc[u].node /\ loc'[u].walk = loc[u].walk
             /\ loc'[u].ptr = loc[u].ptr /\ loc[u].during \subseteq loc'[u].during
             /\ pc[u] = Idle(u) => loc'[u] = loc[u]
             /\ pc[u] # Idle(u) => n \in loc'[u].during
  <2>1. CASE pc[u] = Idle(u)
    BY <1>1, <2>1
  <2>2. CASE pc[u] # Idle(u)
    <3> PICK r \in Locals : r = loc[u]
      BY <1>1
    <3>1. loc'[u] = [r EXCEPT !.during = r.during \cup {n}]
      BY <1>1, <2>2
    <3> QED
      BY <2>2, <3>1 DEF Locals
  <2> QED
    BY <2>1, <2>2
<1>3. loc' \in [Threads -> Locals]
  BY <1>2 DEF StayNoting
<1>4. /\ pc' \in [Threads -> Labels] /\ pc'[t] = label
      /\ \A u \in Threads : u # t => pc'[u] = pc[u]
  BY DEF TypeOK, StayNoting, Goto
<1> QED
  BY <1>2, <1>3, <1>4 DEF Advances

-----------------------------------------------------------------------------
(* Deletions of nodes that are no neighbours do not meet.                  *)

(* Around the node that t deletes nobody else deletes, and main does not   *)
(* append to it.                                                           *)
LEMMA Alone ==
  ASSUME RacesInv, Sound, NEW t \in Closers, pc[t] \in Deleting,
         NEW i \in 1 .. Len(order), order[i] = Mine(t)
  PROVE  /\ \A u \in Closers, j \in 1 .. Len(order) :
              u # t /\ pc[u] \in Deleting /\ order[j] = Mine(u) => j \notin {i - 1, i, i + 1}
         /\ pc[Main] \in Adding => i # Len(order)
<1>0. i \in Int /\ t \in Threads /\ ~Clash /\ order \in Seq(Nodes) /\ Len(order) \in Nat
  BY Kinds, Parts DEF TypeOK
<1>1. ASSUME NEW u \in Closers, NEW j \in 1 .. Len(order),
             u # t, pc[u] \in Deleting, order[j] = Mine(u)
      PROVE  j \notin {i - 1, i, i + 1}
  <2>1. u \in Threads /\ ~Neighbours(Mine(t), Mine(u))
    BY <1>0, <1>1, Kinds DEF Clash
  <2>2. i - j \notin {-1, 0, 1}
    BY <1>1, <2>1 DEF Neighbours
  <2> QED
    BY <1>0, <2>2
<1>2. ASSUME pc[Main] \in Adding
      PROVE  i # Len(order)
  <2>1. Main \in Threads /\ Main # t
    BY Kinds
  <2>2. ~(order # << >> => Mine(t) = order[Len(order)])
    BY <1>0, <1>2, <2>1 DEF Clash
  <2> QED
    BY <2>2
<1> QED
  BY <1>1, <1>2

(* The deletions under way, as t's label says of its own node.             *)
LEMMA DeleterNow ==
  ASSUME RacesInv, Sound, NEW t \in Closers, pc[t] \in Deleting, NEW L \in SUBSET Deleting
  PROVE  /\ Deleter(Mine(t), L) <=> pc[t] \in L
         /\ \A i, j \in 1 .. Len(order) :
              order[i] = Mine(t) /\ j \in {i - 1, i + 1} => ~Deleter(order[j], L)
<1>1. PICK k \in 1 .. Len(order) : order[k] = Mine(t)
  BY Parts DEF RightBranch, Branches
<1>2. ASSUME NEW u \in Closers, pc[u] \in L, Mine(u) = Mine(t)
      PROVE  u = t
  BY <1>1, <1>2, Alone
<1>3. ASSUME NEW i \in 1 .. Len(order), NEW j \in 1 .. Len(order),
             order[i] = Mine(t), j \in {i - 1, i + 1}
      PROVE  ~Deleter(order[j], L)
  <2> SUFFICES ASSUME NEW u \in Closers, pc[u] \in L, Mine(u) = order[j]
               PROVE  FALSE
    BY DEF Deleter
  <2>1. u # t
    <3>1. i # j /\ order[i] # order[j]
      BY <1>3, Parts DEF ListShape
    <3> QED
      BY <1>3, <3>1
  <2> QED
    BY <1>3, <2>1, Alone
<1> QED
  BY <1>2, <1>3 DEF Deleter

LEMMA DeleterNext ==
  ASSUME RacesInv, Sound, NEW t \in Closers, pc[t] \in Deleting, NEW L \in SUBSET Deleting,
         NEW label \in Deleting \cup {"close"}, Advances(t, label)
  PROVE  \A n : Deleter(n, L)' <=> IF n = Mine(t) THEN label \in L ELSE Deleter(n, L)
<1>1. ASSUME NEW u \in Closers
      PROVE  /\ Mine(u)' = Mine(u)
             /\ pc'[u] = IF u = t THEN label ELSE pc[u]
  BY Kinds DEF Advances, Mine
<1>2. ASSUME NEW n, n # Mine(t)
      PROVE  Deleter(n, L)' <=> Deleter(n, L)
  BY <1>1, <1>2 DEF Deleter
<1>3. Deleter(Mine(t), L)' <=> label \in L
  <2>1. ASSUME NEW u \in Closers, u # t, Mine(u) = Mine(t)
        PROVE  pc[u] \notin L
    <3>1. PICK k \in 1 .. Len(order) : order[k] = Mine(t)
      BY Parts DEF RightBranch, Branches
    <3> QED
      BY <2>1, <3>1, Alone
  <2>2. \A n : Deleter(n, L)' <=> \E u \in Closers : Mine(u)' = n /\ pc'[u] \in L
    BY DEF Deleter
  <2> QED
    BY <1>1, <2>1, <2>2
<1> QED
  BY <1>1, <1>2, <1>3

LEMMA PhasesNow ==
  ASSUME RacesInv, Sound, NEW t \in Closers, pc[t] \in Deleting,
         NEW i \in 1 .. Len(order), order[i] = Mine(t)
  PROVE  /\ InDeletion(order[i])
         /\ PassedOver(order[i]) <=> pc[t] \in {"selfPrev", "freeHead"}
         /\ SelfLinked(order[i]) <=> pc[t] = "freeHead"
         /\ Bridged(order[i]) <=> pc[t] \in {"following", "backLink", "freeNode"}
         /\ Unlinked(order[i]) <=> pc[t] = "freeNode"
         /\ NoFd(order[i]) <=> pc[t] \in {"zeroClient", "zeroPrev", "zeroNext"}
         /\ NoClient(order[i]) <=> pc[t] \in {"zeroPrev", "zeroNext"}
         /\ \A j \in 1 .. Len(order) : j \in {i - 1, i + 1} =>
              /\ ~InDeletion(order[j]) /\ ~PassedOver(order[j]) /\ ~SelfLinked(order[j])
              /\ ~Bridged(order[j]) /\ ~Unlinked(order[j])
              /\ ~NoFd(order[j]) /\ ~NoClient(order[j])
BY DeleterNow, Zenon
   DEF Deleting, InDeletion, PassedOver, SelfLinked, Bridged, Unlinked, NoFd, NoClient

LEMMA PhasesNext ==
  ASSUME RacesInv, Sound, NEW t \in Closers, pc[t] \in Deleting,
         NEW label \in Deleting, Advances(t, label)
  PROVE  \A n :
           /\ InDeletion(n)' <=> InDeletion(n)
           /\ PassedOver(n)' <=> IF n = Mine(t) THEN label \in {"selfPrev", "freeHead"}
                                 ELSE PassedOver(n)
           /\ SelfLinked(n)' <=> IF n = Mine(t) THEN label = "freeHead" ELSE SelfLinked(n)
           /\ Bridged(n)' <=> IF n = Mine(t) THEN label \in {"following", "backLink", "freeNode"}
                              ELSE Bridged(n)
           /\ Unlinked(n)' <=> IF n = Mine(t) THEN label = "freeNode" ELSE Unlinked(n)
           /\ NoFd(n)' <=> IF n = Mine(t) THEN label \in {"zeroClient", "zeroPrev", "zeroNext"}
                           ELSE NoFd(n)
           /\ NoClient(n)' <=> IF n = Mine(t) THEN label \in {"zeroPrev", "zeroNext"}
                               ELSE NoClient(n)
<1>1. \A L \in SUBSET Deleting : \A n :
        Deleter(n, L)' <=> IF n = Mine(t) THEN label \in L ELSE Deleter(n, L)
  BY DeleterNext
<1>2. Deleter(Mine(t), Deleting)
  BY DeleterNow
<1>3. /\ Deleting \in SUBSET Deleting /\ {"selfPrev", "freeHead"} \in SUBSET Deleting
      /\ {"freeHead"} \in SUBSET Deleting /\ {"freeNode"} \in SUBSET Deleting
      /\ {"following", "backLink", "freeNode"} \in SUBSET Deleting
      /\ {"zeroClient", "zeroPrev", "zeroNext"} \in SUBSET Deleting
      /\ {"zeroPrev", "zeroNext"} \in SUBSET Deleting
  BY DEF Deleting
<1> QED
  BY <1>1, <1>2, <1>3
     DEF InDeletion, PassedOver, SelfLinked, Bridged, Unlinked, NoFd, NoClient

LEMMA PhasesEnd ==
  ASSUME RacesInv, Sound, NEW t \in Closers, pc[t] \in Deleting, Advances(t, "close")
  PROVE  \A n :
           /\ InDeletion(n)' <=> n # Mine(t) /\ InDeletion(n)
           /\ PassedOver(n)' <=> n # Mine(t) /\ PassedOver(n)
           /\ SelfLinked(n)' <=> n # Mine(t) /\ SelfLinked(n)
           /\ Bridged(n)' <=> n # Mine(t) /\ Bridged(n)
           /\ Unlinked(n)' <=> n # Mine(t) /\ Unlinked(n)
           /\ NoFd(n)' <=> n # Mine(t) /\ NoFd(n)
           /\ NoClient(n)' <=> n # Mine(t) /\ NoClient(n)
<1>1. "close" \notin Deleting /\ "close" \in Deleting \cup {"close"}
  BY DEF Deleting
<1>2. \A L \in SUBSET Deleting : \A n : Deleter(n, L)' <=> n # Mine(t) /\ Deleter(n, L)
  BY <1>1, DeleterNext
<1>3. /\ Deleting \in SUBSET Deleting /\ {"selfPrev", "freeHead"} \in SUBSET Deleting
      /\ {"freeHead"} \in SUBSET Deleting /\ {"freeNode"} \in SUBSET Deleting
      /\ {"following", "backLink", "freeNode"} \in SUBSET Deleting
      /\ {"zeroClient", "zeroPrev", "zeroNext"} \in SUBSET Deleting
      /\ {"zeroPrev", "zeroNext"} \in SUBSET Deleting
  BY DEF Deleting
<1> QED
  BY <1>2, <1>3
     DEF InDeletion, PassedOver, SelfLinked, Bridged, Unlinked, NoFd, NoClient

(* A closer that is not in del_fd2client, and its search, are known apart. *)
LEMMA InCode ==
  ASSUME OwnCode, NEW t \in Closers, pc[t] \in Deleting
  PROVE  /\ loc[t].call \in {"close", "beat"} /\ pc[t] # Idle(t)
         /\ Deleting \cup {"close"} \subseteq LabelsOf(t, loc[t].call)
         /\ Deleting \cap (Adding \cup Walking) = {} /\ Deleting \subseteq Labels
<1>1. loc[t].call \in CallsOf(t) /\ pc[t] \in LabelsOf(t, loc[t].call) /\ t # Main
  BY Kinds DEF OwnCode
<1>2. loc[t].call \in {"close", "beat"}
  BY <1>1 DEF CallsOf, LabelsOf, Idle, Deleting
<1>3. Deleting \cup {"close"} \subseteq LabelsOf(t, loc[t].call)
  BY <1>2 DEF LabelsOf
<1> QED
  BY <1>2, <1>3 DEF Idle, Deleting, Adding, Walking, Labels

LEMMA CodeAdvances ==
  ASSUME OwnCode, NEW t \in Closers, pc[t] \in Deleting,
         NEW label \in Deleting \cup {"close"}, Advances(t, label)
  PROVE  OwnCode'
<1>1. t \in Threads /\ pc'[t] = label
  BY Kinds DEF Advances
<1> SUFFICES ASSUME NEW u \in Threads
             PROVE  /\ loc'[u].call \in CallsOf(u)
                    /\ pc'[u] \in LabelsOf(u, loc'[u].call)
                    /\ loc'[u].call = "none" => loc'[u] = NoLocals
  BY DEF OwnCode, CallsOf, LabelsOf, Idle
<1>2. loc'[u].call = loc[u].call
  BY DEF Advances
<1>3. CASE u = t
  BY <1>1, <1>2, <1>3, InCode DEF OwnCode
<1>4. CASE u # t
  <2>1. pc'[u] = pc[u]
    BY <1>4 DEF Advances
  <2>2. loc[u].call = "none" => loc'[u] = loc[u]
    BY <1>4, Code DEF Advances
  <2> QED
    BY <1>2, <2>1, <2>2 DEF OwnCode
<1> QED
  BY <1>3, <1>4

LEMMA UnseenAdvances ==
  ASSUME Unseen, NEW t \in Closers, NEW label, Advances(t, label), DOMAIN node' = DOMAIN node
  PROVE  Unseen'
BY Kinds DEF Unseen, Advances, Mine

(* What holds after any step within del_fd2client but its last: the fields *)
(* change in nodes in use only, and nobody who looks at one is deceived.   *)
LEMMA DeletingKeeps ==
  ASSUME RacesInv, Sound, NEW t \in Closers, pc[t] \in Deleting,
         NEW label \in Deleting, Advances(t, label),
         node' \in Seq(Fields), Len(node') = Len(node),
         head' \in 1 .. Len(node) \ freed, replaced' \in BOOLEAN,
         freed' = freed, gone' = gone, conns' = conns, watched' = watched,
         order' = order, misled' = misled, broken' = broken,
         \A n \in 1 .. Len(node) :
            /\ n \notin Listed => node'[n] = node[n]
            /\ node'[n].client \in {node[n].client, Null}
            /\ node'[n].fd \in {node[n].fd, 0}
            /\ node'[n].fd = node[n].fd \/
               \A u \in Closers : pc[u] # Idle(u) => n \in loc'[u].during,
         HeadFirst', NextChain', PrevChain', FirstPrev', RightBranch', Contents'
  PROVE  RacesInv'
<1>1. /\ TypeOK /\ OwnCode /\ order \in Seq(Nodes) /\ Len(order) \in Nat
      /\ node \in Seq(Fields) /\ Len(node) \in Nat /\ Len(node) <= MaxConn
      /\ DOMAIN node = 1 .. Len(node) /\ DOMAIN node' = 1 .. Len(node)
  BY Parts DEF TypeOK
<1>2. /\ t \in Threads /\ t # Main /\ pc[t] \notin Adding \cup Walking \cup {"accept"}
      /\ label \notin Adding \cup Walking \cup {"accept"}
      /\ Main \in Threads /\ pc'[t] = label
  BY <1>1, Code, InCode, Kinds DEF Advances, Deleting, Walking, Adding
<1>3. \A u \in Threads :
        /\ pc'[u] = IF u = t THEN label ELSE pc[u]
        /\ Mine(u)' = Mine(u) /\ loc'[u].call = loc[u].call /\ loc'[u].conn = loc[u].conn
        /\ loc'[u].walk = loc[u].walk /\ loc[u].during \subseteq loc'[u].during
        /\ u # t => loc'[u].ptr = loc[u].ptr
        /\ pc[u] = Idle(u) /\ u # t => loc'[u] = loc[u]
  BY <1>2 DEF Advances, Mine
<1>4. \A n : Alive(n)' <=> Alive(n)
  BY <1>1 DEF Alive
<1>5. \A n : Alive(n) => n \in 1 .. Len(node) /\ n \in Nodes
  BY <1>1, Bounds DEF Alive
<1>6. \A n : InDeletion(n)' <=> InDeletion(n)
  BY PhasesNext
<1>7. order # << >> /\ Listed' = Listed /\ \A i \in 1 .. Len(order) : order[i] \in Listed
  BY Parts, <1>1 DEF RightBranch, Branches, Listed
<1>8. \A n : Settled(n)' => Settled(n)
  <2>1. ASSUME NEW u \in Closers
        PROVE  /\ pc'[u] \in Deleting \cup {"freeClient"} <=> pc[u] \in Deleting \cup {"freeClient"}
               /\ Mine(u)' = Mine(u)
    BY <1>3, Kinds
  <2> QED
    BY <1>7, <2>1 DEF Settled
<1>9. TypeOK'
  BY <1>1, Bounds DEF TypeOK, Advances, Pointers, Nodes
<1>10. OwnCode'
  BY <1>1, CodeAdvances
<1>11. ListShape'
  BY <1>2, <1>3, <1>4, <1>7, Parts DEF ListShape
<1>12. EmptyHead'
  BY <1>7 DEF EmptyHead
<1>13. Appends'
  <2> SUFFICES ASSUME pc[Main] \in Adding
               PROVE  Appends'
    BY <1>2, <1>3 DEF Appends
  <2>1. conns > 0 /\ conns \in 0 .. MaxConn /\ conns # Null
    BY <1>1, Parts, Bounds DEF Appends, TypeOK
  <2>2. \A i \in 1 .. Len(order) : node'[order[i]].client # conns
    <3> TAKE i \in 1 .. Len(order)
    <3>1. order[i] \in 1 .. Len(node)
      BY <1>5, Parts DEF ListShape
    <3> QED
      BY <2>1, <3>1, Parts DEF Appends
  <2>3. pc[Main] = "addLink" =>
          /\ node'[loc[Main].ptr] = node[loc[Main].ptr]
          /\ loc'[Main].ptr = loc[Main].ptr
    BY <1>2, <1>3, <1>5, Parts DEF Appends
  <2>4. \A u \in Callers : loc'[u].conn = loc[u].conn
    BY <1>3, Kinds
  <2>5. Main # t /\ pc'[Main] = pc[Main] /\ Mine(Main)' = Mine(Main)
        /\ loc'[Main].conn = loc[Main].conn
    BY <1>2, <1>3
  <2> QED
    BY <1>4, <1>7, <2>1, <2>2, <2>3, <2>4, <2>5, Parts DEF Appends
<1>14. NodeCount'
  BY <1>2, <1>3, Parts DEF NodeCount
<1>15. GoneHeld'
  <2> SUFFICES ASSUME NEW n \in Nodes, Alive(n), node'[n].client \in gone
               PROVE  InDeletion(n)
    BY <1>4, <1>6 DEF GoneHeld
  <2>1. node'[n].client = node[n].client
    <3>1. Null \notin gone
      BY NullNotGone, Parts
    <3> QED
      BY <1>5, <3>1
  <2> QED
    BY <2>1, Parts DEF GoneHeld
<1>16. Held'
  <2> SUFFICES ASSUME NEW u \in Threads
               PROVE  /\ pc'[u] \in Walking => KeptBy(u, Mine(u))'
                      /\ pc'[u] \in Walking \ Loops => Mine(u)' # Null
                      /\ KeptBy(u, loc[u].walk)'
    BY DEF Held
  <2>1. \A n : KeptBy(u, n) => n = Null \/ Alive(n)' \/ n \in loc'[u].during
    BY <1>3, <1>4 DEF KeptBy
  <2>2. pc'[u] \in Walking => pc'[u] = pc[u]
    BY <1>2, <1>3
  <2> QED
    BY <1>3, <2>1, <2>2, Parts DEF Held, KeptBy
<1>17. Looked'
  <2> SUFFICES ASSUME NEW u \in Closers, Alive(Mine(u))', pc'[u] \in {"age", "freeClient", "client"}
               PROVE  /\ pc'[u] \in {"age", "freeClient"} =>
                           Mine(u) \in loc'[u].during \/ node'[Mine(u)].fd # 0
                      /\ pc'[u] = "client" =>
                           Mine(u) \in loc'[u].during \/ node'[Mine(u)].fd = loc[u].conn
    BY <1>3, Kinds DEF Looked
  <2>1. u # t /\ u \in Threads /\ pc'[u] = pc[u] /\ pc[u] # Idle(u)
    BY <1>2, <1>3, Kinds DEF Walking, Idle
  <2>2. Alive(Mine(u)) /\ Mine(u) \in 1 .. Len(node) /\ loc[u].during \subseteq loc'[u].during
    BY <1>3, <1>4, <1>5, <2>1
  <2>3. CASE node'[Mine(u)].fd = node[Mine(u)].fd
    BY <2>1, <2>2, <2>3, Parts DEF Looked
  <2>4. CASE Mine(u) \in loc'[u].during
    BY <2>4
  <2> QED
    BY <2>1, <2>2, <2>3, <2>4
<1>18. NotPassed'
  <2> SUFFICES ASSUME NEW u \in Callers
               PROVE  /\ loc[u].call # "none" => loc[u].conn \in 1 .. conns
                      /\ loc[u].call = "exists" =>
                          \A i \in 1 .. Len(order) : Sought(u, i)' =>
                            /\ pc'[u] = "match" => Mine(u) # Null
                            /\ pc'[u] \in {"match", "step"} /\ Alive(Mine(u)) =>
                                \E j \in 1 .. i : order[j] = Mine(u) /\ (pc'[u] = "step" => j < i)
    BY <1>3, <1>4, Kinds DEF NotPassed
  <2>1. pc'[u] \in {"match", "step"} => pc'[u] = pc[u]
    BY <1>2, <1>3, Kinds DEF Walking
  <2>2. ASSUME loc[u].call = "exists", NEW i \in 1 .. Len(order), Sought(u, i)'
        PROVE  Sought(u, i)
    <3>1. order[i] \in 1 .. Len(node) /\ loc'[u].conn = loc[u].conn /\ loc[u].conn \in 1 .. conns
      BY <1>3, <1>5, <2>2, Kinds, Parts DEF ListShape, NotPassed
    <3>2. node'[order[i]].fd = node[order[i]].fd
      BY <2>2, <3>1 DEF Sought
    <3> QED
      BY <1>8, <2>2, <3>1, <3>2 DEF Sought
  <2> QED
    BY <2>1, <2>2, Parts DEF NotPassed
<1>19. Good' /\ Alive(head)'
  <2>1. Unseen'
    BY <1>1, Parts, UnseenAdvances
  <2> QED
    BY <2>1, <1>1, <1>11, <1>12, <1>13, <1>14, <1>15, <1>16, <1>17, <1>18 DEF Good, Alive
<1> QED
  BY <1>9, <1>10, <1>19, Parts, Whole

-----------------------------------------------------------------------------
(* The branches of del_fd2client, step by step.                            *)

(* What a thread in del_fd2client reads.                                   *)
LEMMA Deletes ==
  ASSUME RacesInv, Sound, NEW t \in Closers, pc[t] \in Deleting
  PROVE  \E i \in 1 .. Len(order) :
           /\ order[i] = Mine(t) /\ Mine(t) \in Listed
           /\ order # << >> /\ Len(order) \in Nat /\ i \in Int
           /\ \A j \in 1 .. Len(order) : order[j] \in 1 .. Len(node) /\ order[j] \in Nodes
           /\ \A j, k \in 1 .. Len(order) : order[j] = order[k] => j = k
           /\ Branches(t)
<1>1. PICK i \in 1 .. Len(order) : order[i] = Mine(t)
  BY Parts DEF RightBranch, Branches
<1>2. order \in Seq(Nodes) /\ Len(order) \in Nat
  BY Parts DEF TypeOK
<1>3. \A j \in 1 .. Len(order) : order[j] \in 1 .. Len(node) /\ order[j] \in Nodes
  BY <1>2, Parts DEF ListShape, Alive, TypeOK
<1> QED
  BY <1>1, <1>2, <1>3, Parts DEF ListShape, RightBranch, Listed

(* A deletion at a distance changes no branch.                             *)
LEMMA OthersBranch ==
  ASSUME RacesInv, Sound, NEW t \in Closers, pc[t] \in Deleting,
         NEW label \in Deleting, Advances(t, label), order' = order,
         \A u \in Closers : u # t /\ pc[u] \in Deleting => node'[Mine(u)].prev = node[Mine(u)].prev,
         Branches(t)'
  PROVE  RightBranch'
<1> SUFFICES ASSUME NEW u \in Closers, pc'[u] \in Deleting, u # t
             PROVE  Branches(u)'
  BY DEF RightBranch
<1>1. /\ pc'[u] = pc[u] /\ Mine(u)' = Mine(u) /\ loc'[u].ptr = loc[u].ptr
      /\ node'[Mine(u)].prev = node[Mine(u)].prev
  BY Kinds DEF Advances, Mine
<1>2. \A j : OrderAt(j)' = OrderAt(j)
  BY DEF OrderAt
<1>3. Branches(u)
  BY <1>1, Parts DEF RightBranch
<1> QED
  BY <1>1, <1>2, <1>3 DEF Branches

LEMMA DeletingReads ==
  ASSUME RacesInv, Sound, NEW t \in Closers, NEW label \in Deleting, Advances(t, label), Reads,
         \/ {pc[t], label} \subseteq {"following", "backLink"}
         \/ {pc[t], label} \subseteq {"delPrev", "delHead", "headNext", "moveHead", "zeroFd",
                                      "delNext", "bridge", "cutLast"},
         Branches(t)'
  PROVE  RacesInv'
<1>1. pc[t] \in Deleting
  BY DEF Deleting
<1>2. /\ head' = head /\ node' = node /\ freed' = freed /\ gone' = gone /\ conns' = conns
      /\ watched' = watched /\ order' = order /\ replaced' = replaced
      /\ misled' = misled /\ broken' = broken
  BY DEF Reads, connVars, historyVars
<1>3. PICK i \in 1 .. Len(order) : order[i] = Mine(t)
  BY <1>1, Deletes
<1>4. \A n :
        /\ PassedOver(n)' <=> PassedOver(n)
        /\ SelfLinked(n)' <=> SelfLinked(n)
        /\ Bridged(n)' <=> Bridged(n)
        /\ Unlinked(n)' <=> Unlinked(n)
        /\ NoFd(n)' <=> NoFd(n)
        /\ NoClient(n)' <=> NoClient(n)
  BY <1>1, <1>3, PhasesNow, PhasesNext
<1>5. HeadFirst' /\ FirstPrev'
  BY <1>2, <1>4, Parts DEF HeadFirst, FirstPrev
<1>6. NextChain'
  BY <1>2, <1>4, Parts DEF NextChain, OrderAt
<1>7. PrevChain'
  BY <1>2, <1>4, Parts DEF PrevChain
<1>8. Contents'
  BY <1>2, <1>4, Parts DEF Contents
<1>9. RightBranch'
  BY <1>1, <1>2, OthersBranch
<1>10. /\ node' \in Seq(Fields) /\ Len(node') = Len(node) /\ replaced' \in BOOLEAN
       /\ head' \in 1 .. Len(node) \ freed
  BY <1>2, Parts DEF TypeOK, Alive
<1> QED
  BY <1>1, <1>2, <1>5, <1>6, <1>7, <1>8, <1>9, <1>10, DeletingKeeps

(* prev of the node that t deletes, and next.                              *)
LEMMA OwnPrev ==
  ASSUME RacesInv, Sound, NEW t \in Closers, pc[t] \in Deleting,
         NEW i \in 1 .. Len(order), order[i] = Mine(t)
  PROVE  /\ i = 1 => node[Mine(t)].prev \in {Null, order[1]}
         /\ i # 1 => i - 1 \in 1 .. Len(order) /\ node[Mine(t)].prev = order[i - 1]
         /\ node[Mine(t)].prev = Null => i = 1
<1>1. order # << >> /\ i \in Int /\ Len(order) \in Nat
      /\ \A j \in 1 .. Len(order) : order[j] # Null
  BY Deletes, Bounds
<1>2. i # 1 => /\ i - 1 \in 1 .. Len(order) /\ ~Unlinked(order[i - 1])
               /\ i = 2 => ~SelfLinked(order[1])
  BY <1>1, PhasesNow
<1>3. i # 1 => node[Mine(t)].prev = order[i - 1]
  BY <1>1, <1>2, Parts DEF PrevChain
<1> QED
  BY <1>1, <1>2, <1>3, Parts DEF FirstPrev

LEMMA OwnNext ==
  ASSUME RacesInv, Sound, NEW t \in Closers, pc[t] \in Deleting,
         NEW i \in 1 .. Len(order), order[i] = Mine(t)
  PROVE  /\ node[Mine(t)].next = OrderAt(i + 1)
         /\ OrderAt(i + 1) = Null <=> i = Len(order)
<1>1. i \in Int /\ Len(order) \in Nat /\ \A j \in 1 .. Len(order) : order[j] # Null
  BY Deletes, Bounds
<1>2. i < Len(order) => ~Bridged(order[i + 1])
  BY <1>1, PhasesNow
<1>3. node[Mine(t)].next = OrderAt(i + 1)
  BY <1>2, Parts DEF NextChain
<1>4. OrderAt(i + 1) = Null <=> i = Len(order)
  BY <1>1 DEF OrderAt
<1> QED
  BY <1>3, <1>4

(* The head, for the thread that deletes the first node.                   *)
LEMMA OwnHead ==
  ASSUME RacesInv, Sound, NEW t \in Closers, pc[t] \in Deleting, order[1] = Mine(t)
  PROVE  IF pc[t] \in {"selfPrev", "freeHead"} THEN Len(order) > 1 /\ head = order[2]
         ELSE head = Mine(t)
<1>1. order # << >> /\ 1 \in 1 .. Len(order)
  BY Deletes
<1> QED
  BY <1>1, PhasesNow, Parts DEF HeadFirst

LEMMA DelPrevKeeps ==
  ASSUME RacesInv, NEW t \in Closers, DelPrev(t)
  PROVE  RacesInv'
<1> DEFINE label == IF node[Mine(t)].prev = Null THEN "delHead" ELSE "delNext"
<1>1. /\ Sound /\ pc[t] = "delPrev" /\ Stay(t, label) /\ Reads /\ t \in Threads
      /\ pc[t] \in Deleting /\ label \in Deleting \cap Labels /\ TypeOK
  BY Kinds, Parts DEF DelPrev, At, Deleting, Labels
<1>2. Advances(t, label) /\ loc'[t].ptr = loc[t].ptr
  BY <1>1, StayAdvances
<1>3. PICK i \in 1 .. Len(order) : order[i] = Mine(t) /\ Branches(t)
  BY <1>1, Deletes
<1>4. node[Mine(t)].prev = Null => i = 1
  BY <1>1, <1>3, OwnPrev
<1>5. Branches(t)'
  <2>1. pc'[t] = label /\ Mine(t)' = Mine(t) /\ order' = order /\ node' = node
    BY <1>1, <1>2 DEF Advances, Mine, Reads, historyVars
  <2> QED
    BY <1>3, <1>4, <2>1 DEF Branches, HeadCase, OtherCase, Emptied
<1> QED
  BY <1>1, <1>2, <1>5, DeletingReads

LEMMA DelHeadKeeps ==
  ASSUME RacesInv, NEW t \in Closers, DelHead(t)
  PROVE  RacesInv'
<1>1. /\ Sound /\ pc[t] = "delHead" /\ Hold(t, "headNext", "ptr", head) /\ Reads /\ t \in Threads
      /\ pc[t] \in Deleting /\ "headNext" \in Deleting \cap Labels /\ TypeOK /\ head \in Pointers
  BY Kinds, Parts DEF DelHead, At, Deleting, Labels, TypeOK
<1>2. Advances(t, "headNext") /\ loc'[t].ptr = head
  BY <1>1, PtrAdvances
<1>3. PICK i \in 1 .. Len(order) : order[i] = Mine(t) /\ Branches(t)
      /\ \A j, k \in 1 .. Len(order) : order[j] = order[k] => j = k
  BY <1>1, Deletes
<1>4. i = 1 /\ node[Mine(t)].prev = Null
  BY <1>1, <1>3 DEF Branches, HeadCase
<1>5. head = Mine(t)
  BY <1>1, <1>3, <1>4, OwnHead
<1>6. Branches(t)'
  <2>1. pc'[t] = "headNext" /\ Mine(t)' = Mine(t) /\ order' = order /\ node' = node
    BY <1>1, <1>2 DEF Advances, Mine, Reads, historyVars
  <2>2. /\ i \in 1 .. Len(order') /\ order'[i] = Mine(t)' /\ i = 1
        /\ loc'[t].ptr = Mine(t)' /\ node'[Mine(t)'].prev = Null
    BY <1>2, <1>3, <1>4, <1>5, <2>1
  <2> QED
    BY <2>1, <2>2 DEF Branches, HeadCase, OtherCase, Emptied
<1> QED
  BY <1>1, <1>2, <1>6, DeletingReads

LEMMA HeadNextKeeps ==
  ASSUME RacesInv, NEW t \in Closers, HeadNext(t)
  PROVE  RacesInv'
<1> DEFINE label == IF node[head].next = Null THEN "zeroFd" ELSE "moveHead"
<1>1. /\ Sound /\ pc[t] = "headNext" /\ Stay(t, label) /\ Reads /\ t \in Threads
      /\ pc[t] \in Deleting /\ label \in Deleting \cap Labels /\ TypeOK
  BY Kinds, Parts DEF HeadNext, At, Deleting, Labels
<1>2. Advances(t, label) /\ loc'[t].ptr = loc[t].ptr
  BY <1>1, StayAdvances
<1>3. PICK i \in 1 .. Len(order) :
        /\ order[i] = Mine(t) /\ Branches(t) /\ Len(order) \in Nat
        /\ \A j, k \in 1 .. Len(order) : order[j] = order[k] => j = k
  BY <1>1, Deletes
<1>4. i = 1 /\ node[Mine(t)].prev = Null /\ loc[t].ptr = Mine(t)
  BY <1>1, <1>3 DEF Branches, HeadCase
<1>5. head = Mine(t)
  BY <1>1, <1>3, <1>4, OwnHead
<1>6. node[head].next = Null <=> Len(order) = 1
  BY <1>1, <1>3, <1>4, <1>5, OwnNext
<1>7. Branches(t)'
  <2>1. pc'[t] = label /\ Mine(t)' = Mine(t) /\ order' = order /\ node' = node
    BY <1>1, <1>2 DEF Advances, Mine, Reads, historyVars
  <2>2. \/ label = "zeroFd" /\ Len(order') = 1
        \/ label = "moveHead" /\ Len(order') > 1
    <3>1. CASE node[head].next = Null
      BY <1>6, <2>1, <3>1
    <3>2. CASE node[head].next # Null
      <4>1. Len(order) # 1
        BY <1>6, <3>2
      <4>2. 1 \in 1 .. Len(order) /\ Len(order) \in Nat
        BY <1>3, <1>4
      <4>3. Len(order) = 1 \/ Len(order) > 1
        BY <4>2
      <4> QED
        BY <2>1, <3>2, <4>1, <4>3
    <3> QED
      BY <3>1, <3>2
  <2>3. /\ i \in 1 .. Len(order') /\ order'[i] = Mine(t)' /\ i = 1
        /\ loc'[t].ptr = Mine(t)' /\ node'[Mine(t)'].prev = Null
    BY <1>2, <1>3, <1>4, <2>1
  <2> HIDE DEF label
  <2> QED
    BY <2>1, <2>2, <2>3 DEF Branches, HeadCase, OtherCase, Emptied
<1> QED
  BY <1>1, <1>2, <1>7, DeletingReads

LEMMA DelNextKeeps ==
  ASSUME RacesInv, NEW t \in Closers, DelNext(t)
  PROVE  RacesInv'
<1> DEFINE after == node[Mine(t)].next
           label == IF after = Null THEN "cutLast" ELSE "bridge"
<1>1. /\ Sound /\ pc[t] = "delNext" /\ Hold(t, label, "ptr", after) /\ Reads /\ t \in Threads
      /\ pc[t] \in Deleting /\ label \in Deleting \cap Labels /\ TypeOK
  BY Kinds, Parts DEF DelNext, At, Deleting, Labels
<1>2. PICK i \in 1 .. Len(order) :
        /\ order[i] = Mine(t) /\ Branches(t) /\ Len(order) \in Nat
        /\ \A j \in 1 .. Len(order) : order[j] \in Nodes
  BY <1>1, Deletes
<1>3. after = OrderAt(i + 1) /\ (after = Null <=> i = Len(order))
  BY <1>1, <1>2, OwnNext
<1>4. after \in Pointers
  BY <1>2, <1>3 DEF OrderAt, Pointers
<1>5. Advances(t, label) /\ loc'[t].ptr = after
  BY <1>1, <1>4, PtrAdvances
<1>6. Branches(t)'
  <2>1. pc'[t] = label /\ Mine(t)' = Mine(t) /\ order' = order /\ node' = node
    BY <1>1, <1>5 DEF Advances, Mine, Reads, historyVars
  <2>2. node[Mine(t)].prev # Null
    BY <1>1, <1>2 DEF Branches, OtherCase
  <2>3. \A j : OrderAt(j)' = OrderAt(j)
    BY <2>1 DEF OrderAt
  <2> QED
    BY <1>2, <1>3, <1>5, <2>1, <2>2, <2>3 DEF Branches, HeadCase, OtherCase, Emptied
<1> QED
  BY <1>1, <1>5, <1>6, DeletingReads

LEMMA FollowingKeeps ==
  ASSUME RacesInv, NEW t \in Closers, Following(t)
  PROVE  RacesInv'
<1> DEFINE after == node[Mine(t)].next
<1>1. /\ Sound /\ pc[t] = "following" /\ Hold(t, "backLink", "ptr", after) /\ Reads /\ t \in Threads
      /\ pc[t] \in Deleting /\ "backLink" \in Deleting \cap Labels /\ TypeOK
  BY Kinds, Parts DEF Following, At, Deleting, Labels
<1>2. PICK i \in 1 .. Len(order) :
        /\ order[i] = Mine(t) /\ Branches(t) /\ Len(order) \in Nat
        /\ \A j \in 1 .. Len(order) : order[j] \in Nodes
        /\ \A j, k \in 1 .. Len(order) : order[j] = order[k] => j = k
  BY <1>1, Deletes
<1>3. after = OrderAt(i + 1)
  BY <1>1, <1>2, OwnNext
<1>4. after \in Pointers
  BY <1>2, <1>3 DEF OrderAt, Pointers
<1>5. Advances(t, "backLink") /\ loc'[t].ptr = after
  BY <1>1, <1>4, PtrAdvances
<1>6. Branches(t)'
  <2>1. pc'[t] = "backLink" /\ Mine(t)' = Mine(t) /\ order' = order /\ node' = node
    BY <1>1, <1>5 DEF Advances, Mine, Reads, historyVars
  <2>2. node[Mine(t)].prev # Null /\ i < Len(order)
    BY <1>1, <1>2 DEF Branches, OtherCase
  <2>3. \A j : OrderAt(j)' = OrderAt(j)
    BY <2>1 DEF OrderAt
  <2> QED
    BY <1>2, <1>3, <1>5, <2>1, <2>2, <2>3 DEF Branches, HeadCase, OtherCase, Emptied
<1> QED
  BY <1>1, <1>5, <1>6, DeletingReads

(* A write to a field of a node, and nothing else.                         *)
LEMMA Wrote ==
  ASSUME TypeOK, NEW n \in 1 .. Len(node), NEW e \in Fields, node' = [node EXCEPT ![n] = e]
  PROVE  /\ node' \in Seq(Fields) /\ Len(node') = Len(node) /\ node'[n] = e
         /\ \A m \in 1 .. Len(node) : m # n => node'[m] = node[m]
BY ExceptSeq DEF TypeOK

LEMMA NextWritten ==
  ASSUME TypeOK, NEW n \in 1 .. Len(node), NEW v \in Pointers, Sets(n, "next", v)
  PROVE  /\ node' \in Seq(Fields) /\ Len(node') = Len(node) /\ node'[n].next = v
         /\ node'[n].fd = node[n].fd /\ node'[n].client = node[n].client
         /\ node'[n].prev = node[n].prev
         /\ \A m \in 1 .. Len(node) : m # n => node'[m] = node[m]
<1>1. PICK r \in Fields : r = node[n]
  BY DEF TypeOK
<1>2. node' = [node EXCEPT ![n] = [r EXCEPT !.next = v]]
  BY <1>1 DEF Sets
<1>3. [r EXCEPT !.next = v] \in Fields
  BY DEF Fields
<1>4. PICK e \in Fields : e = [r EXCEPT !.next = v]
  BY <1>3
<1>5. e.next = v /\ e.fd = r.fd /\ e.client = r.client /\ e.prev = r.prev
  BY <1>4 DEF Fields
<1> QED
  BY <1>1, <1>2, <1>4, <1>5, Wrote

LEMMA PrevWritten ==
  ASSUME TypeOK, NEW n \in 1 .. Len(node), NEW v \in Pointers, Sets(n, "prev", v)
  PROVE  /\ node' \in Seq(Fields) /\ Len(node') = Len(node) /\ node'[n].prev = v
         /\ node'[n].fd = node[n].fd /\ node'[n].client = node[n].client
         /\ node'[n].next = node[n].next
         /\ \A m \in 1 .. Len(node) : m # n => node'[m] = node[m]
<1>1. PICK r \in Fields : r = node[n]
  BY DEF TypeOK
<1>2. node' = [node EXCEPT ![n] = [r EXCEPT !.prev = v]]
  BY <1>1 DEF Sets
<1>3. [r EXCEPT !.prev = v] \in Fields
  BY DEF Fields
<1>4. PICK e \in Fields : e = [r EXCEPT !.prev = v]
  BY <1>3
<1>5. e.prev = v /\ e.fd = r.fd /\ e.client = r.client /\ e.next = r.next
  BY <1>4 DEF Fields
<1> QED
  BY <1>1, <1>2, <1>4, <1>5, Wrote

LEMMA FdWritten ==
  ASSUME TypeOK, NEW n \in 1 .. Len(node), NEW v \in 0 .. MaxConn, Sets(n, "fd", v)
  PROVE  /\ node' \in Seq(Fields) /\ Len(node') = Len(node) /\ node'[n].fd = v
         /\ node'[n].client = node[n].client /\ node'[n].next = node[n].next
         /\ node'[n].prev = node[n].prev
         /\ \A m \in 1 .. Len(node) : m # n => node'[m] = node[m]
<1>1. PICK r \in Fields : r = node[n]
  BY DEF TypeOK
<1>2. node' = [node EXCEPT ![n] = [r EXCEPT !.fd = v]]
  BY <1>1 DEF Sets
<1>3. [r EXCEPT !.fd = v] \in Fields
  BY DEF Fields
<1>4. PICK e \in Fields : e = [r EXCEPT !.fd = v]
  BY <1>3
<1>5. e.fd = v /\ e.client = r.client /\ e.next = r.next /\ e.prev = r.prev
  BY <1>4 DEF Fields
<1> QED
  BY <1>1, <1>2, <1>4, <1>5, Wrote

LEMMA ClientWritten ==
  ASSUME TypeOK, NEW n \in 1 .. Len(node), NEW v \in Conn \cup {Null}, Sets(n, "client", v)
  PROVE  /\ node' \in Seq(Fields) /\ Len(node') = Len(node) /\ node'[n].client = v
         /\ node'[n].fd = node[n].fd /\ node'[n].next = node[n].next
         /\ node'[n].prev = node[n].prev
         /\ \A m \in 1 .. Len(node) : m # n => node'[m] = node[m]
<1>1. PICK r \in Fields : r = node[n]
  BY DEF TypeOK
<1>2. node' = [node EXCEPT ![n] = [r EXCEPT !.client = v]]
  BY <1>1 DEF Sets
<1>3. [r EXCEPT !.client = v] \in Fields
  BY DEF Fields
<1>4. PICK e \in Fields : e = [r EXCEPT !.client = v]
  BY <1>3
<1>5. e.client = v /\ e.fd = r.fd /\ e.next = r.next /\ e.prev = r.prev
  BY <1>4 DEF Fields
<1> QED
  BY <1>1, <1>2, <1>4, <1>5, Wrote

(* A step that changes next or prev of one node in use.                    *)
LEMMA DeletingWrites ==
  ASSUME RacesInv, Sound, NEW t \in Closers, pc[t] \in Deleting, pc[t] \notin Emptied,
         NEW label \in Deleting, label \notin Emptied, Advances(t, label),
         node' \in Seq(Fields), Len(node') = Len(node),
         head' \in 1 .. Len(node) \ freed, replaced' \in BOOLEAN,
         freed' = freed, gone' = gone, conns' = conns, watched' = watched,
         order' = order, misled' = misled, broken' = broken,
         \A n \in 1 .. Len(node) :
            /\ n \notin Listed => node'[n] = node[n]
            /\ node'[n].client = node[n].client /\ node'[n].fd = node[n].fd,
         HeadFirst', NextChain', PrevChain', FirstPrev', Branches(t)',
         \A u \in Closers : u # t /\ pc[u] \in Deleting => node'[Mine(u)].prev = node[Mine(u)].prev
  PROVE  RacesInv'
<1>1. RightBranch'
  BY OthersBranch
<1>2. PICK i \in 1 .. Len(order) :
        /\ order[i] = Mine(t)
        /\ \A j \in 1 .. Len(order) : order[j] \in 1 .. Len(node)
  BY Deletes
<1>3. \A n : (NoFd(n)' <=> NoFd(n)) /\ (NoClient(n)' <=> NoClient(n))
  BY <1>2, PhasesNow, PhasesNext DEF Emptied
<1>4. Contents'
  <2>1. \A k \in 1 .. Len(order) :
          /\ node'[order[k]].client = node[order[k]].client
          /\ node'[order[k]].fd = node[order[k]].fd
    BY <1>2
  <2>2. Contents /\ order' = order /\ conns' = conns
    BY Parts
  <2>3. \A k \in 1 .. Len(order') :
          /\ IF NoFd(order[k])' THEN node'[order'[k]].fd = 0
             ELSE node'[order'[k]].fd \in 1 .. conns'
          /\ IF NoClient(order[k])' THEN node'[order'[k]].client = Null
             ELSE node'[order'[k]].client \in 1 .. conns'
          /\ node'[order'[k]].fd # 0 => node'[order'[k]].client = node'[order'[k]].fd
    BY <1>3, <2>1, <2>2 DEF Contents
  <2>4. \A k, m \in 1 .. Len(order') :
          node'[order'[k]].client = node'[order'[m]].client => k = m
    BY <2>1, <2>2 DEF Contents
  <2> QED
    BY <2>3, <2>4 DEF Contents
<1> QED
  BY <1>1, <1>4, DeletingKeeps

LEMMA MoveHeadKeeps ==
  ASSUME RacesInv, NEW t \in Closers, MoveHead(t)
  PROVE  RacesInv'
<1>1. /\ Sound /\ pc[t] = "moveHead" /\ Stay(t, "selfPrev") /\ t \in Threads
      /\ pc[t] \in Deleting \ Emptied /\ "selfPrev" \in (Deleting \cap Labels) \ Emptied /\ TypeOK
  BY Kinds, Parts DEF MoveHead, At, Deleting, Labels, Emptied
<1>2. /\ head' = node[head].next /\ replaced' = TRUE /\ node' = node /\ freed' = freed
      /\ gone' = gone /\ conns' = conns /\ watched' = watched /\ order' = order
      /\ misled' = misled /\ broken' = broken
  BY DEF MoveHead, connVars
<1>3. Advances(t, "selfPrev") /\ loc'[t].ptr = loc[t].ptr
  BY <1>1, StayAdvances
<1>4. PICK i \in 1 .. Len(order) :
        /\ order[i] = Mine(t) /\ Branches(t) /\ Len(order) \in Nat
        /\ \A j \in 1 .. Len(order) : order[j] \in 1 .. Len(node) /\ order[j] \in Nodes
        /\ \A j, k \in 1 .. Len(order) : order[j] = order[k] => j = k
  BY <1>1, Deletes
<1>5. i = 1 /\ node[Mine(t)].prev = Null /\ loc[t].ptr = Mine(t) /\ Len(order) > 1
  BY <1>1, <1>4 DEF Branches, HeadCase
<1>6. head = Mine(t)
  BY <1>1, <1>4, <1>5, OwnHead
<1>7. head' = order[2] /\ 2 \in 1 .. Len(order)
  BY <1>1, <1>2, <1>4, <1>5, <1>6, OwnNext DEF OrderAt
<1>8. \A n :
        /\ PassedOver(n)' <=> (n = Mine(t) \/ PassedOver(n))
        /\ SelfLinked(n)' <=> SelfLinked(n)
        /\ Bridged(n)' <=> Bridged(n)
        /\ Unlinked(n)' <=> Unlinked(n)
  <2>1. ~SelfLinked(Mine(t)) /\ ~Bridged(Mine(t)) /\ ~Unlinked(Mine(t))
    BY <1>1, <1>4, PhasesNow
  <2>2. "selfPrev" \in Deleting
    BY <1>1
  <2> QED
    BY <1>1, <1>3, <2>1, <2>2, PhasesNext
<1>9. HeadFirst' /\ FirstPrev'
  BY <1>2, <1>4, <1>5, <1>7, <1>8 DEF HeadFirst, FirstPrev
<1>10. NextChain'
  BY <1>1, <1>2, <1>8, Parts DEF NextChain, OrderAt
<1>11. PrevChain'
  BY <1>1, <1>2, <1>8, Parts DEF PrevChain
<1>12. Branches(t)'
  <2>1. pc'[t] = "selfPrev" /\ Mine(t)' = Mine(t)
    BY <1>1, <1>3 DEF Advances, Mine
  <2>2. /\ i \in 1 .. Len(order') /\ order'[i] = Mine(t)' /\ i = 1 /\ Len(order') > 1
        /\ loc'[t].ptr = Mine(t)' /\ node'[Mine(t)'].prev = Null
    BY <1>2, <1>3, <1>4, <1>5, <2>1
  <2> QED
    BY <2>1, <2>2 DEF Branches, HeadCase, OtherCase, Emptied
<1>13. head' \in 1 .. Len(node) \ freed /\ node' \in Seq(Fields)
  BY <1>1, <1>2, <1>4, <1>7, Parts DEF ListShape, Alive, TypeOK
<1> QED
  BY <1>1, <1>2, <1>3, <1>9, <1>10, <1>11, <1>12, <1>13, DeletingWrites

LEMMA SelfPrevKeeps ==
  ASSUME RacesInv, NEW t \in Closers, SelfPrev(t)
  PROVE  RacesInv'
<1>1. /\ Sound /\ pc[t] = "selfPrev" /\ Stay(t, "freeHead") /\ t \in Threads
      /\ pc[t] \in Deleting \ Emptied /\ "freeHead" \in (Deleting \cap Labels) \ Emptied /\ TypeOK
      /\ Sets(head, "prev", head)
  BY Kinds, Parts DEF SelfPrev, At, Deleting, Labels, Emptied
<1>2. /\ head' = head /\ replaced' = replaced /\ freed' = freed
      /\ gone' = gone /\ conns' = conns /\ watched' = watched /\ order' = order
      /\ misled' = misled /\ broken' = broken
  BY DEF SelfPrev, Sets, connVars
<1>3. Advances(t, "freeHead") /\ loc'[t].ptr = loc[t].ptr
  BY <1>1, StayAdvances
<1>4. PICK i \in 1 .. Len(order) :
        /\ order[i] = Mine(t) /\ Branches(t) /\ Len(order) \in Nat
        /\ \A j \in 1 .. Len(order) : order[j] \in 1 .. Len(node) /\ order[j] \in Nodes
        /\ \A j, k \in 1 .. Len(order) : order[j] = order[k] => j = k
  BY <1>1, Deletes
<1>5. i = 1 /\ node[Mine(t)].prev = Null /\ loc[t].ptr = Mine(t) /\ Len(order) > 1
  BY <1>1, <1>4 DEF Branches, HeadCase
<1>6. head = order[2] /\ 2 \in 1 .. Len(order) /\ head \in Pointers
  BY <1>1, <1>4, <1>5, OwnHead DEF Pointers
<1>7. /\ node' \in Seq(Fields) /\ Len(node') = Len(node) /\ node'[head].prev = head
      /\ node'[head].next = node[head].next
      /\ node'[head].fd = node[head].fd /\ node'[head].client = node[head].client
      /\ \A m \in 1 .. Len(node) : m # head => node'[m] = node[m]
  BY <1>1, <1>4, <1>6, PrevWritten
<1>8. \A n :
        /\ PassedOver(n)' <=> PassedOver(n)
        /\ SelfLinked(n)' <=> (n = Mine(t) \/ SelfLinked(n))
        /\ Bridged(n)' <=> Bridged(n)
        /\ Unlinked(n)' <=> Unlinked(n)
  BY <1>1, <1>3, <1>4, PhasesNow, PhasesNext
<1>9. ~Unlinked(order[1]) /\ ~Unlinked(order[2])
  BY <1>1, <1>4, <1>5, <1>6, PhasesNow
<1>10. HeadFirst' /\ FirstPrev'
  BY <1>1, <1>2, <1>4, <1>5, <1>6, <1>7, <1>8, Parts DEF HeadFirst, FirstPrev
<1>11. NextChain'
  <2>1. \A j \in 1 .. Len(order) : node'[order[j]].next = node[order[j]].next
    BY <1>4, <1>7
  <2> QED
    BY <1>1, <1>2, <1>8, <2>1, Parts DEF NextChain, OrderAt
<1>12. PrevChain'
  <2> SUFFICES ASSUME NEW j \in 2 .. Len(order)
               PROVE  node'[order[j]].prev =
                        IF Unlinked(order[j - 1]) THEN node'[order[j - 1]].prev
                        ELSE IF j = 2 THEN order[2]
                        ELSE order[j - 1]
    BY <1>2, <1>4, <1>5, <1>8 DEF PrevChain
  <2>1. CASE j = 2
    BY <1>6, <1>7, <1>9, <2>1
  <2>2. CASE j # 2
    <3>1. j \in 1 .. Len(order) /\ j - 1 \in 1 .. Len(order) /\ j # 2 /\ (j - 1 = 2 \/ j - 1 # 2)
      BY <1>4, <2>2
    <3>2. node'[order[j]] = node[order[j]]
      BY <1>4, <1>6, <1>7, <3>1
    <3>3. j - 1 # 2 => node'[order[j - 1]] = node[order[j - 1]]
      BY <1>4, <1>6, <1>7, <3>1
    <3>0. ~(j = 2 /\ SelfLinked(order[1]))
      BY <2>2
    <3>4. node[order[j]].prev = IF Unlinked(order[j - 1]) THEN node[order[j - 1]].prev
                                ELSE order[j - 1]
      BY <1>1, <2>2, <3>0, Parts DEF PrevChain
    <3> QED
      BY <1>9, <2>2, <3>1, <3>2, <3>3, <3>4
  <2> QED
    BY <2>1, <2>2
<1>13. Branches(t)'
  <2>1. pc'[t] = "freeHead" /\ Mine(t)' = Mine(t)
    BY <1>1, <1>3 DEF Advances, Mine
  <2>2. node'[Mine(t)] = node[Mine(t)]
    BY <1>4, <1>5, <1>6, <1>7
  <2>3. /\ i \in 1 .. Len(order') /\ order'[i] = Mine(t)' /\ i = 1 /\ Len(order') > 1
        /\ loc'[t].ptr = Mine(t)' /\ node'[Mine(t)'].prev = Null
    BY <1>2, <1>3, <1>4, <1>5, <2>1, <2>2
  <2> QED
    BY <2>1, <2>3 DEF Branches, HeadCase, OtherCase, Emptied
<1>14. ASSUME NEW u \in Closers, u # t, pc[u] \in Deleting
       PROVE  node'[Mine(u)].prev = node[Mine(u)].prev
  <2>1. PICK j \in 1 .. Len(order) : order[j] = Mine(u)
    BY <1>1, <1>14, Deletes
  <2>2. j # 2
    BY <1>1, <1>4, <1>5, <1>14, <2>1, Alone
  <2> QED
    BY <1>4, <1>6, <1>7, <2>1, <2>2
<1>15. head' \in 1 .. Len(node) \ freed
  BY <1>1, <1>2, <1>4, <1>6, Parts DEF ListShape, Alive
<1>16. ASSUME NEW n \in 1 .. Len(node)
       PROVE  /\ n \notin Listed => node'[n] = node[n]
              /\ node'[n].client = node[n].client /\ node'[n].fd = node[n].fd
  BY <1>6, <1>7 DEF Listed
<1>17. replaced' \in BOOLEAN
  BY <1>1, <1>2 DEF TypeOK
<1> QED
  BY <1>1, <1>2, <1>3, <1>7, <1>10, <1>11, <1>12, <1>13, <1>14, <1>15, <1>16, <1>17, DeletingWrites

(* The steps that empty the only node.                                     *)
LEMMA EmptyingKeeps ==
  ASSUME RacesInv, Sound, NEW t \in Closers, pc[t] \in {"zeroFd", "zeroClient", "zeroPrev"},
         NEW label \in Emptied, Advances(t, label), loc'[t].ptr = loc[t].ptr,
         head' = head, replaced' = replaced,
         freed' = freed, gone' = gone, conns' = conns, watched' = watched,
         order' = order, misled' = misled, broken' = broken,
         node' \in Seq(Fields), Len(node') = Len(node),
         \A m \in 1 .. Len(node) : m # Mine(t) => node'[m] = node[m],
         node'[Mine(t)].next = node[Mine(t)].next,
         node'[Mine(t)].prev \in {node[Mine(t)].prev, Null},
         node'[Mine(t)].fd = 0,
         node'[Mine(t)].client = IF label = "zeroClient" THEN node[Mine(t)].client ELSE Null,
         pc[t] = "zeroFd" <=> label = "zeroClient",
         pc[t] = "zeroFd" => \A u \in Closers : pc[u] # Idle(u) => Mine(t) \in loc'[u].during
  PROVE  RacesInv'
<1>1. pc[t] \in Deleting /\ label \in Deleting /\ TypeOK /\ t \in Threads
  BY Parts, Kinds DEF Deleting, Emptied
<1>2. PICK i \in 1 .. Len(order) :
        /\ order[i] = Mine(t) /\ Branches(t) /\ Mine(t) \in Listed
        /\ \A j \in 1 .. Len(order) : order[j] \in 1 .. Len(node) /\ order[j] \in Nodes
        /\ \A j, k \in 1 .. Len(order) : order[j] = order[k] => j = k
  BY <1>1, Deletes
<1>3. i = 1 /\ node[Mine(t)].prev = Null /\ Len(order) = 1 /\ order # << >>
  BY <1>1, <1>2 DEF Branches, HeadCase, Emptied
<1>4. head = Mine(t) /\ head \in 1 .. Len(node)
  BY <1>1, <1>2, <1>3, OwnHead
<1>5. node[Mine(t)].next = Null
  BY <1>1, <1>2, <1>3, OwnNext
<1>6. \A n : n = Mine(t) =>
        /\ ~PassedOver(n)' /\ ~SelfLinked(n)' /\ ~Bridged(n)' /\ ~Unlinked(n)'
        /\ NoFd(n)' /\ (NoClient(n)' <=> label # "zeroClient")
  <2>1. /\ label \notin {"selfPrev", "freeHead", "following", "backLink", "freeNode"}
        /\ label \in {"zeroClient", "zeroPrev", "zeroNext"}
        /\ label \in {"zeroPrev", "zeroNext"} <=> label # "zeroClient"
    BY DEF Emptied
  <2> QED
    BY <1>1, <2>1, PhasesNext
<1>7. HeadFirst' /\ FirstPrev'
  BY <1>2, <1>3, <1>4, <1>6 DEF HeadFirst, FirstPrev
<1>8. NextChain'
  BY <1>2, <1>3, <1>5 DEF NextChain, OrderAt
<1>9. PrevChain'
  BY <1>3 DEF PrevChain
<1>10. Contents'
  <2>1. pc[t] = "zeroFd" => node[Mine(t)].client \in 1 .. conns
    BY <1>1, <1>2, <1>3, PhasesNow, Parts DEF Contents
  <2>2. label = "zeroClient" => node'[order[1]].client \in 1 .. conns
    BY <1>2, <1>3, <2>1
  <2>3. label # "zeroClient" => node'[order[1]].client = Null
    BY <1>2, <1>3
  <2>4. \A n : n = order[1] => NoFd(n)' /\ (NoClient(n)' <=> label # "zeroClient")
    BY <1>2, <1>3, <1>6
  <2>5. node'[order[1]].fd = 0 /\ \A j \in 1 .. Len(order') : j = 1
    BY <1>2, <1>3
  <2> QED
    BY <2>2, <2>3, <2>4, <2>5 DEF Contents
<1>11. Branches(t)'
  <2>1. pc'[t] = label /\ Mine(t)' = Mine(t)
    BY <1>1 DEF Advances, Mine
  <2>2. /\ i \in 1 .. Len(order') /\ order'[i] = Mine(t)' /\ i = 1 /\ Len(order') = 1
        /\ node'[Mine(t)'].prev = Null
    BY <1>2, <1>3, <2>1
  <2> QED
    BY <2>1, <2>2 DEF Branches, HeadCase, OtherCase, Emptied
<1>12. RightBranch'
  <2>1. ASSUME NEW u \in Closers, u # t, pc[u] \in Deleting
        PROVE  FALSE
    <3>1. PICK j \in 1 .. Len(order) : order[j] = Mine(u)
      BY <1>1, <2>1, Deletes
    <3> QED
      BY <1>1, <1>2, <1>3, <2>1, <3>1, Alone
  <2> QED
    BY <1>1, <1>11, <2>1, OthersBranch
<1>13. head' \in 1 .. Len(node) \ freed /\ replaced' \in BOOLEAN
  BY <1>1, <1>4, Parts DEF Alive, TypeOK
<1>14. ASSUME NEW n \in 1 .. Len(node)
       PROVE  /\ n \notin Listed => node'[n] = node[n]
              /\ node'[n].client \in {node[n].client, Null}
              /\ node'[n].fd \in {node[n].fd, 0}
              /\ node'[n].fd = node[n].fd \/
                 \A u \in Closers : pc[u] # Idle(u) => n \in loc'[u].during
  <2>1. CASE n # Mine(t)
    BY <2>1
  <2>2. CASE n = Mine(t)
    <3>1. pc[t] # "zeroFd" => node[Mine(t)].fd = 0
      BY <1>1, <1>2, PhasesNow, Parts DEF Contents
    <3> QED
      BY <1>2, <2>2, <3>1
  <2> QED
    BY <2>1, <2>2
<1> QED
  BY <1>1, <1>7, <1>8, <1>9, <1>10, <1>12, <1>13, <1>14, DeletingKeeps

LEMMA ZeroFdKeeps ==
  ASSUME RacesInv, NEW t \in Closers, ZeroFd(t)
  PROVE  RacesInv'
<1>1. /\ Sound /\ pc[t] = "zeroFd" /\ StayNoting(t, "zeroClient", Mine(t)) /\ t \in Threads
      /\ pc[t] \in Deleting /\ "zeroClient" \in Labels /\ "zeroClient" \in Emptied
      /\ TypeOK /\ Sets(Mine(t), "fd", 0) /\ 0 \in 0 .. MaxConn
  BY Kinds, Parts, Bounds DEF ZeroFd, At, Deleting, Labels, Emptied
<1>2. /\ head' = head /\ replaced' = replaced /\ freed' = freed
      /\ gone' = gone /\ conns' = conns /\ watched' = watched /\ order' = order
      /\ misled' = misled /\ broken' = broken
  BY DEF ZeroFd, Sets, connVars
<1>3. Mine(t) \in 1 .. Len(node) /\ Mine(t) \in Nodes
  BY <1>1, Deletes
<1>4. /\ Advances(t, "zeroClient") /\ loc'[t].ptr = loc[t].ptr
      /\ \A u \in Closers : pc[u] # Idle(u) => Mine(t) \in loc'[u].during
  BY <1>1, <1>3, NotingAdvances, Kinds
<1>5. /\ node' \in Seq(Fields) /\ Len(node') = Len(node) /\ node'[Mine(t)].fd = 0
      /\ node'[Mine(t)].client = node[Mine(t)].client /\ node'[Mine(t)].next = node[Mine(t)].next
      /\ node'[Mine(t)].prev = node[Mine(t)].prev
      /\ \A m \in 1 .. Len(node) : m # Mine(t) => node'[m] = node[m]
  BY <1>1, <1>3, FdWritten
<1> QED
  BY <1>1, <1>2, <1>4, <1>5, EmptyingKeeps

LEMMA ZeroKeeps ==
  ASSUME RacesInv, NEW t \in Closers, Zero(t)
  PROVE  RacesInv'
<1>1. PICK step \in {<<"zeroClient", "client", Null, "zeroPrev">>,
                     <<"zeroPrev", "prev", Null, "zeroNext">>} :
        /\ At(t, step[1]) /\ Sets(Mine(t), step[2], step[3]) /\ Stay(t, step[4])
        /\ UNCHANGED <<connVars, order>>
  BY DEF Zero
<1> DEFINE first == <<"zeroClient", "client", Null, "zeroPrev">>
           second == <<"zeroPrev", "prev", Null, "zeroNext">>
<1>0. /\ step = first \/ step = second
      /\ step[1] = "zeroClient" => step = first
      /\ step[1] = "zeroPrev" => step = second
      /\ pc[t] = step[1]
  BY <1>1 DEF At
<1>2. /\ Sound /\ t \in Threads /\ pc[t] \in {"zeroClient", "zeroPrev"} /\ pc[t] \in Deleting
      /\ step[4] = IF pc[t] = "zeroClient" THEN "zeroPrev" ELSE "zeroNext"
      /\ step[4] \in Labels /\ step[4] \in Emptied \ {"zeroClient"} /\ TypeOK
      /\ Null \in Pointers /\ Null \in Conn \cup {Null}
  BY <1>1, Kinds, Parts DEF At, Deleting, Labels, Emptied, Pointers
<1>3. /\ head' = head /\ replaced' = replaced /\ freed' = freed
      /\ gone' = gone /\ conns' = conns /\ watched' = watched /\ order' = order
      /\ misled' = misled /\ broken' = broken
  BY <1>1 DEF Sets, connVars
<1>4. PICK i \in 1 .. Len(order) : order[i] = Mine(t) /\ Mine(t) \in 1 .. Len(node)
  BY <1>2, Deletes
<1>5. node[Mine(t)].fd = 0 /\ (pc[t] = "zeroPrev" => node[Mine(t)].client = Null)
  <2>1. NoFd(order[i]) /\ (NoClient(order[i]) <=> pc[t] = "zeroPrev")
    BY <1>2, <1>4, PhasesNow
  <2> QED
    BY <1>2, <1>4, <2>1, Parts DEF Contents
<1>6. Advances(t, step[4]) /\ loc'[t].ptr = loc[t].ptr
  BY <1>1, <1>2, StayAdvances
<1>7. /\ node' \in Seq(Fields) /\ Len(node') = Len(node) /\ node'[Mine(t)].fd = 0
      /\ node'[Mine(t)].client = Null /\ node'[Mine(t)].next = node[Mine(t)].next
      /\ node'[Mine(t)].prev \in {node[Mine(t)].prev, Null}
      /\ \A m \in 1 .. Len(node) : m # Mine(t) => node'[m] = node[m]
  <2>1. CASE pc[t] = "zeroClient"
    <3>1. Sets(Mine(t), "client", Null)
      BY <1>0, <1>1, <2>1
    <3> QED
      BY <1>2, <1>4, <1>5, <3>1, ClientWritten
  <2>2. CASE pc[t] = "zeroPrev"
    <3>1. Sets(Mine(t), "prev", Null)
      BY <1>0, <1>1, <2>2
    <3> QED
      BY <1>2, <1>4, <1>5, <2>2, <3>1, PrevWritten
  <2> QED
    BY <1>2, <2>1, <2>2
<1> QED
  BY <1>2, <1>3, <1>6, <1>7, EmptyingKeeps

(* The node before, which in front of the first one is the node itself, is *)
(* linked past the node that t deletes.                                    *)
LEMMA BridgingKeeps ==
  ASSUME RacesInv, Sound, NEW t \in Closers, pc[t] \in {"bridge", "cutLast"},
         NEW label \in {"following", "freeNode"}, label = "following" <=> pc[t] = "bridge",
         Advances(t, label), NEW v \in Pointers, Sets(node[Mine(t)].prev, "next", v),
         \A i \in 1 .. Len(order) : order[i] = Mine(t) => v = OrderAt(i + 1),
         UNCHANGED <<connVars, order>>
  PROVE  RacesInv'
<1>1. /\ pc[t] \in Deleting \ Emptied /\ label \in Deleting \ Emptied /\ TypeOK /\ t \in Threads
      /\ label \notin {"selfPrev", "freeHead"} /\ pc[t] \notin {"selfPrev", "freeHead"}
      /\ label \in {"following", "backLink", "freeNode"} /\ pc[t] # "freeNode"
  BY Parts, Kinds DEF Deleting, Emptied
<1>2. /\ head' = head /\ replaced' = replaced /\ freed' = freed
      /\ gone' = gone /\ conns' = conns /\ watched' = watched /\ order' = order
      /\ misled' = misled /\ broken' = broken
  BY DEF Sets, connVars
<1>3. PICK i \in 1 .. Len(order) :
        /\ order[i] = Mine(t) /\ Branches(t) /\ Mine(t) \in Listed
        /\ Len(order) \in Nat /\ i \in Int
        /\ \A j \in 1 .. Len(order) : order[j] \in 1 .. Len(node) /\ order[j] \in Nodes
        /\ \A j, k \in 1 .. Len(order) : order[j] = order[k] => j = k
  BY <1>1, Deletes
<1>4. node[Mine(t)].prev # Null /\ (pc[t] = "bridge" => i < Len(order))
      /\ (pc[t] = "cutLast" => i = Len(order))
  BY <1>1, <1>3 DEF Branches, OtherCase
<1> DEFINE b == IF i = 1 THEN 1 ELSE i - 1
<1>5. b \in 1 .. Len(order) /\ node[Mine(t)].prev = order[b]
  BY <1>1, <1>3, <1>4, OwnPrev
<1> HIDE DEF b
<1>6. /\ node' \in Seq(Fields) /\ Len(node') = Len(node) /\ node'[order[b]].next = v
      /\ node'[order[b]].fd = node[order[b]].fd /\ node'[order[b]].client = node[order[b]].client
      /\ node'[order[b]].prev = node[order[b]].prev
      /\ \A m \in 1 .. Len(node) : m # order[b] => node'[m] = node[m]
  BY <1>1, <1>3, <1>5, NextWritten
<1>7. \A m \in 1 .. Len(node) :
        /\ node'[m].prev = node[m].prev /\ node'[m].fd = node[m].fd
        /\ node'[m].client = node[m].client
  BY <1>6
<1>8. \A n :
        /\ PassedOver(n)' <=> PassedOver(n)
        /\ SelfLinked(n)' <=> SelfLinked(n)
        /\ Bridged(n)' <=> (n = Mine(t) \/ Bridged(n))
        /\ Unlinked(n)' <=> (Unlinked(n) \/ (n = Mine(t) /\ label = "freeNode"))
  BY <1>1, <1>3, PhasesNow, PhasesNext
<1>9. HeadFirst' /\ FirstPrev'
  <2>1. order # << >> => node'[order[1]].prev = node[order[1]].prev
    BY <1>3, <1>7
  <2> QED
    BY <1>1, <1>2, <1>8, <2>1, Parts DEF HeadFirst, FirstPrev
<1>10. NextChain'
  <2> SUFFICES ASSUME NEW j \in 1 .. Len(order)
               PROVE  node'[order[j]].next =
                        IF j < Len(order) /\ (order[j + 1] = Mine(t) \/ Bridged(order[j + 1]))
                        THEN OrderAt(j + 2) ELSE OrderAt(j + 1)
    BY <1>2, <1>8 DEF NextChain, OrderAt
  <2>1. node[order[j]].next = IF j < Len(order) /\ Bridged(order[j + 1])
                              THEN OrderAt(j + 2) ELSE OrderAt(j + 1)
    BY <1>1, Parts DEF NextChain
  <2>2. CASE j # b
    <3>1. node'[order[j]] = node[order[j]]
      BY <1>3, <1>5, <1>6, <2>2
    <3>2. j < Len(order) => order[j + 1] # Mine(t)
      BY <1>3, <2>2 DEF b
    <3> QED
      BY <2>1, <3>1, <3>2
  <2>3. CASE j = b /\ i # 1
    <3>1. j + 1 = i /\ j < Len(order) /\ j + 2 = i + 1
      BY <1>3, <2>3 DEF b
    <3>2. node'[order[j]].next = OrderAt(i + 1)
      BY <1>3, <1>6, <2>3
    <3> QED
      BY <1>3, <3>1, <3>2
  <2>4. CASE j = b /\ i = 1
    <3>1. j = 1 /\ node'[order[j]].next = OrderAt(2)
      BY <1>3, <1>6, <2>4 DEF b
    <3>2. j < Len(order) => order[j + 1] # Mine(t) /\ ~Bridged(order[j + 1])
      BY <1>1, <1>3, <2>4, <3>1, PhasesNow
    <3> QED
      BY <3>1, <3>2
  <2> QED
    BY <2>2, <2>3, <2>4
<1>11. PrevChain'
  <2> SUFFICES ASSUME NEW j \in 2 .. Len(order)
               PROVE  node'[order[j]].prev =
                        IF Unlinked(order[j - 1]) THEN node'[order[j - 1]].prev
                        ELSE IF j = 2 /\ SelfLinked(order[1]) THEN order[2]
                        ELSE order[j - 1]
    <3>1. \A j \in 2 .. Len(order) : Unlinked(order[j - 1])' <=> Unlinked(order[j - 1])
      <4> TAKE j \in 2 .. Len(order)
      <4>1. label = "freeNode" => order[j - 1] # Mine(t)
        BY <1>3, <1>4
      <4> QED
        BY <1>2, <1>8, <4>1
    <3> QED
      BY <1>2, <1>8, <3>1 DEF PrevChain
  <2>1. j \in 1 .. Len(order) /\ j - 1 \in 1 .. Len(order)
    BY <1>3
  <2>2. /\ node'[order[j]].prev = node[order[j]].prev
        /\ node'[order[j - 1]].prev = node[order[j - 1]].prev
    BY <1>3, <1>7, <2>1
  <2> QED
    BY <1>1, <2>2, Parts DEF PrevChain
<1>12. Branches(t)'
  <2>1. pc'[t] = label /\ Mine(t)' = Mine(t)
    BY <1>1 DEF Advances, Mine
  <2>2. /\ i \in 1 .. Len(order') /\ order'[i] = Mine(t)' /\ node'[Mine(t)'].prev # Null
        /\ (label = "following" => i < Len(order'))
    BY <1>2, <1>3, <1>4, <1>7, <2>1
  <2> QED
    BY <2>1, <2>2 DEF Branches, HeadCase, OtherCase, Emptied
<1>13. ASSUME NEW u \in Closers, u # t, pc[u] \in Deleting
       PROVE  node'[Mine(u)].prev = node[Mine(u)].prev
  <2>1. Mine(u) \in 1 .. Len(node)
    BY <1>1, <1>13, Deletes
  <2> QED
    BY <1>7, <2>1
<1>14. head' \in 1 .. Len(node) \ freed /\ replaced' \in BOOLEAN
  BY <1>1, <1>2, Parts DEF Alive, TypeOK
<1>15. ASSUME NEW n \in 1 .. Len(node)
       PROVE  /\ n \notin Listed => node'[n] = node[n]
              /\ node'[n].client = node[n].client /\ node'[n].fd = node[n].fd
  BY <1>5, <1>6, <1>7 DEF Listed
<1> QED
  BY <1>1, <1>2, <1>6, <1>9, <1>10, <1>11, <1>12, <1>13, <1>14, <1>15, DeletingWrites

LEMMA BridgeKeeps ==
  ASSUME RacesInv, NEW t \in Closers, Bridge(t)
  PROVE  RacesInv'
<1>1. /\ Sound /\ pc[t] = "bridge" /\ Stay(t, "following") /\ t \in Threads
      /\ pc[t] \in Deleting /\ "following" \in Labels /\ TypeOK
      /\ Sets(node[Mine(t)].prev, "next", loc[t].ptr) /\ UNCHANGED <<connVars, order>>
  BY Kinds, Parts DEF Bridge, At, Deleting, Labels
<1>2. Advances(t, "following")
  BY <1>1, StayAdvances
<1>3. PICK i \in 1 .. Len(order) :
        /\ order[i] = Mine(t) /\ loc[t].ptr = OrderAt(i + 1)
        /\ \A j, k \in 1 .. Len(order) : order[j] = order[k] => j = k
  <2>1. PICK i \in 1 .. Len(order) :
          /\ order[i] = Mine(t) /\ Branches(t)
          /\ \A j, k \in 1 .. Len(order) : order[j] = order[k] => j = k
    BY <1>1, Deletes
  <2> QED
    BY <1>1, <2>1 DEF Branches
<1>4. loc[t].ptr \in Pointers
  BY <1>1 DEF TypeOK, Locals
<1>5. pc[t] \in {"bridge", "cutLast"} /\ "following" \in {"following", "freeNode"}
  BY <1>1
<1> QED
  BY <1>1, <1>2, <1>3, <1>4, <1>5, BridgingKeeps

LEMMA CutLastKeeps ==
  ASSUME RacesInv, NEW t \in Closers, CutLast(t)
  PROVE  RacesInv'
<1>1. /\ Sound /\ pc[t] = "cutLast" /\ Stay(t, "freeNode") /\ t \in Threads
      /\ pc[t] \in Deleting /\ "freeNode" \in Labels /\ TypeOK
      /\ Sets(node[Mine(t)].prev, "next", Null) /\ UNCHANGED <<connVars, order>>
  BY Kinds, Parts DEF CutLast, At, Deleting, Labels
<1>2. Advances(t, "freeNode")
  BY <1>1, StayAdvances
<1>3. PICK i \in 1 .. Len(order) :
        /\ order[i] = Mine(t) /\ i = Len(order) /\ Len(order) \in Nat
        /\ \A j, k \in 1 .. Len(order) : order[j] = order[k] => j = k
  <2>1. PICK i \in 1 .. Len(order) :
          /\ order[i] = Mine(t) /\ Branches(t) /\ Len(order) \in Nat
          /\ \A j, k \in 1 .. Len(order) : order[j] = order[k] => j = k
    BY <1>1, Deletes
  <2> QED
    BY <1>1, <2>1 DEF Branches
<1>4. Null \in Pointers /\ OrderAt(i + 1) = Null
  BY <1>3 DEF Pointers, OrderAt
<1>5. pc[t] \in {"bridge", "cutLast"} /\ "freeNode" \in {"following", "freeNode"}
      /\ "freeNode" # "following"
  BY <1>1
<1> QED
  BY <1>1, <1>2, <1>3, <1>4, <1>5, BridgingKeeps

LEMMA BackLinkKeeps ==
  ASSUME RacesInv, NEW t \in Closers, BackLink(t)
  PROVE  RacesInv'
<1>1. /\ Sound /\ pc[t] = "backLink" /\ Stay(t, "freeNode") /\ t \in Threads
      /\ pc[t] \in Deleting \ Emptied /\ "freeNode" \in (Deleting \cap Labels) \ Emptied /\ TypeOK
      /\ Sets(loc[t].ptr, "prev", node[Mine(t)].prev) /\ UNCHANGED <<connVars, order>>
  BY Kinds, Parts DEF BackLink, At, Deleting, Labels, Emptied
<1>2. /\ head' = head /\ replaced' = replaced /\ freed' = freed
      /\ gone' = gone /\ conns' = conns /\ watched' = watched /\ order' = order
      /\ misled' = misled /\ broken' = broken
  BY <1>1 DEF Sets, connVars
<1>3. Advances(t, "freeNode")
  BY <1>1, StayAdvances
<1>4. PICK i \in 1 .. Len(order) :
        /\ order[i] = Mine(t) /\ Branches(t) /\ Mine(t) \in Listed
        /\ Len(order) \in Nat /\ i \in Int
        /\ \A j \in 1 .. Len(order) : order[j] \in 1 .. Len(node) /\ order[j] \in Nodes
        /\ \A j, k \in 1 .. Len(order) : order[j] = order[k] => j = k
  BY <1>1, Deletes
<1>5. /\ node[Mine(t)].prev # Null /\ i + 1 \in 1 .. Len(order)
      /\ loc[t].ptr = order[i + 1]
  BY <1>1, <1>4 DEF Branches, OtherCase, OrderAt
<1>6. node[Mine(t)].prev \in Pointers
  <2>1. Mine(t) \in 1 .. Len(node) /\ node \in Seq(Fields)
    BY <1>1, <1>4 DEF TypeOK
  <2>2. node[Mine(t)] \in Fields
    BY <2>1, ElementOfSeq
  <2> QED
    BY <2>2 DEF Fields
<1>7. /\ node' \in Seq(Fields) /\ Len(node') = Len(node)
      /\ node'[order[i + 1]].prev = node[Mine(t)].prev
      /\ node'[order[i + 1]].next = node[order[i + 1]].next
      /\ node'[order[i + 1]].fd = node[order[i + 1]].fd
      /\ node'[order[i + 1]].client = node[order[i + 1]].client
      /\ \A m \in 1 .. Len(node) : m # order[i + 1] => node'[m] = node[m]
  BY <1>1, <1>4, <1>5, <1>6, PrevWritten
<1>8. \A n :
        /\ PassedOver(n)' <=> PassedOver(n)
        /\ SelfLinked(n)' <=> SelfLinked(n)
        /\ Bridged(n)' <=> Bridged(n)
        /\ Unlinked(n)' <=> (n = Mine(t) \/ Unlinked(n))
  BY <1>1, <1>3, <1>4, PhasesNow, PhasesNext
<1>9. HeadFirst' /\ FirstPrev'
  <2>1. order # << >> => node'[order[1]].prev = node[order[1]].prev
    BY <1>4, <1>5, <1>7
  <2> QED
    BY <1>1, <1>2, <1>8, <2>1, Parts DEF HeadFirst, FirstPrev
<1>10. NextChain'
  <2>1. \A j \in 1 .. Len(order) : node'[order[j]].next = node[order[j]].next
    BY <1>4, <1>7
  <2> QED
    BY <1>1, <1>2, <1>8, <2>1, Parts DEF NextChain, OrderAt
<1>11. PrevChain'
  <2> SUFFICES ASSUME NEW j \in 2 .. Len(order)
               PROVE  node'[order[j]].prev =
                        IF order[j - 1] = Mine(t) \/ Unlinked(order[j - 1])
                        THEN node'[order[j - 1]].prev
                        ELSE IF j = 2 /\ SelfLinked(order[1]) THEN order[2]
                        ELSE order[j - 1]
    BY <1>2, <1>8 DEF PrevChain
  <2>1. j \in 1 .. Len(order) /\ j - 1 \in 1 .. Len(order) /\ j \in Int
    BY <1>4
  <2>2. node[order[j]].prev = IF Unlinked(order[j - 1]) THEN node[order[j - 1]].prev
                              ELSE IF j = 2 /\ SelfLinked(order[1]) THEN order[2]
                              ELSE order[j - 1]
    BY <1>1, Parts DEF PrevChain
  <2>3. CASE j = i + 1
    <3>1. order[j - 1] = Mine(t)
      BY <1>4, <2>3
    <3>2. node'[order[j - 1]] = node[order[j - 1]]
      BY <1>4, <1>5, <1>7, <2>1, <2>3
    <3> QED
      BY <1>7, <2>3, <3>1, <3>2
  <2>4. CASE j = i + 2
    <3>1. ~Unlinked(order[j - 1]) /\ order[j - 1] # Mine(t)
      BY <1>1, <1>4, <1>5, <2>1, <2>4, PhasesNow
    <3>2. node'[order[j]] = node[order[j]]
      BY <1>4, <1>5, <1>7, <2>1, <2>4
    <3> QED
      BY <2>2, <3>1, <3>2
  <2>5. CASE j # i + 1 /\ j # i + 2
    <3>1. node'[order[j]] = node[order[j]] /\ node'[order[j - 1]] = node[order[j - 1]]
      <4>1. j # i + 1 /\ j - 1 # i + 1
        BY <1>4, <2>1, <2>5
      <4>2. order[j] # order[i + 1] /\ order[j - 1] # order[i + 1]
        BY <1>4, <1>5, <2>1, <4>1
      <4> QED
        BY <1>4, <1>7, <2>1, <4>2
    <3>2. order[j - 1] # Mine(t)
      BY <1>4, <2>1, <2>5
    <3> QED
      BY <2>2, <3>1, <3>2
  <2> QED
    BY <2>3, <2>4, <2>5
<1>12. Branches(t)'
  <2>1. pc'[t] = "freeNode" /\ Mine(t)' = Mine(t)
    BY <1>1, <1>3 DEF Advances, Mine
  <2>2. node'[Mine(t)] = node[Mine(t)]
    BY <1>4, <1>5, <1>7
  <2>3. i \in 1 .. Len(order') /\ order'[i] = Mine(t)' /\ node'[Mine(t)'].prev # Null
    BY <1>2, <1>4, <1>5, <2>1, <2>2
  <2> QED
    BY <2>1, <2>3 DEF Branches, HeadCase, OtherCase, Emptied
<1>13. ASSUME NEW u \in Closers, u # t, pc[u] \in Deleting
       PROVE  node'[Mine(u)].prev = node[Mine(u)].prev
  <2>1. PICK j \in 1 .. Len(order) : order[j] = Mine(u)
    BY <1>1, <1>13, Deletes
  <2>2. j # i + 1
    BY <1>1, <1>4, <1>13, <2>1, Alone
  <2> QED
    BY <1>4, <1>5, <1>7, <2>1, <2>2
<1>14. head' \in 1 .. Len(node) \ freed /\ replaced' \in BOOLEAN
  BY <1>1, <1>2, Parts DEF Alive, TypeOK
<1>15. ASSUME NEW n \in 1 .. Len(node)
       PROVE  /\ n \notin Listed => node'[n] = node[n]
              /\ node'[n].client = node[n].client /\ node'[n].fd = node[n].fd
  BY <1>5, <1>7 DEF Listed
<1> QED
  BY <1>1, <1>2, <1>3, <1>7, <1>9, <1>10, <1>11, <1>12, <1>13, <1>14, <1>15, DeletingWrites

-----------------------------------------------------------------------------
(* The ends of del_fd2client: the node leaves the list.                    *)

LEMMA ZeroNextKeeps ==
  ASSUME RacesInv, NEW t \in Closers, ZeroNext(t)
  PROVE  RacesInv'
<1>1. /\ Sound /\ pc[t] = "zeroNext" /\ Stay(t, "close") /\ t \in Threads
      /\ pc[t] \in Deleting /\ "close" \in Labels /\ TypeOK /\ OwnCode
      /\ Sets(Mine(t), "next", Null) /\ Deleted(t)
  BY Kinds, Parts DEF ZeroNext, At, Deleting, Labels
<1>2. /\ head' = head /\ replaced' = replaced /\ freed' = freed
      /\ gone' = gone /\ conns' = conns /\ watched' = watched
      /\ misled' = misled /\ broken' = broken
  BY <1>1 DEF Sets, Deleted, connVars
<1>3. Advances(t, "close")
  BY <1>1, StayAdvances
<1>4. PICK i \in 1 .. Len(order) :
        /\ order[i] = Mine(t) /\ Branches(t) /\ Mine(t) \in 1 .. Len(node)
        /\ \A j, k \in 1 .. Len(order) : order[j] = order[k] => j = k
  BY <1>1, Deletes
<1>5. i = 1 /\ node[Mine(t)].prev = Null /\ Len(order) = 1 /\ order # << >>
  BY <1>1, <1>4 DEF Branches, HeadCase, Emptied
<1>6. head = Mine(t) /\ head \in 1 .. Len(node)
  BY <1>1, <1>4, <1>5, OwnHead
<1>7. node[head].fd = 0 /\ node[head].client = Null
  BY <1>1, <1>4, <1>6, PhasesNow, Parts DEF Contents
<1>8. Null \in Pointers
  BY DEF Pointers
<1>9. /\ node' \in Seq(Fields) /\ Len(node') = Len(node) /\ node'[head].next = Null
      /\ node'[head].fd = 0 /\ node'[head].client = Null /\ node'[head].prev = Null
      /\ \A m \in 1 .. Len(node) : m # head => node'[m] = node[m]
  BY <1>1, <1>4, <1>5, <1>6, <1>7, <1>8, NextWritten
<1>10. order' \in Seq(Nodes) /\ Len(order') = 0 /\ order' = << >>
  <2>1. PICK k \in 1 .. Len(order) : order' = RemoveAt(order, k)
    BY <1>1 DEF Deleted
  <2>2. order \in Seq(Nodes)
    BY <1>1 DEF TypeOK
  <2>3. RemoveAt(order, k) \in Seq(Nodes) /\ Len(RemoveAt(order, k)) = Len(order) - 1
    BY <2>2, RemovalAt
  <2>4. order' \in Seq(Nodes) /\ Len(order') = 0
    BY <1>5, <2>1, <2>3
  <2> QED
    BY <2>4, EmptySeq
<1>11. pc[Main] \notin Adding /\ pc'[Main] = pc[Main] /\ Main \in Threads
  BY <1>1, <1>3, <1>4, <1>5, Alone, Kinds DEF Advances
<1>12. \A u \in Closers : pc'[u] \notin Deleting
  <2> SUFFICES ASSUME NEW u \in Closers, u # t, pc[u] \in Deleting
               PROVE  FALSE
    BY <1>3, Kinds DEF Advances, Deleting
  <2>1. PICK j \in 1 .. Len(order) : order[j] = Mine(u)
    BY <1>1, Deletes
  <2> QED
    BY <1>1, <1>4, <1>5, <2>1, Alone
<1>13. \A n : Alive(n)' <=> Alive(n)
  BY <1>1, <1>2, <1>9 DEF Alive, TypeOK
<1>14. /\ TypeOK' /\ OwnCode'
  <2>1. OwnCode'
    BY <1>1, <1>3, CodeAdvances
  <2> QED
    BY <1>1, <1>2, <1>3, <1>9, <1>10, <2>1 DEF TypeOK, Advances
<1>15. ListShape'
  <2> SUFFICES ASSUME NEW n \in Nodes, Alive(n)
               PROVE  n = head
    BY <1>2, <1>10, <1>13 DEF ListShape
  <2>1. n \in Listed
    BY <1>1, <1>5, <1>11, Parts DEF ListShape, Adding
  <2> QED
    BY <1>4, <1>5, <1>6, <2>1 DEF Listed
<1>16. HeadFirst' /\ NextChain' /\ PrevChain' /\ FirstPrev' /\ Contents'
  BY <1>10 DEF HeadFirst, NextChain, PrevChain, FirstPrev, Contents
<1>17. RightBranch' /\ Appends'
  BY <1>11, <1>12 DEF RightBranch, Appends
<1>18. EmptyHead'
  BY <1>2, <1>9, <1>11 DEF EmptyHead, Adding
<1>19. NodeCount'
  BY <1>1, <1>2, <1>9, <1>11, Parts DEF NodeCount
<1>20. GoneHeld'
  <2> SUFFICES ASSUME NEW n \in Nodes, Alive(n)', node'[n].client \in gone
               PROVE  FALSE
    BY <1>2 DEF GoneHeld
  <2>1. n = head
    BY <1>2, <1>10, <1>11, <1>15 DEF ListShape, Listed, Adding
  <2> QED
    BY <1>1, <1>9, <2>1, NullNotGone
<1>21. \A u \in Threads :
         /\ pc'[u] = IF u = t THEN "close" ELSE pc[u]
         /\ Mine(u)' = Mine(u) /\ loc'[u].call = loc[u].call /\ loc'[u].conn = loc[u].conn
         /\ loc'[u].walk = loc[u].walk /\ loc[u].during \subseteq loc'[u].during
  BY <1>3, Kinds DEF Advances, Mine
<1>22. Held'
  BY <1>1, <1>13, <1>21, Parts DEF Held, KeptBy, Walking
<1>23. Looked'
  <2> SUFFICES ASSUME NEW u \in Closers, Alive(Mine(u))', pc'[u] \in {"age", "freeClient", "client"}
               PROVE  /\ pc'[u] \in {"age", "freeClient"} =>
                           Mine(u) \in loc'[u].during \/ node'[Mine(u)].fd # 0
                      /\ pc'[u] = "client" =>
                           Mine(u) \in loc'[u].during \/ node'[Mine(u)].fd = loc[u].conn
    BY <1>21, Kinds DEF Looked
  <2>1. u \in Threads /\ pc'[u] = pc[u]
    BY <1>21, Kinds
  <2>2. Alive(Mine(u)) /\ loc[u].during \subseteq loc'[u].during /\ Mine(u)' = Mine(u)
    BY <1>13, <1>21, <2>1
  <2>3. node'[Mine(u)].fd = node[Mine(u)].fd
    BY <1>1, <1>7, <1>9, <2>2 DEF Alive, TypeOK
  <2> QED
    BY <1>1, <2>1, <2>2, <2>3, Parts DEF Looked
<1>24. NotPassed'
  BY <1>1, <1>2, <1>10, <1>21, Kinds, Parts DEF NotPassed
<1>25. Good' /\ Alive(head)'
  <2>1. Unseen'
    <3>1. DOMAIN node' = DOMAIN node
      BY <1>1, <1>9 DEF TypeOK
    <3> QED
      BY <1>1, <1>3, <3>1, Parts, UnseenAdvances
  <2> QED
    BY <2>1, <1>1, <1>2, <1>13, <1>15, <1>16, <1>17, <1>18, <1>19, <1>20, <1>22, <1>23, <1>24, Parts
     DEF Good
<1> QED
  BY <1>1, <1>2, <1>14, <1>25, Parts, Whole

(* What the freeing of a node does; up(j) is where the j-th of the nodes   *)
(* that are left was before.                                               *)
LEMMA FreeNodeStep ==
  ASSUME RacesInv, NEW t \in Closers, FreeNode(t)
  PROVE  \E i \in 1 .. Len(order) :
           /\ Sound /\ pc[t] \in {"freeHead", "freeNode"} /\ pc[t] \in Deleting
           /\ order[i] = Mine(t) /\ Len(order) \in Nat /\ i \in Int /\ Branches(t)
           /\ Mine(t) \in Nodes /\ Advances(t, "close")
           /\ \A u \in Threads : loc'[u].ptr = loc[u].ptr
           /\ \A u \in Threads : pc[u] # Idle(u) => Mine(t) \in loc'[u].during
           /\ head' = head /\ node' = node /\ freed' = freed \cup {Mine(t)} /\ gone' = gone
           /\ conns' = conns /\ watched' = watched /\ replaced' = replaced
           /\ misled' = misled /\ broken' = broken
           /\ order' \in Seq(Nodes) /\ Len(order') = Len(order) - 1
           /\ \A j \in 1 .. Len(order) - 1 :
                order'[j] = IF j < i THEN order[j] ELSE order[j + 1]
           /\ \A j, k \in 1 .. Len(order) : order[j] = order[k] => j = k
           /\ \A j \in 1 .. Len(order) : order[j] \in Nodes
<1>1. /\ Sound /\ pc[t] \in {"freeHead", "freeNode"} /\ pc[t] \in Deleting /\ t \in Threads
      /\ TypeOK /\ "close" \in Labels
  BY Kinds, Parts DEF FreeNode, At, Deleting, Labels
<1>2. PICK i \in 1 .. Len(order) :
        /\ order[i] = Mine(t) /\ Branches(t) /\ Len(order) \in Nat /\ i \in Int
        /\ \A j \in 1 .. Len(order) : order[j] \in Nodes
        /\ \A j, k \in 1 .. Len(order) : order[j] = order[k] => j = k
  BY <1>1, Deletes
<1>3. Via(t) = {Mine(t)}
  <2>1. CASE pc[t] = "freeHead"
    <3>1. loc[t].ptr = Mine(t)
      BY <1>2, <2>1 DEF Branches
    <3>2. pc[t] \in ViaPtr /\ pc[t] \notin ViaHead \cup ViaNothing \cup Loops \cup ViaPrev
      BY <2>1 DEF ViaHead, ViaPtr, ViaNothing, Loops, ViaPrev
    <3> QED
      BY <3>1, <3>2 DEF Via
  <2>2. CASE pc[t] = "freeNode"
    BY <2>2 DEF Via, ViaHead, ViaPtr, ViaNothing, Loops, ViaPrev
  <2> QED
    BY <1>1, <2>1, <2>2
<1>4. Mine(t) \in Nodes
  BY <1>2
<1>5. StayNoting(t, "close", Mine(t)) /\ freed' = freed \cup {Mine(t)}
  BY <1>3 DEF FreeNode
<1>6. Advances(t, "close") /\ \A u \in Threads : pc[u] # Idle(u) => Mine(t) \in loc'[u].during
  BY <1>1, <1>4, <1>5, NotingAdvances
<1>7. \A u \in Threads : loc'[u].ptr = loc[u].ptr
  BY <1>1, <1>4, <1>5, <1>6, NotingAdvances DEF Advances
<1>8. /\ head' = head /\ node' = node /\ gone' = gone
      /\ conns' = conns /\ watched' = watched /\ replaced' = replaced
      /\ misled' = misled /\ broken' = broken
  BY DEF FreeNode, Deleted, connVars
<1>9. order' = RemoveAt(order, i)
  BY <1>2 DEF FreeNode, Deleted
<1>10. order \in Seq(Nodes)
  BY <1>1 DEF TypeOK
<1>11. /\ order' \in Seq(Nodes) /\ Len(order') = Len(order) - 1
       /\ \A j \in 1 .. Len(order) - 1 :
            order'[j] = IF j < i THEN order[j] ELSE order[j + 1]
  BY <1>9, <1>10, RemovalAt
<1> QED
  BY <1>1, <1>2, <1>4, <1>5, <1>6, <1>7, <1>8, <1>11

(* fd2clients dangles only after it was moved.                             *)
LEMMA FreeNodeHead ==
  ASSUME RacesInv, NEW t \in Closers, FreeNode(t), NEW i \in 1 .. Len(order), order[i] = Mine(t)
  PROVE  /\ Alive(head)' \/ replaced'
         /\ Alive(head)' <=> (i = 1 <=> pc[t] = "freeHead")
         /\ Alive(head)' => Len(order) > 1
<1>1. /\ Sound /\ pc[t] \in {"freeHead", "freeNode"} /\ pc[t] \in Deleting
      /\ Len(order) \in Nat /\ i \in Int /\ Branches(t)
      /\ head' = head /\ node' = node /\ freed' = freed \cup {Mine(t)} /\ replaced' = replaced
      /\ \A j, k \in 1 .. Len(order) : order[j] = order[k] => j = k
  BY FreeNodeStep
<1>2. Alive(head)' <=> head # Mine(t)
  BY <1>1, Parts DEF Alive
<1>3. order # << >> /\ 1 \in 1 .. Len(order)
  BY <1>1
<1>4. CASE pc[t] = "freeHead"
  <2>1. i = 1 /\ Len(order) > 1
    BY <1>1, <1>4 DEF Branches, HeadCase
  <2>2. head = order[2]
    BY <1>1, <1>4, <2>1, OwnHead
  <2>3. head # Mine(t)
    BY <1>1, <2>1, <2>2
  <2> QED
    BY <1>2, <1>4, <2>1, <2>3
<1>5. CASE pc[t] = "freeNode" /\ i = 1
  <2>1. head = Mine(t)
    BY <1>1, <1>5, OwnHead
  <2>2. node[Mine(t)].prev # Null
    BY <1>1, <1>5 DEF Branches, OtherCase
  <2>3. replaced
    BY <1>1, <1>3, <1>5, <2>2, Parts DEF FirstPrev
  <2> QED
    BY <1>1, <1>2, <1>5, <2>1, <2>3
<1>6. CASE pc[t] = "freeNode" /\ i # 1
  <2>1. Len(order) > 1 /\ Mine(t) # order[1]
    BY <1>1, <1>3, <1>6
  <2>2. head # Mine(t)
    <3>1. PassedOver(order[1]) => i # 2
      BY <1>1, <1>3, PhasesNow
    <3>2. PassedOver(order[1]) => order[2] # Mine(t)
      BY <1>1, <2>1, <3>1
    <3> QED
      BY <1>1, <1>3, <2>1, <3>2, Parts DEF HeadFirst
  <2> QED
    BY <1>2, <1>6, <2>1, <2>2
<1> QED
  BY <1>1, <1>4, <1>5, <1>6

Up(i, j) == IF j < i THEN j ELSE j + 1

LEMMA FreeNodeShift ==
  ASSUME RacesInv, NEW t \in Closers, FreeNode(t), NEW i \in 1 .. Len(order), order[i] = Mine(t)
  PROVE  /\ \A j \in 1 .. Len(order') :
              /\ Up(i, j) \in 1 .. Len(order) /\ Up(i, j) # i
              /\ order'[j] = order[Up(i, j)] /\ order'[j] # Mine(t)
         /\ \A k \in 1 .. Len(order) : k # i => \E j \in 1 .. Len(order') : Up(i, j) = k
         /\ Listed' = Listed \ {Mine(t)}
         /\ \A n : Alive(n)' <=> n # Mine(t) /\ Alive(n)
<1>1. /\ Len(order) \in Nat /\ i \in Int /\ Len(order') = Len(order) - 1
      /\ node' = node /\ freed' = freed \cup {Mine(t)}
      /\ \A j \in 1 .. Len(order) - 1 :
           order'[j] = IF j < i THEN order[j] ELSE order[j + 1]
      /\ \A j, k \in 1 .. Len(order) : order[j] = order[k] => j = k
  BY FreeNodeStep
<1>2. ASSUME NEW j \in 1 .. Len(order')
      PROVE  /\ Up(i, j) \in 1 .. Len(order) /\ Up(i, j) # i
             /\ order'[j] = order[Up(i, j)] /\ order'[j] # Mine(t)
  <2>1. Up(i, j) \in 1 .. Len(order) /\ Up(i, j) # i
    BY <1>1 DEF Up
  <2>2. order'[j] = order[Up(i, j)]
    BY <1>1 DEF Up
  <2> QED
    BY <1>1, <2>1, <2>2
<1>3. ASSUME NEW k \in 1 .. Len(order), k # i
      PROVE  \E j \in 1 .. Len(order') : Up(i, j) = k
  <2>1. CASE k < i
    BY <1>1, <2>1 DEF Up
  <2>2. CASE k > i
    <3>1. k - 1 \in 1 .. Len(order') /\ Up(i, k - 1) = k
      BY <1>1, <2>2 DEF Up
    <3> QED
      BY <3>1
  <2> QED
    BY <1>1, <1>3, <2>1, <2>2
<1>4. \A n : n \in Listed' <=> n # Mine(t) /\ n \in Listed
  <2>1. ASSUME NEW n, n \in Listed'
        PROVE  n # Mine(t) /\ n \in Listed
    BY <1>2, <2>1 DEF Listed
  <2>2. ASSUME NEW n, n # Mine(t), n \in Listed
        PROVE  n \in Listed'
    <3>1. PICK k \in 1 .. Len(order) : n = order[k]
      BY <2>2 DEF Listed
    <3>2. PICK j \in 1 .. Len(order') : Up(i, j) = k
      BY <1>3, <2>2, <3>1
    <3>3. order'[j] = n
      BY <1>2, <3>1, <3>2
    <3> QED
      BY <3>3 DEF Listed
  <2> QED
    BY <2>1, <2>2
<1>5. \A n : Alive(n)' <=> n # Mine(t) /\ Alive(n)
  BY <1>1 DEF Alive
<1> QED
  BY <1>2, <1>3, <1>4, <1>5

LEMMA FreeNodeList ==
  ASSUME RacesInv, NEW t \in Closers, FreeNode(t), Alive(head)'
  PROVE  ListShape' /\ HeadFirst' /\ NextChain' /\ PrevChain' /\ FirstPrev'
<1>1. PICK i \in 1 .. Len(order) :
        /\ Sound /\ pc[t] \in {"freeHead", "freeNode"} /\ pc[t] \in Deleting
        /\ order[i] = Mine(t) /\ Len(order) \in Nat /\ i \in Int /\ Branches(t)
        /\ Advances(t, "close") /\ \A u \in Threads : loc'[u].ptr = loc[u].ptr
        /\ head' = head /\ node' = node /\ replaced' = replaced
        /\ Len(order') = Len(order) - 1
        /\ \A j, k \in 1 .. Len(order) : order[j] = order[k] => j = k
  BY FreeNodeStep
<1>2. /\ \A j \in 1 .. Len(order') :
           /\ Up(i, j) \in 1 .. Len(order) /\ Up(i, j) # i
           /\ order'[j] = order[Up(i, j)] /\ order'[j] # Mine(t)
      /\ Listed' = Listed \ {Mine(t)}
      /\ \A n : Alive(n)' <=> n # Mine(t) /\ Alive(n)
  BY <1>1, FreeNodeShift
<1>3. (i = 1 <=> pc[t] = "freeHead") /\ Len(order) > 1
      /\ order # << >> /\ 1 \in 1 .. Len(order) /\ order' # << >>
  BY <1>1, FreeNodeHead
<1>4. \A n : n # Mine(t) =>
        /\ PassedOver(n)' <=> PassedOver(n)
        /\ SelfLinked(n)' <=> SelfLinked(n)
        /\ Bridged(n)' <=> Bridged(n)
        /\ Unlinked(n)' <=> Unlinked(n)
  BY <1>1, PhasesEnd
<1>5. /\ \A j \in 1 .. Len(order) : j \in {i - 1, i + 1} =>
           /\ ~PassedOver(order[j]) /\ ~SelfLinked(order[j])
           /\ ~Bridged(order[j]) /\ ~Unlinked(order[j])
      /\ pc[t] = "freeHead" => PassedOver(order[i]) /\ SelfLinked(order[i]) /\ ~Unlinked(order[i])
      /\ pc[t] = "freeNode" => Bridged(order[i]) /\ Unlinked(order[i])
  BY <1>1, PhasesNow
<1>6. ListShape'
  <2>1. \A j, k \in 1 .. Len(order') : order'[j] = order'[k] => j = k
    <3> SUFFICES ASSUME NEW j \in 1 .. Len(order'), NEW k \in 1 .. Len(order'),
                        order'[j] = order'[k]
                 PROVE  j = k
      OBVIOUS
    <3>1. Up(i, j) = Up(i, k)
      BY <1>1, <1>2
    <3> QED
      BY <1>1, <3>1 DEF Up
  <2>2. \A j \in 1 .. Len(order') : Alive(order[j])'
    <3> SUFFICES ASSUME NEW j \in 1 .. Len(order')
                 PROVE  Alive(order[j])'
      OBVIOUS
    <3>1. Alive(order[Up(i, j)])
      BY <1>1, <1>2, Parts DEF ListShape
    <3> QED
      BY <1>2, <3>1
  <2>3. ASSUME NEW n \in Nodes, Alive(n)'
        PROVE  n \in Listed' \/ (n = loc'[Main].ptr /\ pc'[Main] = "addLink")
    <3>1. n \in Listed \/ (n = loc[Main].ptr /\ pc[Main] = "addLink")
      BY <1>1, <1>2, <1>3, <2>3, Parts DEF ListShape
    <3>2. pc'[Main] = pc[Main] /\ loc'[Main].ptr = loc[Main].ptr
      BY <1>1, Kinds DEF Advances
    <3> QED
      BY <1>2, <2>3, <3>1, <3>2
  <2> QED
    BY <2>1, <2>2, <2>3 DEF ListShape
<1>7. HeadFirst' /\ FirstPrev'
  <2>1. CASE i = 1
    <3>1. order'[1] = order[2] /\ 2 \in 1 .. Len(order) /\ order[2] # Mine(t)
      BY <1>1, <1>2, <1>3, <2>1 DEF Up
    <3>2. head = order[2] /\ replaced
      BY <1>1, <1>3, <1>5, <2>1, Parts DEF HeadFirst
    <3>3. ~PassedOver(order[2])
      BY <1>1, <1>5, <2>1, <3>1
    <3>4. node[order[2]].prev = order[2]
      <4>1. ~Unlinked(order[1]) /\ SelfLinked(order[1])
        BY <1>3, <1>5, <2>1
      <4> QED
        BY <1>1, <1>3, <4>1, Parts DEF PrevChain
    <3>5. \A n : n = order[2] => ~PassedOver(n)'
      BY <1>4, <3>1, <3>3
    <3> QED
      BY <1>1, <3>1, <3>2, <3>4, <3>5 DEF HeadFirst, FirstPrev
  <2>2. CASE i # 1
    <3>1. order'[1] = order[1] /\ order[1] # Mine(t)
      BY <1>1, <1>2, <1>3, <2>2 DEF Up
    <3>2. PassedOver(order[1]) => Len(order') > 1 /\ order'[2] = order[2]
      <4>1. PassedOver(order[1]) => i # 2
        BY <1>1, <1>3, <1>5
      <4> QED
        BY <1>1, <1>2, <2>2, <4>1 DEF Up
    <3>3. \A n : n = order[1] => (PassedOver(n)' <=> PassedOver(n))
      BY <1>4, <3>1
    <3>4. HeadFirst /\ FirstPrev
      BY <1>1, Parts
    <3>5. HeadFirst'
      BY <1>1, <1>3, <3>1, <3>2, <3>3, <3>4 DEF HeadFirst
    <3>6. FirstPrev'
      BY <1>1, <1>3, <3>1, <3>4 DEF FirstPrev
    <3> QED
      BY <3>5, <3>6
  <2> QED
    BY <2>1, <2>2
<1>8. NextChain'
  <2>0. \A m \in 1 .. Len(order) + 1 : OrderAt(m)' = OrderAt(Up(i, m))
    <3> TAKE m \in 1 .. Len(order) + 1
    <3>1. CASE m \in 1 .. Len(order')
      BY <1>1, <1>2, <3>1 DEF OrderAt
    <3>2. CASE m \notin 1 .. Len(order')
      BY <1>1, <3>2 DEF OrderAt, Up
    <3> QED
      BY <3>1, <3>2
  <2> SUFFICES ASSUME NEW j \in 1 .. Len(order')
               PROVE  node[order[Up(i, j)]].next =
                        IF j < Len(order') /\ Bridged(order[Up(i, j + 1)])
                        THEN OrderAt(Up(i, j + 2)) ELSE OrderAt(Up(i, j + 1))
    <3>1. \A j \in 1 .. Len(order') : j < Len(order') =>
             (Bridged(order[j + 1])' <=> Bridged(order[Up(i, j + 1)]))
      <4> SUFFICES ASSUME NEW j \in 1 .. Len(order'), j < Len(order')
                   PROVE  Bridged(order[j + 1])' <=> Bridged(order[Up(i, j + 1)])
        OBVIOUS
      <4>1. j + 1 \in 1 .. Len(order')
        BY <1>1
      <4>2. order'[j + 1] = order[Up(i, j + 1)] /\ order'[j + 1] # Mine(t)
        BY <1>2, <4>1
      <4> QED
        BY <1>4, <4>2
    <3>2. \A j \in 1 .. Len(order') :
            /\ OrderAt(j + 2)' = OrderAt(Up(i, j + 2))
            /\ OrderAt(j + 1)' = OrderAt(Up(i, j + 1))
      BY <1>1, <2>0
    <3> QED
      BY <1>1, <1>2, <3>1, <3>2 DEF NextChain
  <2>1. \A k \in 1 .. Len(order) :
          node[order[k]].next = IF k < Len(order) /\ Bridged(order[k + 1])
                                THEN OrderAt(k + 2) ELSE OrderAt(k + 1)
    BY <1>1, Parts DEF NextChain
  <2>2. CASE j >= i
    <3>1. Up(i, j) = j + 1 /\ Up(i, j + 1) = j + 2 /\ Up(i, j + 2) = j + 3
          /\ j + 1 \in 1 .. Len(order) /\ (j < Len(order') <=> j + 1 < Len(order))
          /\ (j + 1) + 1 = j + 2 /\ (j + 1) + 2 = j + 3
      BY <1>1, <2>2 DEF Up
    <3>2. node[order[j + 1]].next = IF j + 1 < Len(order) /\ Bridged(order[j + 2])
                                    THEN OrderAt(j + 3) ELSE OrderAt(j + 2)
      BY <2>1, <3>1
    <3> QED
      BY <3>1, <3>2
  <2>3. CASE j < i - 2
    <3>1. Up(i, j) = j /\ Up(i, j + 1) = j + 1 /\ Up(i, j + 2) = j + 2
          /\ j < Len(order) /\ j < Len(order') /\ j \in 1 .. Len(order)
      BY <1>1, <2>3 DEF Up
    <3> QED
      BY <2>1, <3>1
  <2>4. CASE j = i - 2
    <3>1. Up(i, j) = j /\ Up(i, j + 1) = j + 1 /\ j \in 1 .. Len(order)
          /\ j + 1 \in 1 .. Len(order) /\ j + 1 = i - 1
      BY <1>1, <2>4 DEF Up
    <3>2. ~Bridged(order[j + 1])
      BY <1>5, <3>1
    <3> QED
      BY <2>1, <3>1, <3>2
  <2>5. CASE j = i - 1
    <3>1. Up(i, j) = j /\ Up(i, j + 1) = i + 1 /\ j \in 1 .. Len(order)
          /\ j < Len(order) /\ j + 1 = i /\ j + 2 = i + 1 /\ i # 1
      BY <1>1, <2>5 DEF Up
    <3>2. Bridged(order[i])
      BY <1>1, <1>3, <1>5, <3>1
    <3>3. node[order[j]].next = OrderAt(i + 1)
      BY <2>1, <3>1, <3>2
    <3>4. j < Len(order') => ~Bridged(order[i + 1])
      BY <1>1, <1>5, <2>5
    <3> QED
      BY <3>1, <3>3, <3>4
  <2> QED
    BY <1>1, <2>2, <2>3, <2>4, <2>5
<1>9. PrevChain'
  <2> SUFFICES ASSUME NEW j \in 2 .. Len(order')
               PROVE  node[order'[j]].prev =
                        IF Unlinked(order'[j - 1]) THEN node[order'[j - 1]].prev
                        ELSE IF j = 2 /\ SelfLinked(order'[1]) THEN order'[2]
                        ELSE order'[j - 1]
    <3>1. \A j \in 2 .. Len(order') :
             /\ Unlinked(order[j - 1])' <=> Unlinked(order'[j - 1])
             /\ SelfLinked(order[1])' <=> SelfLinked(order'[1])
      <4> TAKE j \in 2 .. Len(order')
      <4>1. j - 1 \in 1 .. Len(order') /\ 1 \in 1 .. Len(order')
        BY <1>1
      <4>2. order'[j - 1] # Mine(t) /\ order'[1] # Mine(t)
        BY <1>2, <4>1
      <4> QED
        BY <1>4, <4>2
    <3> QED
      BY <1>1, <3>1 DEF PrevChain
  <2>1. \A k \in 2 .. Len(order) :
          node[order[k]].prev = IF Unlinked(order[k - 1]) THEN node[order[k - 1]].prev
                                ELSE IF k = 2 /\ SelfLinked(order[1]) THEN order[2]
                                ELSE order[k - 1]
    BY <1>1, Parts DEF PrevChain
  <2>2. j \in 1 .. Len(order') /\ j - 1 \in 1 .. Len(order') /\ 1 \in 1 .. Len(order')
        /\ 2 \in 1 .. Len(order')
    BY <1>1
  <2>3. order'[j] = order[Up(i, j)] /\ order'[j - 1] = order[Up(i, j - 1)]
        /\ order'[1] = order[Up(i, 1)] /\ order'[2] = order[Up(i, 2)]
    BY <1>2, <2>2
  <2>4. CASE j > i
    <3>0. j \in Int /\ j >= 2 /\ j <= Len(order) - 1 /\ j >= i + 1
      BY <1>1, <2>4
    <3>1. Up(i, j) = j + 1 /\ Up(i, j - 1) = j /\ j + 1 \in 2 .. Len(order) /\ j + 1 # 2
          /\ (j + 1) - 1 = j
      BY <1>1, <3>0 DEF Up
    <3>2. node[order[j + 1]].prev = IF Unlinked(order[j]) THEN node[order[j]].prev ELSE order[j]
      BY <2>1, <3>1
    <3>3. j = 2 => ~SelfLinked(order'[1])
      <4>1. j = 2 => i = 1 /\ Up(i, 1) = 2 /\ 2 \in 1 .. Len(order)
        BY <1>1, <2>4 DEF Up
      <4> QED
        BY <1>1, <1>5, <2>3, <4>1
    <3> QED
      BY <2>3, <3>1, <3>2, <3>3
  <2>5. CASE j = i
    <3>1. Up(i, j) = i + 1 /\ Up(i, j - 1) = i - 1 /\ i + 1 \in 2 .. Len(order)
          /\ i - 1 \in 1 .. Len(order) /\ i # 1 /\ (i + 1) - 1 = i
      BY <1>1, <2>2, <2>5 DEF Up
    <3>2. Unlinked(order[i]) /\ ~Unlinked(order[i - 1])
      BY <1>1, <1>3, <1>5, <3>1
    <3>3. node[order[i + 1]].prev = node[order[i]].prev
      BY <2>1, <3>1, <3>2
    <3>4. node[order[i]].prev = order[i - 1]
      BY <1>1, <3>1, OwnPrev
    <3>5. j = 2 => ~SelfLinked(order'[1])
      <4>1. j = 2 => Up(i, 1) = i - 1
        BY <1>1, <2>5 DEF Up
      <4> QED
        BY <1>5, <2>3, <3>1, <4>1
    <3> QED
      BY <2>3, <3>1, <3>2, <3>3, <3>4, <3>5
  <2>6. CASE j < i
    <3>1. Up(i, j) = j /\ Up(i, j - 1) = j - 1 /\ Up(i, 1) = 1 /\ j \in 2 .. Len(order)
      BY <1>1, <2>2, <2>6 DEF Up
    <3>2. j = 2 => Up(i, 2) = 2
      BY <3>1
    <3> QED
      BY <2>1, <2>3, <3>1, <3>2
  <2> QED
    BY <1>1, <2>4, <2>5, <2>6
<1> QED
  BY <1>6, <1>7, <1>8, <1>9

LEMMA FreeNodeCalls ==
  ASSUME RacesInv, NEW t \in Closers, FreeNode(t), Alive(head)'
  PROVE  RightBranch' /\ Contents' /\ EmptyHead' /\ Appends' /\ NodeCount' /\ GoneHeld'
<1>1. PICK i \in 1 .. Len(order) :
        /\ Sound /\ pc[t] \in {"freeHead", "freeNode"} /\ pc[t] \in Deleting
        /\ order[i] = Mine(t) /\ Len(order) \in Nat /\ i \in Int
        /\ Advances(t, "close") /\ \A u \in Threads : loc'[u].ptr = loc[u].ptr
        /\ head' = head /\ node' = node /\ replaced' = replaced /\ gone' = gone
        /\ conns' = conns /\ watched' = watched
        /\ Len(order') = Len(order) - 1
        /\ \A j, k \in 1 .. Len(order) : order[j] = order[k] => j = k
  BY FreeNodeStep
<1>2. /\ \A j \in 1 .. Len(order') :
           /\ Up(i, j) \in 1 .. Len(order) /\ Up(i, j) # i
           /\ order'[j] = order[Up(i, j)] /\ order'[j] # Mine(t)
      /\ \A k \in 1 .. Len(order) : k # i => \E j \in 1 .. Len(order') : Up(i, j) = k
      /\ Listed' = Listed \ {Mine(t)}
      /\ \A n : Alive(n)' <=> n # Mine(t) /\ Alive(n)
  BY <1>1, FreeNodeShift
<1>3. (i = 1 <=> pc[t] = "freeHead") /\ Len(order) > 1
      /\ order # << >> /\ order' # << >>
  BY <1>1, FreeNodeHead
<1>4. \A n : n # Mine(t) =>
        /\ InDeletion(n)' <=> InDeletion(n)
        /\ NoFd(n)' <=> NoFd(n)
        /\ NoClient(n)' <=> NoClient(n)
  BY <1>1, PhasesEnd
<1>5. \A u \in Threads :
        /\ pc'[u] = IF u = t THEN "close" ELSE pc[u]
        /\ Mine(u)' = Mine(u) /\ loc'[u].conn = loc[u].conn /\ loc'[u].ptr = loc[u].ptr
  BY <1>1, Kinds DEF Advances, Mine
<1>6. RightBranch'
  <2> SUFFICES ASSUME NEW u \in Closers, u # t, pc[u] \in Deleting
               PROVE  Branches(u)'
    BY <1>1, <1>5, Kinds DEF RightBranch, Deleting
  <2>1. PICK k \in 1 .. Len(order) :
          /\ order[k] = Mine(u)
          /\ pc[u] \in HeadCase => k = 1 /\ node[Mine(u)].prev = Null
          /\ pc[u] \in {"headNext", "moveHead", "selfPrev", "freeHead"} => loc[u].ptr = Mine(u)
          /\ pc[u] \in {"zeroFd"} \cup Emptied => Len(order) = 1
          /\ pc[u] \in OtherCase => node[Mine(u)].prev # Null
          /\ pc[u] \in {"bridge", "following", "backLink"} => k < Len(order)
          /\ pc[u] \in {"bridge", "backLink"} => loc[u].ptr = OrderAt(k + 1)
          /\ pc[u] = "cutLast" => k = Len(order)
    BY <1>1, Parts DEF RightBranch, Branches
  <2>2. k \notin {i - 1, i, i + 1} /\ k \in Int
    BY <1>1, <2>1, Alone
  <2>3. PICK j \in 1 .. Len(order') : Up(i, j) = k
    BY <1>2, <2>2
  <2>4. order'[j] = Mine(u) /\ j \in Int
    BY <1>1, <1>2, <2>1, <2>3
  <2>5. pc[u] \in HeadCase => j = 1 /\ Len(order') > 1
    BY <1>1, <2>1, <2>2, <2>3 DEF Up
  <2>6. k < Len(order) => j < Len(order') /\ OrderAt(k + 1) = OrderAt(j + 1)'
    <3> SUFFICES ASSUME k < Len(order)
                 PROVE  j < Len(order') /\ OrderAt(k + 1) = OrderAt(j + 1)'
      OBVIOUS
    <3>1. j < Len(order') /\ Up(i, j + 1) = k + 1
      BY <1>1, <2>2, <2>3 DEF Up
    <3>2. j + 1 \in 1 .. Len(order') /\ k + 1 \in 1 .. Len(order)
      BY <1>1, <2>2, <2>4, <3>1
    <3>3. order'[j + 1] = order[k + 1]
      BY <1>2, <3>1, <3>2
    <3> QED
      BY <1>1, <3>1, <3>2, <3>3 DEF OrderAt
  <2>7. k = Len(order) => j = Len(order')
    BY <1>1, <2>2, <2>3 DEF Up
  <2>8. pc[u] \notin {"zeroFd"} \cup Emptied
    <3>1. Len(order) # 1
      BY <1>1, <1>3
    <3> QED
      BY <2>1, <3>1
  <2>9. pc'[u] = pc[u] /\ Mine(u)' = Mine(u) /\ loc'[u].ptr = loc[u].ptr
    BY <1>5, Kinds
  <2>10. pc[u] \in {"moveHead", "selfPrev", "freeHead"} => pc[u] \in HeadCase
    BY DEF HeadCase
  <2>11. /\ order'[j] = Mine(u)'
         /\ pc'[u] \in HeadCase => j = 1 /\ node'[Mine(u)'].prev = Null
         /\ pc'[u] \in {"headNext", "moveHead", "selfPrev", "freeHead"} => loc'[u].ptr = Mine(u)'
         /\ pc'[u] \in {"moveHead", "selfPrev", "freeHead"} => Len(order') > 1
         /\ pc'[u] \in OtherCase => node'[Mine(u)'].prev # Null
         /\ pc'[u] \in {"bridge", "following", "backLink"} => j < Len(order')
         /\ pc'[u] = "cutLast" => j = Len(order')
    BY <1>1, <2>1, <2>4, <2>5, <2>6, <2>7, <2>9, <2>10
  <2>12. pc'[u] \in {"bridge", "backLink"} => loc'[u].ptr = OrderAt(j + 1)'
    BY <2>1, <2>6, <2>9
  <2> QED
    BY <2>8, <2>9, <2>11, <2>12 DEF Branches
<1>7. Contents'
  <2>1. \A j \in 1 .. Len(order') :
          /\ NoFd(order[j])' <=> NoFd(order[Up(i, j)])
          /\ NoClient(order[j])' <=> NoClient(order[Up(i, j)])
    BY <1>2, <1>4
  <2>2. Contents
    BY <1>1, Parts
  <2>3. \A j \in 1 .. Len(order') :
          /\ IF NoFd(order[j])' THEN node'[order'[j]].fd = 0
             ELSE node'[order'[j]].fd \in 1 .. conns'
          /\ IF NoClient(order[j])' THEN node'[order'[j]].client = Null
             ELSE node'[order'[j]].client \in 1 .. conns'
          /\ node'[order'[j]].fd # 0 => node'[order'[j]].client = node'[order'[j]].fd
    <3> TAKE j \in 1 .. Len(order')
    <3> DEFINE k == Up(i, j)
    <3>1. k \in 1 .. Len(order) /\ order'[j] = order[k]
          /\ (NoFd(order[j])' <=> NoFd(order[k])) /\ (NoClient(order[j])' <=> NoClient(order[k]))
      BY <1>2, <2>1
    <3> HIDE DEF k
    <3>2. /\ IF NoFd(order[k]) THEN node[order[k]].fd = 0 ELSE node[order[k]].fd \in 1 .. conns
          /\ IF NoClient(order[k]) THEN node[order[k]].client = Null
             ELSE node[order[k]].client \in 1 .. conns
          /\ node[order[k]].fd # 0 => node[order[k]].client = node[order[k]].fd
      BY <2>2, <3>1 DEF Contents
    <3> QED
      BY <1>1, <3>1, <3>2
  <2>4. ASSUME NEW j \in 1 .. Len(order'), NEW k \in 1 .. Len(order'),
               node'[order'[j]].client = node'[order'[k]].client
        PROVE  j = k
    <3>1. Up(i, j) = Up(i, k)
      <4>1. \A l, m \in 1 .. Len(order) : node[order[l]].client = node[order[m]].client => l = m
        BY <2>2 DEF Contents
      <4>2. node[order[Up(i, j)]].client = node[order[Up(i, k)]].client
        BY <1>1, <1>2, <2>4
      <4> QED
        BY <1>2, <4>1, <4>2
    <3> QED
      BY <1>1, <3>1 DEF Up
  <2> QED
    BY <2>3, <2>4 DEF Contents
<1>8. EmptyHead'
  BY <1>3 DEF EmptyHead
<1>9. pc'[Main] = pc[Main] /\ loc'[Main].conn = loc[Main].conn /\ Mine(Main)' = Mine(Main)
      /\ loc'[Main].ptr = loc[Main].ptr
  BY <1>5, Kinds
<1>10. Appends'
  <2> SUFFICES ASSUME pc[Main] \in Adding
               PROVE  Appends'
    BY <1>9 DEF Appends
  <2>1. i # Len(order)
    BY <1>1, Alone
  <2>2. order'[Len(order')] = order[Len(order)]
    <3>1. Len(order') \in 1 .. Len(order') /\ Up(i, Len(order')) = Len(order)
      BY <1>1, <1>3, <2>1 DEF Up
    <3> QED
      BY <1>2, <3>1
  <2>3. Appends
    BY <1>1, Parts
  <2>4. \A u \in Callers : loc'[u].conn = loc[u].conn
    BY <1>5, Kinds
  <2>5. \A j \in 1 .. Len(order') : node'[order'[j]].client # conns
    BY <1>1, <1>2, <2>3 DEF Appends
  <2>6. pc[Main] = "addLink" => Alive(loc[Main].ptr)' /\ loc[Main].ptr \notin Listed'
    <3> SUFFICES ASSUME pc[Main] = "addLink"
                 PROVE  Alive(loc[Main].ptr)' /\ loc[Main].ptr \notin Listed'
      OBVIOUS
    <3>1. Alive(loc[Main].ptr) /\ loc[Main].ptr \notin Listed
      BY <2>3 DEF Appends
    <3>2. Mine(t) \in Listed
      BY <1>1 DEF Listed
    <3> QED
      BY <1>2, <1>9, <3>1, <3>2
  <2> QED
    BY <1>1, <1>3, <1>9, <2>2, <2>3, <2>4, <2>5, <2>6 DEF Appends
<1>11. NodeCount'
  BY <1>1, <1>9, Parts DEF NodeCount
<1>12. GoneHeld'
  BY <1>1, <1>2, <1>4, Parts DEF GoneHeld
<1> QED
  BY <1>6, <1>7, <1>8, <1>10, <1>11, <1>12

LEMMA FreeNodeKeeps ==
  ASSUME RacesInv, NEW t \in Closers, FreeNode(t)
  PROVE  RacesInv'
<1>1. PICK i \in 1 .. Len(order) :
        /\ Sound /\ pc[t] \in {"freeHead", "freeNode"} /\ pc[t] \in Deleting
        /\ order[i] = Mine(t) /\ Len(order) \in Nat /\ i \in Int /\ Mine(t) \in Nodes
        /\ Advances(t, "close")
        /\ \A u \in Threads : pc[u] # Idle(u) => Mine(t) \in loc'[u].during
        /\ head' = head /\ node' = node /\ freed' = freed \cup {Mine(t)} /\ gone' = gone
        /\ conns' = conns /\ watched' = watched /\ replaced' = replaced
        /\ misled' = misled /\ broken' = broken
        /\ order' \in Seq(Nodes) /\ Len(order') = Len(order) - 1
        /\ \A j, k \in 1 .. Len(order) : order[j] = order[k] => j = k
  BY FreeNodeStep
<1>2. /\ \A j \in 1 .. Len(order') :
           /\ Up(i, j) \in 1 .. Len(order) /\ Up(i, j) # i
           /\ order'[j] = order[Up(i, j)] /\ order'[j] # Mine(t)
      /\ \A k \in 1 .. Len(order) : k # i => \E j \in 1 .. Len(order') : Up(i, j) = k
      /\ Listed' = Listed \ {Mine(t)}
      /\ \A n : Alive(n)' <=> n # Mine(t) /\ Alive(n)
  BY <1>1, FreeNodeShift
<1>3. TypeOK /\ OwnCode /\ t \in Threads /\ misled = "no" /\ broken = << >>
  BY <1>1, Parts, Kinds
<1>4. \A u \in Threads :
        /\ pc'[u] = IF u = t THEN "close" ELSE pc[u]
        /\ Mine(u)' = Mine(u) /\ loc'[u].call = loc[u].call /\ loc'[u].conn = loc[u].conn
        /\ loc'[u].walk = loc[u].walk /\ loc[u].during \subseteq loc'[u].during
        /\ pc[u] = Idle(u) /\ u # t => loc'[u] = loc[u]
  BY <1>1, Kinds DEF Advances, Mine
<1>5. TypeOK'
  <2>1. Mine(t) \in 1 .. Len(node)
    BY <1>1, Deletes
  <2> QED
    BY <1>1, <1>3, <2>1 DEF TypeOK, Advances
<1>6. OwnCode'
  BY <1>1, <1>3, CodeAdvances
<1>7. Held'
  <2> SUFFICES ASSUME NEW u \in Threads
               PROVE  /\ pc'[u] \in Walking => KeptBy(u, Mine(u))'
                      /\ pc'[u] \in Walking \ Loops => Mine(u)' # Null
                      /\ KeptBy(u, loc[u].walk)'
    BY DEF Held
  <2>1. pc[u] # Idle(u) => \A n : KeptBy(u, n) => n = Null \/ Alive(n)' \/ n \in loc'[u].during
    BY <1>1, <1>2, <1>4 DEF KeptBy
  <2>2. pc'[u] \in Walking => pc'[u] = pc[u] /\ pc[u] # Idle(u)
    BY <1>4 DEF Walking, Idle
  <2>3. pc[u] = Idle(u) => loc'[u].walk = Null
    <3>1. pc[u] = Idle(u) => loc[u] = NoLocals
      BY <1>3, Code DEF OwnCode
    <3> QED
      BY <1>4, <3>1 DEF NoLocals
  <2>4. /\ pc[u] \in Walking => KeptBy(u, Mine(u))
        /\ pc[u] \in Walking \ Loops => Mine(u) # Null
        /\ KeptBy(u, loc[u].walk)
    BY <1>1, Parts DEF Held
  <2>5. Mine(u)' = Mine(u) /\ loc'[u].walk = loc[u].walk
    BY <1>4
  <2> QED
    BY <2>1, <2>2, <2>3, <2>4, <2>5 DEF KeptBy
<1>8. Looked'
  <2> SUFFICES ASSUME NEW u \in Closers, Alive(Mine(u))', pc'[u] \in {"age", "freeClient", "client"}
               PROVE  /\ pc'[u] \in {"age", "freeClient"} =>
                           Mine(u) \in loc'[u].during \/ node[Mine(u)].fd # 0
                      /\ pc'[u] = "client" =>
                           Mine(u) \in loc'[u].during \/ node[Mine(u)].fd = loc[u].conn
    BY <1>1, <1>4, Kinds DEF Looked
  <2>1. u \in Threads /\ pc'[u] = pc[u] /\ Mine(u)' = Mine(u)
        /\ loc[u].during \subseteq loc'[u].during
    BY <1>4, Kinds
  <2>2. Alive(Mine(u))
    BY <1>2, <2>1
  <2> QED
    BY <1>1, <2>1, <2>2, Parts DEF Looked
<1>9. NotPassed'
  <2>0. \A u \in Callers :
          Mine(u)' = Mine(u) /\ loc'[u].call = loc[u].call /\ loc'[u].conn = loc[u].conn
    BY <1>4, Kinds
  <2> SUFFICES ASSUME NEW u \in Callers
               PROVE  /\ loc[u].call # "none" => loc[u].conn \in 1 .. conns
                      /\ loc[u].call = "exists" =>
                          \A j \in 1 .. Len(order') : Sought(u, j)' =>
                            /\ pc'[u] = "match" => Mine(u) # Null
                            /\ pc'[u] \in {"match", "step"} /\ Alive(Mine(u))' =>
                                \E l \in 1 .. j : order'[l] = Mine(u) /\ (pc'[u] = "step" => l < j)
    BY <1>1, <2>0 DEF NotPassed
  <2>1. u \in Threads /\ (pc'[u] \in {"match", "step"} => pc'[u] = pc[u])
        /\ Mine(u)' = Mine(u) /\ loc'[u].conn = loc[u].conn
    BY <1>4, Kinds
  <2>2. NotPassed
    BY <1>1, Parts
  <2>3. ASSUME loc[u].call = "exists", NEW j \in 1 .. Len(order'), Sought(u, j)'
        PROVE  /\ pc'[u] = "match" => Mine(u) # Null
               /\ pc'[u] \in {"match", "step"} /\ Alive(Mine(u))' =>
                    \E l \in 1 .. j : order'[l] = Mine(u) /\ (pc'[u] = "step" => l < j)
    <3>1. Settled(order[j])' => Settled(order[Up(i, j)])
      <4>1. order'[j] = order[Up(i, j)] /\ order'[j] # Mine(t) /\ order'[j] \in Listed
        BY <1>2 DEF Listed
      <4>2. \A v \in Closers : v # t => pc'[v] = pc[v] /\ Mine(v)' = Mine(v)
        BY <1>4, Kinds
      <4> QED
        BY <4>1, <4>2 DEF Settled
    <3>2. Sought(u, Up(i, j))
      BY <1>1, <1>2, <2>1, <2>3, <3>1 DEF Sought
    <3>3. pc'[u] = "match" => Mine(u) # Null
      BY <1>2, <2>1, <2>2, <2>3, <3>2 DEF NotPassed
    <3>4. ASSUME pc'[u] \in {"match", "step"}, Alive(Mine(u))'
          PROVE  \E l \in 1 .. j : order'[l] = Mine(u) /\ (pc'[u] = "step" => l < j)
      <4>1. pc'[u] = pc[u] /\ Alive(Mine(u)) /\ Mine(u) # Mine(t)
        BY <1>2, <2>1, <3>4
      <4>2. PICK k \in 1 .. Up(i, j) : order[k] = Mine(u) /\ (pc[u] = "step" => k < Up(i, j))
        BY <1>2, <2>2, <2>3, <3>2, <3>4, <4>1 DEF NotPassed
      <4>3. k \in 1 .. Len(order) /\ k # i /\ k \in Int
        BY <1>1, <1>2, <4>1, <4>2
      <4>4. PICK l \in 1 .. Len(order') : Up(i, l) = k
        BY <1>2, <4>3
      <4>5. l <= j /\ (k < Up(i, j) => l < j)
        BY <1>1, <4>2, <4>4 DEF Up
      <4>6. order'[l] = Mine(u)
        BY <1>2, <4>2, <4>4
      <4> QED
        BY <1>1, <4>1, <4>2, <4>4, <4>5, <4>6
    <3> QED
      BY <3>3, <3>4
  <2> QED
    BY <2>2, <2>3 DEF NotPassed
<1>10. Unseen'
  BY <1>1, Parts, UnseenAdvances
<1>11. Alive(head)' => Good'
  BY <1>7, <1>8, <1>9, <1>10, FreeNodeList, FreeNodeCalls DEF Good
<1>12. Alive(head)' \/ replaced'
  BY <1>1, FreeNodeHead
<1> QED
  BY <1>1, <1>3, <1>5, <1>6, <1>11, <1>12, Whole

-----------------------------------------------------------------------------
(* The walks.                                                              *)

(* No deletion moves.                                                      *)
LEMMA PhasesSame ==
  ASSUME \A u \in Closers : pc[u] \in Deleting \/ pc'[u] \in Deleting =>
                              pc'[u] = pc[u] /\ Mine(u)' = Mine(u)
  PROVE  \A n :
           /\ InDeletion(n)' <=> InDeletion(n)
           /\ PassedOver(n)' <=> PassedOver(n)
           /\ SelfLinked(n)' <=> SelfLinked(n)
           /\ Bridged(n)' <=> Bridged(n)
           /\ Unlinked(n)' <=> Unlinked(n)
           /\ NoFd(n)' <=> NoFd(n)
           /\ NoClient(n)' <=> NoClient(n)
<1>1. \A L \in SUBSET Deleting : \A n : Deleter(n, L)' <=> Deleter(n, L)
  BY DEF Deleter
<1>2. /\ Deleting \in SUBSET Deleting /\ {"selfPrev", "freeHead"} \in SUBSET Deleting
      /\ {"freeHead"} \in SUBSET Deleting /\ {"freeNode"} \in SUBSET Deleting
      /\ {"following", "backLink", "freeNode"} \in SUBSET Deleting
      /\ {"zeroClient", "zeroPrev", "zeroNext"} \in SUBSET Deleting
      /\ {"zeroPrev", "zeroNext"} \in SUBSET Deleting
  BY DEF Deleting
<1> QED
  BY <1>1, <1>2
     DEF InDeletion, PassedOver, SelfLinked, Bridged, Unlinked, NoFd, NoClient

(* What a thread at a label outside del_fd2client must know, with locals r.*)
Knows(t, label, r) ==
    /\ r.call \in CallsOf(t) /\ label \in LabelsOf(t, r.call)
    /\ r.call = "none" => r = NoLocals
    /\ label \in Walking => r.node = Null \/ Alive(r.node) \/ r.node \in r.during
    /\ label \in Walking \ Loops => r.node # Null
    /\ r.walk = Null \/ Alive(r.walk) \/ r.walk \in r.during
    /\ \A n \in {r.node, r.walk} :
        /\ n # Null => n \in DOMAIN node
        /\ pc[Main] = "addLink" => n # loc[Main].ptr
    /\ Alive(r.node) =>
        /\ label \in {"age", "freeClient"} => r.node \in r.during \/ node[r.node].fd # 0
        /\ label = "client" => r.node \in r.during \/ node[r.node].fd = r.conn
    /\ t \in Callers =>
        /\ pc[Main] \in Adding => r.conn # conns
        /\ r.call # "none" => r.conn \in 1 .. conns
        /\ r.call = "exists" =>
            \A i \in 1 .. Len(order) :
                Settled(order[i]) /\ node[order[i]].fd = r.conn =>
                    /\ label = "match" => r.node # Null
                    /\ label \in {"match", "step"} /\ Alive(r.node) =>
                        \E j \in 1 .. i : order[j] = r.node /\ (label = "step" => j < i)

(* A closer that walks or waits knows it.                                  *)
LEMMA Known ==
  ASSUME RacesInv, Sound, NEW t \in Closers, pc[t] \notin Deleting
  PROVE  Knows(t, pc[t], loc[t]) /\ loc[t] \in Locals /\ pc[t] \in Labels
<1>1. t \in Threads
  BY Kinds
<1>2. /\ loc[t].call \in CallsOf(t) /\ pc[t] \in LabelsOf(t, loc[t].call)
      /\ loc[t].call = "none" => loc[t] = NoLocals
  BY <1>1, Parts DEF OwnCode
<1>3. /\ pc[t] \in Walking => KeptBy(t, Mine(t))
      /\ pc[t] \in Walking \ Loops => Mine(t) # Null
      /\ KeptBy(t, loc[t].walk)
  BY <1>1, Parts DEF Held
<1>4. Alive(Mine(t)) =>
        /\ pc[t] \in {"age", "freeClient"} => Mine(t) \in loc[t].during \/ node[Mine(t)].fd # 0
        /\ pc[t] = "client" => Mine(t) \in loc[t].during \/ node[Mine(t)].fd = loc[t].conn
  BY <1>1, Parts DEF Looked
<1>5. t \in Callers =>
        /\ pc[Main] \in Adding => loc[t].conn # conns
        /\ loc[t].call # "none" => loc[t].conn \in 1 .. conns
        /\ loc[t].call = "exists" =>
            \A i \in 1 .. Len(order) : Sought(t, i) =>
                /\ pc[t] = "match" => Mine(t) # Null
                /\ pc[t] \in {"match", "step"} /\ Alive(Mine(t)) =>
                    \E j \in 1 .. i : order[j] = Mine(t) /\ (pc[t] = "step" => j < i)
  BY Parts DEF Appends, NotPassed
<1>6. loc[t] \in Locals /\ pc[t] \in Labels
  BY <1>1, Parts DEF TypeOK
<1>7. Mine(t) = loc[t].node
  BY DEF Mine
<1>8. \A n \in {Mine(t), loc[t].walk} :
        /\ n # Null => n \in DOMAIN node
        /\ pc[Main] = "addLink" => n # loc[Main].ptr
  BY Parts DEF Unseen
<1> QED
  BY <1>8, <1>2, <1>3, <1>4, <1>5, <1>6, <1>7 DEF Knows, KeptBy, Sought

LEMMA WalkKeeps ==
  ASSUME RacesInv, Sound, NEW t \in Closers, pc[t] \notin Deleting \cup {"freeClient"},
         NEW label \in Labels \ (Deleting \cup Adding), NEW r \in Locals, Moves(t, label, r),
         Knows(t, label, r),
         head' = head, node' = node, freed' = freed, gone' = gone, conns' = conns,
         order' = order, replaced' = replaced, broken' = broken,
         watched' \subseteq watched, misled' \in {"no", "refilled"}
  PROVE  RacesInv'
<1>1. TypeOK /\ OwnCode /\ t \in Threads /\ t # Main /\ Main \in Threads /\ broken = << >>
      /\ Alive(head)
  BY Parts, Kinds
<1>2. /\ pc' \in [Threads -> Labels] /\ loc' \in [Threads -> Locals]
      /\ pc'[t] = label /\ loc'[t] = r
      /\ \A u \in Threads : u # t => pc'[u] = pc[u] /\ loc'[u] = loc[u]
  BY <1>1, Moved
<1>3. \A u \in Threads : u # t => Mine(u)' = Mine(u)
  BY <1>2 DEF Mine
<1>4. \A u \in Closers : pc[u] \in Deleting \/ pc'[u] \in Deleting =>
                           pc'[u] = pc[u] /\ Mine(u)' = Mine(u) /\ loc'[u] = loc[u]
  BY <1>2, <1>3, Kinds
<1>5. \A n :
        /\ InDeletion(n)' <=> InDeletion(n)
        /\ PassedOver(n)' <=> PassedOver(n)
        /\ SelfLinked(n)' <=> SelfLinked(n)
        /\ Bridged(n)' <=> Bridged(n)
        /\ Unlinked(n)' <=> Unlinked(n)
        /\ NoFd(n)' <=> NoFd(n)
        /\ NoClient(n)' <=> NoClient(n)
  BY <1>4, PhasesSame
<1>6. \A n : Alive(n)' <=> Alive(n)
  BY DEF Alive
<1>7. Listed' = Listed
  BY DEF Listed
<1>8. pc'[Main] = pc[Main] /\ loc'[Main] = loc[Main] /\ Mine(Main)' = Mine(Main)
  BY <1>1, <1>2, <1>3
<1>9. TypeOK'
  BY <1>1, <1>2 DEF TypeOK
<1>10. OwnCode'
  <2> SUFFICES ASSUME NEW u \in Threads
               PROVE  /\ loc'[u].call \in CallsOf(u)
                      /\ pc'[u] \in LabelsOf(u, loc'[u].call)
                      /\ loc'[u].call = "none" => loc'[u] = NoLocals
    BY DEF OwnCode, CallsOf, LabelsOf, Idle
  <2>1. CASE u = t
    BY <1>2, <2>1 DEF Knows
  <2>2. CASE u # t
    BY <1>1, <1>2, <2>2 DEF OwnCode
  <2> QED
    BY <2>1, <2>2
<1>11. ListShape'
  BY <1>6, <1>7, <1>8, Parts DEF ListShape
<1>12. HeadFirst' /\ FirstPrev'
  BY <1>5, Parts DEF HeadFirst, FirstPrev
<1>13. NextChain'
  BY <1>5, Parts DEF NextChain, OrderAt
<1>14. PrevChain'
  BY <1>5, Parts DEF PrevChain
<1>15. RightBranch'
  <2> SUFFICES ASSUME NEW u \in Closers, pc'[u] \in Deleting
               PROVE  Branches(u)'
    BY DEF RightBranch
  <2>1. pc'[u] = pc[u] /\ Mine(u)' = Mine(u) /\ loc'[u] = loc[u] /\ Branches(u)
    BY <1>4, Parts DEF RightBranch
  <2> QED
    BY <2>1 DEF Branches, OrderAt
<1>16. Contents'
  BY <1>5, Parts DEF Contents
<1>17. EmptyHead' /\ NodeCount'
  BY <1>8, Parts DEF EmptyHead, NodeCount
<1>18. Appends'
  <2> SUFFICES ASSUME pc[Main] \in Adding
               PROVE  Appends'
    BY <1>8 DEF Appends
  <2>1. \A u \in Callers : loc'[u].conn # conns
    <3> TAKE u \in Callers
    <3>1. CASE u = t
      BY <1>2, <3>1 DEF Knows
    <3>2. CASE u # t
      BY <1>2, <3>2, Kinds, Parts DEF Appends
    <3> QED
      BY <3>1, <3>2
  <2> QED
    BY <1>6, <1>7, <1>8, <2>1, Parts DEF Appends
<1>19. GoneHeld'
  BY <1>5, <1>6, Parts DEF GoneHeld
<1>20. \A n : Settled(n)' => Settled(n)
  <2>1. \A u \in Closers : pc[u] \in Deleting \cup {"freeClient"} =>
                             pc'[u] = pc[u] /\ Mine(u)' = Mine(u)
    BY <1>2, <1>3, Kinds
  <2> QED
    BY <1>7, <2>1 DEF Settled
<1>21. Held'
  <2> SUFFICES ASSUME NEW u \in Threads
               PROVE  /\ pc'[u] \in Walking => KeptBy(u, Mine(u))'
                      /\ pc'[u] \in Walking \ Loops => Mine(u)' # Null
                      /\ KeptBy(u, loc[u].walk)'
    BY DEF Held
  <2>1. CASE u = t
    BY <1>2, <1>6, <2>1 DEF Knows, KeptBy, Mine
  <2>2. CASE u # t
    BY <1>2, <1>3, <1>6, <2>2, Parts DEF Held, KeptBy
  <2> QED
    BY <2>1, <2>2
<1>22. Looked'
  <2> SUFFICES ASSUME NEW u \in Closers, Alive(Mine(u))'
               PROVE  /\ pc'[u] \in {"age", "freeClient"} =>
                           (Mine(u) \in loc[u].during)' \/ (node[Mine(u)].fd # 0)'
                      /\ pc'[u] = "client" =>
                           (Mine(u) \in loc[u].during)' \/ (node[Mine(u)].fd = loc[u].conn)'
    BY DEF Looked
  <2>1. CASE u = t
    BY <1>2, <1>6, <2>1 DEF Knows, Mine
  <2>2. CASE u # t
    BY <1>2, <1>3, <1>6, <2>2, Kinds, Parts DEF Looked
  <2> QED
    BY <2>1, <2>2
<1>23. NotPassed'
  <2> SUFFICES ASSUME NEW u \in Callers
               PROVE  /\ loc'[u].call # "none" => loc'[u].conn \in 1 .. conns
                      /\ loc'[u].call = "exists" =>
                          \A i \in 1 .. Len(order) : Sought(u, i)' =>
                            /\ pc'[u] = "match" => Mine(u)' # Null
                            /\ pc'[u] \in {"match", "step"} /\ Alive(Mine(u))' =>
                                \E j \in 1 .. i : order[j] = Mine(u)' /\ (pc'[u] = "step" => j < i)
    BY DEF NotPassed
  <2>1. CASE u = t
    <3>1. Mine(u)' = r.node /\ loc'[u] = r /\ pc'[u] = label
      BY <1>2, <2>1 DEF Mine
    <3> QED
      BY <1>6, <1>20, <2>1, <3>1 DEF Knows, Sought
  <2>2. CASE u # t
    <3>1. pc'[u] = pc[u] /\ loc'[u] = loc[u] /\ Mine(u)' = Mine(u) /\ NotPassed
      BY <1>2, <1>3, <2>2, Kinds, Parts
    <3> QED
      BY <1>6, <1>20, <3>1 DEF NotPassed, Sought
  <2> QED
    BY <2>1, <2>2
<1>24. Unseen'
  <2> SUFFICES ASSUME NEW u \in Closers
               PROVE  \A n \in {Mine(u)', loc'[u].walk} :
                        /\ n # Null => n \in DOMAIN node
                        /\ pc[Main] = "addLink" => n # loc[Main].ptr
    BY <1>8 DEF Unseen
  <2>1. CASE u = t
    BY <1>2, <2>1 DEF Knows, Mine
  <2>2. CASE u # t
    BY <1>2, <1>3, <2>2, Kinds, Parts DEF Unseen
  <2> QED
    BY <2>1, <2>2
<1>25. Good' /\ Alive(head)'
  BY <1>24, <1>1, <1>6, <1>11, <1>12, <1>13, <1>14, <1>15, <1>16, <1>17, <1>18, <1>19, <1>21, <1>22, <1>23
     DEF Good, Alive
<1> QED
  BY <1>1, <1>9, <1>10, <1>25, Whole

(* A thread goes on only through a live node.                              *)
LEMMA Reached ==
  ASSUME NEW t, NEW label \in {"step", "client", "age", "freeClient"} \cup Loops,
         At(t, label), label \in Loops => Mine(t) # Null
  PROVE  Alive(Mine(t)) /\ (label \in Client => node[Mine(t)].client \in Conn \ gone)
<1>1. pc[t] = label /\ BadNodes(t) = {} /\ BadClients(t) = {}
  BY DEF At
<1>2. Via(t) = {Mine(t)}
  <2>1. pc[t] \notin ViaHead \cup ViaPtr \cup ViaNothing \cup ViaPrev
    BY <1>1 DEF ViaHead, ViaPtr, ViaNothing, ViaPrev, Loops
  <2>2. ~(pc[t] \in Loops /\ Mine(t) = Null)
    BY <1>1
  <2> QED
    BY <2>1, <2>2 DEF Via
<1>3. Alive(Mine(t))
  BY <1>1, <1>2 DEF BadNodes
<1>4. label \in Client => node[Mine(t)].client \in Conn \ gone
  BY <1>1, <1>2 DEF BadClients
<1> QED
  BY <1>3, <1>4

LEMMA LiveNode ==
  ASSUME RacesInv, Sound, NEW n, Alive(n)
  PROVE  /\ n \in Nodes /\ n \in 1 .. Len(node) /\ node[n] \in Fields
         /\ \/ n \in Listed
            \/ n = head /\ order = << >>
            \/ n = loc[Main].ptr /\ pc[Main] = "addLink"
         /\ node[n].next = Null \/ Alive(node[n].next)
         /\ pc[Main] = "addLink" /\ n # loc[Main].ptr => node[n].next # loc[Main].ptr
<1>1. node \in Seq(Fields) /\ Len(node) \in Nat /\ Len(node) <= MaxConn
      /\ order \in Seq(Nodes) /\ Len(order) \in Nat
  BY Parts DEF TypeOK
<1>2. n \in 1 .. Len(node) /\ n \in Nodes
  BY <1>1, Bounds DEF Alive
<1>3. node[n] \in Fields
  BY <1>1, <1>2, ElementOfSeq
<1>4. \/ n \in Listed
      \/ n = head /\ order = << >>
      \/ n = loc[Main].ptr /\ pc[Main] = "addLink"
  BY <1>2, Parts DEF ListShape
<1>5. node[n].next = Null \/ Alive(node[n].next)
  <2>1. CASE n \in Listed
    <3>1. PICK k \in 1 .. Len(order) : n = order[k]
      BY <2>1 DEF Listed
    <3>2. node[n].next \in {OrderAt(k + 1), OrderAt(k + 2)}
      BY <3>1, Parts DEF NextChain
    <3>3. \A m \in {k + 1, k + 2} : OrderAt(m) = Null \/ Alive(OrderAt(m))
      BY <1>1, Parts DEF OrderAt, ListShape
    <3> QED
      BY <3>2, <3>3
  <2>2. CASE n = head /\ order = << >>
    BY <2>2, Parts DEF EmptyHead
  <2>3. CASE n = loc[Main].ptr /\ pc[Main] = "addLink"
    BY <2>3, Parts DEF Appends, Adding
  <2> QED
    BY <1>4, <2>1, <2>2, <2>3
<1>6. ASSUME pc[Main] = "addLink", n # loc[Main].ptr
      PROVE  node[n].next # loc[Main].ptr
  <2>1. order # << >> /\ loc[Main].ptr \notin Listed /\ Alive(loc[Main].ptr)
    BY <1>6, Parts DEF Appends, Adding
  <2>2. loc[Main].ptr # Null
    BY <1>1, <2>1, Bounds DEF Alive
  <2>3. PICK k \in 1 .. Len(order) : n = order[k]
    BY <1>4, <1>6, <2>1 DEF Listed
  <2>4. node[n].next \in {OrderAt(k + 1), OrderAt(k + 2)}
    BY <2>3, Parts DEF NextChain
  <2>5. \A m \in {k + 1, k + 2} : OrderAt(m) = Null \/ OrderAt(m) \in Listed
    BY <1>1 DEF OrderAt, Listed
  <2> QED
    BY <2>1, <2>2, <2>4, <2>5
<1> QED
  BY <1>2, <1>3, <1>4, <1>5, <1>6

LEMMA NewNode ==
  ASSUME RacesInv, Sound, pc[Main] = "addLink"
  PROVE  /\ loc[Main].ptr # Null /\ loc[Main].ptr \notin Listed /\ loc[Main].ptr # head
         /\ order # << >>
<1>1. order # << >> /\ loc[Main].ptr \notin Listed /\ Alive(loc[Main].ptr)
  BY Parts DEF Appends, Adding
<1>2. loc[Main].ptr # Null
  BY <1>1, LiveNode, Bounds
<1>3. head \in Listed
  <2>1. order \in Seq(Nodes) /\ Len(order) \in Nat
    BY Parts DEF TypeOK
  <2> QED
    BY <1>1, <2>1, Parts DEF HeadFirst, Listed
<1> QED
  BY <1>1, <1>2, <1>3

(* A call that ends, and one that begins.                                  *)
LEMMA ReturnKnows ==
  ASSUME RacesInv, Sound, NEW t \in Closers
  PROVE  /\ Idle(t) \in Labels \ (Deleting \cup Adding) /\ NoLocals \in Locals
         /\ Knows(t, Idle(t), NoLocals)
         /\ Return(t) => Moves(t, Idle(t), NoLocals)
<1>1. Idle(t) \in {"idle", "sleep"}
  BY Kinds DEF Idle
<1>2. NoLocals \in Locals
  BY Bounds DEF NoLocals, Locals, Pointers, Calls
<1>3. Knows(t, Idle(t), NoLocals)
  <2>1. /\ NoLocals.call = "none" /\ NoLocals.conn = 0 /\ NoLocals.walk = Null
        /\ NoLocals.node = Null
    BY DEF NoLocals
  <2>2. "none" \in CallsOf(t) /\ Idle(t) \in LabelsOf(t, "none")
    BY DEF CallsOf, LabelsOf
  <2>3. pc[Main] \in Adding => conns # 0
    BY Parts DEF Appends, TypeOK
  <2> QED
    BY <1>1, <2>1, <2>2, <2>3, NewNode DEF Knows, Walking
<1> QED
  BY <1>1, <1>2, <1>3 DEF Labels, Deleting, Adding, Return, Goto, Moves

LEMMA CallKnows ==
  ASSUME RacesInv, Sound, NEW t \in Closers, NEW call, NEW n \in 0 .. MaxConn,
         call \in IF t = Heart THEN {"beat"} ELSE {"exists", "uid", "close"},
         t # Heart => n \in watched
  PROVE  \E r \in Locals :
           /\ r = [NoLocals EXCEPT !.call = call, !.conn = n]
           /\ Knows(t, "start", r)
<1> DEFINE r == [NoLocals EXCEPT !.call = call, !.conn = n]
<1>1. /\ r \in Locals /\ r.call = call /\ r.conn = n /\ r.walk = Null /\ r.node = Null
      /\ call # "none"
  BY DEF NoLocals, Locals, Pointers, Calls
<1> HIDE DEF r
<1>2. call \in CallsOf(t) /\ "start" \in LabelsOf(t, call)
  BY Kinds DEF CallsOf, LabelsOf
<1>3. t \in Callers => n \in watched
  BY Kinds
<1>4. pc[Main] \in Adding => conns \notin watched
  BY Parts DEF Appends
<1>5. watched \subseteq 1 .. conns
  BY Parts DEF TypeOK
<1>6. "start" \notin Walking \cup {"age", "freeClient", "client", "match", "step"}
  BY DEF Walking
<1>7. Knows(t, "start", r)
  BY <1>1, <1>2, <1>3, <1>4, <1>5, <1>6, NewNode DEF Knows
<1> QED
  BY <1>1, <1>7 DEF r

LEMMA SearchKeeps ==
  ASSUME RacesInv, NEW t \in Callers, Search(t)
  PROVE  RacesInv'
<1>0. PICK n \in watched, call \in {"exists", "uid", "close"} : Call(t, call, n)
  BY DEF Search
<1>1. Sound /\ pc[t] = "idle" /\ n \in watched /\ Call(t, call, n) /\ conns' = conns
  BY <1>0 DEF Search, At
<1>2. t \in Closers /\ t # Heart /\ t # Main /\ n \in 0 .. MaxConn
  <2>1. watched \subseteq 1 .. conns /\ conns \in 0 .. MaxConn
    BY <1>1, Parts DEF TypeOK
  <2> QED
    BY <1>1, <2>1, Kinds, Bounds
<1>3. PICK r \in Locals : r = [NoLocals EXCEPT !.call = call, !.conn = n] /\ Knows(t, "start", r)
  BY <1>1, <1>2, CallKnows
<1>4. Moves(t, "start", r)
  BY <1>1, <1>2, <1>3 DEF Call, Goto, Moves
<1>5. pc[t] \notin Deleting \cup {"freeClient"} /\ "start" \in Labels \ (Deleting \cup Adding)
  BY <1>1 DEF Deleting, Adding, Labels
<1>6. misled' \in {"no", "refilled"}
  BY <1>1, Parts DEF Call
<1> QED
  BY <1>1, <1>2, <1>3, <1>4, <1>5, <1>6, WalkKeeps DEF Call

LEMMA WakeKeeps ==
  ASSUME RacesInv, Wake
  PROVE  RacesInv'
<1>1. Sound /\ pc[Heart] = "sleep" /\ Call(Heart, "beat", 0) /\ conns' = conns
  BY DEF Wake, At
<1>2. Heart \in Closers /\ Heart # Main /\ 0 \in 0 .. MaxConn
  BY Kinds, Bounds
<1>3. PICK r \in Locals : r = [NoLocals EXCEPT !.call = "beat", !.conn = 0]
                          /\ Knows(Heart, "start", r)
  BY <1>1, <1>2, CallKnows
<1>4. Moves(Heart, "start", r)
  BY <1>1, <1>2, <1>3 DEF Call, Goto, Moves
<1>5. pc[Heart] \notin Deleting \cup {"freeClient"} /\ "start" \in Labels \ (Deleting \cup Adding)
  BY <1>1 DEF Deleting, Adding, Labels
<1>6. misled' \in {"no", "refilled"}
  BY <1>1, Parts DEF Call
<1> QED
  BY <1>1, <1>2, <1>3, <1>4, <1>5, <1>6, WalkKeeps DEF Call

(* Where a walk comes from the head and from a node, and what it misses.   *)
LEMMA StartKeeps ==
  ASSUME RacesInv, NEW t \in Closers, Start(t)
  PROVE  RacesInv'
<1>1. Sound /\ pc[t] = "start" /\ Hold(t, Loop(t), "node", head) /\ Reads
  BY DEF Start, At
<1>2. pc[t] \notin Deleting \cup {"freeClient"}
  BY <1>1 DEF Deleting
<1>3. Knows(t, pc[t], loc[t]) /\ loc[t] \in Locals
  BY <1>1, <1>2, Known
<1>4. PICK l \in Locals : l = loc[t]
  BY <1>3
<1>5. PICK r \in Locals : r = [l EXCEPT !.node = head]
  <2>1. head \in Pointers
    BY <1>1, Parts DEF TypeOK
  <2> QED
    BY <2>1 DEF Locals
<1>6. r.node = head /\ r.call = l.call /\ r.conn = l.conn /\ r.walk = l.walk
      /\ r.during = l.during
  BY <1>5 DEF Locals
<1>7. l.call \in {"exists", "uid", "close", "beat"} /\ l.call \in CallsOf(t)
  BY <1>1, <1>3, <1>4, Kinds DEF Knows, CallsOf, LabelsOf, Idle, Adding
<1>8. Loop(t) \in LabelsOf(t, l.call) /\ Loop(t) \in Loops
      /\ Loop(t) \in Labels \ (Deleting \cup Adding)
      /\ Loop(t) \notin {"age", "freeClient", "client", "step"}
  BY <1>4, <1>7 DEF Loop, LabelsOf, Loops, Labels, Deleting, Adding
<1>9. Moves(t, Loop(t), r)
  BY <1>1, <1>4, <1>5 DEF Hold, Goto, Moves
<1>10. Alive(head) /\ head # Null
  <2>1. Alive(head)
    BY <1>1, Parts
  <2> QED
    BY <1>1, <2>1, LiveNode, Bounds
<1>11. ASSUME NEW i \in 1 .. Len(order), Settled(order[i])
       PROVE  \E j \in 1 .. i : order[j] = head
  <2>1. order # << >> /\ Len(order) \in Nat
    BY <1>1, Parts DEF TypeOK
  <2>2. CASE PassedOver(order[1])
    <3>1. Len(order) > 1 /\ head = order[2]
      BY <1>1, <2>1, <2>2, Parts DEF HeadFirst
    <3>2. i # 1
      BY <1>11, <2>2 DEF Settled, PassedOver, Deleter, Deleting
    <3>3. 2 \in 1 .. i
      BY <2>1, <3>2
    <3> QED
      BY <3>1, <3>3
  <2>3. CASE ~PassedOver(order[1])
    <3>1. head = order[1] /\ 1 \in 1 .. i
      BY <1>1, <2>1, <2>3, Parts DEF HeadFirst
    <3> QED
      BY <3>1
  <2> QED
    BY <2>2, <2>3
<1>12. Knows(t, Loop(t), r)
  <2>1. l.call # "none"
    BY <1>7
  <2>2. /\ l.walk = Null \/ Alive(l.walk) \/ l.walk \in l.during
        /\ t \in Callers => (pc[Main] \in Adding => l.conn # conns) /\ l.conn \in 1 .. conns
    BY <1>3, <1>4, <2>1 DEF Knows
  <2>3. \A n \in {head, l.walk} :
          /\ n # Null => n \in DOMAIN node
          /\ pc[Main] = "addLink" => n # loc[Main].ptr
    BY <1>1, <1>3, <1>4, <1>10, NewNode DEF Knows, Alive
  <2> QED
    BY <1>6, <1>7, <1>8, <1>10, <1>11, <2>1, <2>2, <2>3 DEF Knows
<1>13. misled' \in {"no", "refilled"}
  BY <1>1, Parts DEF Reads, historyVars
<1> QED
  BY <1>1, <1>2, <1>8, <1>9, <1>12, <1>13, WalkKeeps DEF Reads, connVars, historyVars

LEMMA StepKeeps ==
  ASSUME RacesInv, NEW t \in Closers, Step(t)
  PROVE  RacesInv'
<1> DEFINE next == node[Mine(t)].next
<1>1. Sound /\ pc[t] = "step" /\ At(t, "step") /\ Hold(t, Loop(t), "node", next) /\ Reads
  BY DEF Step, At
<1>2. pc[t] \notin Deleting \cup {"freeClient"}
  BY <1>1 DEF Deleting
<1>3. Knows(t, pc[t], loc[t]) /\ loc[t] \in Locals
  BY <1>1, <1>2, Known
<1>4. PICK l \in Locals : l = loc[t] /\ Mine(t) = l.node
  BY <1>3 DEF Mine
<1>5. Alive(Mine(t))
  BY <1>1, Reached DEF Loops
<1>6. next \in Pointers /\ (next = Null \/ Alive(next)) /\ Mine(t) \in Nodes
  BY <1>1, <1>5, LiveNode DEF Fields
<1> HIDE DEF next
<1>7. PICK r \in Locals : r = [l EXCEPT !.node = next]
  BY <1>6 DEF Locals
<1>8. r.node = next /\ r.call = l.call /\ r.conn = l.conn /\ r.walk = l.walk
      /\ r.during = l.during
  BY <1>7 DEF Locals
<1>9. l.call \in {"exists", "uid", "close", "beat"} /\ l.call \in CallsOf(t)
  BY <1>1, <1>3, <1>4, Kinds DEF Knows, CallsOf, LabelsOf, Idle, Adding
<1>10. Loop(t) \in LabelsOf(t, l.call) /\ Loop(t) \in Loops
       /\ Loop(t) \in Labels \ (Deleting \cup Adding)
       /\ Loop(t) \notin {"age", "freeClient", "client", "step"}
  BY <1>4, <1>9 DEF Loop, LabelsOf, Loops, Labels, Deleting, Adding
<1>11. Moves(t, Loop(t), r)
  BY <1>1, <1>4, <1>7 DEF Hold, Goto, Moves
<1>12. ASSUME NEW i \in 1 .. Len(order), Settled(order[i]), NEW j \in 1 .. i,
              order[j] = Mine(t), j < i
       PROVE  \E k \in 1 .. i : order[k] = next
  <2>1. Len(order) \in Nat /\ i \in Int /\ j \in Int
    BY <1>1, Parts DEF TypeOK
  <2>2. next = IF j < Len(order) /\ Bridged(order[j + 1]) THEN OrderAt(j + 2) ELSE OrderAt(j + 1)
    BY <1>1, <1>12, <2>1, Parts DEF NextChain, next
  <2>3. CASE Bridged(order[j + 1])
    <3>1. j + 1 # i
      BY <1>12, <2>3 DEF Settled, Bridged, Deleter, Deleting
    <3>2. j + 2 \in 1 .. i /\ j < Len(order) /\ j + 2 <= Len(order)
      BY <1>12, <2>1, <3>1
    <3> QED
      BY <2>2, <2>3, <3>2 DEF OrderAt
  <2>4. CASE ~Bridged(order[j + 1])
    <3>1. j + 1 \in 1 .. i /\ j + 1 <= Len(order)
      BY <1>12, <2>1
    <3> QED
      BY <2>2, <2>4, <3>1 DEF OrderAt
  <2> QED
    BY <2>3, <2>4
<1>13. Knows(t, Loop(t), r)
  <2>1. l.call # "none"
    BY <1>9
  <2>2. /\ l.walk = Null \/ Alive(l.walk) \/ l.walk \in l.during
        /\ t \in Callers => (pc[Main] \in Adding => l.conn # conns) /\ l.conn \in 1 .. conns
    BY <1>3, <1>4, <2>1 DEF Knows
  <2>3. ASSUME t \in Callers, l.call = "exists", NEW i \in 1 .. Len(order),
               Settled(order[i]), node[order[i]].fd = l.conn
        PROVE  next # Null /\ \E k \in 1 .. i : order[k] = next
    <3>1. \E j \in 1 .. i : order[j] = Mine(t) /\ j < i
      BY <1>1, <1>3, <1>4, <1>5, <2>3 DEF Knows
    <3>2. PICK k \in 1 .. i : order[k] = next
      BY <1>12, <2>3, <3>1
    <3>3. k \in 1 .. Len(order) /\ order \in Seq(Nodes)
      BY <1>1, Parts DEF TypeOK
    <3>4. order[k] \in Nodes
      BY <3>3, ElementOfSeq
    <3> QED
      BY <3>2, <3>4, Bounds
  <2>4. \A n \in {next, l.walk} :
          /\ n # Null => n \in DOMAIN node
          /\ pc[Main] = "addLink" => n # loc[Main].ptr
    <3>1. \A n \in {Mine(t), l.walk} :
            /\ n # Null => n \in DOMAIN node
            /\ pc[Main] = "addLink" => n # loc[Main].ptr
      BY <1>3, <1>4 DEF Knows
    <3>2. pc[Main] = "addLink" => next # loc[Main].ptr
      BY <1>1, <1>5, <3>1, LiveNode DEF next
    <3> QED
      BY <1>6, <3>1, <3>2 DEF Alive
  <2> QED
    BY <1>6, <1>8, <1>9, <1>10, <2>1, <2>2, <2>3, <2>4 DEF Knows
<1>14. misled' \in {"no", "refilled"}
  BY <1>1, Parts DEF Reads, historyVars
<1> QED
  BY <1>1, <1>2, <1>10, <1>11, <1>13, <1>14, WalkKeeps DEF Reads, connVars, historyVars

LEMMA MatchKeeps ==
  ASSUME RacesInv, NEW t \in Closers, Match(t)
  PROVE  RacesInv'
<1> DEFINE label == IF node[Mine(t)].fd # loc[t].conn THEN "step"
                    ELSE IF loc[t].call = "exists" THEN "client" ELSE "freeClient"
<1>1. Sound /\ pc[t] = "match" /\ At(t, "match") /\ Mine(t) # Null /\ Stay(t, label) /\ Reads
  BY DEF Match, At
<1>2. pc[t] \notin Deleting \cup {"freeClient"} /\ "match" \in Loops /\ "match" \in Walking
  BY <1>1 DEF Deleting, Loops, Walking
<1>3. Knows(t, "match", loc[t]) /\ loc[t] \in Locals
  BY <1>1, <1>2, Known
<1>4. PICK r \in Locals : r = loc[t] /\ Mine(t) = r.node
  BY <1>3 DEF Mine
<1>5. Alive(Mine(t))
  BY <1>1, <1>2, Reached
<1>6. t \in Callers /\ t # Heart /\ t # Main
  BY <1>1, Code, Kinds, Parts DEF Closers
<1>7. r.call \in {"exists", "close"}
  BY <1>3, <1>4, <1>6 DEF Knows, CallsOf, LabelsOf, Idle
<1>8. \/ label = "step" /\ node[r.node].fd # r.conn
      \/ label = "client" /\ node[r.node].fd = r.conn /\ r.call = "exists"
      \/ label = "freeClient" /\ node[r.node].fd = r.conn /\ r.call = "close"
  <2>1. CASE node[Mine(t)].fd # loc[t].conn
    BY <1>4, <1>7, <2>1
  <2>2. CASE node[Mine(t)].fd = loc[t].conn /\ loc[t].call = "exists"
    BY <1>4, <1>7, <2>2
  <2>3. CASE node[Mine(t)].fd = loc[t].conn /\ loc[t].call # "exists"
    BY <1>4, <1>7, <2>3
  <2> QED
    BY <2>1, <2>2, <2>3
<1>9. Moves(t, label, r)
  <2>1. loc' = [loc EXCEPT ![t] = loc[t]]
    BY <1>1, Parts DEF Stay, TypeOK
  <2> QED
    BY <1>1, <1>4, <2>1 DEF Stay, Goto, Moves
<1> HIDE DEF label
<1>10. label \in Labels \ (Deleting \cup Adding)
  BY <1>8 DEF Labels, Deleting, Adding
<1>11. label \in LabelsOf(t, r.call)
  BY <1>7, <1>8 DEF LabelsOf
<1>12. Knows(t, label, r)
  <2>1. /\ r.call \in CallsOf(t) /\ r.call # "none" /\ r.conn \in 1 .. conns /\ r.conn # 0
        /\ r.walk = Null \/ Alive(r.walk) \/ r.walk \in r.during
        /\ pc[Main] \in Adding => r.conn # conns
    BY <1>3, <1>4, <1>6, <1>7 DEF Knows
  <2>2. ASSUME r.call = "exists", label = "step", NEW i \in 1 .. Len(order),
               Settled(order[i]), node[order[i]].fd = r.conn
        PROVE  \E j \in 1 .. i : order[j] = r.node /\ j < i
    <3>1. PICK j \in 1 .. i : order[j] = r.node
      BY <1>3, <1>4, <1>5, <1>6, <2>2 DEF Knows
    <3>2. j # i
      BY <1>8, <2>2, <3>1
    <3> QED
      BY <3>1, <3>2
  <2>3. \A n \in {r.node, r.walk} :
          /\ n # Null => n \in DOMAIN node
          /\ pc[Main] = "addLink" => n # loc[Main].ptr
    BY <1>3, <1>4 DEF Knows
  <2> QED
    BY <1>1, <1>4, <1>5, <1>8, <1>11, <2>1, <2>2, <2>3 DEF Knows
<1>13. misled' \in {"no", "refilled"}
  BY <1>1, Parts DEF Reads, historyVars
<1> QED
  BY <1>1, <1>2, <1>9, <1>10, <1>12, <1>13, WalkKeeps DEF Reads, connVars, historyVars

LEMMA ReturnKeeps ==
  ASSUME RacesInv, Sound, NEW t \in Closers, pc[t] \notin Deleting \cup {"freeClient"}, Return(t),
         head' = head, node' = node, freed' = freed, gone' = gone, conns' = conns,
         order' = order, replaced' = replaced, broken' = broken,
         watched' \subseteq watched, misled' \in {"no", "refilled"}
  PROVE  RacesInv'
BY ReturnKnows, WalkKeeps

(* What a live node holds if no thread zeroes it.                          *)
LEMMA AnswerTrue ==
  ASSUME RacesInv, Sound, NEW t \in Callers, loc[t].call = "exists", Alive(Mine(t)),
         pc[t] = "client"
  PROVE  /\ node[Mine(t)].client \in Conn \ {loc[t].conn} => Mine(t) \in loc[t].during
         /\ node[Mine(t)].client = Null =>
              \A n \in Nodes : Settled(n) => node[n].fd # loc[t].conn
<1>1. t \in Closers /\ loc[t].conn \in 1 .. conns /\ loc[t].conn # 0
      /\ (pc[Main] \in Adding => loc[t].conn # conns)
      /\ Null \notin 1 .. conns
  BY Kinds, Parts, NullNotGone DEF NotPassed, Appends
<1>2. \/ Mine(t) \in Listed
      \/ Mine(t) = head /\ order = << >>
      \/ Mine(t) = loc[Main].ptr /\ pc[Main] = "addLink"
  BY LiveNode
<1>3. ASSUME node[Mine(t)].client \in Conn \ {loc[t].conn}, Mine(t) \notin loc[t].during
      PROVE  FALSE
  <2>1. node[Mine(t)].fd = loc[t].conn
    BY <1>1, <1>3, Parts DEF Looked
  <2>2. CASE Mine(t) \in Listed
    <3>1. PICK i \in 1 .. Len(order) : order[i] = Mine(t)
      BY <2>2 DEF Listed
    <3> QED
      BY <1>1, <1>3, <2>1, <3>1, Parts DEF Contents
  <2>3. CASE Mine(t) = head /\ order = << >>
    <3>1. pc[Main] \in {"fillClient", "fillNext", "fillPrev"} /\ loc[t].conn = loc[Main].conn
      BY <1>1, <2>1, <2>3, Parts DEF EmptyHead
    <3>2. pc[Main] \in Adding /\ loc[Main].conn = conns
      BY <3>1, Parts DEF Adding, Appends
    <3> QED
      BY <1>1, <3>1, <3>2
  <2>4. CASE Mine(t) = loc[Main].ptr /\ pc[Main] = "addLink"
    <3>1. pc[Main] \in Adding /\ node[Mine(t)].fd = conns
      BY <2>4, Parts DEF Adding, Appends
    <3> QED
      BY <1>1, <2>1, <3>1
  <2> QED
    BY <1>2, <2>2, <2>3, <2>4
<1>4. ASSUME node[Mine(t)].client = Null, NEW n \in Nodes, Settled(n)
      PROVE  node[n].fd # loc[t].conn
  <2>1. PICK k \in 1 .. Len(order) : order[k] = n
    BY <1>4 DEF Settled, Listed
  <2>2. order # << >> /\ Len(order) \in Nat
    BY <2>1, Parts DEF TypeOK
  <2>3. Mine(t) \in Listed
    <3>1. pc[Main] = "addLink" /\ Mine(t) = loc[Main].ptr => node[Mine(t)].client = conns /\ conns \in 1 .. conns
      BY Parts DEF Adding, Appends, TypeOK
    <3> QED
      BY <1>1, <1>2, <1>4, <2>2, <3>1
  <2>4. PICK i \in 1 .. Len(order) : order[i] = Mine(t)
    BY <2>3 DEF Listed
  <2>5. NoClient(order[i])
    BY <1>1, <1>4, <2>4, Parts DEF Contents
  <2>6. PICK u \in Closers : Mine(u) = order[i] /\ pc[u] \in {"zeroPrev", "zeroNext"}
    BY <2>5 DEF NoClient, Deleter
  <2>7. pc[u] \in Deleting /\ pc[u] \in Emptied
    BY <2>6 DEF Deleting, Emptied
  <2>8. Len(order) = 1
    BY <2>6, <2>7, Parts DEF RightBranch, Branches
  <2>9. n = order[i]
    BY <2>1, <2>4, <2>8
  <2> QED
    BY <1>4, <2>6, <2>7, <2>9 DEF Settled
<1> QED
  BY <1>3, <1>4

LEMMA FoundKeeps ==
  ASSUME RacesInv, NEW t \in Closers, Found(t)
  PROVE  RacesInv'
<1> DEFINE c == node[Mine(t)].client
<1>1. Sound /\ pc[t] = "client" /\ At(t, "client") /\ Answer(t, c)
  BY DEF Found, At
<1>2. pc[t] \notin Deleting \cup {"freeClient"} /\ "client" \notin Loops
  BY <1>1 DEF Deleting, Loops
<1>3. t \in Callers
  BY <1>1, Code, Kinds, Parts DEF Closers
<1>4. loc[t].call = "exists"
  BY <1>1, <1>3, Kinds, Parts DEF OwnCode, CallsOf, LabelsOf, Idle, Deleting
<1>5. Alive(Mine(t))
  BY <1>1, <1>2, Reached
<1>6. /\ c \in Conn \ {loc[t].conn} => Mine(t) \in loc[t].during
      /\ c = Null => \A n \in Nodes : Settled(n) => node[n].fd # loc[t].conn
  BY <1>1, <1>3, <1>4, <1>5, AnswerTrue
<1> HIDE DEF c
<1>7. misled' \in {"no", "refilled"}
  <2>1. misled' = CASE c \in Conn \ {loc[t].conn} ->
                         IF Mine(t) \in loc[t].during THEN "refilled" ELSE "other"
                    [] c = Null /\ \E n \in Nodes : Settled(n) /\ node[n].fd = loc[t].conn -> "lost"
                    [] OTHER -> misled
    BY <1>1 DEF Answer
  <2>2. ~(c = Null /\ \E n \in Nodes : Settled(n) /\ node[n].fd = loc[t].conn)
    BY <1>6
  <2>3. misled = "no"
    BY <1>1, Parts
  <2>4. CASE c \in Conn \ {loc[t].conn}
    BY <1>6, <2>1, <2>2, <2>4
  <2>5. CASE c \notin Conn \ {loc[t].conn}
    BY <2>1, <2>2, <2>3, <2>5
  <2> QED
    BY <2>4, <2>5
<1> QED
  BY <1>1, <1>2, <1>7, ReturnKeeps DEF Answer

LEMMA NotFoundKeeps ==
  ASSUME RacesInv, NEW t \in Closers, NotFound(t)
  PROVE  RacesInv'
<1>1. Sound /\ pc[t] = "match" /\ Mine(t) = Null
  BY DEF NotFound, At
<1>2. pc[t] \notin Deleting \cup {"freeClient"}
  BY <1>1 DEF Deleting
<1>3. t \in Callers
  BY <1>1, Code, Kinds, Parts DEF Closers
<1>4. misled = "no"
  BY <1>1, Parts
<1>5. CASE loc[t].call # "exists"
  <2>1. Return(t) /\ Reads
    BY <1>5 DEF NotFound
  <2> QED
    BY <1>1, <1>2, <1>4, <2>1, ReturnKeeps DEF Reads, connVars, historyVars
<1>6. CASE loc[t].call = "exists"
  <2>1. Answer(t, Null)
    BY <1>6 DEF NotFound
  <2>2. ASSUME NEW n \in Nodes, Settled(n), node[n].fd = loc[t].conn
        PROVE  FALSE
    <3>1. PICK i \in 1 .. Len(order) : order[i] = n
      BY <2>2 DEF Settled, Listed
    <3> QED
      BY <1>1, <1>3, <1>6, <2>2, <3>1, Parts DEF NotPassed, Sought
  <2>3. Null \notin Conn
    BY Bounds
  <2>4. misled' = misled
    BY <2>1, <2>2, <2>3 DEF Answer
  <2> QED
    BY <1>1, <1>2, <1>4, <2>1, <2>4, ReturnKeeps DEF Answer
<1> QED
  BY <1>5, <1>6

LEMMA StepOnKeeps ==
  ASSUME RacesInv, Sound, NEW t \in Closers, pc[t] \notin Deleting \cup {"freeClient"},
         NEW label \in {"step", "age"}, Stay(t, label), Reads,
         pc[t] \in Walking, Mine(t) # Null, loc[t].call # "exists",
         label \in LabelsOf(t, loc[t].call),
         label = "age" => Alive(Mine(t)) /\ node[Mine(t)].fd # 0
  PROVE  RacesInv'
<1>1. Knows(t, pc[t], loc[t]) /\ loc[t] \in Locals
  BY Known
<1>2. PICK r \in Locals : r = loc[t] /\ Mine(t) = r.node
  BY <1>1 DEF Mine
<1>3. Moves(t, label, r)
  <2>1. loc' = [loc EXCEPT ![t] = loc[t]]
    BY Parts DEF Stay, TypeOK
  <2> QED
    BY <1>2, <2>1 DEF Stay, Goto, Moves
<1>4. label \in Labels \ (Deleting \cup Adding)
  BY DEF Labels, Deleting, Adding
<1>5. Knows(t, label, r)
  BY <1>1, <1>2 DEF Knows, Walking
<1>6. misled' \in {"no", "refilled"}
  BY Parts DEF Reads, historyVars
<1> QED
  BY <1>3, <1>4, <1>5, <1>6, WalkKeeps DEF Reads, connVars, historyVars

LEMMA UidKeeps ==
  ASSUME RacesInv, NEW t \in Closers, Uid(t)
  PROVE  RacesInv'
<1>1. Sound /\ pc[t] = "uid" /\ Reads /\ misled = "no"
  BY Parts DEF Uid, At
<1>2. pc[t] \notin Deleting \cup {"freeClient"} /\ pc[t] \in Walking /\ t \in Threads
  BY <1>1, Kinds DEF Deleting, Walking
<1>3. CASE Return(t)
  BY <1>1, <1>2, <1>3, ReturnKeeps DEF Reads, connVars, historyVars
<1>4. CASE Mine(t) # Null /\ Stay(t, "step")
  <2>1. loc[t].call = "uid"
    BY <1>1, <1>2, Kinds, Parts DEF OwnCode, CallsOf, LabelsOf, Idle, Adding, Deleting
  <2>2. "step" \in LabelsOf(t, loc[t].call)
    BY <2>1 DEF LabelsOf
  <2> QED
    BY <1>1, <1>2, <1>4, <2>1, <2>2, StepOnKeeps
<1> QED
  BY <1>3, <1>4 DEF Uid

LEMMA HeartCall ==
  ASSUME OwnCode, pc[Heart] \in {"beat", "age", "close"}
  PROVE  loc[Heart].call = "beat"
BY Kinds DEF OwnCode, CallsOf, LabelsOf, Idle

LEMMA BeatKeeps ==
  ASSUME RacesInv, Beat
  PROVE  RacesInv'
<1>1. Sound /\ pc[Heart] = "beat" /\ At(Heart, "beat") /\ Reads /\ misled = "no"
  BY Parts DEF Beat, At
<1>2. pc[Heart] \notin Deleting \cup {"freeClient"} /\ pc[Heart] \in Walking /\ Heart \in Closers
  BY <1>1, Kinds DEF Deleting, Walking
<1>3. CASE Return(Heart)
  BY <1>1, <1>2, <1>3, ReturnKeeps DEF Reads, connVars, historyVars
<1>4. CASE Mine(Heart) # Null /\ node[Mine(Heart)].fd # 0 /\ Stay(Heart, "age")
  <2>1. loc[Heart].call = "beat"
    BY <1>1, HeartCall, Parts
  <2>2. "age" \in LabelsOf(Heart, loc[Heart].call)
    BY <2>1 DEF LabelsOf
  <2>3. Alive(Mine(Heart))
    BY <1>1, <1>4, Reached DEF Loops
  <2> QED
    BY <1>1, <1>2, <1>4, <2>1, <2>2, <2>3, StepOnKeeps
<1> QED
  BY <1>3, <1>4 DEF Beat

LEMMA AgeKeeps ==
  ASSUME RacesInv, Age
  PROVE  RacesInv'
<1>1. Sound /\ pc[Heart] = "age" /\ At(Heart, "age") /\ Stay(Heart, "step") /\ Reads
  BY DEF Age, At
<1>2. pc[Heart] \notin Deleting \cup {"freeClient"} /\ pc[Heart] \in Walking \ Loops
      /\ Heart \in Closers /\ Heart \in Threads
  BY <1>1, Kinds DEF Deleting, Walking, Loops
<1>3. Mine(Heart) # Null
  BY <1>1, <1>2, Parts DEF Held
<1>4. loc[Heart].call = "beat"
  BY <1>1, HeartCall, Parts
<1>5. "step" \in LabelsOf(Heart, loc[Heart].call)
  BY <1>4 DEF LabelsOf
<1> QED
  BY <1>1, <1>2, <1>3, <1>4, <1>5, StepOnKeeps

LEMMA ExpiredKeeps ==
  ASSUME RacesInv, Expired
  PROVE  RacesInv'
<1> DEFINE n == Mine(Heart)
           next == node[n].next
           fd == node[n].fd
<1>1. /\ Sound /\ pc[Heart] = "age" /\ At(Heart, "age") /\ Goto(Heart, "freeClient") /\ Reads
      /\ loc' = [loc EXCEPT ![Heart].walk = next, ![Heart].conn = fd]
  BY DEF Expired, At
<1>2. pc[Heart] \notin Deleting \cup {"freeClient"} /\ pc[Heart] \in Walking \ Loops
      /\ Heart \in Closers /\ Heart \in Threads /\ Heart \notin Callers
  BY <1>1, Kinds DEF Deleting, Walking, Loops
<1>3. Knows(Heart, "age", loc[Heart]) /\ loc[Heart] \in Locals
  BY <1>1, <1>2, Known
<1>4. PICK l \in Locals : l = loc[Heart] /\ n = l.node
  BY <1>3 DEF Mine
<1>5. Alive(n)
  BY <1>1, Reached DEF Loops
<1>6. next \in Pointers /\ (next = Null \/ Alive(next)) /\ fd \in 0 .. MaxConn
  BY <1>1, <1>5, LiveNode DEF Fields
<1>7. loc' = [loc EXCEPT ![Heart] = [[l EXCEPT !.walk = next] EXCEPT !.conn = fd]]
  <2>1. loc \in [Threads -> Locals]
    BY <1>1, Parts DEF TypeOK
  <2> HIDE DEF next, fd
  <2> QED
    BY <1>1, <1>2, <1>4, <2>1
<1>8. n \in l.during \/ fd # 0
  BY <1>2, <1>3, <1>4, <1>5 DEF Knows
<1> HIDE DEF next, fd
<1>9. PICK r \in Locals : r = [[l EXCEPT !.walk = next] EXCEPT !.conn = fd]
  BY <1>6 DEF Locals
<1>10. r.node = l.node /\ r.call = l.call /\ r.walk = next /\ r.during = l.during
  BY <1>9 DEF Locals
<1>11. Moves(Heart, "freeClient", r)
  BY <1>1, <1>7, <1>9 DEF Goto, Moves
<1>12. "freeClient" \in Labels \ (Deleting \cup Adding)
  BY DEF Labels, Deleting, Adding
<1>13. Knows(Heart, "freeClient", r)
  <2>1. r.call = "beat" /\ r.call \in CallsOf(Heart) /\ "freeClient" \in LabelsOf(Heart, r.call)
    <3>1. loc[Heart].call = "beat"
      BY <1>1, HeartCall, Parts
    <3> QED
      BY <1>3, <1>4, <1>10, <3>1 DEF Knows, LabelsOf
  <2>2. Alive(r.node) /\ r.node # Null
    BY <1>2, <1>3, <1>4, <1>5, <1>10, <1>1 DEF Knows
  <2>3. r.node \in r.during \/ node[r.node].fd # 0
    BY <1>4, <1>8, <1>10 DEF fd
  <2>4. \A m \in {n, next} :
          /\ m # Null => m \in DOMAIN node
          /\ pc[Main] = "addLink" => m # loc[Main].ptr
    <3>1. pc[Main] = "addLink" => n # loc[Main].ptr
      BY <1>3, <1>4 DEF Knows
    <3>2. pc[Main] = "addLink" => next # loc[Main].ptr
      BY <1>1, <1>5, <3>1, LiveNode DEF next
    <3> QED
      BY <1>5, <1>6, <3>1, <3>2 DEF Alive
  <2> QED
    BY <1>2, <1>4, <1>6, <1>10, <2>1, <2>2, <2>3, <2>4 DEF Knows
<1>14. misled' \in {"no", "refilled"}
  BY <1>1, Parts DEF Reads, historyVars
<1> QED
  BY <1>1, <1>2, <1>11, <1>12, <1>13, <1>14, WalkKeeps DEF Reads, connVars, historyVars

LEMMA CloseFdKeeps ==
  ASSUME RacesInv, NEW t \in Closers, CloseFd(t)
  PROVE  RacesInv'
<1>1. /\ Sound /\ pc[t] = "close" /\ watched' \subseteq watched
      /\ head' = head /\ node' = node /\ freed' = freed /\ gone' = gone /\ conns' = conns
      /\ order' = order /\ replaced' = replaced /\ broken' = broken /\ misled' = misled
  BY DEF CloseFd, At, historyVars
<1>2. pc[t] \notin Deleting \cup {"freeClient"} /\ t \in Threads
  BY <1>1, Kinds DEF Deleting
<1>3. misled' \in {"no", "refilled"}
  BY <1>1, Parts
<1>4. CASE t # Heart
  <2>1. Return(t)
    BY <1>4 DEF CloseFd
  <2> QED
    BY <1>1, <1>2, <1>3, <2>1, ReturnKeeps
<1>5. CASE t = Heart
  <2>1. Knows(t, "close", loc[t]) /\ loc[t] \in Locals
    BY <1>1, <1>2, Known
  <2>2. PICK l \in Locals : l = loc[t]
    BY <2>1
  <2>3. l.walk \in Pointers /\ Null \in Pointers
    BY DEF Locals, Pointers
  <2>4. PICK r \in Locals : r = [l EXCEPT !.node = l.walk, !.walk = Null, !.ptr = Null]
    BY <2>3 DEF Locals
  <2>5. r.node = l.walk /\ r.call = l.call /\ r.walk = Null /\ r.during = l.during
    BY <2>3, <2>4 DEF Locals
  <2>6. Moves(t, "beat", r)
    <3>1. loc \in [Threads -> Locals]
      BY <1>1, Parts DEF TypeOK
    <3>2. Goto(t, "beat")
          /\ loc' = [loc EXCEPT ![t].node = loc[t].walk, ![t].walk = Null, ![t].ptr = Null]
      BY <1>5 DEF CloseFd
    <3> QED
      BY <1>2, <2>2, <2>4, <3>1, <3>2 DEF Goto, Moves
  <2>7. "beat" \in Labels \ (Deleting \cup Adding) /\ t \notin Callers
    BY <1>5, Kinds DEF Labels, Deleting, Adding
  <2>8. Knows(t, "beat", r)
    <3>1. loc[t].call = "beat"
      BY <1>1, <1>5, HeartCall, Parts
    <3>2. l.call \in CallsOf(t) /\ (l.walk = Null \/ Alive(l.walk) \/ l.walk \in l.during)
      BY <2>1, <2>2 DEF Knows
    <3>3. "beat" \in LabelsOf(t, r.call) /\ r.call # "none"
      BY <2>2, <2>5, <3>1 DEF LabelsOf
    <3>4. "beat" \in Loops /\ "beat" \notin {"age", "freeClient", "client"}
      BY DEF Loops
    <3>5. \A n \in {l.walk, Null} :
            /\ n # Null => n \in DOMAIN node
            /\ pc[Main] = "addLink" => n # loc[Main].ptr
      BY <1>1, <2>1, <2>2, NewNode DEF Knows
    <3> QED
      BY <2>5, <2>7, <3>2, <3>3, <3>4, <3>5 DEF Knows
  <2> QED
    BY <1>1, <1>2, <1>3, <2>6, <2>7, <2>8, WalkKeeps
<1> QED
  BY <1>4, <1>5

-----------------------------------------------------------------------------
(* close_client frees the client of the node it has found.                 *)
LEMMA FreeClientKeeps ==
  ASSUME RacesInv, NEW t \in Closers, FreeClient(t)
  PROVE  RacesInv'
<1> DEFINE c == node[Mine(t)].client
<1>1. /\ Sound /\ pc[t] = "freeClient" /\ At(t, "freeClient") /\ Stay(t, "delPrev")
      /\ gone' = gone \cup {c} /\ "freeClient" \in Client /\ "freeClient" \notin Loops
  BY DEF FreeClient, At, Client, Loops
<1>2. /\ head' = head /\ node' = node /\ freed' = freed /\ conns' = conns /\ watched' = watched
      /\ order' = order /\ replaced' = replaced /\ misled' = misled /\ broken' = broken
  BY DEF FreeClient, connVars, historyVars
<1>3. /\ t \in Threads /\ TypeOK /\ OwnCode /\ "delPrev" \in Labels /\ Main \in Threads /\ t # Main
      /\ misled = "no" /\ broken = << >> /\ Alive(head)
  BY <1>1, Kinds, Parts DEF Labels, Deleting
<1>4. Alive(Mine(t)) /\ c \in Conn /\ c \notin gone
  BY <1>1, Reached
<1>5. Advances(t, "delPrev") /\ loc'[t] = loc[t]
  BY <1>1, <1>3, StayAdvances DEF Stay
<1>6. loc' = loc /\ \A u \in Threads : pc'[u] = IF u = t THEN "delPrev" ELSE pc[u]
  BY <1>1, <1>3 DEF Stay, Goto, TypeOK
<1>7. \A u \in Threads : Mine(u)' = Mine(u)
  BY <1>6 DEF Mine
<1>8. \A n : Alive(n)' <=> Alive(n)
  BY <1>2 DEF Alive
<1>9. Listed' = Listed
  BY <1>2 DEF Listed
<1>10. /\ Mine(t) \in Nodes /\ node[Mine(t)] \in Fields
       /\ \/ Mine(t) \in Listed
          \/ Mine(t) = head /\ order = << >>
          \/ Mine(t) = loc[Main].ptr /\ pc[Main] = "addLink"
  BY <1>1, <1>4, LiveNode
<1>11. c \in 1 .. conns
  <2>1. Mine(t) \in Listed => c \in 1 .. conns
    <3> SUFFICES ASSUME NEW i \in 1 .. Len(order), order[i] = Mine(t)
                 PROVE  c \in 1 .. conns
      BY DEF Listed
    <3> QED
      BY <1>1, <1>4, Bounds, Parts DEF Contents
  <2>2. Mine(t) = head /\ order = << >> => c = loc[Main].conn /\ pc[Main] \in Adding
    BY <1>1, <1>4, Bounds, Parts DEF EmptyHead, Adding
  <2>3. Mine(t) = loc[Main].ptr /\ pc[Main] = "addLink" => c = conns /\ pc[Main] \in Adding
    BY <1>1, Parts DEF Appends, Adding
  <2>4. pc[Main] \in Adding => loc[Main].conn = conns /\ conns \in 1 .. conns
    BY <1>1, Parts DEF Appends, TypeOK
  <2> QED
    BY <1>10, <2>1, <2>2, <2>3, <2>4
<1>12. TypeOK'
  BY <1>2, <1>3, <1>5, <1>1, <1>11 DEF TypeOK, Advances
<1>13. OwnCode'
  <2> SUFFICES ASSUME NEW u \in Threads
               PROVE  /\ loc'[u].call \in CallsOf(u)
                      /\ pc'[u] \in LabelsOf(u, loc'[u].call)
                      /\ loc'[u].call = "none" => loc'[u] = NoLocals
    BY DEF OwnCode, CallsOf, LabelsOf, Idle
  <2>1. CASE u = t
    <3>1. loc[t].call \in CallsOf(t) /\ "freeClient" \in LabelsOf(t, loc[t].call)
      BY <1>1, <1>3 DEF OwnCode
    <3>2. loc[t].call \in {"close", "beat"}
      BY <1>3, <3>1 DEF CallsOf, LabelsOf, Idle, Adding
    <3> QED
      BY <1>6, <2>1, <3>1, <3>2 DEF LabelsOf, Deleting
  <2>2. CASE u # t
    BY <1>3, <1>6, <2>2 DEF OwnCode
  <2> QED
    BY <2>1, <2>2
<1>14. ASSUME ~Clash'
       PROVE  Good'
  <2>1. Mine(t) \in Listed /\ (pc[Main] \in Adding => Mine(t) # order[Len(order)])
    <3>1. pc[Main] \in Adding => order # << >> /\ Mine(t) # order[Len(order)]
      <4> SUFFICES ASSUME pc[Main] \in Adding
                   PROVE  order # << >> /\ Mine(t) # order[Len(order)]
        OBVIOUS
      <4>1. pc'[Main] \in Adding /\ pc'[t] \in Deleting /\ Mine(t)' = Mine(t)
        BY <1>3, <1>6, <1>7 DEF Deleting
      <4> QED
        BY <1>2, <1>3, <1>14, <4>1 DEF Clash
    <3>2. Mine(t) = head /\ order = << >> => pc[Main] \in Adding
      BY <1>1, <1>4, Bounds, Parts DEF EmptyHead, Adding
    <3>3. pc[Main] = "addLink" => Mine(t) # loc[Main].ptr
      BY <1>1, Parts DEF Unseen
    <3> QED
      BY <1>10, <3>1, <3>2, <3>3
  <2>2. PICK i \in 1 .. Len(order) : order[i] = Mine(t)
    BY <2>1 DEF Listed
  <2>3. order # << >> /\ Len(order) \in Nat
    BY <1>3, <2>2 DEF TypeOK
  <2>4. ASSUME NEW u \in Closers, pc[u] \in Deleting
        PROVE  Mine(u) # Mine(t)
    <3> SUFFICES ASSUME Mine(u) = Mine(t)
                 PROVE  FALSE
      OBVIOUS
    <3>1. u # t /\ u \in Threads
      BY <1>1, <2>4, Kinds DEF Deleting
    <3>2. pc'[u] \in Deleting /\ pc'[t] \in Deleting /\ Mine(u)' = Mine(t)'
      BY <1>3, <1>6, <1>7, <2>4, <3>1 DEF Deleting
    <3>3. i - i \in {-1, 0, 1} /\ order'[i] = Mine(t)' /\ i \in 1 .. Len(order')
      BY <1>2, <1>3, <1>7, <2>2, <2>3
    <3> QED
      BY <1>3, <1>14, <3>1, <3>2, <3>3 DEF Clash, Neighbours
  <2>5. \A L \in SUBSET Deleting : "delPrev" \notin L =>
          \A n : Deleter(n, L)' <=> Deleter(n, L)
    <3> SUFFICES ASSUME NEW L \in SUBSET Deleting, "delPrev" \notin L, NEW n
                 PROVE  Deleter(n, L)' <=> Deleter(n, L)
      OBVIOUS
    <3>1. \A u \in Closers : Mine(u)' = Mine(u) /\ (pc'[u] \in L <=> pc[u] \in L)
      <4>1. "freeClient" \notin Deleting
        BY DEF Deleting
      <4> QED
        BY <1>1, <1>6, <1>7, <4>1, Kinds
    <3> QED
      BY <3>1 DEF Deleter
  <2>6. \A n :
          /\ PassedOver(n)' <=> PassedOver(n)
          /\ SelfLinked(n)' <=> SelfLinked(n)
          /\ Bridged(n)' <=> Bridged(n)
          /\ Unlinked(n)' <=> Unlinked(n)
          /\ NoFd(n)' <=> NoFd(n)
          /\ NoClient(n)' <=> NoClient(n)
    <3>1. /\ {"selfPrev", "freeHead"} \in SUBSET (Deleting \ {"delPrev"})
          /\ {"freeHead"} \in SUBSET (Deleting \ {"delPrev"})
          /\ {"freeNode"} \in SUBSET (Deleting \ {"delPrev"})
          /\ {"following", "backLink", "freeNode"} \in SUBSET (Deleting \ {"delPrev"})
          /\ {"zeroClient", "zeroPrev", "zeroNext"} \in SUBSET (Deleting \ {"delPrev"})
          /\ {"zeroPrev", "zeroNext"} \in SUBSET (Deleting \ {"delPrev"})
      BY DEF Deleting
    <3>2. \A L \in SUBSET (Deleting \ {"delPrev"}) : \A n : Deleter(n, L)' <=> Deleter(n, L)
      BY <2>5
    <3> QED
      BY <3>1, <3>2 DEF PassedOver, SelfLinked, Bridged, Unlinked, NoFd, NoClient
  <2>7. \A n : InDeletion(n)' <=> InDeletion(n) \/ n = Mine(t)
    <3>1. \A u \in Closers : Mine(u)' = Mine(u)
            /\ (pc'[u] \in Deleting <=> pc[u] \in Deleting \/ u = t)
      BY <1>6, <1>7, Kinds DEF Deleting
    <3> QED
      BY <3>1 DEF InDeletion, Deleter
  <2>8. pc'[Main] = pc[Main]
    BY <1>3, <1>6
  <2>9. ListShape'
    BY <1>2, <1>6, <1>8, <1>9, <2>8, <1>1, Parts DEF ListShape
  <2>10. HeadFirst' /\ FirstPrev' /\ Contents'
    BY <1>1, <1>2, <2>6, Parts DEF HeadFirst, FirstPrev, Contents
  <2>11. NextChain' /\ PrevChain'
    BY <1>1, <1>2, <2>6, Parts DEF NextChain, PrevChain, OrderAt
  <2>12. RightBranch'
    <3> SUFFICES ASSUME NEW u \in Closers, pc'[u] \in Deleting
                 PROVE  Branches(u)'
      BY DEF RightBranch
    <3>1. CASE u # t
      <4>1. pc'[u] = pc[u] /\ Mine(u)' = Mine(u) /\ Branches(u)
        BY <1>1, <1>6, <1>7, <3>1, Kinds, Parts DEF RightBranch
      <4> QED
        BY <1>2, <1>6, <4>1 DEF Branches, OrderAt
    <3>2. CASE u = t
      <4>1. pc'[t] = "delPrev" /\ Mine(t)' = Mine(t)
        BY <1>3, <1>6, <1>7
      <4> QED
        BY <1>2, <2>2, <3>2, <4>1 DEF Branches, HeadCase, OtherCase, Emptied
    <3> QED
      BY <3>1, <3>2
  <2>13. EmptyHead' /\ NodeCount'
    BY <1>1, <1>2, <1>6, <2>8, Parts DEF EmptyHead, NodeCount
  <2>14. Appends'
    <3> SUFFICES ASSUME pc[Main] \in Adding
                 PROVE  Appends'
      BY <2>8 DEF Appends
    <3>1. conns \notin gone'
      <4>1. \A k \in 1 .. Len(order) : node[order[k]].client # conns
        BY <1>1, Parts DEF Appends
      <4>2. c # conns
        BY <2>2, <4>1
      <4>3. conns \notin gone
        BY <1>1, Parts DEF Appends
      <4> QED
        BY <1>1, <4>2, <4>3
    <3> QED
      BY <1>1, <1>2, <1>3, <1>6, <1>7, <1>8, <1>9, <2>8, <3>1, Parts DEF Appends
  <2>15. GoneHeld'
    <3> SUFFICES ASSUME NEW n \in Nodes, Alive(n), node[n].client \in gone \cup {c}
                 PROVE  InDeletion(n) \/ n = Mine(t)
      BY <1>1, <1>2, <1>8, <2>7 DEF GoneHeld
    <3>1. CASE node[n].client \in gone
      BY <1>1, <3>1, Parts DEF GoneHeld
    <3>2. CASE node[n].client = c
      <4>1. \/ n \in Listed
            \/ n = loc[Main].ptr /\ pc[Main] = "addLink"
        BY <1>1, <2>3, LiveNode
      <4>2. n \in Listed => n = Mine(t)
        <5> SUFFICES ASSUME NEW j \in 1 .. Len(order), order[j] = n
                     PROVE  n = Mine(t)
          BY DEF Listed
        <5> QED
          BY <1>1, <2>2, <3>2, Parts DEF Contents
      <4>3. ~(n = loc[Main].ptr /\ pc[Main] = "addLink")
        <5> SUFFICES ASSUME n = loc[Main].ptr, pc[Main] = "addLink"
                     PROVE  FALSE
          OBVIOUS
        <5>1. pc[Main] \in Adding /\ node[n].client = conns
          BY <1>1, Parts DEF Appends, Adding
        <5>2. node[order[i]].client # conns
          BY <1>1, <5>1, Parts DEF Appends
        <5> QED
          BY <2>2, <3>2, <5>1, <5>2
      <4> QED
        BY <4>1, <4>2, <4>3
    <3> QED
      BY <3>1, <3>2
  <2>16. "delPrev" \notin Walking \cup {"age", "freeClient", "client", "match", "step"}
    BY DEF Walking
  <2>17. Held' /\ Looked'
    BY <1>1, <1>2, <1>6, <1>7, <1>8, <2>16, Kinds, Parts DEF Held, KeptBy, Looked
  <2>18. NotPassed'
    <3>1. \A n : Settled(n)' => Settled(n)
      <4>1. \A u \in Closers : Mine(u)' = Mine(u) /\ (pc[u] \in Deleting \cup {"freeClient"} =>
                                 pc'[u] \in Deleting \cup {"freeClient"})
        BY <1>6, <1>7, Kinds DEF Deleting
      <4> QED
        BY <1>9, <4>1 DEF Settled
    <3>2. \A u \in Callers, k \in 1 .. Len(order) : Sought(u, k)' => Sought(u, k)
      BY <1>2, <1>6, <3>1 DEF Sought
    <3>3. \A u \in Callers : Mine(u)' = Mine(u) /\ (pc'[u] \in {"match", "step"} => pc'[u] = pc[u])
      BY <1>6, <1>7, Kinds
    <3> QED
      BY <1>1, <1>2, <1>6, <1>8, <3>2, <3>3, Parts DEF NotPassed
  <2>19. Unseen'
    BY <1>1, <1>2, <1>5, Parts, UnseenAdvances
  <2> QED
    BY <2>9, <2>10, <2>11, <2>12, <2>13, <2>14, <2>15, <2>17, <2>18, <2>19 DEF Good
<1>15. Alive(head)'
  BY <1>3, <1>2, <1>8
<1> QED
  BY <1>2, <1>3, <1>12, <1>13, <1>14, <1>15, Whole

-----------------------------------------------------------------------------
(* The steps of main. All that changes for the others is `during'.         *)
MainMoves(label) ==
    /\ pc' \in [Threads -> Labels] /\ loc' \in [Threads -> Locals]
    /\ pc'[Main] = label
    /\ \A u \in Closers :
          /\ pc'[u] = pc[u] /\ loc'[u].ptr = loc[u].ptr
          /\ loc'[u].call = loc[u].call /\ loc'[u].conn = loc[u].conn
          /\ loc'[u].node = loc[u].node /\ loc'[u].walk = loc[u].walk
          /\ loc[u].during \subseteq loc'[u].during
          /\ pc[u] = Idle(u) => loc'[u] = loc[u]

LEMMA MainMoved ==
  ASSUME TypeOK, NEW label \in Labels, NEW r \in Locals, Moves(Main, label, r)
  PROVE  /\ MainMoves(label) /\ loc'[Main] = r
         /\ \A u \in Closers : loc'[u] = loc[u]
<1>1. /\ pc' \in [Threads -> Labels] /\ loc' \in [Threads -> Locals]
      /\ pc'[Main] = label /\ loc'[Main] = r
      /\ \A u \in Threads : u # Main => pc'[u] = pc[u] /\ loc'[u] = loc[u]
  BY Kinds, Moved
<1>2. \A u \in Closers : pc'[u] = pc[u] /\ loc'[u] = loc[u]
  BY <1>1, Kinds
<1> QED
  BY <1>1, <1>2 DEF MainMoves

LEMMA MainAdvances ==
  ASSUME NEW label, Advances(Main, label)
  PROVE  MainMoves(label)
BY Kinds DEF Advances, MainMoves

LEMMA MainCode ==
  ASSUME OwnCode, NEW label, MainMoves(label),
         \/ label \in Adding /\ loc'[Main].call = "add"
         \/ label = "accept" /\ loc'[Main] = NoLocals
  PROVE  OwnCode'
<1> SUFFICES ASSUME NEW u \in Threads
             PROVE  /\ loc'[u].call \in CallsOf(u)
                    /\ pc'[u] \in LabelsOf(u, loc'[u].call)
                    /\ loc'[u].call = "none" => loc'[u] = NoLocals
  BY DEF OwnCode, CallsOf, LabelsOf, Idle
<1>1. CASE u = Main
  <2>1. pc'[u] = label
    BY <1>1 DEF MainMoves
  <2>2. /\ CallsOf(Main) = {"none", "add"} /\ LabelsOf(Main, "add") = Adding
        /\ LabelsOf(Main, "none") = {"accept"} /\ NoLocals.call = "none"
    <3>1. CallsOf(Main) = {"none", "add"}
      BY Kinds DEF CallsOf
    <3>2. LabelsOf(Main, "add") = Adding
      BY DEF LabelsOf
    <3>3. LabelsOf(Main, "none") = {"accept"}
      BY Kinds DEF LabelsOf, Idle
    <3>4. NoLocals.call = "none"
      BY DEF NoLocals
    <3> QED
      BY <3>1, <3>2, <3>3, <3>4
  <2> QED
    BY <1>1, <2>1, <2>2
<1>2. CASE u # Main
  <2>1. u \in Closers
    BY <1>2, Kinds
  <2>2. pc'[u] = pc[u] /\ loc'[u].call = loc[u].call /\ (pc[u] = Idle(u) => loc'[u] = loc[u])
    BY <2>1 DEF MainMoves
  <2>3. loc[u].call = "none" => pc[u] = Idle(u)
    BY Code
  <2> QED
    BY <2>2, <2>3 DEF OwnCode
<1> QED
  BY <1>1, <1>2

(* The list is as it was, and so are the deletions under way.              *)
LEMMA MainPhases ==
  ASSUME NEW label, MainMoves(label)
  PROVE  /\ \A u \in Closers : pc'[u] = pc[u] /\ Mine(u)' = Mine(u)
         /\ \A n :
            /\ InDeletion(n)' <=> InDeletion(n)
            /\ PassedOver(n)' <=> PassedOver(n)
            /\ SelfLinked(n)' <=> SelfLinked(n)
            /\ Bridged(n)' <=> Bridged(n)
            /\ Unlinked(n)' <=> Unlinked(n)
            /\ NoFd(n)' <=> NoFd(n)
            /\ NoClient(n)' <=> NoClient(n)
<1>1. \A u \in Closers : pc'[u] = pc[u] /\ Mine(u)' = Mine(u)
  BY DEF MainMoves, Mine
<1> QED
  BY <1>1, PhasesSame

LEMMA ListSame ==
  ASSUME RacesInv, Sound, NEW label, MainMoves(label),
         order' = order, head' = head, replaced' = replaced,
         conns' \in {conns, conns + 1},
         \A n \in Listed : node'[n] = node[n]
  PROVE  HeadFirst' /\ NextChain' /\ PrevChain' /\ FirstPrev' /\ RightBranch' /\ Contents'
<1>1. order \in Seq(Nodes) /\ Len(order) \in Nat /\ conns \in Nat
  BY Parts DEF TypeOK
<1>2. \A i \in 1 .. Len(order) : order[i] \in Listed /\ node'[order[i]] = node[order[i]]
  BY DEF Listed
<1>3. \A n :
        /\ PassedOver(n)' <=> PassedOver(n)
        /\ SelfLinked(n)' <=> SelfLinked(n)
        /\ Bridged(n)' <=> Bridged(n)
        /\ Unlinked(n)' <=> Unlinked(n)
        /\ NoFd(n)' <=> NoFd(n)
        /\ NoClient(n)' <=> NoClient(n)
  BY MainPhases
<1>4. HeadFirst'
  BY <1>3, Parts DEF HeadFirst
<1>5. NextChain'
  BY <1>2, <1>3, Parts DEF NextChain, OrderAt
<1>6. PrevChain'
  <2> SUFFICES ASSUME NEW i \in 2 .. Len(order)
               PROVE  node'[order[i]].prev =
                        IF Unlinked(order[i - 1])' THEN node'[order[i - 1]].prev
                        ELSE IF i = 2 /\ SelfLinked(order[1])' THEN order[2]
                        ELSE order[i - 1]
    BY DEF PrevChain
  <2>1. i \in 1 .. Len(order) /\ i - 1 \in 1 .. Len(order)
    BY <1>1
  <2> QED
    BY <1>2, <1>3, <2>1, Parts DEF PrevChain
<1>7. FirstPrev'
  <2>1. order # << >> => 1 \in 1 .. Len(order)
    BY <1>1
  <2> QED
    BY <1>2, <2>1, Parts DEF FirstPrev
<1>8. RightBranch'
  <2> SUFFICES ASSUME NEW u \in Closers, pc'[u] \in Deleting
               PROVE  Branches(u)'
    BY DEF RightBranch
  <2>1. pc'[u] = pc[u] /\ Mine(u)' = Mine(u) /\ loc'[u].ptr = loc[u].ptr
    BY DEF MainMoves, Mine
  <2>2. Branches(u)
    BY <2>1, Parts DEF RightBranch
  <2> QED
    BY <1>2, <2>1, <2>2 DEF Branches, OrderAt
<1>9. Contents'
  <2>1. Contents
    BY Parts
  <2>2. \A i \in 1 .. Len(order) :
          /\ IF NoFd(order[i])' THEN node'[order[i]].fd = 0
             ELSE node'[order[i]].fd \in 1 .. conns'
          /\ IF NoClient(order[i])' THEN node'[order[i]].client = Null
             ELSE node'[order[i]].client \in 1 .. conns'
          /\ node'[order[i]].fd # 0 => node'[order[i]].client = node'[order[i]].fd
    <3>1. \A c : c \in 1 .. conns => c \in 1 .. conns'
      BY <1>1
    <3> QED
      BY <1>2, <1>3, <2>1, <3>1 DEF Contents
  <2>3. \A i, j \in 1 .. Len(order) :
          node'[order[i]].client = node'[order[j]].client => i = j
    BY <1>2, <2>1 DEF Contents
  <2> QED
    BY <2>2, <2>3 DEF Contents
<1> QED
  BY <1>4, <1>5, <1>6, <1>7, <1>8, <1>9

(* What the threads hold when main fills the head, or appends a node.      *)
LEMMA MainThreads ==
  ASSUME RacesInv, Sound, NEW label \in Labels, MainMoves(label),
         node' \in Seq(Fields), Len(node) <= Len(node'), Len(node') <= MaxConn, freed' = freed,
         conns' \in {conns, conns + 1}, order' \in Seq(Nodes), Len(order) <= Len(order'),
         \A i \in 1 .. Len(order) : order'[i] = order[i] /\ node'[order[i]].fd = node[order[i]].fd,
         \A i \in Len(order) + 1 .. Len(order') :
            pc[Main] \in Adding /\ node'[order'[i]].fd = conns,
         \A n \in 1 .. Len(node) :
            \/ node'[n].fd = node[n].fd
            \/ \A u \in Closers : pc[u] # Idle(u) => n \in loc'[u].during,
         label = "addLink" => loc'[Main].ptr \notin 1 .. Len(node) \cup {Null},
         label \in Walking => Alive(Mine(Main))',
         \/ loc'[Main].walk = Null
         \/ loc'[Main].walk = loc[Main].walk /\ loc[Main].during \subseteq loc'[Main].during
  PROVE  Held' /\ Looked' /\ NotPassed' /\ Unseen'
<1>1. /\ TypeOK /\ OwnCode /\ Len(order) \in Nat /\ Len(order') \in Nat /\ conns \in Nat
      /\ Len(node) \in Nat /\ Len(node') \in Nat
      /\ DOMAIN node = 1 .. Len(node) /\ DOMAIN node' = 1 .. Len(node')
  BY Parts DEF TypeOK
<1>2. /\ \A n : Alive(n) => Alive(n)'
      /\ \A n \in DOMAIN node : Alive(n)' => Alive(n)
      /\ Null \notin DOMAIN node' /\ ~Alive(Null)'
  <2>1. Null \notin DOMAIN node'
    BY <1>1, Bounds
  <2> QED
    BY <1>1, <2>1 DEF Alive
<1>3. \A u \in Closers :
        /\ pc'[u] = pc[u] /\ Mine(u)' = Mine(u) /\ u \in Threads
        /\ loc'[u].walk = loc[u].walk /\ loc[u].during \subseteq loc'[u].during
        /\ loc'[u].call = loc[u].call /\ loc'[u].conn = loc[u].conn
        /\ \A n \in {Mine(u), loc[u].walk} : n # Null => n \in DOMAIN node
  BY Kinds, Parts DEF MainMoves, Mine, Unseen
<1>4. Held'
  <2> SUFFICES ASSUME NEW u \in Threads
               PROVE  /\ pc'[u] \in Walking => KeptBy(u, Mine(u))'
                      /\ pc'[u] \in Walking \ Loops => Mine(u)' # Null
                      /\ KeptBy(u, loc[u].walk)'
    BY DEF Held
  <2>1. KeptBy(u, loc[u].walk) /\ (pc[u] \in Walking => KeptBy(u, Mine(u)))
        /\ (pc[u] \in Walking \ Loops => Mine(u) # Null)
    BY Parts DEF Held
  <2>2. CASE u \in Closers
    BY <1>2, <1>3, <2>1, <2>2 DEF KeptBy
  <2>3. CASE u = Main
    <3>1. pc'[u] = label
      BY <2>3 DEF MainMoves
    <3>2. label \in Walking => Alive(Mine(u))' /\ Mine(u)' # Null
      BY <1>2, <2>3
    <3>3. KeptBy(u, loc[u].walk)'
      BY <1>2, <2>1, <2>3 DEF KeptBy
    <3> QED
      BY <3>1, <3>2, <3>3 DEF KeptBy
  <2> QED
    BY <2>2, <2>3, Kinds
<1>5. Looked'
  <2> SUFFICES ASSUME NEW u \in Closers, Alive(Mine(u))', pc[u] \in {"age", "freeClient", "client"}
               PROVE  /\ pc[u] \in {"age", "freeClient"} =>
                           Mine(u) \in loc'[u].during \/ node'[Mine(u)].fd # 0
                      /\ pc[u] = "client" =>
                           Mine(u) \in loc'[u].during \/ node'[Mine(u)].fd = loc[u].conn
    BY <1>3 DEF Looked
  <2>1. Mine(u) # Null /\ Mine(u) \in DOMAIN node /\ Alive(Mine(u)) /\ pc[u] # Idle(u)
    <3>1. Mine(u) # Null
      BY <1>2, <1>3
    <3> QED
      BY <1>2, <1>3, <3>1 DEF Idle
  <2>2. /\ pc[u] \in {"age", "freeClient"} =>
             Mine(u) \in loc[u].during \/ node[Mine(u)].fd # 0
        /\ pc[u] = "client" =>
             Mine(u) \in loc[u].during \/ node[Mine(u)].fd = loc[u].conn
    BY <2>1, Parts DEF Looked
  <2>3. node'[Mine(u)].fd = node[Mine(u)].fd \/ Mine(u) \in loc'[u].during
    BY <1>1, <2>1
  <2> QED
    BY <1>3, <2>2, <2>3
<1>6. NotPassed'
  <2>0. \A u \in Callers :
          /\ pc'[u] = pc[u] /\ Mine(u)' = Mine(u) /\ loc'[u].call = loc[u].call
          /\ loc'[u].conn = loc[u].conn
    BY <1>3, Kinds
  <2> SUFFICES ASSUME NEW u \in Callers
               PROVE  /\ loc[u].call # "none" => loc[u].conn \in 1 .. conns'
                      /\ loc[u].call = "exists" =>
                          \A i \in 1 .. Len(order') : Sought(u, i)' =>
                            /\ pc[u] = "match" => Mine(u) # Null
                            /\ pc[u] \in {"match", "step"} /\ Alive(Mine(u))' =>
                                \E j \in 1 .. i : order'[j] = Mine(u) /\ (pc[u] = "step" => j < i)
    BY <2>0 DEF NotPassed
  <2>1. u \in Closers
    BY Kinds
  <2>2. loc[u].call # "none" => loc[u].conn \in 1 .. conns'
    BY <1>1, Parts DEF NotPassed
  <2>3. ASSUME loc[u].call = "exists", NEW i \in 1 .. Len(order'), Sought(u, i)'
        PROVE  i \in 1 .. Len(order) /\ Sought(u, i)
    <3>1. node'[order'[i]].fd = loc[u].conn /\ Settled(order[i])'
      BY <1>3, <2>1, <2>3 DEF Sought
    <3>2. i \in 1 .. Len(order)
      <4> SUFFICES ASSUME i \in Len(order) + 1 .. Len(order')
                   PROVE  FALSE
        BY <1>1
      <4> QED
        BY <3>1, Parts DEF Appends
    <3>3. Settled(order[i])
      <4>1. order[i] \in Listed /\ order'[i] = order[i]
        BY <3>2 DEF Listed
      <4> QED
        BY <1>3, <3>1, <4>1 DEF Settled
    <3> QED
      BY <3>1, <3>2, <3>3 DEF Sought
  <2>4. ASSUME loc[u].call = "exists", NEW i \in 1 .. Len(order'), Sought(u, i)'
        PROVE  /\ pc[u] = "match" => Mine(u) # Null
               /\ pc[u] \in {"match", "step"} /\ Alive(Mine(u))' =>
                   \E j \in 1 .. i : order'[j] = Mine(u) /\ (pc[u] = "step" => j < i)
    <3>1. i \in 1 .. Len(order) /\ Sought(u, i)
      BY <2>3, <2>4
    <3>2. /\ pc[u] = "match" => Mine(u) # Null
          /\ pc[u] \in {"match", "step"} /\ Alive(Mine(u)) =>
              \E j \in 1 .. i : order[j] = Mine(u) /\ (pc[u] = "step" => j < i)
      BY <2>4, <3>1, Parts DEF NotPassed
    <3>3. Alive(Mine(u))' => Alive(Mine(u))
      BY <1>2, <1>3, <2>1
    <3>4. \A j \in 1 .. i : order'[j] = order[j]
      BY <1>1, <3>1
    <3> QED
      BY <3>2, <3>3, <3>4
  <2> QED
    BY <2>2, <2>4
<1>7. Unseen'
  <2> SUFFICES ASSUME NEW u \in Closers, NEW n \in {Mine(u), loc[u].walk}
               PROVE  /\ n # Null => n \in DOMAIN node'
                      /\ label = "addLink" => n # loc'[Main].ptr
    BY <1>3 DEF Unseen, MainMoves
  <2> QED
    BY <1>1, <1>3
<1> QED
  BY <1>4, <1>5, <1>6, <1>7

LEMMA MainKeeps ==
  ASSUME RacesInv, Sound, NEW label, MainMoves(label), OwnCode',
         node' \in Seq(Fields), Len(node) <= Len(node'), Len(node') <= MaxConn,
         head' = head, freed' = freed, gone' = gone, replaced' = replaced, misled' = misled,
         broken' = broken, conns' \in {conns, conns + 1}, conns' <= MaxConn,
         watched' \subseteq 1 .. conns', order' \in Seq(Nodes),
         ListShape' /\ HeadFirst' /\ NextChain' /\ PrevChain' /\ FirstPrev',
         RightBranch' /\ Contents' /\ EmptyHead' /\ Appends' /\ NodeCount' /\ GoneHeld',
         Held' /\ Looked' /\ NotPassed' /\ Unseen'
  PROVE  RacesInv'
<1>1. TypeOK /\ misled = "no" /\ broken = << >> /\ Alive(head)
  BY Parts
<1>2. /\ Len(node) \in Nat /\ Len(node') \in Nat /\ DOMAIN node = 1 .. Len(node)
      /\ DOMAIN node' = 1 .. Len(node') /\ conns \in Nat
  BY <1>1 DEF TypeOK
<1>3. TypeOK'
  BY <1>1, <1>2 DEF TypeOK, MainMoves
<1>4. Alive(head)'
  BY <1>1, <1>2 DEF Alive
<1> QED
  BY <1>1, <1>3, <1>4, Whole DEF Good

(* main reads, or fills the head: no node is new, and nothing is appended. *)
LEMMA QuietKeeps ==
  ASSUME RacesInv, Sound, NEW label \in Labels \ {"addLink"}, MainMoves(label), OwnCode',
         pc[Main] # "addLink",
         node' \in Seq(Fields), Len(node') = Len(node), \A n \in Listed : node'[n] = node[n],
         \A n \in 1 .. Len(node) :
            /\ node'[n].client = node[n].client \/ node'[n].client \notin gone
            /\ \/ node'[n].fd = node[n].fd
               \/ \A u \in Closers : pc[u] # Idle(u) => n \in loc'[u].during,
         head' = head, freed' = freed, gone' = gone, replaced' = replaced, misled' = misled,
         broken' = broken, conns' \in {conns, conns + 1}, conns' <= MaxConn,
         watched' = watched, order' = order,
         label \in Walking => Alive(Mine(Main)'),
         \/ loc'[Main].walk = Null
         \/ loc'[Main].walk = loc[Main].walk /\ loc[Main].during \subseteq loc'[Main].during,
         EmptyHead' /\ Appends' /\ NodeCount'
  PROVE  RacesInv'
<1>1. /\ TypeOK /\ Len(order) \in Nat /\ Len(node) \in Nat /\ Len(node) <= MaxConn
      /\ order \in Seq(Nodes) /\ conns \in Nat /\ watched \subseteq 1 .. conns
      /\ DOMAIN node = 1 .. Len(node) /\ DOMAIN node' = 1 .. Len(node)
  BY Parts DEF TypeOK
<1>2. \A i \in 1 .. Len(order) : order[i] \in Listed /\ node'[order[i]] = node[order[i]]
  BY DEF Listed
<1>3. \A n : Alive(n)' <=> Alive(n)
  BY <1>1 DEF Alive
<1>4. Listed' = Listed /\ watched' \subseteq 1 .. conns'
  BY <1>1 DEF Listed
<1>5. HeadFirst' /\ NextChain' /\ PrevChain' /\ FirstPrev' /\ RightBranch' /\ Contents'
  BY ListSame
<1>6. ListShape'
  BY <1>3, <1>4, Parts DEF ListShape
<1>7. GoneHeld'
  <2> SUFFICES ASSUME NEW n \in Nodes, Alive(n), node'[n].client \in gone
               PROVE  InDeletion(n)
    BY <1>3, MainPhases DEF GoneHeld
  <2>1. n \in 1 .. Len(node)
    BY <1>1 DEF Alive
  <2> QED
    BY <2>1, Parts DEF GoneHeld
<1>8. Held' /\ Looked' /\ NotPassed' /\ Unseen'
  <2>1. label \in Walking => Alive(Mine(Main))'
    BY <1>1 DEF Alive
  <2> QED
    BY <1>1, <1>2, <2>1, MainThreads
<1> QED
  BY <1>1, <1>4, <1>5, <1>6, <1>7, <1>8, MainKeeps

LEMMA AddCall ==
  ASSUME RacesInv, Sound, pc[Main] \in Adding
  PROVE  loc[Main].call = "add" /\ loc[Main].conn = conns /\ loc[Main] \in Locals /\ conns \in Conn
<1>1. /\ loc[Main].call \in CallsOf(Main) /\ OwnCode /\ TypeOK
      /\ loc[Main].conn = conns /\ conns > 0
  BY Kinds, Parts DEF OwnCode, Appends
<1>2. CallsOf(Main) = {"none", "add"} /\ Idle(Main) = "accept" /\ "accept" \notin Adding
  BY Kinds DEF CallsOf, Idle, Adding
<1>3. loc[Main] \in Locals /\ conns \in Conn
  BY <1>1, Kinds DEF TypeOK, Conn
<1> QED
  BY <1>1, <1>2, <1>3, Code, Kinds

(* add_fd2client reads, and may step to another node.                      *)
LEMMA AddingReads ==
  ASSUME RacesInv, Sound, pc[Main] \in {"addPrev", "addFd", "addHead", "addTest", "addNext"},
         NEW label \in {"addFd", "fillFd", "addHead", "addTest", "addNext", "addNew"},
         NEW n \in Pointers, Moves(Main, label, [loc[Main] EXCEPT !.node = n]), Reads,
         label = "fillFd" => order = << >>,
         label \in {"addHead", "addTest", "addNext", "addNew"} => order # << >>,
         label \in {"addTest", "addNext"} => n \in Listed,
         label = "addNext" => n # order[Len(order)],
         label = "addNew" => n = order[Len(order)]
  PROVE  RacesInv'
<1>1. pc[Main] \in Adding /\ label \in Adding /\ label \in Labels \ {"addLink"}
  BY DEF Adding, Labels
<1>2. /\ loc[Main].call = "add" /\ loc[Main].conn = conns /\ loc[Main] \in Locals
      /\ conns \in Conn
  BY <1>1, AddCall
<1>3. PICK l \in Locals : l = loc[Main]
  BY <1>2
<1>4. PICK r \in Locals : r = [l EXCEPT !.node = n]
  BY DEF Locals
<1>5. r.call = "add" /\ r.conn = conns /\ r.node = n /\ r.walk = l.walk /\ r.during = l.during
  BY <1>2, <1>3, <1>4 DEF Locals
<1>6. TypeOK /\ OwnCode /\ Moves(Main, label, r)
  BY <1>3, <1>4, Parts
<1>7. MainMoves(label) /\ loc'[Main] = r /\ pc'[Main] = label /\ \A u \in Closers : loc'[u] = loc[u]
  BY <1>1, <1>6, MainMoved DEF MainMoves
<1>8. OwnCode'
  BY <1>1, <1>5, <1>6, <1>7, MainCode
<1>9. /\ head' = head /\ node' = node /\ freed' = freed /\ gone' = gone /\ conns' = conns
      /\ watched' = watched /\ order' = order /\ replaced' = replaced /\ misled' = misled
      /\ broken' = broken
  BY DEF Reads, connVars, historyVars
<1>10. Mine(Main)' = n
  BY <1>5, <1>7 DEF Mine
<1>11. EmptyHead'
  BY <1>1, <1>7, <1>9, Parts DEF EmptyHead
<1>12. Appends'
  <2>1. /\ conns \notin watched \cup gone /\ conns > 0
        /\ \A i \in 1 .. Len(order) : node[order[i]].client # conns
        /\ \A t \in Callers : loc[t].conn # conns
    BY <1>1, Parts DEF Appends
  <2>2. \A t \in Callers : loc'[t].conn # conns
    BY <1>7, <2>1, Kinds
  <2> QED
    BY <1>5, <1>7, <1>9, <1>10, <2>1, <2>2 DEF Appends
<1>13. NodeCount'
  BY <1>1, <1>7, <1>9, Parts DEF NodeCount, Adding
<1>14. label \in Walking => Alive(Mine(Main)')
  <2>1. label \in Walking => label \in {"addTest", "addNext"}
    BY DEF Walking
  <2>2. \A m \in Listed : Alive(m)
    BY Parts DEF ListShape, Listed
  <2> QED
    BY <1>10, <2>1, <2>2
<1>15. conns' <= MaxConn /\ node \in Seq(Fields)
  BY <1>6, <1>9, Bounds DEF TypeOK
<1>16. loc'[Main].walk = loc[Main].walk /\ loc[Main].during \subseteq loc'[Main].during
  BY <1>3, <1>5, <1>7
<1> QED
  BY <1>1, <1>7, <1>8, <1>9, <1>11, <1>12, <1>13, <1>14, <1>15, <1>16, QuietKeeps

LEMMA MainStays ==
  ASSUME TypeOK, NEW label, Stay(Main, label)
  PROVE  Mine(Main) \in Pointers /\ Moves(Main, label, [loc[Main] EXCEPT !.node = Mine(Main)])
<1>1. loc \in [Threads -> Locals] /\ Main \in Threads
  BY Kinds DEF TypeOK
<1>2. loc[Main] \in Locals /\ loc = [loc EXCEPT ![Main] = loc[Main]]
  BY <1>1
<1>3. loc[Main].node \in Pointers /\ loc[Main] = [loc[Main] EXCEPT !.node = loc[Main].node]
  BY <1>2 DEF Locals
<1> QED
  BY <1>2, <1>3 DEF Stay, Goto, Moves, Mine

LEMMA MainHolds ==
  ASSUME TypeOK, NEW label, NEW n, Hold(Main, label, "node", n)
  PROVE  Moves(Main, label, [loc[Main] EXCEPT !.node = n])
BY DEF TypeOK, Hold, Goto, Moves

(* While main adds, nobody deletes the last node.                          *)
LEMMA LastKept ==
  ASSUME RacesInv, Sound, pc[Main] \in Adding, order # << >>
  PROVE  /\ ~InDeletion(order[Len(order)]) /\ ~Bridged(order[Len(order)])
         /\ ~Unlinked(order[Len(order)])
         /\ \A i \in 1 .. Len(order) : ~NoFd(order[i]) /\ ~NoClient(order[i])
<1>1. Len(order) \in Nat /\ Len(order) \in 1 .. Len(order)
  BY Parts DEF TypeOK
<1>2. ~InDeletion(order[Len(order)])
  <2> SUFFICES ASSUME NEW u \in Closers, Mine(u) = order[Len(order)], pc[u] \in Deleting
               PROVE  FALSE
    BY DEF InDeletion, Deleter
  <2> QED
    BY <1>1, Alone
<1>3. ~Bridged(order[Len(order)]) /\ ~Unlinked(order[Len(order)])
  BY <1>2 DEF InDeletion, Bridged, Unlinked, Deleter, Deleting
<1>4. ASSUME NEW i \in 1 .. Len(order), NoFd(order[i])
      PROVE  FALSE
  <2>1. PICK u \in Closers : Mine(u) = order[i] /\ pc[u] \in Emptied
    BY <1>4 DEF NoFd, Deleter, Emptied
  <2>2. pc[u] \in Deleting /\ pc[u] \in {"zeroFd"} \cup Emptied
    BY <2>1 DEF Emptied, Deleting
  <2>3. Len(order) = 1
    BY <2>2, Parts DEF RightBranch, Branches
  <2>4. i = Len(order)
    BY <2>3
  <2> QED
    BY <2>1, <2>2, <2>4, Alone
<1>5. \A i \in 1 .. Len(order) : NoClient(order[i]) => NoFd(order[i])
  BY DEF NoClient, NoFd, Deleter
<1> QED
  BY <1>2, <1>3, <1>4, <1>5

LEMMA HeadListed ==
  ASSUME RacesInv, Sound, order # << >>
  PROVE  head \in Listed
<1>1. Len(order) \in Nat /\ 1 \in 1 .. Len(order) /\ (Len(order) > 1 => 2 \in 1 .. Len(order))
  BY Parts DEF TypeOK
<1> QED
  BY <1>1, Parts DEF HeadFirst, Listed

(* The node that main is at, and the one after it.                         *)
LEMMA MainAt ==
  ASSUME RacesInv, NEW label \in {"addTest", "addNext", "addNew", "addLink"}, At(Main, label)
  PROVE  \E i \in 1 .. Len(order) :
           /\ order[i] = Mine(Main) /\ Len(order) \in Nat
           /\ label = "addTest" => (i = Len(order) <=> node[Mine(Main)].next = Null)
           /\ label = "addNext" => i # Len(order) /\ node[Mine(Main)].next \in Listed
           /\ label \in {"addNew", "addLink"} => i = Len(order) /\ node[Mine(Main)].next = Null
<1>1. Sound /\ pc[Main] = label /\ pc[Main] \in Adding /\ BadNodes(Main) = {}
  BY DEF At, Adding
<1>2. order # << >> /\ Len(order) \in Nat
  BY <1>1, Parts DEF Appends, TypeOK
<1>3. Mine(Main) \in Listed
  <2>1. CASE label \in {"addNew", "addLink"}
    BY <1>1, <1>2, <2>1, Parts DEF Appends, Listed
  <2>2. CASE label \in {"addTest", "addNext"}
    <3>1. Via(Main) = {Mine(Main)}
      BY <1>1, <2>2 DEF Via, ViaHead, ViaPtr, ViaNothing, Loops, ViaPrev
    <3>2. Alive(Mine(Main))
      BY <1>1, <3>1 DEF BadNodes
    <3> QED
      BY <1>1, <1>2, <2>2, <3>2, LiveNode
  <2> QED
    BY <2>1, <2>2
<1>4. PICK i \in 1 .. Len(order) : order[i] = Mine(Main)
  BY <1>3 DEF Listed
<1>5. \A j, k \in 1 .. Len(order) : order[j] = order[k] => j = k
  BY <1>1, Parts DEF ListShape
<1>6. \A j \in 1 .. Len(order) : order[j] # Null /\ order[j] \in Listed
  <2>1. order \in Seq(Nodes)
    BY <1>1, Parts DEF TypeOK
  <2> QED
    BY <2>1, Bounds DEF Listed
<1>7. CASE i = Len(order)
  <2>1. node[Mine(Main)].next = Null
    BY <1>1, <1>2, <1>4, <1>7, Parts DEF NextChain, OrderAt
  <2>2. label # "addNext"
    BY <1>1, <1>4, <1>7, Parts DEF Appends
  <2> QED
    BY <1>2, <1>4, <1>7, <2>1, <2>2
<1>8. CASE i # Len(order)
  <2>1. i + 1 \in 1 .. Len(order) /\ (i + 1 # Len(order) => i + 2 \in 1 .. Len(order))
    BY <1>2, <1>8
  <2>2. i + 1 = Len(order) => ~Bridged(order[i + 1])
    BY <1>1, <1>2, LastKept
  <2>3. node[Mine(Main)].next \in {order[i + 1], order[i + 2]} \cap Listed
    BY <1>1, <1>2, <1>4, <1>6, <1>8, <2>1, <2>2, Parts DEF NextChain, OrderAt
  <2>4. node[Mine(Main)].next # Null
    BY <1>6, <2>3 DEF Listed
  <2>5. label \notin {"addNew", "addLink"}
    <3> SUFFICES ASSUME label \in {"addNew", "addLink"}
                 PROVE  FALSE
      OBVIOUS
    <3>1. order[i] = order[Len(order)] /\ Len(order) \in 1 .. Len(order)
      BY <1>1, <1>2, <1>4, Parts DEF Appends
    <3> QED
      BY <1>5, <1>8, <3>1
  <2> QED
    BY <1>2, <1>4, <1>8, <2>3, <2>4, <2>5
<1> QED
  BY <1>7, <1>8

LEMMA AddPrevKeeps ==
  ASSUME RacesInv, AddPrev
  PROVE  RacesInv'
<1> DEFINE label == IF node[head].prev = Null THEN "addFd" ELSE "addHead"
<1>1. Sound /\ pc[Main] = "addPrev" /\ Stay(Main, label) /\ Reads
  BY DEF AddPrev, At
<1>2. order = << >> => label = "addFd"
  BY <1>1, Parts DEF EmptyHead
<1>3. Mine(Main) \in Pointers /\ Moves(Main, label, [loc[Main] EXCEPT !.node = Mine(Main)])
  BY <1>1, Parts, MainStays
<1> QED
  BY <1>1, <1>2, <1>3, AddingReads

LEMMA AddFdKeeps ==
  ASSUME RacesInv, AddFd
  PROVE  RacesInv'
<1> DEFINE label == IF node[head].fd = 0 THEN "fillFd" ELSE "addHead"
<1>1. Sound /\ pc[Main] = "addFd" /\ pc[Main] \in Adding /\ Stay(Main, label) /\ Reads
  BY DEF AddFd, At, Adding
<1>2. order = << >> => label = "fillFd"
  BY <1>1, Parts DEF EmptyHead
<1>3. order # << >> => label = "addHead"
  <2> SUFFICES ASSUME order # << >>
               PROVE  node[head].fd # 0
    OBVIOUS
  <2>1. PICK i \in 1 .. Len(order) : order[i] = head
    BY <1>1, HeadListed DEF Listed
  <2>2. node[head].fd \in 1 .. conns /\ conns \in Nat
    BY <1>1, <2>1, LastKept, Parts DEF Contents, TypeOK
  <2> QED
    BY <2>2
<1>4. Mine(Main) \in Pointers /\ Moves(Main, label, [loc[Main] EXCEPT !.node = Mine(Main)])
  BY <1>1, Parts, MainStays
<1> QED
  BY <1>1, <1>2, <1>3, <1>4, AddingReads

LEMMA AddHeadKeeps ==
  ASSUME RacesInv, AddHead
  PROVE  RacesInv'
<1>1. Sound /\ pc[Main] = "addHead" /\ pc[Main] \in Adding /\ Hold(Main, "addTest", "node", head) /\ Reads
  BY DEF AddHead, At, Adding
<1>2. order # << >> /\ head \in Listed /\ head \in Pointers
  BY <1>1, HeadListed, Parts DEF Appends, TypeOK
<1>3. Moves(Main, "addTest", [loc[Main] EXCEPT !.node = head])
  BY <1>1, Parts, MainHolds
<1> QED
  BY <1>1, <1>2, <1>3, AddingReads

LEMMA AddTestKeeps ==
  ASSUME RacesInv, AddTest
  PROVE  RacesInv'
<1> DEFINE label == IF node[Mine(Main)].next = Null THEN "addNew" ELSE "addNext"
<1>1. Sound /\ pc[Main] = "addTest" /\ At(Main, "addTest") /\ Stay(Main, label) /\ Reads
  BY DEF AddTest, At
<1>2. PICK i \in 1 .. Len(order) :
        /\ order[i] = Mine(Main) /\ Len(order) \in Nat
        /\ i = Len(order) <=> node[Mine(Main)].next = Null
  BY <1>1, MainAt
<1>3. /\ order # << >> /\ Mine(Main) \in Listed /\ Len(order) \in 1 .. Len(order)
      /\ \A j, k \in 1 .. Len(order) : order[j] = order[k] => j = k
  BY <1>1, <1>2, Parts DEF Listed, ListShape
<1>4. label = "addNext" => Mine(Main) # order[Len(order)]
  BY <1>2, <1>3
<1>5. Mine(Main) \in Pointers /\ Moves(Main, label, [loc[Main] EXCEPT !.node = Mine(Main)])
  BY <1>1, Parts, MainStays
<1>6. label = "addNew" => Mine(Main) = order[Len(order)]
  BY <1>2
<1> QED
  BY <1>1, <1>3, <1>4, <1>5, <1>6, AddingReads

LEMMA AddNextKeeps ==
  ASSUME RacesInv, AddNext
  PROVE  RacesInv'
<1> DEFINE after == node[Mine(Main)].next
<1>1. Sound /\ pc[Main] = "addNext" /\ At(Main, "addNext") /\ Hold(Main, "addTest", "node", after)
      /\ Reads /\ pc[Main] \in Adding
  BY DEF AddNext, At, Adding
<1>2. after \in Listed
  BY <1>1, MainAt
<1>3. order # << >> /\ after \in Pointers
  <2>1. order \in Seq(Nodes)
    BY <1>1, Parts DEF TypeOK
  <2> QED
    BY <1>1, <1>2, <2>1, Parts DEF Appends, Listed, Pointers
<1>4. Moves(Main, "addTest", [loc[Main] EXCEPT !.node = after])
  BY <1>1, Parts, MainHolds
<1> QED
  BY <1>1, <1>2, <1>3, <1>4, AddingReads

LEMMA AcceptKeeps ==
  ASSUME RacesInv, Accept
  PROVE  RacesInv'
<1>1. /\ Sound /\ pc[Main] = "accept" /\ conns < MaxConn /\ conns' = conns + 1
      /\ Call(Main, "add", conns + 1)
  BY DEF Accept, At
<1>2. /\ head' = head /\ node' = node /\ freed' = freed /\ gone' = gone /\ watched' = watched
      /\ order' = order /\ replaced' = replaced /\ misled' = misled /\ broken' = broken
  BY <1>1 DEF Call
<1>3. TypeOK /\ OwnCode /\ conns \in Nat /\ MaxConn \in Nat /\ conns + 1 \in 0 .. MaxConn
  BY <1>1, Parts, Bounds DEF TypeOK
<1>4. PICK r \in Locals : r = [NoLocals EXCEPT !.call = "add", !.conn = conns + 1]
  BY <1>3 DEF NoLocals, Locals, Calls, Pointers
<1>5. r.call = "add" /\ r.conn = conns + 1 /\ r.walk = Null
  BY <1>4 DEF NoLocals
<1>6. Moves(Main, "addPrev", r)
  BY <1>1, <1>4 DEF Call, Goto, Moves
<1>7. "addPrev" \in Labels \ {"addLink"} /\ "addPrev" \in Adding \ {"addLink"} /\ "addPrev" \notin Walking
  BY DEF Labels, Adding, Walking
<1>8. /\ MainMoves("addPrev") /\ loc'[Main] = r /\ pc'[Main] = "addPrev"
      /\ \A u \in Closers : loc'[u] = loc[u]
  BY <1>3, <1>6, <1>7, MainMoved DEF MainMoves
<1>9. OwnCode'
  BY <1>3, <1>5, <1>7, <1>8, MainCode
<1>10. EmptyHead'
  BY <1>1, <1>2, <1>8, Parts DEF EmptyHead
<1>11. Appends'
  <2>1. conns + 1 \notin watched \cup gone
    BY <1>1, <1>3, Parts DEF TypeOK
  <2>2. \A i \in 1 .. Len(order) : node[order[i]].client # conns + 1
    <3>1. \A i \in 1 .. Len(order) : node[order[i]].client \in {Null} \cup 1 .. conns
      BY <1>1, Parts DEF Contents
    <3>2. conns + 1 \notin {Null} \cup 1 .. conns
      BY <1>3, Bounds
    <3> QED
      BY <3>1, <3>2
  <2>3. \A t \in Callers : loc'[t].conn # conns + 1
    <3> TAKE t \in Callers
    <3>1. loc'[t] = loc[t] /\ t \in Threads
      BY <1>8, Kinds
    <3>2. CASE loc[t].call = "none"
      <4>1. loc[t].conn = 0
        BY <1>3, <3>1, <3>2 DEF OwnCode, NoLocals
      <4> QED
        BY <1>3, <3>1, <4>1
    <3>3. CASE loc[t].call # "none"
      <4>1. loc[t].conn \in 1 .. conns
        BY <1>1, <3>3, Parts DEF NotPassed
      <4> QED
        BY <1>3, <3>1, <4>1
    <3> QED
      BY <3>2, <3>3
  <2>4. conns' > 0 /\ Mine(Main)' = r.node /\ loc'[Main].conn = conns'
    BY <1>1, <1>3, <1>5, <1>8 DEF Mine
  <2> QED
    BY <1>1, <1>2, <1>8, <2>1, <2>2, <2>3, <2>4 DEF Appends
<1>12. NodeCount'
  <2>1. Len(node) = 1 \/ Len(node) <= conns
    BY <1>1, Parts DEF NodeCount, Adding
  <2>2. Len(node) \in Nat
    BY <1>3 DEF TypeOK
  <2> QED
    BY <1>1, <1>2, <1>3, <1>7, <1>8, <2>1, <2>2 DEF NodeCount
<1>13. node \in Seq(Fields) /\ conns' <= MaxConn
  BY <1>1, <1>3 DEF TypeOK
<1> QED
  BY <1>1, <1>2, <1>5, <1>7, <1>8, <1>9, <1>10, <1>11, <1>12, <1>13, QuietKeeps

(* main fills the empty head: a thread that has come to it knows.          *)
LEMMA FillingKeeps ==
  ASSUME RacesInv, Sound, pc[Main] \in {"fillFd", "fillClient", "fillNext"},
         NEW label \in {"fillClient", "fillNext", "fillPrev"}, MainMoves(label),
         loc'[Main].call = loc[Main].call, loc'[Main].conn = loc[Main].conn,
         loc'[Main].walk = loc[Main].walk, loc[Main].during \subseteq loc'[Main].during,
         node' \in Seq(Fields), Len(node') = Len(node),
         \A n \in 1 .. Len(node) : n # head => node'[n] = node[n],
         node'[head].next = Null, node'[head].prev = Null,
         node'[head].fd = conns,
         node'[head].client = IF label = "fillClient" THEN node[head].client ELSE conns,
         pc[Main] = "fillFd" <=> label = "fillClient",
         pc[Main] = "fillFd" => \A u \in Closers : pc[u] # Idle(u) => head \in loc'[u].during,
         head' = head, freed' = freed, gone' = gone, replaced' = replaced, misled' = misled,
         broken' = broken, conns' = conns, watched' = watched, order' = order
  PROVE  RacesInv'
<1>1. /\ pc[Main] \in Adding /\ label \in Adding /\ label \in Labels \ {"addLink"}
      /\ label \notin Walking /\ pc'[Main] = label
  BY DEF Adding, Labels, Walking, MainMoves
<1>2. order = << >> /\ Listed = {} /\ Len(order) = 0
  <2>1. order = << >>
    BY <1>1, Parts DEF Appends
  <2> QED
    BY <2>1 DEF Listed
<1>3. /\ TypeOK /\ OwnCode /\ loc[Main].call = "add" /\ loc[Main].conn = conns /\ conns \in Conn
      /\ Alive(head) /\ head \in 1 .. Len(node)
  BY <1>1, AddCall, Parts DEF Alive, TypeOK
<1>4. OwnCode'
  BY <1>1, <1>3, MainCode
<1>5. EmptyHead'
  <2>1. label = "fillClient" => node[head].client = Null
    BY <1>2, Parts DEF EmptyHead
  <2> QED
    BY <1>1, <1>3, <2>1 DEF EmptyHead
<1>6. Appends'
  <2>1. /\ conns \notin watched \cup gone /\ conns > 0
        /\ \A t \in Callers : loc[t].conn # conns
    BY <1>1, Parts DEF Appends
  <2>2. \A t \in Callers : loc'[t].conn # conns
    BY <2>1, Kinds DEF MainMoves
  <2> QED
    BY <1>1, <1>2, <1>3, <2>1, <2>2 DEF Appends
<1>7. NodeCount'
  BY <1>1, Parts DEF NodeCount
<1>8. \A n \in 1 .. Len(node) :
         /\ node'[n].client = node[n].client \/ node'[n].client \notin gone
         /\ \/ node'[n].fd = node[n].fd
            \/ \A u \in Closers : pc[u] # Idle(u) => n \in loc'[u].during
  <2>1. conns \notin gone
    BY <1>1, Parts DEF Appends
  <2>2. pc[Main] # "fillFd" => node[head].fd = conns
    BY <1>2, <1>3, Parts DEF EmptyHead
  <2> QED
    BY <2>1, <2>2
<1>9. conns' <= MaxConn
  BY <1>3, Bounds
<1> QED
  BY <1>1, <1>2, <1>4, <1>5, <1>6, <1>7, <1>8, <1>9, QuietKeeps

LEMMA FillFdKeeps ==
  ASSUME RacesInv, FillFd
  PROVE  RacesInv'
<1>1. /\ Sound /\ pc[Main] = "fillFd" /\ pc[Main] \in Adding
      /\ Sets(head, "fd", loc[Main].conn) /\ StayNoting(Main, "fillClient", head)
      /\ conns' = conns /\ watched' = watched /\ order' = order
  BY DEF FillFd, At, Adding, connVars
<1>2. TypeOK /\ Main \in Threads /\ head \in 1 .. Len(node) /\ head \in Nodes /\ "fillClient" \in Labels
  BY <1>1, LiveNode, Kinds, Parts DEF Labels, Adding
<1>3. loc[Main].conn = conns /\ conns \in 0 .. MaxConn
  BY <1>1, <1>2, AddCall DEF TypeOK
<1>4. /\ node' \in Seq(Fields) /\ Len(node') = Len(node) /\ node'[head].fd = conns
      /\ node'[head].client = node[head].client /\ node'[head].next = node[head].next
      /\ node'[head].prev = node[head].prev
      /\ \A m \in 1 .. Len(node) : m # head => node'[m] = node[m]
  BY <1>1, <1>2, <1>3, FdWritten
<1>5. order = << >> /\ node[head].next = Null /\ node[head].prev = Null
  BY <1>1, Parts DEF Appends, EmptyHead
<1>6. /\ head' = head /\ freed' = freed /\ gone' = gone /\ replaced' = replaced
      /\ misled' = misled /\ broken' = broken
  BY <1>1 DEF Sets
<1>7. /\ Advances(Main, "fillClient")
      /\ \A u \in Threads : pc[u] # Idle(u) => head \in loc'[u].during
  BY <1>1, <1>2, NotingAdvances
<1>8. /\ MainMoves("fillClient")
      /\ loc'[Main].call = loc[Main].call /\ loc'[Main].conn = loc[Main].conn
      /\ loc'[Main].walk = loc[Main].walk /\ loc[Main].during \subseteq loc'[Main].during
  BY <1>2, <1>7, MainAdvances DEF Advances
<1>9. \A u \in Closers : pc[u] # Idle(u) => head \in loc'[u].during
  BY <1>7, Kinds
<1> QED
  BY <1>1, <1>4, <1>5, <1>6, <1>8, <1>9, FillingKeeps

LEMMA FillKeeps ==
  ASSUME RacesInv, Fill
  PROVE  RacesInv'
<1> DEFINE first == <<"fillClient", "client", loc[Main].conn, "fillNext">>
           second == <<"fillNext", "next", Null, "fillPrev">>
<1>1. PICK step \in {first, second} :
        /\ At(Main, step[1]) /\ Sets(head, step[2], step[3]) /\ Stay(Main, step[4])
        /\ conns' = conns /\ watched' = watched /\ order' = order
  BY DEF Fill, connVars
<1>2. /\ step = first \/ step = second
      /\ step[1] = "fillClient" => step = first
      /\ step[1] = "fillNext" => step = second
      /\ pc[Main] = step[1] /\ Sound
  BY <1>1 DEF At
<1>3. /\ pc[Main] \in {"fillClient", "fillNext"} /\ pc[Main] \in Adding
      /\ step[4] = IF pc[Main] = "fillClient" THEN "fillNext" ELSE "fillPrev"
      /\ step[4] \in Labels
  BY <1>2 DEF Adding, Labels
<1>4. TypeOK /\ head \in 1 .. Len(node) /\ Null \in Pointers
  BY <1>2, LiveNode, Parts DEF Pointers
<1>5. loc[Main].conn = conns /\ conns \in Conn
  BY <1>2, <1>3, AddCall
<1>6. /\ node[head].next = Null /\ node[head].prev = Null /\ node[head].fd = conns
      /\ pc[Main] = "fillNext" => node[head].client = conns
  BY <1>2, <1>3, <1>5, Parts DEF Appends, EmptyHead
<1>7. /\ head' = head /\ freed' = freed /\ gone' = gone /\ replaced' = replaced
      /\ misled' = misled /\ broken' = broken
  BY <1>1 DEF Sets
<1>8. MainMoves(step[4]) /\ loc'[Main] = loc[Main]
  BY <1>1, <1>3, <1>4, Kinds, MainAdvances, StayAdvances DEF Stay
<1>9. /\ node' \in Seq(Fields) /\ Len(node') = Len(node) /\ node'[head].fd = conns
      /\ node'[head].client = conns /\ node'[head].next = Null /\ node'[head].prev = Null
      /\ \A m \in 1 .. Len(node) : m # head => node'[m] = node[m]
  <2>1. CASE pc[Main] = "fillClient"
    <3>1. Sets(head, "client", conns)
      BY <1>1, <1>2, <1>5, <2>1
    <3> QED
      BY <1>4, <1>5, <1>6, <3>1, ClientWritten
  <2>2. CASE pc[Main] = "fillNext"
    <3>1. Sets(head, "next", Null)
      BY <1>1, <1>2, <2>2
    <3> QED
      BY <1>4, <1>6, <2>2, <3>1, NextWritten
  <2> QED
    BY <1>3, <2>1, <2>2
<1> QED
  BY <1>1, <1>2, <1>3, <1>7, <1>8, <1>9, FillingKeeps

LEMMA Appended ==
  ASSUME order \in Seq(Nodes), NEW n \in Nodes, order' = Append(order, n)
  PROVE  /\ order' \in Seq(Nodes) /\ Len(order) \in Nat /\ Len(order') = Len(order) + 1
         /\ order'[Len(order')] = n /\ order' # << >>
         /\ \A i \in 1 .. Len(order) : order'[i] = order[i]
         /\ Listed' = Listed \cup {n}
<1>1. /\ order' \in Seq(Nodes) /\ Len(order) \in Nat /\ Len(order') = Len(order) + 1
      /\ order'[Len(order) + 1] = n
      /\ \A i \in 1 .. Len(order) : order'[i] = order[i]
  BY AppendProperties
<1>2. order' # << >>
  BY <1>1
<1>3. Listed' = Listed \cup {n}
  <2>1. \A m : (\E i \in 1 .. Len(order') : order'[i] = m) <=> m = n \/ \E i \in 1 .. Len(order) : order[i] = m
    BY <1>1
  <2> QED
    BY <2>1 DEF Listed
<1> QED
  BY <1>1, <1>2, <1>3

(* add_fd2client is over.                                                  *)
LEMMA AddedKeeps ==
  ASSUME RacesInv, Sound, pc[Main] \in Adding, NEW n \in Nodes, Added(n), Len(node') = Len(node)
  PROVE  /\ MainMoves("accept") /\ "accept" \in Labels /\ "accept" \notin Walking
         /\ loc'[Main] = NoLocals /\ loc'[Main].walk = Null /\ pc'[Main] = "accept"
         /\ \A u \in Closers : loc'[u] = loc[u]
         /\ OwnCode' /\ Appends' /\ NodeCount'
         /\ order' = Append(order, n) /\ conns' = conns /\ watched' \subseteq 1 .. conns
<1>1. /\ TypeOK /\ OwnCode /\ order' = Append(order, n) /\ conns' = conns /\ Return(Main)
      /\ watched' = watched \cup {loc[Main].conn} /\ loc[Main].conn \in 1 .. conns
  <2>1. loc[Main].conn = conns /\ conns > 0 /\ TypeOK /\ OwnCode
    BY Parts DEF Appends
  <2>2. conns \in 1 .. conns
    BY <2>1 DEF TypeOK
  <2> QED
    BY <2>1, <2>2 DEF Added
<1>2. "accept" \in Labels /\ "accept" \notin Walking /\ "accept" \notin Adding
      /\ Idle(Main) = "accept"
  BY Kinds DEF Labels, Walking, Idle, Adding
<1>3. NoLocals \in Locals /\ NoLocals.walk = Null
  BY Bounds DEF NoLocals, Locals, Calls, Pointers
<1>4. Moves(Main, "accept", NoLocals)
  BY <1>1, <1>2 DEF Return, Goto, Moves
<1>5. /\ MainMoves("accept") /\ loc'[Main] = NoLocals /\ pc'[Main] = "accept"
      /\ \A u \in Closers : loc'[u] = loc[u]
  BY <1>1, <1>2, <1>3, <1>4, MainMoved DEF MainMoves
<1>6. OwnCode'
  BY <1>1, <1>5, MainCode
<1>7. Appends'
  BY <1>2, <1>5 DEF Appends
<1>8. NodeCount'
  <2>1. Len(node) = 1 \/ Len(node) < conns \/ Len(node) <= conns
    BY Parts DEF NodeCount
  <2>2. Len(node) = 1 \/ Len(node) <= conns
    BY <1>1, <2>1 DEF TypeOK
  <2> QED
    BY <1>1, <1>2, <1>5, <2>2 DEF NodeCount
<1>9. watched' \subseteq 1 .. conns
  BY <1>1 DEF TypeOK
<1> QED
  BY <1>1, <1>2, <1>3, <1>5, <1>6, <1>7, <1>8, <1>9

LEMMA FillPrevKeeps ==
  ASSUME RacesInv, FillPrev
  PROVE  RacesInv'
<1>1. /\ Sound /\ pc[Main] = "fillPrev" /\ pc[Main] \in Adding
      /\ Sets(head, "prev", Null) /\ Added(head)
  BY DEF FillPrev, At, Adding
<1>2. /\ TypeOK /\ Alive(head) /\ head \in 1 .. Len(node) /\ head \in Nodes /\ Null \in Pointers
      /\ Len(node) \in Nat /\ DOMAIN node = 1 .. Len(node) /\ Len(node) <= MaxConn
  BY <1>1, LiveNode, Parts DEF Pointers, TypeOK
<1>3. /\ order = << >> /\ node[head].next = Null /\ node[head].prev = Null
      /\ node[head].fd = conns /\ node[head].client = conns
      /\ loc[Main].conn = conns /\ conns \in 1 .. conns /\ conns \in Nat
  <2>1. loc[Main].conn = conns /\ conns > 0 /\ conns \in Nat
    BY <1>1, Parts DEF Appends, TypeOK
  <2> QED
    BY <1>1, <2>1, Parts DEF Appends, EmptyHead
<1>4. /\ node' \in Seq(Fields) /\ Len(node') = Len(node) /\ node'[head].prev = Null
      /\ node'[head].fd = conns /\ node'[head].client = conns /\ node'[head].next = Null
      /\ \A m \in 1 .. Len(node) : m # head => node'[m] = node[m]
  BY <1>1, <1>2, <1>3, PrevWritten
<1>5. /\ head' = head /\ freed' = freed /\ gone' = gone /\ replaced' = replaced
      /\ misled' = misled /\ broken' = broken
  BY <1>1 DEF Sets
<1>6. /\ MainMoves("accept") /\ "accept" \in Labels /\ "accept" \notin Walking
      /\ loc'[Main].walk = Null /\ pc'[Main] = "accept"
      /\ \A u \in Closers : loc'[u] = loc[u]
      /\ OwnCode' /\ Appends' /\ NodeCount'
      /\ order' = Append(order, head) /\ conns' = conns /\ watched' \subseteq 1 .. conns
  BY <1>1, <1>2, <1>4, AddedKeeps
<1>7. /\ order' \in Seq(Nodes) /\ Len(order) = 0 /\ Len(order') = 1 /\ order'[1] = head
      /\ order' # << >> /\ Listed' = {head}
  <2>1. order \in Seq(Nodes) /\ Len(order) = 0 /\ Listed = {}
    BY <1>2, <1>3 DEF TypeOK, Listed
  <2> QED
    BY <1>2, <1>6, <2>1, Appended
<1>8. \A u \in Closers : pc[u] \notin Deleting
  BY <1>1, <1>7, Parts DEF RightBranch, Branches
<1>9. \A n : /\ ~InDeletion(n)' /\ ~PassedOver(n)' /\ ~SelfLinked(n)' /\ ~Bridged(n)'
             /\ ~Unlinked(n)' /\ ~NoFd(n)' /\ ~NoClient(n)'
  <2>1. \A n : ~InDeletion(n)
    BY <1>8 DEF InDeletion, Deleter
  <2>2. \A n : ~PassedOver(n) /\ ~SelfLinked(n) /\ ~Bridged(n) /\ ~Unlinked(n)
               /\ ~NoFd(n) /\ ~NoClient(n)
    BY <1>8 DEF PassedOver, SelfLinked, Bridged, Unlinked, NoFd, NoClient, Deleter, Deleting
  <2> QED
    BY <1>6, <2>1, <2>2, MainPhases
<1>10. \A n : Alive(n)' <=> Alive(n)
  BY <1>2, <1>4, <1>5 DEF Alive, TypeOK
<1>11. ListShape'
  <2>1. \A n : Alive(n) => n = head
    BY <1>1, <1>3, <1>7, LiveNode DEF Listed
  <2> QED
    BY <1>2, <1>7, <1>10, <2>1 DEF ListShape
<1>12. HeadFirst' /\ FirstPrev' /\ EmptyHead'
  BY <1>4, <1>5, <1>7, <1>9 DEF HeadFirst, FirstPrev, EmptyHead
<1>13. NextChain'
  BY <1>4, <1>7 DEF NextChain, OrderAt
<1>14. PrevChain'
  BY <1>7 DEF PrevChain
<1>15. RightBranch'
  BY <1>6, <1>8 DEF RightBranch, MainMoves
<1>16. Contents'
  <2>1. \A i \in 1 .. Len(order') : i = 1 /\ order'[i] = head
    BY <1>7
  <2> QED
    BY <1>3, <1>4, <1>6, <1>9, <2>1 DEF Contents
<1>17. GoneHeld'
  <2>1. \A n : Alive(n) => n = head
    BY <1>1, <1>3, <1>7, LiveNode DEF Listed
  <2>2. conns \notin gone
    BY <1>1, Parts DEF Appends
  <2> QED
    BY <1>4, <1>5, <1>10, <2>1, <2>2 DEF GoneHeld
<1>18. Held' /\ Looked' /\ NotPassed' /\ Unseen'
  <2>1. \A n \in 1 .. Len(node) : node'[n].fd = node[n].fd
    BY <1>3, <1>4
  <2>2. \A i \in Len(order) + 1 .. Len(order') : node'[order'[i]].fd = conns
    BY <1>4, <1>7
  <2>3. /\ \A i \in 1 .. Len(order) : order'[i] = order[i] /\ node'[order[i]].fd = node[order[i]].fd
        /\ Len(order) <= Len(order') /\ Len(node) <= Len(node') /\ Len(node') <= MaxConn
    BY <1>2, <1>4, <1>7
  <2> QED
    BY <1>1, <1>4, <1>5, <1>6, <1>7, <2>1, <2>2, <2>3, MainThreads
<1>19. Len(node) <= Len(node') /\ Len(node') <= MaxConn /\ conns' <= MaxConn
  BY <1>2, <1>4, <1>6 DEF TypeOK
<1> QED
  BY <1>1, <1>4, <1>5, <1>6, <1>7, <1>11, <1>12, <1>13, <1>14, <1>15, <1>16, <1>17, <1>18, <1>19,
     MainKeeps

(* malloc returns a node for every connection but the first.               *)
LEMMA NodesLeft ==
  ASSUME RacesInv, Sound, pc[Main] = "addNew"
  PROVE  Len(node) \in Nat /\ Len(node) + 1 <= conns /\ conns <= MaxConn
<1>1. TypeOK /\ pc[Main] \in Adding /\ Len(node) \in Nat /\ conns \in Nat /\ conns <= MaxConn
  BY Bounds, Parts DEF Adding, TypeOK
<1>2. conns > 1
  <2>1. 1 \in 1 .. Len(order) /\ node[order[1]].client # conns
    <3>1. order # << >> /\ order \in Seq(Nodes)
      BY <1>1, Parts DEF Appends, TypeOK
    <3>2. 1 \in 1 .. Len(order)
      BY <3>1
    <3> QED
      BY <1>1, <3>2, Parts DEF Appends
  <2>2. node[order[1]].client \in 1 .. conns
    <3>1. order # << >>
      BY <2>1
    <3> QED
      BY <1>1, <2>1, <3>1, LastKept, Parts DEF Contents
  <2> QED
    BY <1>1, <2>1, <2>2
<1>3. Len(node) = 1 \/ Len(node) < conns
  BY <1>1, Parts DEF NodeCount
<1> DEFINE k == Len(node)
<1>4. k \in Nat /\ conns \in Nat /\ conns > 1 /\ (k = 1 \/ k < conns)
  BY <1>1, <1>2, <1>3
<1> HIDE DEF k
<1>5. k + 1 <= conns
  BY <1>4
<1> QED
  BY <1>1, <1>5 DEF k

LEMMA AddNewKeeps ==
  ASSUME RacesInv, AddNew
  PROVE  RacesInv'
<1> DEFINE q == Len(node) + 1
           entry == [fd |-> conns, client |-> conns, next |-> Null, prev |-> Mine(Main)]
<1>1. /\ Sound /\ At(Main, "addNew") /\ pc[Main] = "addNew" /\ pc[Main] \in Adding
      /\ "addLink" \in Adding /\ "addLink" \in Labels /\ "addLink" \notin Walking
  BY DEF AddNew, At, Adding, Labels, Walking
<1>2. /\ TypeOK /\ Len(node) \in Nat /\ q <= conns /\ conns <= MaxConn /\ q \in Nodes
      /\ DOMAIN node = 1 .. Len(node) /\ Main \in Threads /\ q # Null /\ q \in Pointers
      /\ q <= MaxConn /\ Len(node) <= q
  <2>1. TypeOK /\ Len(node) \in Nat /\ q <= conns /\ conns <= MaxConn /\ conns \in Nat
    BY <1>1, NodesLeft, Parts DEF TypeOK
  <2>2. q \in Nodes /\ q <= MaxConn /\ Len(node) <= q
    BY <2>1, Bounds
  <2>3. q # Null
    BY <2>2, Bounds
  <2> QED
    BY <2>1, <2>2, <2>3, Kinds DEF TypeOK, Pointers
<1>3. loc[Main].call = "add" /\ loc[Main].conn = conns /\ conns \in Conn /\ loc[Main] \in Locals
  BY <1>1, AddCall
<1>4. /\ node' = Append(node, entry) /\ Hold(Main, "addLink", "ptr", q)
      /\ head' = head /\ freed' = freed /\ gone' = gone /\ conns' = conns /\ watched' = watched
      /\ order' = order /\ replaced' = replaced /\ misled' = misled /\ broken' = broken
  BY <1>3 DEF AddNew, connVars, historyVars
<1>5. entry \in Fields
  <2>1. Mine(Main) \in Pointers
    BY <1>3 DEF Locals, Mine
  <2>2. Null \in Pointers /\ conns \in 0 .. MaxConn
    BY <1>2 DEF Pointers, TypeOK
  <2> QED
    BY <1>3, <2>1, <2>2 DEF Fields
<1>6. /\ node' \in Seq(Fields) /\ Len(node') = q /\ node'[q] = entry
      /\ \A n \in 1 .. Len(node) : node'[n] = node[n]
      /\ DOMAIN node' = 1 .. q
  BY <1>2, <1>4, <1>5, AppendProperties DEF TypeOK
<1>7. /\ Advances(Main, "addLink") /\ loc'[Main].ptr = q
  BY <1>1, <1>2, <1>4, PtrAdvances
<1>8. /\ MainMoves("addLink") /\ pc'[Main] = "addLink" /\ Mine(Main)' = Mine(Main)
      /\ loc'[Main].call = "add" /\ loc'[Main].conn = conns
      /\ loc'[Main].walk = loc[Main].walk /\ loc[Main].during \subseteq loc'[Main].during
  BY <1>2, <1>3, <1>7, MainAdvances DEF Advances, Mine
<1>9. OwnCode'
  BY <1>1, <1>8, MainCode, Parts
<1>10. Listed' = Listed /\ Listed \subseteq 1 .. Len(node) /\ q \notin freed /\ q \notin 1 .. Len(node)
  <2>1. \A i \in 1 .. Len(order) : Alive(order[i])
    BY <1>1, Parts DEF ListShape
  <2> QED
    BY <1>2, <1>4, <2>1 DEF TypeOK, Listed, Alive
<1>11. \A n : Alive(n)' <=> Alive(n) \/ n = q
  <2>1. \A n : n \in 1 .. q <=> n \in 1 .. Len(node) \/ n = q
    BY <1>2
  <2> QED
    BY <1>2, <1>4, <1>6, <1>10, <2>1 DEF Alive
<1>12. /\ HeadFirst' /\ NextChain' /\ PrevChain' /\ FirstPrev' /\ RightBranch' /\ Contents'
  BY <1>1, <1>4, <1>6, <1>8, <1>10, ListSame
<1>13. ListShape'
  BY <1>1, <1>4, <1>7, <1>8, <1>10, <1>11, Parts DEF ListShape
<1>14. order # << >> /\ Mine(Main) = order[Len(order)] /\ Len(order) \in Nat
  BY <1>1, <1>2, Parts DEF Appends, TypeOK
<1>15. EmptyHead'
  BY <1>4, <1>14 DEF EmptyHead
<1>16. Appends'
  <2>1. /\ conns \notin watched \cup gone /\ conns > 0
        /\ \A i \in 1 .. Len(order) : node[order[i]].client # conns
        /\ \A t \in Callers : loc[t].conn # conns
    BY <1>1, Parts DEF Appends
  <2>2. \A t \in Callers : loc'[t].conn # conns
    BY <1>8, <2>1, Kinds DEF MainMoves
  <2>3. \A i \in 1 .. Len(order) : node'[order[i]].client # conns
    BY <1>6, <1>10, <2>1 DEF Listed
  <2>4. Alive(loc[Main].ptr)' /\ loc'[Main].ptr \notin Listed' /\ node'[loc'[Main].ptr] = entry
    BY <1>6, <1>7, <1>10, <1>11
  <2> QED
    BY <1>4, <1>8, <1>14, <2>1, <2>2, <2>3, <2>4 DEF Appends
<1>17. NodeCount'
  BY <1>2, <1>4, <1>6, <1>8 DEF NodeCount
<1>18. GoneHeld'
  <2> SUFFICES ASSUME NEW n \in Nodes, Alive(n)', node'[n].client \in gone
               PROVE  InDeletion(n)
    BY <1>4, <1>8, MainPhases DEF GoneHeld
  <2>1. conns \notin gone
    BY <1>1, Parts DEF Appends
  <2>2. n # q
    BY <1>6, <2>1
  <2>3. Alive(n) /\ n \in 1 .. Len(node)
    BY <1>2, <1>11, <2>2 DEF Alive
  <2> QED
    BY <1>1, <1>6, <2>3, Parts DEF GoneHeld
<1>19. Held' /\ Looked' /\ NotPassed' /\ Unseen'
  <2>1. \A i \in 1 .. Len(order) : order'[i] = order[i] /\ node'[order[i]].fd = node[order[i]].fd
    BY <1>4, <1>6, <1>10 DEF Listed
  <2>2. order' \in Seq(Nodes) /\ Len(order) <= Len(order') /\ Len(node) <= Len(node') /\ Len(node') <= MaxConn
    BY <1>2, <1>4, <1>6, <1>14 DEF TypeOK
  <2>3. \A i \in Len(order) + 1 .. Len(order') : pc[Main] \in Adding /\ node'[order'[i]].fd = conns
    BY <1>4, <1>14
  <2> QED
    BY <1>1, <1>2, <1>4, <1>6, <1>7, <1>8, <1>10, <2>1, <2>2, <2>3, MainThreads
<1>20. /\ Len(node) <= Len(node') /\ Len(node') <= MaxConn /\ conns' <= MaxConn
       /\ watched' \subseteq 1 .. conns' /\ order' \in Seq(Nodes)
  BY <1>2, <1>4, <1>6 DEF TypeOK
<1> QED
  BY <1>1, <1>4, <1>6, <1>8, <1>9, <1>12, <1>13, <1>15, <1>16, <1>17, <1>18, <1>19, <1>20, MainKeeps

(* The last node, that nobody deletes, is linked to the new one.           *)
LEMMA AddLinkKeeps ==
  ASSUME RacesInv, AddLink
  PROVE  RacesInv'
<1> DEFINE q == loc[Main].ptr
           last == Mine(Main)
           N == Len(order)
<1>1. /\ Sound /\ At(Main, "addLink") /\ pc[Main] = "addLink" /\ pc[Main] \in Adding
      /\ Sets(last, "next", q) /\ Added(q)
  BY DEF AddLink, At, Adding
<1>2. PICK i \in 1 .. Len(order) :
        order[i] = last /\ i = Len(order) /\ Len(order) \in Nat /\ node[last].next = Null
  BY <1>1, MainAt
<1>3. /\ N \in Nat /\ N \in 1 .. N /\ N > 0 /\ order[N] = last /\ node[last].next = Null
      /\ order # << >>
  BY <1>1, <1>2, Parts DEF Appends
<1>4. /\ TypeOK /\ Len(node) \in Nat /\ Len(node) <= MaxConn /\ conns \in Nat /\ conns <= MaxConn
      /\ DOMAIN node = 1 .. Len(node) /\ order \in Seq(Nodes) /\ conns \in 1 .. conns
  <2>1. TypeOK /\ Len(node) \in Nat /\ Len(node) <= MaxConn /\ conns \in Nat /\ conns <= MaxConn
        /\ DOMAIN node = 1 .. Len(node) /\ order \in Seq(Nodes)
    BY <1>1, Bounds, Parts DEF TypeOK
  <2>2. conns > 0
    BY <1>1, Parts DEF Appends
  <2> QED
    BY <2>1, <2>2
<1>5. /\ Alive(q) /\ q \notin Listed /\ q # Null /\ q # head
      /\ node[q] = [fd |-> conns, client |-> conns, next |-> Null, prev |-> last]
      /\ loc[Main].conn = conns
  BY <1>1, NewNode, Parts DEF Appends
<1>6. q \in Nodes /\ q \in 1 .. Len(node) /\ q \in Pointers /\ last \in 1 .. Len(node) /\ last # q
      /\ last \in Listed
  <2>1. last \in Listed
    BY <1>3 DEF Listed
  <2>2. \A k \in 1 .. Len(order) : Alive(order[k])
    BY <1>1, Parts DEF ListShape
  <2>3. Alive(last)
    BY <1>3, <2>2
  <2> QED
    BY <1>1, <1>5, <2>1, <2>3, LiveNode DEF Pointers
<1>7. /\ node' \in Seq(Fields) /\ Len(node') = Len(node) /\ node'[last].next = q
      /\ node'[last].fd = node[last].fd /\ node'[last].client = node[last].client
      /\ node'[last].prev = node[last].prev
      /\ \A m \in 1 .. Len(node) : m # last => node'[m] = node[m]
  BY <1>1, <1>4, <1>6, NextWritten
<1>8. /\ head' = head /\ freed' = freed /\ gone' = gone /\ replaced' = replaced
      /\ misled' = misled /\ broken' = broken
  BY <1>1 DEF Sets
<1>9. /\ MainMoves("accept") /\ "accept" \in Labels /\ "accept" \notin Walking
      /\ loc'[Main].walk = Null /\ pc'[Main] = "accept"
      /\ \A u \in Closers : loc'[u] = loc[u]
      /\ OwnCode' /\ Appends' /\ NodeCount'
      /\ order' = Append(order, q) /\ conns' = conns /\ watched' \subseteq 1 .. conns
  BY <1>1, <1>6, <1>7, AddedKeeps
<1>10. /\ order' \in Seq(Nodes) /\ Len(order') = N + 1 /\ order'[N + 1] = q /\ order' # << >>
       /\ \A k \in 1 .. N : order'[k] = order[k]
       /\ Listed' = Listed \cup {q}
  BY <1>4, <1>6, <1>9, Appended
<1>11. /\ \A k \in 1 .. N : order[k] \in 1 .. Len(node) /\ order[k] # q /\ order[k] \in Listed
       /\ \A k, m \in 1 .. N : order[k] = order[m] => k = m
  <2>1. \A k \in 1 .. N : Alive(order[k]) /\ order[k] \in Listed
    BY <1>1, Parts DEF ListShape, Listed
  <2>2. \A k \in 1 .. N : order[k] \in 1 .. Len(node) /\ order[k] # q
    BY <1>4, <1>5, <2>1 DEF Alive
  <2> QED
    BY <1>1, <2>1, <2>2, Parts DEF ListShape
<1>12. \A m \in 1 .. Len(node) :
          /\ node'[m].fd = node[m].fd /\ node'[m].client = node[m].client
          /\ node'[m].prev = node[m].prev
          /\ m # last => node'[m].next = node[m].next
  BY <1>7
<1>13. \A u \in Closers : pc[u] \in Deleting => Mine(u) \in Listed
  BY <1>1, Parts DEF RightBranch, Branches, Listed
<1>14. /\ ~InDeletion(q) /\ ~PassedOver(q) /\ ~SelfLinked(q) /\ ~Bridged(q)
       /\ ~Unlinked(q) /\ ~NoFd(q) /\ ~NoClient(q)
  <2>1. ~InDeletion(q)
    BY <1>5, <1>13 DEF InDeletion, Deleter
  <2> QED
    BY <2>1 DEF InDeletion, PassedOver, SelfLinked, Bridged, Unlinked, NoFd, NoClient,
                Deleter, Deleting
<1>15. ~InDeletion(last) /\ ~Bridged(last) /\ ~Unlinked(last) /\ ~SelfLinked(last)
  <2>1. ~InDeletion(last) /\ ~Bridged(last) /\ ~Unlinked(last)
    BY <1>1, <1>3, LastKept
  <2> QED
    BY <2>1 DEF InDeletion, SelfLinked, Deleter, Deleting
<1>16. /\ \A u \in Closers : pc'[u] = pc[u] /\ Mine(u)' = Mine(u) /\ loc'[u] = loc[u]
       /\ \A n :
          /\ InDeletion(n)' <=> InDeletion(n)
          /\ PassedOver(n)' <=> PassedOver(n)
          /\ SelfLinked(n)' <=> SelfLinked(n)
          /\ Bridged(n)' <=> Bridged(n)
          /\ Unlinked(n)' <=> Unlinked(n)
          /\ NoFd(n)' <=> NoFd(n)
          /\ NoClient(n)' <=> NoClient(n)
  BY <1>9, MainPhases
<1>17. \A n : Alive(n)' <=> Alive(n)
  BY <1>4, <1>7, <1>8 DEF Alive, TypeOK
<1>18. ListShape'
  <2>1. \A k, m \in 1 .. Len(order') : order'[k] = order'[m] => k = m
    BY <1>3, <1>10, <1>11
  <2>2. \A k \in 1 .. Len(order') : Alive(order'[k])
    <3>1. \A k \in 1 .. N : Alive(order[k])
      BY <1>1, Parts DEF ListShape
    <3> QED
      BY <1>3, <1>5, <1>10, <3>1
  <2>3. \A n : Alive(n) => n \in Listed'
    BY <1>1, <1>3, <1>10, LiveNode
  <2> QED
    BY <1>17, <2>1, <2>2, <2>3 DEF ListShape
<1>19. HeadFirst'
  <2>1. order'[1] = order[1] /\ (N > 1 => order'[2] = order[2]) /\ (N > 1 => Len(order') > 1)
    BY <1>3, <1>10
  <2>2. IF PassedOver(order[1]) THEN N > 1 /\ head = order[2] /\ replaced ELSE head = order[1]
    BY <1>1, <1>3, Parts DEF HeadFirst
  <2> QED
    BY <1>8, <1>16, <2>1, <2>2 DEF HeadFirst
<1>20. NextChain'
  <2> SUFFICES ASSUME NEW k \in 1 .. Len(order')
               PROVE  node'[order'[k]].next =
                        IF k < Len(order') /\ Bridged(order[k + 1])'
                        THEN OrderAt(k + 2)' ELSE OrderAt(k + 1)'
    BY DEF NextChain
  <2>1. CASE k = N + 1
    <3>1. node'[order'[k]].next = Null
      BY <1>5, <1>6, <1>7, <1>10, <2>1
    <3>2. OrderAt(k + 1)' = Null /\ ~(k < Len(order'))
      BY <1>3, <1>10, <2>1 DEF OrderAt
    <3> QED
      BY <3>1, <3>2
  <2>2. CASE k = N
    <3>1. node'[order'[k]].next = q
      BY <1>3, <1>7, <1>10, <2>2
    <3>2. OrderAt(k + 1)' = q /\ order'[k + 1] = q
      BY <1>3, <1>10, <2>2 DEF OrderAt
    <3> QED
      BY <1>14, <1>16, <3>1, <3>2
  <2>3. CASE k < N
    <3>1. /\ k \in 1 .. N /\ k + 1 \in 1 .. N /\ order'[k] = order[k] /\ order'[k + 1] = order[k + 1]
          /\ k < Len(order') /\ (k + 1 # N => k + 2 \in 1 .. N)
      BY <1>3, <1>10, <2>3
    <3>2. order[k] # last
      BY <1>3, <1>11, <2>3, <3>1
    <3>3. node'[order'[k]].next =
            IF Bridged(order[k + 1]) THEN OrderAt(k + 2) ELSE OrderAt(k + 1)
      <4>1. node'[order'[k]].next = node[order[k]].next
        BY <1>11, <1>12, <3>1, <3>2
      <4>2. node[order[k]].next =
              IF k < N /\ Bridged(order[k + 1]) THEN OrderAt(k + 2) ELSE OrderAt(k + 1)
        BY <1>1, <3>1, Parts DEF NextChain
      <4> QED
        BY <2>3, <4>1, <4>2
    <3>4. Bridged(order[k + 1]) => k + 2 \in 1 .. N
      BY <1>3, <1>15, <3>1
    <3>5. OrderAt(k + 1)' = OrderAt(k + 1) /\ (k + 2 \in 1 .. N => OrderAt(k + 2)' = OrderAt(k + 2))
      BY <1>3, <1>10, <3>1 DEF OrderAt
    <3> QED
      BY <1>16, <3>1, <3>3, <3>4, <3>5
  <2> QED
    BY <1>3, <1>10, <2>1, <2>2, <2>3
<1>21. PrevChain'
  <2> SUFFICES ASSUME NEW k \in 2 .. Len(order')
               PROVE  node'[order'[k]].prev =
                        IF Unlinked(order[k - 1])' THEN node'[order'[k - 1]].prev
                        ELSE IF k = 2 /\ SelfLinked(order[1])' THEN order'[2]
                        ELSE order'[k - 1]
    BY DEF PrevChain
  <2>1. CASE k = N + 1
    <3>1. node'[order'[k]].prev = last
      BY <1>5, <1>6, <1>7, <1>10, <2>1
    <3>2. k - 1 = N /\ order'[k - 1] = last /\ (k = 2 => order'[1] = last)
      BY <1>3, <1>10, <2>1
    <3> QED
      BY <1>15, <1>16, <3>1, <3>2
  <2>2. CASE k # N + 1
    <3>1. /\ k \in 2 .. N /\ k \in 1 .. N /\ k - 1 \in 1 .. N /\ 1 \in 1 .. N /\ 2 \in 1 .. N
          /\ order'[k] = order[k] /\ order'[k - 1] = order[k - 1]
          /\ order'[1] = order[1] /\ order'[2] = order[2]
      BY <1>3, <1>10, <2>2
    <3>2. node'[order[k]].prev = node[order[k]].prev /\ node'[order[k - 1]].prev = node[order[k - 1]].prev
      BY <1>11, <1>12, <3>1
    <3>3. node[order[k]].prev =
            IF Unlinked(order[k - 1]) THEN node[order[k - 1]].prev
            ELSE IF k = 2 /\ SelfLinked(order[1]) THEN order[2]
            ELSE order[k - 1]
      BY <1>1, <3>1, Parts DEF PrevChain
    <3> QED
      BY <1>16, <3>1, <3>2, <3>3
  <2> QED
    BY <2>1, <2>2
<1>22. FirstPrev'
  <2>1. order'[1] = order[1] /\ order[1] \in 1 .. Len(node)
    BY <1>3, <1>10, <1>11
  <2>2. node'[order[1]].prev = node[order[1]].prev
    BY <1>12, <2>1
  <2>3. node[order[1]].prev = Null \/ (node[order[1]].prev = order[1] /\ replaced)
    BY <1>1, <1>3, Parts DEF FirstPrev
  <2> QED
    BY <1>8, <2>1, <2>2, <2>3 DEF FirstPrev
<1>23. RightBranch'
  <2> SUFFICES ASSUME NEW u \in Closers, pc[u] \in Deleting
               PROVE  Branches(u)'
    BY <1>16 DEF RightBranch
  <2>1. Branches(u)
    BY <1>1, Parts DEF RightBranch
  <2>2. PICK k \in 1 .. N :
          /\ order[k] = Mine(u)
          /\ pc[u] \in HeadCase => k = 1 /\ node[Mine(u)].prev = Null
          /\ pc[u] \in {"headNext", "moveHead", "selfPrev", "freeHead"} => loc[u].ptr = Mine(u)
          /\ pc[u] \in {"zeroFd"} \cup Emptied => N = 1
          /\ pc[u] \in {"moveHead", "selfPrev", "freeHead"} => N > 1
          /\ pc[u] \in OtherCase => node[Mine(u)].prev # Null
          /\ pc[u] \in {"bridge", "following", "backLink"} => k < N
          /\ pc[u] \in {"bridge", "backLink"} => loc[u].ptr = OrderAt(k + 1)
          /\ pc[u] = "cutLast" => k = N
    BY <2>1 DEF Branches
  <2>3. k # N
    BY <1>1, <2>2, Alone
  <2>4. /\ k \in 1 .. Len(order') /\ order'[k] = Mine(u) /\ k < N /\ k < Len(order') /\ N # 1
        /\ Len(order') > 1 /\ OrderAt(k + 1)' = OrderAt(k + 1)
    BY <1>3, <1>10, <2>2, <2>3 DEF OrderAt
  <2>5. node'[Mine(u)].prev = node[Mine(u)].prev
    BY <1>11, <1>12, <2>2
  <2> QED
    BY <1>16, <2>2, <2>3, <2>4, <2>5 DEF Branches
<1>24. Contents'
  <2>1. Contents
    BY <1>1, Parts
  <2>2. ASSUME NEW k \in 1 .. Len(order')
        PROVE  /\ IF NoFd(order'[k]) THEN node'[order'[k]].fd = 0
                  ELSE node'[order'[k]].fd \in 1 .. conns
               /\ IF NoClient(order'[k]) THEN node'[order'[k]].client = Null
                  ELSE node'[order'[k]].client \in 1 .. conns
               /\ node'[order'[k]].fd # 0 => node'[order'[k]].client = node'[order'[k]].fd
    <3>1. CASE k = N + 1
      BY <1>4, <1>5, <1>6, <1>7, <1>10, <1>14, <3>1
    <3>2. CASE k \in 1 .. N
      <4>1. order'[k] = order[k] /\ node'[order[k]].fd = node[order[k]].fd
            /\ node'[order[k]].client = node[order[k]].client
        BY <1>10, <1>11, <1>12, <3>2
      <4> QED
        BY <2>1, <3>2, <4>1 DEF Contents
    <3> QED
      BY <1>3, <1>10, <3>1, <3>2
  <2>3. ASSUME NEW k \in 1 .. Len(order'), NEW m \in 1 .. Len(order'),
               node'[order'[k]].client = node'[order'[m]].client
        PROVE  k = m
    <3>1. \A j \in 1 .. N :
            /\ node'[order'[j]].client = node[order[j]].client
            /\ node[order[j]].client # conns
      BY <1>1, <1>10, <1>11, <1>12, Parts DEF Appends
    <3>2. node'[order'[N + 1]].client = conns
      BY <1>5, <1>6, <1>7, <1>10
    <3>3. CASE k \in 1 .. N /\ m \in 1 .. N
      BY <2>1, <2>3, <3>1, <3>3 DEF Contents
    <3>4. CASE k = N + 1 \/ m = N + 1
      BY <1>3, <1>10, <2>3, <3>1, <3>2, <3>4
    <3> QED
      BY <1>3, <1>10, <3>3, <3>4
  <2> QED
    BY <1>9, <1>16, <2>2, <2>3 DEF Contents
<1>25. EmptyHead'
  BY <1>10 DEF EmptyHead
<1>26. GoneHeld'
  <2> SUFFICES ASSUME NEW n \in Nodes, Alive(n), node'[n].client \in gone
               PROVE  InDeletion(n)
    BY <1>8, <1>16, <1>17 DEF GoneHeld
  <2>1. n \in 1 .. Len(node)
    BY <1>4 DEF Alive
  <2> QED
    BY <1>1, <1>12, <2>1, Parts DEF GoneHeld
<1>27. Held' /\ Looked' /\ NotPassed' /\ Unseen'
  <2>1. \A k \in 1 .. Len(order) : order'[k] = order[k] /\ node'[order[k]].fd = node[order[k]].fd
    BY <1>10, <1>11, <1>12
  <2>2. \A k \in Len(order) + 1 .. Len(order') : pc[Main] \in Adding /\ node'[order'[k]].fd = conns
    BY <1>1, <1>3, <1>5, <1>6, <1>7, <1>10
  <2>3. Len(order) <= Len(order') /\ Len(node) <= Len(node') /\ Len(node') <= MaxConn
    BY <1>3, <1>4, <1>7, <1>10
  <2>4. \A n \in 1 .. Len(node) : node'[n].fd = node[n].fd
    BY <1>12
  <2> QED
    BY <1>1, <1>7, <1>8, <1>9, <1>10, <2>1, <2>2, <2>3, <2>4, MainThreads
<1>28. Len(node) <= Len(node') /\ Len(node') <= MaxConn /\ conns' <= MaxConn
  BY <1>4, <1>7, <1>9
<1> QED
  BY <1>1, <1>7, <1>8, <1>9, <1>10, <1>18, <1>19, <1>20, <1>21, <1>22, <1>23, <1>24, <1>25, <1>26,
     <1>27, <1>28, MainKeeps

LEMMA MainStepKeeps ==
  ASSUME RacesInv, MainStep
  PROVE  RacesInv'
<1>1. CASE Accept
  BY <1>1, AcceptKeeps
<1>2. CASE AddPrev
  BY <1>2, AddPrevKeeps
<1>3. CASE AddFd
  BY <1>3, AddFdKeeps
<1>4. CASE FillFd
  BY <1>4, FillFdKeeps
<1>5. CASE Fill
  BY <1>5, FillKeeps
<1>6. CASE FillPrev
  BY <1>6, FillPrevKeeps
<1>7. CASE AddHead
  BY <1>7, AddHeadKeeps
<1>8. CASE AddTest
  BY <1>8, AddTestKeeps
<1>9. CASE AddNext
  BY <1>9, AddNextKeeps
<1>10. CASE AddNew
  BY <1>10, AddNewKeeps
<1>11. CASE AddLink
  BY <1>11, AddLinkKeeps
<1> QED
  BY <1>1, <1>2, <1>3, <1>4, <1>5, <1>6, <1>7, <1>8, <1>9, <1>10, <1>11 DEF MainStep

-----------------------------------------------------------------------------
(* The invariant of the specification.                                     *)

(* What is recorded in `broken' is not used by the threads.                *)
LEMMA OnlyBroken ==
  ASSUME head' = head, node' = node, freed' = freed, gone' = gone, pc' = pc, loc' = loc,
         conns' = conns, watched' = watched, order' = order, replaced' = replaced, misled' = misled
  PROVE  /\ TypeOK' <=> TypeOK
         /\ OwnCode' <=> OwnCode
         /\ Clash' <=> Clash
         /\ Alive(head)' <=> Alive(head)
         /\ Good' <=> Good
         /\ NeverMisled' <=> NeverMisled
<1>1. \A t : Mine(t)' = Mine(t)
  BY DEF Mine
<1>2. \A n : Alive(n)' <=> Alive(n)
  BY DEF Alive
<1>3. Listed' = Listed /\ \A i : OrderAt(i)' = OrderAt(i)
  BY DEF Listed, OrderAt
<1>4. \A n :
        /\ InDeletion(n)' <=> InDeletion(n)
        /\ PassedOver(n)' <=> PassedOver(n)
        /\ SelfLinked(n)' <=> SelfLinked(n)
        /\ Bridged(n)' <=> Bridged(n)
        /\ Unlinked(n)' <=> Unlinked(n)
        /\ NoFd(n)' <=> NoFd(n)
        /\ NoClient(n)' <=> NoClient(n)
  BY <1>1, PhasesSame
<1>5. TypeOK' <=> TypeOK
  BY DEF TypeOK
<1>6. OwnCode' <=> OwnCode
  BY DEF OwnCode, CallsOf, LabelsOf, Idle
<1>7. Clash' <=> Clash
  <2>1. \A m, n : Neighbours(m, n)' <=> Neighbours(m, n)
    BY DEF Neighbours
  <2> QED
    BY <1>1, <2>1 DEF Clash
<1>8. Good' <=> Good
  <2>1. ListShape' <=> ListShape
    BY <1>2, <1>3 DEF ListShape
  <2>2. (HeadFirst' <=> HeadFirst) /\ (FirstPrev' <=> FirstPrev)
    BY <1>4 DEF HeadFirst, FirstPrev
  <2>3. (NextChain' <=> NextChain) /\ (PrevChain' <=> PrevChain)
    BY <1>3, <1>4 DEF NextChain, PrevChain
  <2>4. RightBranch' <=> RightBranch
    <3>1. \A t : Branches(t)' <=> Branches(t)
      BY <1>1, <1>3 DEF Branches
    <3> QED
      BY <3>1 DEF RightBranch
  <2>5. Contents' <=> Contents
    BY <1>4 DEF Contents
  <2>6. (EmptyHead' <=> EmptyHead) /\ (Appends' <=> Appends) /\ (NodeCount' <=> NodeCount)
    BY <1>1, <1>2, <1>3 DEF EmptyHead, Appends, NodeCount
  <2>7. GoneHeld' <=> GoneHeld
    BY <1>2, <1>4 DEF GoneHeld
  <2>8. (Held' <=> Held) /\ (Looked' <=> Looked) /\ (Unseen' <=> Unseen)
    <3>1. \A t, n : KeptBy(t, n)' <=> KeptBy(t, n)
      BY <1>2 DEF KeptBy
    <3> QED
      BY <1>1, <1>2, <3>1 DEF Held, Looked, Unseen
  <2>9. NotPassed' <=> NotPassed
    <3>1. \A n : Settled(n)' <=> Settled(n)
      BY <1>1, <1>3 DEF Settled
    <3>2. \A t, i : Sought(t, i)' <=> Sought(t, i)
      BY <3>1 DEF Sought
    <3> QED
      BY <1>1, <1>2, <3>2 DEF NotPassed
  <2> QED
    BY <2>1, <2>2, <2>3, <2>4, <2>5, <2>6, <2>7, <2>8, <2>9 DEF Good
<1>9. NeverMisled' <=> NeverMisled
  BY DEF NeverMisled
<1> QED
  BY <1>2, <1>5, <1>6, <1>7, <1>8, <1>9

(* A node that thread t must not use was freed during its call.            *)
LEMMA BadNodeHeld ==
  ASSUME RacesInv, Sound, NEW t \in Threads, NEW n \in BadNodes(t)
  PROVE  n # Null /\ n \in loc[t].during
<1>1. n \in Via(t) /\ ~Alive(n)
  BY DEF BadNodes
<1>2. /\ TypeOK /\ OwnCode /\ RightBranch /\ Held /\ Appends /\ Alive(head) /\ Len(order) \in Nat
      /\ pc[t] \in Labels
  BY Parts DEF TypeOK
<1>3. \A i \in 1 .. Len(order) : Alive(order[i])
  BY Parts DEF ListShape
<1>4. pc[t] \in Deleting => t \in Closers
  <2>1. pc[Main] \notin Deleting
    BY <1>2, Code DEF Adding, Deleting
  <2> QED
    BY <2>1, Kinds
<1>5. pc[t] \in Deleting => Alive(Mine(t))
  BY <1>2, <1>3, <1>4 DEF RightBranch, Branches
<1>6. pc[t] \notin ViaHead
  <2> SUFFICES ASSUME pc[t] \in ViaHead
               PROVE  n = head
    BY <1>1, <1>2
  <2>1. pc[t] \notin ViaPtr \cup ViaNothing \cup Loops \cup ViaPrev
    BY DEF ViaHead, ViaPtr, ViaNothing, Loops, ViaPrev
  <2> QED
    BY <1>1, <2>1 DEF Via
<1>7. pc[t] \notin ViaPtr
  <2> SUFFICES ASSUME pc[t] \in ViaPtr
               PROVE  Alive(n)
    BY <1>1
  <2>1. n = loc[t].ptr
    <3>1. pc[t] \notin ViaHead \cup ViaNothing \cup Loops \cup ViaPrev
      BY DEF ViaHead, ViaPtr, ViaNothing, Loops, ViaPrev
    <3> QED
      BY <1>1, <3>1 DEF Via
  <2>2. pc[t] \in {"backLink", "freeHead"} /\ pc[t] \in Deleting
    BY DEF ViaPtr, Deleting
  <2>3. PICK i \in 1 .. Len(order) :
          /\ order[i] = Mine(t)
          /\ pc[t] = "freeHead" => loc[t].ptr = Mine(t)
          /\ pc[t] = "backLink" => i < Len(order) /\ loc[t].ptr = OrderAt(i + 1)
    BY <1>2, <1>4, <2>2 DEF RightBranch, Branches
  <2>4. pc[t] = "backLink" => i + 1 \in 1 .. Len(order) /\ loc[t].ptr = order[i + 1]
    BY <1>2, <2>3 DEF OrderAt
  <2> QED
    BY <1>3, <2>1, <2>2, <2>3, <2>4
<1>8. pc[t] \notin ViaPrev
  <2> SUFFICES ASSUME pc[t] \in ViaPrev
               PROVE  Alive(n)
    BY <1>1
  <2>1. pc[t] \in {"bridge", "cutLast"} /\ pc[t] \in Deleting /\ pc[t] \in OtherCase
    BY DEF ViaPrev, Deleting, OtherCase
  <2>2. n = node[Mine(t)].prev
    <3>1. pc[t] \notin ViaHead \cup ViaPtr \cup ViaNothing \cup Loops
      BY <2>1 DEF ViaHead, ViaPtr, ViaNothing, Loops
    <3> QED
      BY <1>1, <1>5, <2>1, <3>1 DEF Via
  <2>3. PICK i \in 1 .. Len(order) : order[i] = Mine(t) /\ node[Mine(t)].prev # Null
    BY <1>2, <1>4, <2>1 DEF RightBranch, Branches
  <2>4. 1 \in 1 .. Len(order)
    BY <1>2, <2>3
  <2>5. \E j \in 1 .. Len(order) : node[Mine(t)].prev = order[j]
    BY <1>4, <2>1, <2>3, <2>4, OwnPrev
  <2> QED
    BY <1>3, <2>2, <2>5
<1>9. n = Mine(t) /\ (pc[t] \in Loops => Mine(t) # Null) /\ pc[t] \notin ViaNothing
  BY <1>1, <1>6, <1>7, <1>8 DEF Via
<1>10. pc[t] \in Walking
  <2>1. pc[t] \notin Deleting
    BY <1>1, <1>5, <1>9
  <2>2. pc[t] \notin {"addNew", "addLink"}
    <3> SUFFICES ASSUME pc[t] \in {"addNew", "addLink"}
                 PROVE  FALSE
      OBVIOUS
    <3>1. t = Main
      <4>1. t \notin Closers
        BY <1>2, Code DEF Adding
      <4> QED
        BY <4>1, Kinds
    <3>2. order # << >> /\ Mine(t) = order[Len(order)]
      BY <1>2, <3>1 DEF Appends, Adding
    <3>3. Len(order) \in 1 .. Len(order)
      BY <1>2, <3>2, EmptySeq DEF TypeOK
    <3> QED
      BY <1>1, <1>3, <1>9, <3>2, <3>3
  <2> QED
    BY <1>2, <1>6, <1>9, <2>1, <2>2 DEF Labels, Adding, Walking, ViaHead, ViaNothing
<1>11. KeptBy(t, n) /\ n # Null
  BY <1>2, <1>9, <1>10 DEF Held
<1> QED
  BY <1>1, <1>11 DEF KeptBy

(* A client that thread t must not use is one that another thread frees,   *)
(* or is not there: at the head only.                                      *)
LEMMA BadClientHeld ==
  ASSUME RacesInv, Sound, NEW t \in Threads, NEW n \in BadClients(t)
  PROVE  /\ n # Null
         /\ node[n].client # Null => \E u \in Closers \ {t} : Mine(u) = n /\ pc[u] \in Deleting
         /\ node[n].client = Null =>
              /\ n = head
              /\ \/ head \in loc[t].during
                 \/ pc[Main] = "fillClient"
                 \/ \E u \in Closers \ {t} : Mine(u) = head /\ pc[u] \in {"zeroPrev", "zeroNext"}
                 \/ order = << >> /\ loc[t].call = "uid"
<1>1. /\ pc[t] \in Client /\ n \in Via(t) /\ Alive(n) /\ node[n].client \notin Conn \ gone
  BY DEF BadClients, BadNodes
<1>2. TypeOK /\ OwnCode
  BY Parts
<1>3. /\ n \in Nodes /\ node[n] \in Fields /\ n # Null
      /\ \/ n \in Listed
         \/ n = head /\ order = << >>
         \/ n = loc[Main].ptr /\ pc[Main] = "addLink"
  BY <1>1, LiveNode, Bounds
<1>4. /\ pc[t] \in {"uid", "freeClient", "age"} /\ pc[t] \notin Deleting /\ pc[t] \notin Adding
      /\ n = Mine(t)
  BY <1>1 DEF Client, Deleting, Adding, Via, ViaHead, ViaPtr, ViaNothing, ViaPrev
<1>5. t \in Closers
  BY <1>2, <1>4, Code, Kinds
<1>6. ASSUME node[n].client # Null
      PROVE  \E u \in Closers \ {t} : Mine(u) = n /\ pc[u] \in Deleting
  <2>1. node[n].client \in gone
    BY <1>1, <1>3, <1>6 DEF Fields
  <2>2. InDeletion(n)
    BY <1>1, <1>3, <2>1, Parts DEF GoneHeld
  <2> QED
    BY <1>4, <2>2 DEF InDeletion, Deleter
<1>7. ASSUME node[n].client = Null
      PROVE  /\ n = head
             /\ \/ head \in loc[t].during
                \/ pc[Main] = "fillClient"
                \/ \E u \in Closers \ {t} : Mine(u) = head /\ pc[u] \in {"zeroPrev", "zeroNext"}
                \/ order = << >> /\ loc[t].call = "uid"
  <2>1. CASE n \in Listed
    <3>1. PICK i \in 1 .. Len(order) : order[i] = n
      BY <2>1 DEF Listed
    <3>2. NoClient(n)
      BY <1>2, <1>7, <3>1, NullNotGone, Parts DEF Contents
    <3>3. PICK u \in Closers : Mine(u) = n /\ pc[u] \in {"zeroPrev", "zeroNext"}
      BY <3>2 DEF NoClient, Deleter
    <3>4. pc[u] \in Deleting /\ pc[u] \in HeadCase /\ pc[u] \in {"zeroFd"} \cup Emptied
          /\ pc[u] \notin {"selfPrev", "freeHead"} /\ u # t
      BY <1>4, <3>3 DEF Deleting, HeadCase, Emptied
    <3>5. order[1] = Mine(u)
      BY <3>4, Parts DEF RightBranch, Branches
    <3>6. head = n
      BY <3>3, <3>4, <3>5, OwnHead
    <3> QED
      BY <3>3, <3>4, <3>6
  <2>2. CASE n = head /\ order = << >>
    <3>1. CASE pc[t] = "uid"
      <4>1. loc[t].call \in {"none", "exists", "uid", "close", "beat"}
        <5>1. loc[t].call \in CallsOf(t) /\ t # Main
          BY <1>2, <1>5, Kinds DEF OwnCode
        <5> QED
          BY <5>1 DEF CallsOf
      <4>2. pc[t] \in LabelsOf(t, loc[t].call)
        BY <1>2 DEF OwnCode
      <4>3. loc[t].call = "uid"
        BY <3>1, <4>1, <4>2 DEF LabelsOf, Idle, Deleting
      <4> QED
        BY <2>2, <4>3
    <3>2. CASE pc[t] \in {"freeClient", "age"}
      <4>1. head \in loc[t].during \/ node[head].fd # 0
        BY <1>1, <1>4, <1>5, <2>2, <3>2, Parts DEF Looked
      <4>2. node[head].fd # 0 => pc[Main] \in {"fillClient", "fillNext", "fillPrev"}
        BY <2>2, Parts DEF EmptyHead
      <4>3. pc[Main] \notin {"fillNext", "fillPrev"}
        <5> SUFFICES ASSUME pc[Main] \in {"fillNext", "fillPrev"}
                     PROVE  FALSE
          OBVIOUS
        <5>1. node[head].client = loc[Main].conn
          BY <2>2, Parts DEF EmptyHead
        <5>2. loc[Main].conn \in Conn
          BY AddCall DEF Adding
        <5> QED
          BY <1>7, <2>2, <5>1, <5>2, Bounds
      <4> QED
        BY <2>2, <4>1, <4>2, <4>3
    <3> QED
      BY <1>4, <3>1, <3>2
  <2>3. CASE n = loc[Main].ptr /\ pc[Main] = "addLink"
    <3>1. node[n].client = conns /\ conns \in Conn
      BY <2>3, AddCall, Parts DEF Appends, Adding
    <3> QED
      BY <1>7, <3>1, Bounds
  <2> QED
    BY <1>3, <2>1, <2>2, <2>3
<1> QED
  BY <1>3, <1>6, <1>7

LEMMA UndefinedKeeps ==
  ASSUME RacesInv, NEW t \in Threads, Undefined(t)
  PROVE  RacesInv'
<1>1. /\ Sound
      /\ broken' \in {<<t, "node", n>> : n \in BadNodes(t)} \cup {<<t, "client", n>> : n \in BadClients(t)}
      /\ head' = head /\ node' = node /\ freed' = freed /\ gone' = gone /\ pc' = pc /\ loc' = loc
      /\ conns' = conns /\ watched' = watched /\ order' = order /\ replaced' = replaced
      /\ misled' = misled
  BY DEF Undefined, connVars
<1>2. /\ TypeOK' /\ OwnCode' /\ ~Clash' /\ Alive(head)' /\ Good' /\ NeverMisled'
  <2>1. TypeOK /\ OwnCode /\ ~Clash /\ Alive(head) /\ Good /\ NeverMisled
    BY <1>1, Parts DEF RacesInv
  <2> QED
    BY <1>1, <2>1, OnlyBroken
<1>3. \A u : Mine(u)' = Mine(u)
  BY <1>1 DEF Mine
<1>4. CASE \E n \in BadNodes(t) : broken' = <<t, "node", n>>
  <2>1. PICK n \in BadNodes(t) : broken' = <<t, "node", n>>
    BY <1>4
  <2>2. broken'[1] = t /\ broken'[2] = "node" /\ broken'[3] = n
    BY <2>1
  <2>3. n # Null /\ n \in loc[t].during
    BY <1>1, BadNodeHeld
  <2> QED
    BY <1>1, <1>2, <2>2, <2>3 DEF RacesInv, StaleOnlyIfHeld, NullOnlyAtHead
<1>5. CASE \E n \in BadClients(t) : broken' = <<t, "client", n>>
  <2>1. PICK n \in BadClients(t) : broken' = <<t, "client", n>>
    BY <1>5
  <2>2. broken'[1] = t /\ broken'[2] = "client" /\ broken'[3] = n
    BY <2>1
  <2>3. /\ n # Null
        /\ node[n].client # Null => \E u \in Closers \ {t} : Mine(u) = n /\ pc[u] \in Deleting
        /\ node[n].client = Null =>
             /\ n = head
             /\ \/ head \in loc[t].during
                \/ pc[Main] = "fillClient"
                \/ \E u \in Closers \ {t} : Mine(u) = head /\ pc[u] \in {"zeroPrev", "zeroNext"}
                \/ order = << >> /\ loc[t].call = "uid"
    BY <1>1, BadClientHeld
  <2>4. StaleOnlyIfHeld'
    BY <1>1, <1>3, <2>2, <2>3 DEF StaleOnlyIfHeld
  <2>5. NullOnlyAtHead'
    BY <1>1, <1>3, <2>2, <2>3 DEF NullOnlyAtHead
  <2> QED
    BY <1>2, <2>4, <2>5 DEF RacesInv
<1> QED
  BY <1>1, <1>4, <1>5

LEMMA CloseStepKeeps ==
  ASSUME RacesInv, NEW t \in Closers, CloseStep(t)
  PROVE  RacesInv'
<1>1. CASE FreeClient(t)
  BY <1>1, FreeClientKeeps
<1>2. CASE DelPrev(t)
  BY <1>2, DelPrevKeeps
<1>3. CASE DelHead(t)
  BY <1>3, DelHeadKeeps
<1>4. CASE HeadNext(t)
  BY <1>4, HeadNextKeeps
<1>5. CASE MoveHead(t)
  BY <1>5, MoveHeadKeeps
<1>6. CASE SelfPrev(t)
  BY <1>6, SelfPrevKeeps
<1>7. CASE ZeroFd(t)
  BY <1>7, ZeroFdKeeps
<1>8. CASE Zero(t)
  BY <1>8, ZeroKeeps
<1>9. CASE ZeroNext(t)
  BY <1>9, ZeroNextKeeps
<1>10. CASE DelNext(t)
  BY <1>10, DelNextKeeps
<1>11. CASE Bridge(t)
  BY <1>11, BridgeKeeps
<1>12. CASE Following(t)
  BY <1>12, FollowingKeeps
<1>13. CASE BackLink(t)
  BY <1>13, BackLinkKeeps
<1>14. CASE CutLast(t)
  BY <1>14, CutLastKeeps
<1>15. CASE FreeNode(t)
  BY <1>15, FreeNodeKeeps
<1>16. CASE CloseFd(t)
  BY <1>16, CloseFdKeeps
<1> QED
  BY <1>1, <1>2, <1>3, <1>4, <1>5, <1>6, <1>7, <1>8, <1>9, <1>10, <1>11, <1>12, <1>13, <1>14,
     <1>15, <1>16 DEF CloseStep

LEMMA WalkStepKeeps ==
  ASSUME RacesInv, NEW t \in Closers, WalkStep(t)
  PROVE  RacesInv'
<1>1. CASE Start(t)
  BY <1>1, StartKeeps
<1>2. CASE Step(t)
  BY <1>2, StepKeeps
<1>3. CASE Match(t)
  BY <1>3, MatchKeeps
<1>4. CASE Found(t)
  BY <1>4, FoundKeeps
<1>5. CASE NotFound(t)
  BY <1>5, NotFoundKeeps
<1>6. CASE Uid(t)
  BY <1>6, UidKeeps
<1> QED
  BY <1>1, <1>2, <1>3, <1>4, <1>5, <1>6 DEF WalkStep

LEMMA HeartStepKeeps ==
  ASSUME RacesInv, HeartStep
  PROVE  RacesInv'
<1>1. CASE Wake
  BY <1>1, WakeKeeps
<1>2. CASE Beat
  BY <1>2, BeatKeeps
<1>3. CASE Age
  BY <1>3, AgeKeeps
<1>4. CASE Expired
  BY <1>4, ExpiredKeeps
<1> QED
  BY <1>1, <1>2, <1>3, <1>4 DEF HeartStep

LEMMA StutterKeeps ==
  ASSUME RacesInv, UNCHANGED vars
  PROVE  RacesInv'
<1>1. /\ head' = head /\ node' = node /\ freed' = freed /\ gone' = gone /\ pc' = pc /\ loc' = loc
      /\ conns' = conns /\ watched' = watched /\ order' = order /\ replaced' = replaced
      /\ misled' = misled /\ broken' = broken
  BY DEF vars, connVars, historyVars
<1>2. \A t : Mine(t)' = Mine(t)
  BY <1>1 DEF Mine
<1>3. (StaleOnlyIfHeld' <=> StaleOnlyIfHeld) /\ (NullOnlyAtHead' <=> NullOnlyAtHead)
  BY <1>1, <1>2 DEF StaleOnlyIfHeld, NullOnlyAtHead
<1> QED
  BY <1>1, <1>3, OnlyBroken DEF RacesInv

LEMMA InitialInv ==
  ASSUME Init
  PROVE  RacesInv
<1>1. /\ head = 1 /\ node = <<Empty>> /\ freed = {} /\ gone = {}
      /\ pc = [t \in Threads |-> Idle(t)] /\ loc = [t \in Threads |-> NoLocals]
      /\ conns = 0 /\ watched = {} /\ order = << >> /\ replaced = FALSE
      /\ misled = "no" /\ broken = << >>
  BY DEF Init
<1>2. /\ Empty \in Fields /\ NoLocals \in Locals /\ Len(node) = 1 /\ node[1] = Empty
      /\ 1 <= MaxConn /\ 1 \in Nodes /\ DOMAIN node = 1 .. 1 /\ Len(order) = 0
  BY <1>1, Bounds DEF Empty, Fields, NoLocals, Locals, Calls, Pointers
<1>3. \A t \in Threads :
        /\ pc[t] \in {"accept", "idle", "sleep"} /\ pc[t] = Idle(t)
        /\ loc[t] = NoLocals /\ Mine(t) = Null
  BY <1>1 DEF Idle, Mine, NoLocals
<1>4. \A t \in Threads : pc[t] \notin Deleting \cup Adding \cup Walking \cup {"freeClient"}
  BY <1>3 DEF Deleting, Adding, Walking
<1>5. TypeOK
  <2>1. node \in Seq(Fields) /\ order \in Seq(Nodes)
    BY <1>1, <1>2
  <2>2. pc \in [Threads -> Labels] /\ loc \in [Threads -> Locals]
    <3>1. \A t \in Threads : Idle(t) \in Labels
      BY <1>3 DEF Labels
    <3> QED
      BY <1>1, <1>2, <3>1
  <2>3. /\ head \in Pointers /\ Len(node) <= MaxConn /\ freed \subseteq 1 .. Len(node)
        /\ gone \subseteq 1 .. conns /\ watched \subseteq 1 .. conns
        /\ conns \in 0 .. MaxConn /\ replaced \in BOOLEAN
    <3>1. head \in Pointers /\ freed \subseteq 1 .. Len(node)
      BY <1>1, <1>2 DEF Pointers
    <3>2. Len(node) <= MaxConn /\ conns \in 0 .. MaxConn
      BY <1>1, <1>2, Bounds
    <3> QED
      BY <1>1, <3>1, <3>2
  <2> QED
    BY <2>1, <2>2, <2>3 DEF TypeOK
<1>6. OwnCode
  <2> SUFFICES ASSUME NEW t \in Threads
               PROVE  NoLocals.call \in CallsOf(t) /\ Idle(t) \in LabelsOf(t, NoLocals.call)
    BY <1>3 DEF OwnCode
  <2>1. NoLocals.call = "none"
    BY DEF NoLocals
  <2> QED
    BY <2>1, Kinds DEF CallsOf, LabelsOf
<1>7. /\ Listed = {} /\ Alive(head) /\ \A n : Alive(n) <=> n = 1
  BY <1>1, <1>2 DEF Listed, Alive
<1>8. ListShape /\ HeadFirst /\ NextChain /\ PrevChain /\ FirstPrev
  BY <1>1, <1>2, <1>7 DEF ListShape, HeadFirst, NextChain, PrevChain, FirstPrev
<1>9. RightBranch /\ Contents /\ EmptyHead /\ Appends
  <2>1. RightBranch
    BY <1>4, Kinds DEF RightBranch
  <2>2. Contents
    BY <1>2 DEF Contents
  <2>3. EmptyHead
    <3>1. /\ node[head].next = Null /\ node[head].prev = Null /\ node[head].fd = 0
          /\ node[head].client = Null
      BY <1>1, <1>2 DEF Empty
    <3>2. pc[Main] \notin {"fillClient", "fillNext", "fillPrev"}
      BY <1>4, Kinds DEF Adding
    <3> QED
      BY <3>1, <3>2 DEF EmptyHead
  <2>4. Appends
    BY <1>4, Kinds DEF Appends
  <2> QED
    BY <2>1, <2>2, <2>3, <2>4
<1>10. NodeCount /\ GoneHeld
  BY <1>1, <1>2 DEF NodeCount, GoneHeld
<1>11. Held /\ Looked /\ NotPassed /\ Unseen
  <2>1. \A t \in Threads :
          /\ loc[t].call = "none" /\ loc[t].walk = Null /\ Mine(t) = Null /\ ~Alive(Null)
          /\ pc[t] \notin Walking \cup {"age", "freeClient", "client", "match", "step"}
    <3>1. NoLocals.call = "none" /\ NoLocals.walk = Null /\ 1 # Null
      BY <1>2, Bounds DEF NoLocals
    <3> QED
      BY <1>3, <1>4, <1>7, <3>1
  <2>2. pc[Main] # "addLink"
    BY <1>4, Kinds DEF Adding
  <2> QED
    BY <2>1, <2>2, Kinds DEF Held, KeptBy, Looked, NotPassed, Unseen
<1> QED
  BY <1>1, <1>5, <1>6, <1>7, <1>8, <1>9, <1>10, <1>11 
     DEF RacesInv, Good, StaleOnlyIfHeld, NullOnlyAtHead, NeverMisled

LEMMA NextKeeps ==
  ASSUME RacesInv, [Next]_vars
  PROVE  RacesInv'
<1>1. CASE MainStep
  BY <1>1, MainStepKeeps
<1>2. CASE HeartStep
  BY <1>2, HeartStepKeeps
<1>3. ASSUME NEW t \in Callers, Search(t)
      PROVE  RacesInv'
  BY <1>3, SearchKeeps
<1>4. ASSUME NEW t \in Closers, WalkStep(t) \/ CloseStep(t)
      PROVE  RacesInv'
  BY <1>4, WalkStepKeeps, CloseStepKeeps
<1>5. ASSUME NEW t \in Threads, Undefined(t)
      PROVE  RacesInv'
  BY <1>5, UndefinedKeeps
<1>6. CASE UNCHANGED vars
  BY <1>6, StutterKeeps
<1> QED
  BY <1>1, <1>2, <1>3, <1>4, <1>5, <1>6 DEF Next

(* The inductive invariant: as long as no two calls change neighbouring    *)
(* nodes at once and fd2clients has not been left behind, the nodes in use *)
(* are linked as the calls under way have got with them, and each thread   *)
(* knows of its node what it needs (spider_function.c:80-226).             *)
THEOREM RacesInvariant == Spec => []RacesInv
<1>1. Init => RacesInv
  BY InitialInv
<1>2. RacesInv /\ [Next]_vars => RacesInv'
  BY NextKeeps
<1> QED
  BY <1>1, <1>2, PTL DEF Spec

-----------------------------------------------------------------------------
(* What the invariant says of the walks and of what goes wrong.            *)

(* From the head next leads through the nodes in use: to each of them, or  *)
(* past one that a thread deletes.                                         *)
LEMMA WalkInUse ==
  ASSUME RacesInv, ~Clash, Alive(head)
  PROVE  /\ Closed({n \in Nodes : Alive(n)})
         /\ \A S \in SUBSET {n \in Nodes : Alive(n)} :
              Closed(S) => {n \in Listed : Settled(n)} \subseteq S
<1>1. /\ TypeOK /\ ListShape /\ HeadFirst /\ NextChain /\ EmptyHead /\ Appends
  BY DEF RacesInv, Good
<1>2. /\ Len(order) \in Nat /\ order \in Seq(Nodes) /\ Listed \subseteq Nodes
      /\ \A i \in 1 .. Len(order) : order[i] \in Listed /\ Alive(order[i])
  BY <1>1 DEF TypeOK, ListShape, Listed
<1>3. head \in Nodes
  <2>1. Len(node) \in Nat /\ Len(node) <= MaxConn /\ head \in 1 .. Len(node)
    BY <1>1 DEF TypeOK, Alive
  <2> QED
    BY <2>1, Bounds
<1>4. ASSUME NEW n \in Nodes, Alive(n)
      PROVE  node[n].next \in {m \in Nodes : Alive(m)} \cup {Null}
  <2> DEFINE C == Listed \cup {head}
  <2>1. \A m \in C : Alive(m)
    BY <1>2 DEF Listed
  <2>2. ASSUME NEW m \in C
        PROVE  node[m].next \in C \cup {Null}
    <3>1. ASSUME NEW i \in 1 .. Len(order), m = order[i]
          PROVE  node[m].next \in C \cup {Null}
      <4>1. node[m].next \in {OrderAt(i + 1), OrderAt(i + 2)}
        BY <1>1, <3>1 DEF NextChain
      <4>2. \A k \in {i + 1, i + 2} : OrderAt(k) \in Listed \cup {Null}
        BY <1>2 DEF OrderAt
      <4> QED
        BY <4>1, <4>2
    <3>2. CASE m \in Listed
      BY <3>1, <3>2 DEF Listed
    <3>3. CASE m = head /\ order = << >>
      BY <1>1, <3>3 DEF EmptyHead
    <3>4. CASE m = head /\ order # << >>
      <4>1. 1 \in 1 .. Len(order) /\ (Len(order) > 1 => 2 \in 1 .. Len(order))
        BY <1>2, <3>4
      <4>2. m \in Listed
        BY <1>1, <1>2, <3>4, <4>1 DEF HeadFirst
      <4> QED
        BY <3>1, <4>2 DEF Listed
    <3> QED
      BY <3>2, <3>3, <3>4
  <2>3. CASE n \in C
    BY <1>2, <1>3, <2>1, <2>2, <2>3
  <2>4. CASE n \notin C
    <3>1. n = loc[Main].ptr /\ pc[Main] = "addLink"
      BY <1>1, <1>4, <2>4 DEF ListShape
    <3> QED
      BY <1>1, <3>1 DEF Appends, Adding
  <2> QED
    BY <2>3, <2>4
<1>5. ASSUME NEW S \in SUBSET {m \in Nodes : Alive(m)}, Closed(S), NEW n \in Listed, Settled(n)
      PROVE  n \in S
  <2> DEFINE Q == {i \in 1 .. Len(order) :
                     \/ order[i] \in S
                     \/ InDeletion(order[i]) /\ (i < Len(order) => order[i + 1] \in S)}
  <2>1. Len(order) > 0 => 1 \in Q
    <3> SUFFICES ASSUME Len(order) > 0
                 PROVE  1 \in Q
      OBVIOUS
    <3>1. 1 \in 1 .. Len(order) /\ order # << >> /\ head \in S
      BY <1>2, <1>5 DEF Closed
    <3>2. CASE PassedOver(order[1])
      <4>1. InDeletion(order[1])
        BY <3>2 DEF PassedOver, InDeletion, Deleter, Deleting
      <4>2. head = order[2]
        BY <1>1, <3>1, <3>2 DEF HeadFirst
      <4> QED
        BY <3>1, <4>1, <4>2
    <3>3. CASE ~PassedOver(order[1])
      BY <1>1, <3>1, <3>3 DEF HeadFirst
    <3> QED
      BY <3>2, <3>3
  <2>2. ASSUME NEW i \in 1 .. Len(order) - 1, i \in Q
        PROVE  i + 1 \in Q
    <3>1. i \in 1 .. Len(order) /\ i + 1 \in 1 .. Len(order) /\ i < Len(order)
      BY <1>2
    <3>2. CASE order[i] \in S
      <4>1. node[order[i]].next \in S \cup {Null}
        BY <1>2, <1>5, <3>1, <3>2 DEF Closed
      <4>2. node[order[i]].next =
              IF Bridged(order[i + 1]) THEN OrderAt(i + 2) ELSE OrderAt(i + 1)
        BY <1>1, <3>1 DEF NextChain
      <4>3. \A k \in 1 .. Len(order) : OrderAt(k) = order[k] /\ OrderAt(k) # Null
        BY <1>2, Bounds DEF OrderAt
      <4>4. CASE Bridged(order[i + 1])
        <5>1. InDeletion(order[i + 1])
          BY <4>4 DEF Bridged, InDeletion, Deleter, Deleting
        <5>2. i + 1 < Len(order) => (i + 1) + 1 = i + 2 /\ i + 2 \in 1 .. Len(order)
          BY <1>2, <3>1
        <5>3. i + 1 < Len(order) => order[(i + 1) + 1] \in S
          BY <4>1, <4>2, <4>3, <4>4, <5>2
        <5> QED
          BY <3>1, <5>1, <5>3
      <4>5. CASE ~Bridged(order[i + 1])
        BY <3>1, <4>1, <4>2, <4>3, <4>5
      <4> QED
        BY <4>4, <4>5
    <3>3. CASE order[i] \notin S
      BY <2>2, <3>1, <3>3
    <3> QED
      BY <3>2, <3>3
  <2> HIDE DEF Q
  <2>3. 1 .. Len(order) \subseteq Q
    BY <1>2, <2>1, <2>2, UpTo
  <2>4. PICK i \in 1 .. Len(order) : order[i] = n
    BY DEF Listed
  <2>5. ~InDeletion(n)
    BY <1>5 DEF Settled, InDeletion, Deleter
  <2> QED
    BY <2>3, <2>4, <2>5 DEF Q
<1> QED
  BY <1>3, <1>4, <1>5 DEF Closed

(* Without a lock the list survives every interleaving in which no two     *)
(* calls change neighbouring nodes at once, for any number of threads and  *)
(* connections: a walk from fd2clients comes to no freed node, and to      *)
(* every client that nobody closes (spider_function.c:80-139).             *)
THEOREM WalksStayInUse == Spec => []ListSurvives
<1>1. RacesInv => ListSurvives
  <2>1. RacesInv => (~Clash => Alive(head) \/ replaced)
    BY DEF RacesInv
  <2> QED
    BY <2>1, WalkInUse DEF ListSurvives
<1> QED
  BY <1>1, RacesInvariant, PTL

(* A thread uses a freed node only if it held it as it was freed, and a    *)
(* freed client only in the node that another thread deletes               *)
(* (spider_function.c:90-93,144-182,209-224, spider_tcp_server.c:252-262). *)
THEOREM StaleNodesWereHeld == Spec => []StaleOnlyIfHeld
<1>1. RacesInv => StaleOnlyIfHeld
  BY DEF RacesInv
<1> QED
  BY <1>1, RacesInvariant, PTL

(* A node without a client is met at the head only, as the list is empty   *)
(* or its one node is filled or emptied (spider_function.c:84-88,121-125,  *)
(* 176).                                                                   *)
THEOREM NoClientButAtHead == Spec => []NullOnlyAtHead
<1>1. RacesInv => NullOnlyAtHead
  BY DEF RacesInv
<1> QED
  BY <1>1, RacesInvariant, PTL

(* is_exists_fd finds every socket that is listed and that nobody closes,  *)
(* and answers with another one's client only if its node was emptied and  *)
(* filled again meanwhile (spider_function.c:144-154).                     *)
THEOREM AnswersAreTrue == Spec => []NeverMisled
<1>1. RacesInv => NeverMisled
  BY DEF RacesInv
<1> QED
  BY <1>1, RacesInvariant, PTL

=============================================================================
