-------------------------- MODULE ChatServerProofs --------------------------
(***************************************************************************)
(* Proofs of the safety properties of ChatServer, for any number of        *)
(* workers, sockets, connections, packets and rounds of the heartbeat.     *)
(* They are about a list whose operations are one step and that stays      *)
(* intact, as ChatServer has it.                                           *)
(***************************************************************************)
EXTENDS ChatServer, SequenceTheorems, TLAPS

-----------------------------------------------------------------------------
(* The threads and their labels.                                           *)

LEMMA ThreadsLabels ==
  /\ Main \in Threads /\ LabelsOf(Main) = {"accept", "add", "watch"}
  /\ Epoll \in Threads
  /\ LabelsOf(Epoll) = {"wait", "lookup", "closeUnknown", "recv", "newTask"} \cup Closing
  /\ Heart \in Threads /\ LabelsOf(Heart) = {"sleep", "walk", "free", "delete", "close"}
  /\ \A w \in Workers :
        /\ w \in Threads /\ w # Main /\ w # Epoll /\ w # Heart
        /\ LabelsOf(w) = {"idle", "lock", "handle", "seek", "deliver", "reply", "unlock"} \cup Closing
BY ServerAssumption DEF Threads, LabelsOf

-----------------------------------------------------------------------------
(* A step that moves one thread.                                           *)

Moves(t, label, r) ==
    /\ pc' = [pc EXCEPT ![t] = label]
    /\ loc' = [loc EXCEPT ![t] = r]

(* The other threads keep their labels and locals.                         *)
LEMMA StepLocals ==
  ASSUME ServerInv,
         NEW t \in Threads, NEW label \in LabelsOf(t), NEW r \in Locals,
         Moves(t, label, r), UNCHANGED <<conns, fdOf>>,
         Fits(t, label, r)
  PROVE  /\ pc' \in [Threads -> Labels] /\ loc' \in [Threads -> Locals]
         /\ OwnLabels' /\ LocalsByPc'
<1>1. pc \in [Threads -> Labels] /\ loc \in [Threads -> Locals]
  BY DEF ServerInv, TypeOK
<1>2. label \in Labels
  BY DEF LabelsOf, Labels, Closing
<1>3. pc' \in [Threads -> Labels] /\ loc' \in [Threads -> Locals]
  BY <1>1, <1>2 DEF Moves
<1>4. ASSUME NEW u \in Threads
      PROVE  /\ pc'[u] = IF u = t THEN label ELSE pc[u]
             /\ loc'[u] = IF u = t THEN r ELSE loc[u]
  BY <1>1 DEF Moves
<1>5. ASSUME NEW u \in Threads
      PROVE  pc'[u] \in LabelsOf(u)
  BY <1>4, <1>5 DEF ServerInv, OwnLabels
<1>6. ASSUME NEW u \in Threads
      PROVE  Fits(u, pc[u], loc[u])'
  <2>1. CASE u = t
    BY <2>1, <1>4 DEF Fits, Points
  <2>2. CASE u # t
    <3>1. Fits(u, pc[u], loc[u])
      BY DEF ServerInv, LocalsByPc
    <3>2. pc'[u] = pc[u] /\ loc'[u] = loc[u]
      BY <2>2, <1>4
    <3> QED
      BY <3>1, <3>2 DEF Fits, Points
  <2> QED
    BY <2>1, <2>2
<1> QED
  BY <1>3, <1>5, <1>6 DEF OwnLabels, LocalsByPc, LabelsOf

(* A step that neither takes part in a close nor lists a client leaves the *)
(* registry as it is.                                                      *)
Calm(t, label) ==
    /\ UNCHANGED <<sock, conns, fdOf, list, freed, unknown>>
    /\ watched' \subseteq 1 .. conns
    /\ watched' \subseteq watched \/ t = Main
    /\ \A n \in Conn : n > conns => age'[n] = 0
    /\ pc[t] \notin {"add", "free", "delete", "close"}
    /\ label \notin {"add", "delete", "close"}

LEMMA CalmStep ==
  ASSUME ServerInv,
         NEW t \in Threads, NEW label \in LabelsOf(t), NEW r \in Locals,
         Moves(t, label, r), Calm(t, label)
  PROVE  /\ OnlyAccepted' /\ ListedOnce' /\ NotListedYet' /\ OneFrees' /\ OwnSocket'
         /\ ListTellsTruth' /\ ListedOrFreed' /\ SocketsAccounted'
<1>1. pc \in [Threads -> Labels] /\ loc \in [Threads -> Locals]
  BY DEF ServerInv, TypeOK
<1>2. ASSUME NEW u \in Threads
      PROVE  /\ pc'[u] = IF u = t THEN label ELSE pc[u]
             /\ loc'[u] = IF u = t THEN r ELSE loc[u]
  BY <1>1 DEF Moves
<1>3. Main \in Threads
  BY DEF Threads
<1>4. OnlyAccepted'
  BY DEF ServerInv, OnlyAccepted, Calm, Points
<1>5. ListedOnce' /\ ListTellsTruth'
  BY DEF ServerInv, ListedOnce, ListTellsTruth, Calm
<1>6. NotListedYet'
  BY <1>2, <1>3 DEF ServerInv, NotListedYet, Calm
<1>7. ASSUME NEW u \in Threads
      PROVE  pc'[u] \in {"delete", "close"} =>
                 pc[u] = pc'[u] /\ loc[u] = loc'[u]
  BY <1>2 DEF Calm
<1>8. ASSUME NEW u \in Threads
      PROVE  pc[u] \in {"add", "free", "delete", "close"} =>
                 pc[u] = pc'[u] /\ loc[u] = loc'[u]
  BY <1>2 DEF Calm
<1>9. pc'[Main] = "add" => pc[Main] = "add" /\ loc[Main] = loc'[Main]
  BY <1>2, <1>3 DEF Calm
<1>10. OneFrees'
  BY <1>7 DEF ServerInv, OneFrees, Calm
<1>11. OwnSocket'
  BY <1>7, <1>9 DEF ServerInv, OwnSocket, Calm
<1>12. ListedOrFreed'
  BY <1>7, <1>8, <1>9, <1>3 DEF ServerInv, ListedOrFreed, Listed, Calm
<1>13. SocketsAccounted'
  BY <1>7, <1>8, <1>9, <1>3 DEF ServerInv, SocketsAccounted, Listed, Calm
<1> QED
  BY <1>4, <1>5, <1>6, <1>10, <1>11, <1>12, <1>13

(* What TypeOK says of all but the threads.                                *)
DataTyped ==
    /\ sock \in [Fds -> Conn \cup {0}]
    /\ watched \subseteq Conn /\ ready \subseteq watched
    /\ inbox \in [Conn -> Seq(Cmds)]
    /\ peer \in [Conn -> {"none", "open", "closed"}]
    /\ waiting \subseteq Conn
    /\ sent \in 0 .. MaxPackets /\ conns \in 0 .. MaxConn
    /\ fdOf \in [Conn -> Fds \cup {0}]
    /\ list \in Seq(Conn)
    /\ freed \subseteq Conn /\ logged \subseteq Conn
    /\ mutex \in [Conn -> Threads \cup {None}]
    /\ age \in [Conn -> 0 .. Timeout + 1]
    /\ queue \in Seq(Tasks)
    /\ walk \in Conn \cup {0} /\ rounds \in 0 .. MaxRounds
    /\ broken \in {"no", "own", "other"}
    /\ unknown \in BOOLEAN /\ misrouted \in BOOLEAN

LEMMA CalmInv ==
  ASSUME ServerInv,
         NEW t \in Threads, NEW label \in LabelsOf(t), NEW r \in Locals,
         Moves(t, label, r), Calm(t, label), Fits(t, label, r),
         DataTyped', QueuedPoint', LockHeld'
  PROVE  ServerInv'
<1>1. UNCHANGED <<conns, fdOf>>
  BY DEF Calm
<1>2. /\ pc' \in [Threads -> Labels] /\ loc' \in [Threads -> Locals]
      /\ OwnLabels' /\ LocalsByPc'
  BY <1>1, StepLocals
<1>3. TypeOK'
  BY <1>2 DEF TypeOK, DataTyped
<1>4. /\ OnlyAccepted' /\ ListedOnce' /\ NotListedYet' /\ OneFrees' /\ OwnSocket'
      /\ ListTellsTruth' /\ ListedOrFreed' /\ SocketsAccounted'
  BY CalmStep
<1> QED
  BY <1>2, <1>3, <1>4 DEF ServerInv

(* Nor does a step touch the locks in which no worker passes one.          *)
Quiet(t, label, r) ==
    /\ Calm(t, label) /\ UNCHANGED mutex
    /\ t \in Workers =>
        \/ label \in {"idle", "lock"}
        \/ pc[t] \notin {"idle", "lock"} /\ r.client = loc[t].client

LEMMA QuietInv ==
  ASSUME ServerInv,
         NEW t \in Threads, NEW label \in LabelsOf(t), NEW r \in Locals,
         Moves(t, label, r), Quiet(t, label, r), Fits(t, label, r),
         DataTyped', QueuedPoint'
  PROVE  ServerInv'
<1>1. ASSUME NEW u \in Threads
      PROVE  /\ pc'[u] = IF u = t THEN label ELSE pc[u]
             /\ loc'[u] = IF u = t THEN r ELSE loc[u]
  BY DEF Moves, ServerInv, TypeOK
<1>2. LockHeld'
  <2>1. ASSUME NEW w \in Workers,
               pc'[w] \notin {"idle", "lock"}, mutex'[Mine(w)'] # w, Mine(w)' \notin freed'
        PROVE  \E u \in Threads : pc'[u] = "free" /\ loc'[u].node = Mine(w)'
    <3>1. w \in Threads
      BY DEF Threads
    <3>2. pc[w] \notin {"idle", "lock"} /\ Mine(w)' = Mine(w)
      BY <3>1, <2>1, <1>1 DEF Mine, Quiet
    <3>3. PICK u \in Threads : pc[u] = "free" /\ loc[u].node = Mine(w)
      BY <3>2, <2>1 DEF ServerInv, LockHeld, Quiet, Calm
    <3> QED
      BY <3>2, <3>3, <1>1 DEF Quiet, Calm
  <2> QED
    BY <2>1 DEF LockHeld
<1> QED
  BY <1>2, CalmInv DEF Quiet

(* What the invariant says of a thread and of the data.                    *)
LEMMA Local ==
  ASSUME ServerInv, NEW t \in Threads
  PROVE  pc[t] \in LabelsOf(t) /\ loc[t] \in Locals /\ Fits(t, pc[t], loc[t])
BY DEF ServerInv, TypeOK, OwnLabels, LocalsByPc

LEMMA Typed ==
  ASSUME ServerInv
  PROVE  DataTyped /\ pc \in [Threads -> Labels] /\ loc \in [Threads -> Locals]
BY DEF ServerInv, TypeOK, DataTyped

LEMMA Accepted ==
  ASSUME ServerInv
  PROVE  conns \in Nat /\ 1 .. conns \subseteq Conn
BY Typed, ServerAssumption DEF DataTyped, Conn

(* The open file behind the event the epoll thread looks at.               *)
LEMMA EventConn ==
  ASSUME ServerInv, pc[Epoll] \in {"lookup", "recv"}, sock[loc[Epoll].fd] # 0
  PROVE  sock[loc[Epoll].fd] \in Conn
<1>1. Epoll \in Threads
  BY ThreadsLabels
<1>2. pc[Epoll] \notin Resting
  BY DEF Resting
<1>3. loc[Epoll].fd \in Fds
  BY <1>1, <1>2, Local DEF Fits
<1>4. sock \in [Fds -> Conn \cup {0}]
  BY Typed DEF DataTyped
<1>5. sock[loc[Epoll].fd] \in Conn \cup {0}
  BY ONLY <1>3, <1>4, Zenon
<1> QED
  BY <1>5

LEMMA RestLocals == NoLocals \in Locals
BY DEF NoLocals, Locals

(* A step that changes a thread's label only, and data of no interest here.*)
LEMMA LabelInv ==
  ASSUME ServerInv,
         NEW t \in Threads, NEW label \in LabelsOf(t),
         pc' = [pc EXCEPT ![t] = label],
         UNCHANGED <<sock, watched, conns, fdOf, list, freed, mutex, queue, loc, unknown>>,
         \A n \in Conn : n > conns => age'[n] = 0,
         pc[t] \notin {"add", "free", "delete", "close"},
         label \notin {"add", "delete", "close"},
         t \in Workers => label \in {"idle", "lock"} \/ pc[t] \notin {"idle", "lock"},
         Fits(t, label, loc[t]), DataTyped'
  PROVE  ServerInv'
<1>1. loc[t] \in Locals
  BY Local
<1>2. Moves(t, label, loc[t])
  BY Typed DEF Moves
<1>3. Quiet(t, label, loc[t])
  BY DEF Quiet, Calm, ServerInv, OnlyAccepted
<1>4. QueuedPoint'
  BY DEF ServerInv, QueuedPoint, Points
<1> QED
  BY <1>1, <1>2, <1>3, <1>4, QuietInv

-----------------------------------------------------------------------------
(* The steps that leave the registry as it is.                             *)

LEMMA WatchStep ==
  ASSUME ServerInv, Watch
  PROVE  ServerInv'
<1> DEFINE n == loc[Main].client
           open == {n} \cap {sock[loc[Main].fd]}
<1>1. Main \in Threads /\ "accept" \in LabelsOf(Main) /\ NoLocals \in Locals
  BY ThreadsLabels, RestLocals
<1>2. Moves(Main, "accept", NoLocals)
  BY DEF Watch, Goto, Moves
<1>3. Fits(Main, "accept", NoLocals)
  BY <1>1, ServerAssumption, ThreadsLabels DEF Fits, Resting, WithNode
<1>4. n \in 1 .. conns
  BY <1>1, Local, ServerAssumption DEF Watch, Running, Fits, Resting, Points
<1>5. Quiet(Main, "accept", NoLocals)
  BY <1>1, <1>4, ThreadsLabels
     DEF Watch, Running, Quiet, Calm, clientVars, historyVars, ServerInv, OnlyAccepted
<1>6. DataTyped'
  <2>1. DataTyped /\ 1 .. conns \subseteq Conn
    BY Typed, Accepted
  <2>2. watched' \subseteq Conn /\ ready' \subseteq watched'
    BY <1>4, <2>1 DEF Watch, DataTyped
  <2> QED
    BY <2>1, <2>2 DEF Watch, DataTyped, peerVars, clientVars, historyVars
<1>7. QueuedPoint'
  BY DEF Watch, clientVars, ServerInv, QueuedPoint, Points
<1> QED
  BY <1>1, <1>2, <1>3, <1>5, <1>6, <1>7, QuietInv

LEMMA WaitStep ==
  ASSUME ServerInv, Wait
  PROVE  ServerInv'
<1>1. PICK f \in Fds : /\ loc' = [loc EXCEPT ![Epoll].fd = f]
                       /\ ready' = ready \ {sock[f]}
  BY DEF Wait
<1> DEFINE r == [loc[Epoll] EXCEPT !.fd = f]
<1>2. Epoll \in Threads /\ "lookup" \in LabelsOf(Epoll)
  BY ThreadsLabels
<1>3. loc[Epoll] = NoLocals
  BY <1>2, Local DEF Wait, Running, Fits, Resting
<1>4. r \in Locals
  BY <1>3, RestLocals DEF Locals
<1>5. Moves(Epoll, "lookup", r)
  BY <1>1 DEF Wait, Goto, Moves
<1>6. Fits(Epoll, "lookup", r)
  BY <1>3, ThreadsLabels DEF Fits, Resting, WithNode, NoLocals
<1>7. Quiet(Epoll, "lookup", r)
  BY ThreadsLabels DEF Wait, Running, Quiet, Calm, clientVars, historyVars, ServerInv, OnlyAccepted
<1>8. DataTyped'
  BY <1>1, Typed DEF Wait, DataTyped, peerVars, clientVars, historyVars
<1>9. QueuedPoint'
  BY DEF Wait, clientVars, ServerInv, QueuedPoint, Points
<1> QED
  BY <1>2, <1>4, <1>5, <1>6, <1>7, <1>8, <1>9, QuietInv

LEMMA LookupFailsStep ==
  ASSUME ServerInv, LookupFails
  PROVE  ServerInv'
<1>1. Epoll \in Threads /\ pc[Epoll] = "lookup" /\ "closeUnknown" \in LabelsOf(Epoll)
  BY ThreadsLabels DEF LookupFails, Running, Closing
<1>2. Fits(Epoll, "closeUnknown", loc[Epoll])
  BY <1>1, Local DEF Fits, Resting, WithNode
<1>3. DataTyped'
  BY Typed DEF LookupFails, DataTyped, kernelVars, peerVars, clientVars, historyVars
<1> QED
  BY <1>1, <1>2, <1>3, LabelInv
     DEF LookupFails, Goto, kernelVars, clientVars, historyVars, ServerInv, OnlyAccepted

LEMMA RecvFailsStep ==
  ASSUME ServerInv, RecvFails
  PROVE  ServerInv'
<1>1. Epoll \in Threads /\ pc[Epoll] = "recv" /\ "callClose" \in LabelsOf(Epoll)
  BY ThreadsLabels DEF RecvFails, Running, Closing
<1>2. Fits(Epoll, "callClose", loc[Epoll])
  BY <1>1, Local DEF Fits, Resting, WithNode
<1>3. DataTyped'
  BY Typed DEF RecvFails, DataTyped, kernelVars, peerVars, clientVars, historyVars
<1> QED
  BY <1>1, <1>2, <1>3, LabelInv
     DEF RecvFails, Goto, kernelVars, clientVars, historyVars, ServerInv, OnlyAccepted

LEMMA NewTaskFailsStep ==
  ASSUME ServerInv, NewTaskFails
  PROVE  ServerInv'
<1>1. Epoll \in Threads /\ pc[Epoll] = "newTask" /\ "callClose" \in LabelsOf(Epoll)
  BY ThreadsLabels DEF NewTaskFails, Running, Closing
<1>2. Fits(Epoll, "callClose", loc[Epoll])
  BY <1>1, Local DEF Fits, Resting, WithNode
<1>3. DataTyped'
  BY Typed DEF NewTaskFails, DataTyped, kernelVars, peerVars, clientVars, historyVars
<1> QED
  BY <1>1, <1>2, <1>3, LabelInv
     DEF NewTaskFails, Goto, kernelVars, clientVars, historyVars, ServerInv, OnlyAccepted

LEMMA WalkEndsStep ==
  ASSUME ServerInv, WalkEnds
  PROVE  ServerInv'
<1>1. Heart \in Threads /\ pc[Heart] = "walk" /\ "sleep" \in LabelsOf(Heart)
  BY ThreadsLabels DEF WalkEnds, Running
<1>2. Fits(Heart, "sleep", loc[Heart])
  BY <1>1, Local, ThreadsLabels DEF Fits, Resting, WithNode
<1>3. DataTyped'
  BY Typed DEF WalkEnds, DataTyped, kernelVars, peerVars, clientVars, historyVars
<1> QED
  BY <1>1, <1>2, <1>3, ThreadsLabels, LabelInv
     DEF WalkEnds, Goto, kernelVars, clientVars, historyVars, ServerInv, OnlyAccepted

LEMMA TickStep ==
  ASSUME ServerInv, Tick
  PROVE  ServerInv'
<1>1. Heart \in Threads /\ pc[Heart] = "sleep" /\ "walk" \in LabelsOf(Heart)
  BY ThreadsLabels DEF Tick, Running
<1>2. Fits(Heart, "walk", loc[Heart])
  BY <1>1, Local, ThreadsLabels DEF Fits, Resting, WithNode
<1>3. DataTyped
  BY Typed
<1>4. age' \in [Conn -> 0 .. Timeout + 1]
  <2>1. \A n \in Conn : age[n] \in 0 .. Timeout + 1
    BY <1>3 DEF DataTyped
  <2>2. \A n \in Conn : age[n] <= Timeout => age[n] + 1 \in 0 .. Timeout + 1
    BY <2>1, ServerAssumption
  <2> QED
    BY <2>1, <2>2 DEF Tick
<1>5. walk' \in Conn \cup {0}
  <2>1. list # << >> => 1 \in 1 .. Len(list)
    BY <1>3, EmptySeq DEF DataTyped
  <2>2. list # << >> => list[1] \in Conn
    BY <1>3, <2>1, ElementOfSeq DEF DataTyped
  <2> QED
    BY <2>2 DEF Tick
<1>6. rounds' \in 0 .. MaxRounds
  BY <1>3, ServerAssumption DEF Tick, DataTyped
<1>7. DataTyped'
  BY <1>3, <1>4, <1>5, <1>6 DEF Tick, DataTyped, kernelVars, peerVars
<1>8. \A n \in Conn : n > conns => age'[n] = 0
  <2>1. ASSUME NEW n \in Conn, IsOpen(n)
        PROVE  n \in 1 .. conns
    BY <2>1, ServerAssumption DEF IsOpen, ServerInv, OnlyAccepted, Points, Conn
  <2>2. ASSUME NEW n \in Conn, n > conns
        PROVE  ~IsOpen(n) /\ age[n] = 0
    BY <2>1, <2>2, Accepted DEF ServerInv, OnlyAccepted
  <2> QED
    BY <2>2 DEF Tick
<1> QED
  BY <1>1, <1>2, <1>7, <1>8, ThreadsLabels, LabelInv
     DEF Tick, Goto, kernelVars

LEMMA CallCloseStep ==
  ASSUME ServerInv, NEW t \in Threads, CallClose(t)
  PROVE  ServerInv'
<1>1. pc[t] = "callClose" /\ pc[t] \in LabelsOf(t)
  BY Local DEF CallClose, Running
<1>2. t # Main /\ t # Heart /\ "find" \in LabelsOf(t)
  BY <1>1, ThreadsLabels DEF LabelsOf, Closing
<1>3. Fits(t, "find", loc[t])
  BY <1>1, Local DEF Fits, Resting, WithNode
<1>4. DataTyped'
  BY Typed DEF CallClose, DataTyped, kernelVars, peerVars, clientVars, historyVars
<1> QED
  BY <1>1, <1>2, <1>3, <1>4, LabelInv
     DEF CallClose, Goto, kernelVars, clientVars, historyVars, ServerInv, OnlyAccepted

LEMMA HandleLoginStep ==
  ASSUME ServerInv, NEW w \in Workers, HandleLogin(w)
  PROVE  ServerInv'
<1>1. w \in Threads /\ pc[w] = "handle" /\ "reply" \in LabelsOf(w)
  BY ThreadsLabels DEF HandleLogin, Handling, Running
<1>2. Fits(w, "reply", loc[w])
  BY <1>1, Local DEF Fits, Resting, WithNode
<1>3. DataTyped'
  <2>1. Mine(w) \in Conn
    BY <1>1, Local, Accepted, ThreadsLabels DEF Mine, Fits, Points, Resting
  <2> QED
    BY <2>1, Typed DEF HandleLogin, DataTyped, kernelVars, peerVars, historyVars
<1> QED
  BY <1>1, <1>2, <1>3, LabelInv
     DEF HandleLogin, Goto, kernelVars, clientVars, historyVars, ServerInv, OnlyAccepted

LEMMA HandleHeartbeatStep ==
  ASSUME ServerInv, NEW w \in Workers, HandleHeartbeat(w)
  PROVE  ServerInv'
<1>1. w \in Threads /\ pc[w] = "handle" /\ "reply" \in LabelsOf(w)
  BY ThreadsLabels DEF HandleHeartbeat, Handling, Running
<1>2. Fits(w, "reply", loc[w])
  BY <1>1, Local DEF Fits, Resting, WithNode
<1>3. DataTyped
  BY Typed
<1>4. age' \in [Conn -> 0 .. Timeout + 1]
  <2>1. 0 \in 0 .. Timeout + 1
    BY ServerAssumption
  <2> QED
    BY <1>3, <2>1 DEF HandleHeartbeat, DataTyped
<1>5. DataTyped'
  BY <1>3, <1>4 DEF HandleHeartbeat, DataTyped, kernelVars, peerVars, historyVars
<1>6. \A n \in Conn : n > conns => age'[n] = 0
  BY <1>3 DEF HandleHeartbeat, DataTyped, ServerInv, OnlyAccepted
<1> QED
  BY <1>1, <1>2, <1>5, <1>6, LabelInv DEF HandleHeartbeat, Goto, kernelVars, historyVars

LEMMA HandleElseStep ==
  ASSUME ServerInv, NEW w \in Workers, HandleElse(w)
  PROVE  ServerInv'
<1>0. PICK next \in {<<"friends", "reply">>, <<"chat", "seek">>, <<"unknown", "unlock">>,
                     <<"badBeat", "callClose">>, <<"logout", "callClose">>} :
          Handling(w, next[1]) /\ Goto(w, next[2])
  BY DEF HandleElse
<1> DEFINE label == next[2]
<1>1. /\ label \in {"reply", "seek", "unlock", "callClose"}
      /\ pc[w] = "handle" /\ pc' = [pc EXCEPT ![w] = label]
  BY <1>0 DEF Handling, Running, Goto
<1> HIDE DEF label
<1>2. w \in Threads /\ label \in LabelsOf(w)
  BY <1>1, ThreadsLabels DEF Closing
<1>3. Fits(w, label, loc[w])
  BY <1>1, <1>2, Local DEF Fits, Resting, WithNode
<1>4. DataTyped'
  BY Typed DEF HandleElse, DataTyped, kernelVars, peerVars, clientVars, historyVars
<1> QED
  BY <1>1, <1>2, <1>3, <1>4, LabelInv
     DEF HandleElse, kernelVars, clientVars, historyVars, ServerInv, OnlyAccepted

LEMMA ReplyStep ==
  ASSUME ServerInv, NEW w \in Workers, Reply(w)
  PROVE  ServerInv'
<1>1. w \in Threads /\ pc[w] = "reply" /\ "unlock" \in LabelsOf(w)
  BY ThreadsLabels DEF Reply, Running
<1>2. Fits(w, "unlock", loc[w])
  BY <1>1, Local DEF Fits, Resting, WithNode
<1>3. DataTyped'
  BY Typed DEF Reply, DataTyped, kernelVars, clientVars
<1> QED
  BY <1>1, <1>2, <1>3, LabelInv DEF Reply, Goto, kernelVars, clientVars, ServerInv, OnlyAccepted

LEMMA FoundIsAccepted ==
  ASSUME ServerInv, NEW f \in Fds, NEW n \in Conn, Found(f, n)
  PROVE  Points(f, n) /\ Listed(n)
BY DEF Found, Points, Listed, ServerInv, OnlyAccepted

LEMMA LookupStep ==
  ASSUME ServerInv, Lookup
  PROVE  ServerInv'
<1>1. PICK n \in Conn : /\ Found(loc[Epoll].fd, n)
                        /\ loc' = [loc EXCEPT ![Epoll].client = n]
  BY DEF Lookup
<1> DEFINE r == [loc[Epoll] EXCEPT !.client = n]
<1>2. Epoll \in Threads /\ "recv" \in LabelsOf(Epoll) /\ pc[Epoll] = "lookup"
  BY ThreadsLabels DEF Lookup, Running
<1>3. loc[Epoll] \in Locals /\ loc[Epoll].fd \in Fds /\ loc[Epoll].node = 0
  BY <1>2, Local DEF Fits, Resting
<1>4. r \in Locals
  BY <1>3 DEF Locals
<1>5. Moves(Epoll, "recv", r)
  BY <1>1 DEF Lookup, Goto, Moves
<1>6. Points(loc[Epoll].fd, n)
  BY <1>1, <1>3, FoundIsAccepted
<1>7. Fits(Epoll, "recv", r)
  <2>1. r.fd = loc[Epoll].fd /\ r.node = loc[Epoll].node /\ r.client = n
    BY <1>3 DEF Locals
  <2> QED
    BY <2>1, <1>3, <1>6, ThreadsLabels DEF Fits, Resting, WithNode
<1>8. Quiet(Epoll, "recv", r)
  BY <1>2, ThreadsLabels
     DEF Lookup, Quiet, Calm, kernelVars, clientVars, historyVars, ServerInv, OnlyAccepted
<1>9. DataTyped'
  BY Typed DEF Lookup, DataTyped, kernelVars, peerVars, clientVars, historyVars
<1>10. QueuedPoint'
  BY DEF Lookup, clientVars, ServerInv, QueuedPoint, Points
<1> QED
  BY <1>2, <1>4, <1>5, <1>7, <1>8, <1>9, <1>10, QuietInv

LEMMA RecvStep ==
  ASSUME ServerInv, Recv
  PROVE  ServerInv'
<1> DEFINE n == sock[loc[Epoll].fd]
           r == [loc[Epoll] EXCEPT !.cmd = Head(inbox[n]), !.from = n]
<1>1. Epoll \in Threads /\ "newTask" \in LabelsOf(Epoll) /\ pc[Epoll] = "recv"
  BY ThreadsLabels DEF Recv, Running
<1>2. /\ loc[Epoll] \in Locals /\ loc[Epoll].fd \in Fds /\ loc[Epoll].node = 0
      /\ Points(loc[Epoll].fd, loc[Epoll].client)
  BY <1>1, Local, ThreadsLabels DEF Fits, Resting
<1>3. DataTyped
  BY Typed
<1>4. n \in Conn /\ inbox[n] # << >>
  BY <1>2, <1>3 DEF Recv, HasInput, DataTyped
<1>5. inbox[n] \in Seq(Cmds)
  BY <1>3, <1>4 DEF DataTyped
<1>6. Head(inbox[n]) \in Cmds /\ Tail(inbox[n]) \in Seq(Cmds)
  BY <1>4, <1>5, HeadTailProperties
<1>7. r \in Locals
  BY <1>2, <1>4, <1>6 DEF Locals
<1>8. Moves(Epoll, "newTask", r)
  BY <1>1, Typed DEF Recv, Goto, Moves
<1>9. Fits(Epoll, "newTask", r)
  <2>1. /\ r.fd = loc[Epoll].fd /\ r.node = loc[Epoll].node /\ r.client = loc[Epoll].client
        /\ r.cmd = Head(inbox[n]) /\ r.from = n
    BY <1>2 DEF Locals
  <2> QED
    BY <2>1, <1>2, <1>4, <1>6, ThreadsLabels DEF Fits, Resting, WithNode
<1>10. Quiet(Epoll, "newTask", r)
  BY <1>1, ThreadsLabels DEF Recv, Quiet, Calm, clientVars, ServerInv, OnlyAccepted
<1>11. DataTyped'
  <2>1. inbox' \in [Conn -> Seq(Cmds)]
    BY <1>3, <1>6 DEF Recv, DataTyped
  <2> QED
    BY <1>3, <2>1 DEF Recv, DataTyped, peerVars, clientVars
<1>12. QueuedPoint'
  BY DEF Recv, clientVars, ServerInv, QueuedPoint, Points
<1> QED
  BY <1>1, <1>7, <1>8, <1>9, <1>10, <1>11, <1>12, QuietInv

LEMMA NewTaskStep ==
  ASSUME ServerInv, NewTask
  PROVE  ServerInv'
<1>1. Epoll \in Threads /\ "wait" \in LabelsOf(Epoll) /\ pc[Epoll] = "newTask"
  BY ThreadsLabels DEF NewTask, Running
<1>2. /\ loc[Epoll] \in Locals /\ loc[Epoll].fd \in Fds /\ loc[Epoll].node = 0
      /\ Points(loc[Epoll].fd, loc[Epoll].client)
      /\ loc[Epoll].cmd \in Cmds /\ loc[Epoll].from \in Conn
  BY <1>1, Local, ThreadsLabels DEF Fits, Resting
<1>3. Moves(Epoll, "wait", NoLocals)
  BY DEF NewTask, Goto, Moves
<1>4. Fits(Epoll, "wait", NoLocals)
  BY <1>1, ThreadsLabels DEF Fits, Resting, WithNode
<1>5. Quiet(Epoll, "wait", NoLocals)
  BY <1>1, ThreadsLabels
     DEF NewTask, Quiet, Calm, kernelVars, clientVars, historyVars, ServerInv, OnlyAccepted
<1>6. loc[Epoll] \in Tasks
  <2>1. loc[Epoll].client \in Conn
    BY <1>2, Accepted DEF Points
  <2> QED
    BY <1>2, <2>1 DEF Tasks, Locals
<1>7. queue \in Seq(Tasks)
  BY Typed DEF DataTyped
<1>8. /\ queue' \in Seq(Tasks) /\ Len(queue') = Len(queue) + 1
      /\ \A i \in 1 .. Len(queue) : queue'[i] = queue[i]
      /\ queue'[Len(queue) + 1] = loc[Epoll]
  BY <1>6, <1>7, AppendProperties DEF NewTask
<1>9. DataTyped'
  BY <1>8, Typed DEF NewTask, DataTyped, kernelVars, peerVars, clientVars, historyVars
<1>10. QueuedPoint'
  <2>1. ASSUME NEW i \in 1 .. Len(queue')
        PROVE  Points(queue'[i].fd, queue'[i].client)
    <3>1. i \in 1 .. Len(queue) \/ i = Len(queue) + 1
      BY <1>7, <1>8
    <3> QED
      BY <3>1, <1>2, <1>8 DEF ServerInv, QueuedPoint
  <2> QED
    BY <2>1 DEF NewTask, clientVars, QueuedPoint, Points
<1> QED
  BY <1>1, <1>3, <1>4, <1>5, <1>9, <1>10, RestLocals, QuietInv

LEMMA FindStep ==
  ASSUME ServerInv, NEW t \in Threads, Find(t)
  PROVE  ServerInv'
<1>1. PICK n \in Conn : Found(loc[t].fd, n) /\ loc' = [loc EXCEPT ![t].node = n]
  BY DEF Find
<1> DEFINE r == [loc[t] EXCEPT !.node = n]
<1>2. pc[t] = "find" /\ pc[t] \in LabelsOf(t)
  BY Local DEF Find, Running
<1>3. t # Main /\ t # Heart /\ "unlockNode" \in LabelsOf(t)
  BY <1>2, ThreadsLabels DEF LabelsOf, Closing
<1>4. /\ loc[t] \in Locals /\ loc[t].fd \in Fds
      /\ Points(loc[t].fd, loc[t].client)
      /\ t \in Workers => loc[t].cmd \in Cmds /\ loc[t].from \in Conn
  BY <1>2, <1>3, Local DEF Fits, Resting
<1>5. Points(loc[t].fd, n)
  BY <1>1, <1>4, FoundIsAccepted
<1>6. r \in Locals
  BY <1>4 DEF Locals
<1>7. Moves(t, "unlockNode", r)
  BY <1>1, Typed DEF Find, Goto, Moves
<1>8. /\ r.fd = loc[t].fd /\ r.client = loc[t].client /\ r.node = n
      /\ r.cmd = loc[t].cmd /\ r.from = loc[t].from
  BY <1>4 DEF Locals
<1>9. Fits(t, "unlockNode", r)
  BY <1>4, <1>5, <1>8 DEF Fits, Resting
<1>10. Quiet(t, "unlockNode", r)
  BY <1>2, <1>8 DEF Find, Quiet, Calm, kernelVars, clientVars, historyVars, ServerInv, OnlyAccepted
<1>11. DataTyped'
  BY Typed DEF Find, DataTyped, kernelVars, peerVars, clientVars, historyVars
<1>12. QueuedPoint'
  BY DEF Find, clientVars, ServerInv, QueuedPoint, Points
<1> QED
  BY <1>3, <1>6, <1>7, <1>9, <1>10, <1>11, <1>12, QuietInv

(* A thread that leaves close_client rests, or has its lock to release.    *)
LEMMA ReturnFits ==
  ASSUME ServerInv, NEW t \in Threads, pc[t] \in {"find", "close"}, Return(t)
  PROVE  \E label \in LabelsOf(t) \cap {"wait", "walk", "unlock", "idle"}, r \in Locals :
            /\ Moves(t, label, r) /\ Fits(t, label, r)
            /\ label = "unlock" => t \in Workers /\ r.client = loc[t].client
            /\ t \in Workers => label \in {"unlock", "idle"}
<1>1. /\ loc[t] \in Locals /\ pc[t] \in LabelsOf(t) /\ Fits(t, pc[t], loc[t])
  BY Local
<1>2. t # Main
  BY <1>1, ThreadsLabels
<1>3. CASE AfterClose(t) = "unlock"
  <2> DEFINE r == [loc[t] EXCEPT !.node = 0]
  <2>1. t \in Workers
    BY <1>2, <1>3, ServerAssumption DEF AfterClose, Threads
  <2>2. r \in Locals /\ r.fd = loc[t].fd /\ r.client = loc[t].client
        /\ r.cmd = loc[t].cmd /\ r.from = loc[t].from
    BY <1>1 DEF Locals
  <2>3. Fits(t, "unlock", r)
    BY <2>1, <2>2, <1>1, ThreadsLabels DEF Fits, Resting, WithNode
  <2>4. Moves(t, "unlock", r)
    BY <1>3 DEF Return, Goto, Moves
  <2>5. "unlock" \in LabelsOf(t)
    BY <2>1, ThreadsLabels
  <2> QED
    BY <2>1, <2>2, <2>3, <2>4, <2>5
<1>4. CASE AfterClose(t) # "unlock"
  <2> DEFINE label == AfterClose(t)
  <2>1. /\ label \in LabelsOf(t) \cap {"wait", "walk", "idle"}
        /\ t \in Workers => label = "idle"
    BY <1>2, <1>4, ThreadsLabels, ServerAssumption DEF AfterClose, Threads
  <2>2. Moves(t, label, NoLocals)
    BY <1>4 DEF Return, Goto, Moves
  <2>3. Fits(t, label, NoLocals)
    BY <2>1 DEF Fits, Resting, WithNode
  <2> HIDE DEF label
  <2> QED
    BY <2>1, <2>2, <2>3, RestLocals
<1> QED
  BY <1>3, <1>4

LEMMA FindFailsStep ==
  ASSUME ServerInv, NEW t \in Threads, FindFails(t)
  PROVE  ServerInv'
<1>1. pc[t] = "find" /\ Return(t)
  BY DEF FindFails, Running
<1>2. PICK label \in LabelsOf(t) \cap {"wait", "walk", "unlock", "idle"}, r \in Locals :
        /\ Moves(t, label, r) /\ Fits(t, label, r)
        /\ label = "unlock" => t \in Workers /\ r.client = loc[t].client
        /\ t \in Workers => label \in {"unlock", "idle"}
  BY <1>1, ReturnFits
<1>3. Quiet(t, label, r)
  BY <1>1, <1>2 DEF FindFails, Quiet, Calm, kernelVars, clientVars, historyVars, ServerInv, OnlyAccepted
<1>4. DataTyped'
  BY Typed DEF FindFails, DataTyped, kernelVars, peerVars, clientVars, historyVars
<1>5. QueuedPoint'
  BY DEF FindFails, clientVars, ServerInv, QueuedPoint, Points
<1> QED
  BY <1>2, <1>3, <1>4, <1>5, QuietInv

LEMMA VisitStep ==
  ASSUME ServerInv, Visit
  PROVE  ServerInv'
<1>1. Heart \in Threads /\ pc[Heart] = "walk" /\ {"walk", "free"} \subseteq LabelsOf(Heart)
  BY ThreadsLabels DEF Visit, Running
<1>2. DataTyped /\ list \in Seq(Conn)
  BY Typed DEF DataTyped
<1>3. walk \in 1 .. conns /\ fdOf[walk] \in Fds /\ walk \in Conn
  BY Accepted DEF Visit, Listed, ServerInv, OnlyAccepted
<1>4. Following(walk) \in Conn \cup {0}
  <2>1. PICK i \in 1 .. Len(list) : list[i] = walk
    BY DEF Visit, Listed
  <2> DEFINE m == IF i < Len(list) THEN list[i + 1] ELSE 0
  <2>2. m \in Conn \cup {0}
    <3>1. i < Len(list) => i + 1 \in 1 .. Len(list)
      BY <1>2
    <3> QED
      BY <3>1, <1>2, ElementOfSeq
  <2>3. \E k \in Conn \cup {0} :
          \E j \in 1 .. Len(list) :
            list[j] = walk /\ k = IF j < Len(list) THEN list[j + 1] ELSE 0
    BY <2>1, <2>2
  <2> QED
    BY <2>3 DEF Following
<1>5. DataTyped'
  BY <1>2, <1>4 DEF Visit, DataTyped, kernelVars, peerVars, clientVars, historyVars
<1>6. CASE age[walk] > Timeout
  <2> DEFINE r == [loc[Heart] EXCEPT !.node = walk, !.fd = fdOf[walk]]
  <2>1. loc[Heart] \in Locals
    BY <1>1, Local
  <2>2. r \in Locals /\ r.node = walk /\ r.fd = fdOf[walk]
    BY <2>1, <1>3 DEF Locals
  <2>3. Moves(Heart, "free", r)
    BY <1>1, <1>6, Typed DEF Visit, Goto, Moves
  <2>4. Fits(Heart, "free", r)
    BY <2>2, <1>3, ThreadsLabels DEF Fits, Resting, WithNode, Points
  <2>5. Quiet(Heart, "free", r)
    BY <1>1, ThreadsLabels
       DEF Visit, Quiet, Calm, kernelVars, clientVars, historyVars, ServerInv, OnlyAccepted
  <2>6. QueuedPoint'
    BY DEF Visit, clientVars, ServerInv, QueuedPoint, Points
  <2> QED
    BY <1>1, <2>2, <2>3, <2>4, <2>5, <2>6, <1>5, QuietInv
<1>7. CASE ~(age[walk] > Timeout)
  <2>1. Fits(Heart, "walk", loc[Heart])
    BY <1>1, Local
  <2>2. pc' = [pc EXCEPT ![Heart] = "walk"] /\ loc' = loc
    BY <1>1, <1>7, Typed DEF Visit
  <2> QED
    BY <1>1, <1>5, <2>1, <2>2, ThreadsLabels, LabelInv
       DEF Visit, kernelVars, clientVars, historyVars, ServerInv, OnlyAccepted
<1> QED
  BY <1>6, <1>7

LEMMA TakeStep ==
  ASSUME ServerInv, NEW w \in Workers, Take(w)
  PROVE  ServerInv'
<1> DEFINE task == Head(queue)
<1>1. w \in Threads /\ pc[w] = "idle" /\ "lock" \in LabelsOf(w)
  BY ThreadsLabels DEF Take, Running
<1>2. queue \in Seq(Tasks) /\ queue # << >>
  BY Typed DEF DataTyped, Take
<1>3. /\ queue' \in Seq(Tasks) /\ Len(queue') = Len(queue) - 1
      /\ \A i \in 1 .. Len(queue') : queue'[i] = queue[i + 1]
      /\ task \in Tasks
  BY <1>2, HeadTailProperties DEF Take
<1>4. task = queue[1] /\ 1 \in 1 .. Len(queue)
  BY <1>2, EmptySeq
<1>5. Points(task.fd, task.client)
  BY <1>4 DEF ServerInv, QueuedPoint
<1>6. task \in Locals /\ task.fd \in Fds /\ task.cmd \in Cmds /\ task.from \in Conn
  BY <1>3 DEF Tasks, Locals
<1>7. Moves(w, "lock", task)
  BY DEF Take, Goto, Moves
<1>8. Fits(w, "lock", task)
  BY <1>5, <1>6 DEF Fits, Resting, WithNode
<1>9. Quiet(w, "lock", task)
  BY <1>1 DEF Take, Quiet, Calm, kernelVars, clientVars, historyVars, ServerInv, OnlyAccepted
<1>10. DataTyped'
  BY <1>3, Typed DEF Take, DataTyped, kernelVars, peerVars, clientVars, historyVars
<1>11. QueuedPoint'
  <2>1. ASSUME NEW i \in 1 .. Len(queue')
        PROVE  Points(queue'[i].fd, queue'[i].client)
    <3>1. i + 1 \in 1 .. Len(queue)
      BY <1>2, <1>3
    <3> QED
      BY <3>1, <1>3 DEF ServerInv, QueuedPoint
  <2> QED
    BY <2>1 DEF Take, clientVars, QueuedPoint, Points
<1> QED
  BY <1>1, <1>6, <1>7, <1>8, <1>9, <1>10, <1>11, QuietInv

LEMMA SeekStep ==
  ASSUME ServerInv, NEW w \in Workers, NEW m \in Conn, Seek(w, m)
  PROVE  ServerInv'
<1>1. w \in Threads /\ pc[w] = "seek" /\ {"deliver", "reply"} \subseteq LabelsOf(w)
  BY ThreadsLabels DEF Seek, Running
<1>2. loc[w] \in Locals /\ Fits(w, pc[w], loc[w])
  BY <1>1, Local
<1>3. DataTyped'
  BY Typed DEF Seek, DataTyped, kernelVars, peerVars, clientVars, historyVars
<1>4. CASE Listed(m) /\ m \in logged
  <2> DEFINE r == [loc[w] EXCEPT !.node = m]
  <2>1. /\ r \in Locals /\ r.fd = loc[w].fd /\ r.client = loc[w].client
        /\ r.cmd = loc[w].cmd /\ r.from = loc[w].from
    BY <1>2 DEF Locals
  <2>2. Moves(w, "deliver", r)
    BY <1>1, <1>4, Typed DEF Seek, Goto, Moves
  <2>3. Fits(w, "deliver", r)
    BY <1>1, <1>2, <2>1 DEF Fits, Resting, WithNode
  <2>4. Quiet(w, "deliver", r)
    BY <1>1, <2>1 DEF Seek, Quiet, Calm, kernelVars, clientVars, historyVars, ServerInv, OnlyAccepted
  <2>5. QueuedPoint'
    BY DEF Seek, clientVars, ServerInv, QueuedPoint, Points
  <2> QED
    BY <1>1, <1>3, <2>1, <2>2, <2>3, <2>4, <2>5, QuietInv
<1>5. CASE ~(Listed(m) /\ m \in logged)
  <2>1. Fits(w, "reply", loc[w])
    BY <1>1, <1>2 DEF Fits, Resting, WithNode
  <2> QED
    BY <1>1, <1>3, <1>5, <2>1, LabelInv
       DEF Seek, Goto, kernelVars, clientVars, historyVars, ServerInv, OnlyAccepted
<1> QED
  BY <1>4, <1>5

LEMMA DeliverStep ==
  ASSUME ServerInv, NEW w \in Workers, Deliver(w)
  PROVE  ServerInv'
<1> DEFINE r == [loc[w] EXCEPT !.node = 0]
<1>1. w \in Threads /\ pc[w] = "deliver" /\ "reply" \in LabelsOf(w)
  BY ThreadsLabels DEF Deliver, Running
<1>2. loc[w] \in Locals /\ Fits(w, pc[w], loc[w])
  BY <1>1, Local
<1>3. /\ r \in Locals /\ r.fd = loc[w].fd /\ r.client = loc[w].client
      /\ r.cmd = loc[w].cmd /\ r.from = loc[w].from
  BY <1>2 DEF Locals
<1>4. Moves(w, "reply", r)
  BY <1>1, Typed DEF Deliver, Goto, Moves
<1>5. Fits(w, "reply", r)
  BY <1>1, <1>2, <1>3 DEF Fits, Resting, WithNode
<1>6. Quiet(w, "reply", r)
  BY <1>1, <1>3 DEF Deliver, Quiet, Calm, kernelVars, clientVars, historyVars, ServerInv, OnlyAccepted
<1>7. DataTyped'
  BY Typed DEF Deliver, DataTyped, kernelVars, peerVars, clientVars, historyVars
<1>8. QueuedPoint'
  BY DEF Deliver, clientVars, ServerInv, QueuedPoint, Points
<1> QED
  BY <1>1, <1>3, <1>4, <1>5, <1>6, <1>7, <1>8, QuietInv

-----------------------------------------------------------------------------
(* The steps in which no thread moves: the peers', and the use of what was *)
(* freed, after which there are no more.                                   *)

LEMMA NoThreadInv ==
  ASSUME ServerInv, UNCHANGED <<sock, watched, clientVars, threadVars, unknown>>, DataTyped'
  PROVE  ServerInv'
<1>1. TypeOK'
  BY Typed DEF TypeOK, DataTyped, threadVars
<1>2. OwnLabels' /\ LocalsByPc' /\ QueuedPoint'
  BY DEF ServerInv, OwnLabels, LabelsOf, LocalsByPc, Fits, QueuedPoint, Points, threadVars, clientVars
<1>3. OnlyAccepted' /\ ListedOnce' /\ NotListedYet' /\ OneFrees' /\ OwnSocket'
  BY DEF ServerInv, OnlyAccepted, Points, ListedOnce, NotListedYet, OneFrees, OwnSocket,
         threadVars, clientVars
<1>4. LockHeld' /\ ListTellsTruth' /\ ListedOrFreed' /\ SocketsAccounted'
  BY DEF ServerInv, LockHeld, Mine, ListTellsTruth, ListedOrFreed, SocketsAccounted, Listed,
         threadVars, clientVars
<1> QED
  BY <1>1, <1>2, <1>3, <1>4 DEF ServerInv

LEMMA PeerSteps ==
  ASSUME ServerInv, PeerStep
  PROVE  ServerInv'
<1>1. DataTyped
  BY Typed
<1>2. ASSUME NEW n \in Conn, HangUp(n)
      PROVE  ServerInv'
  <2>1. DataTyped'
    BY <1>1, <1>2 DEF HangUp, DataTyped, clientVars, threadVars, historyVars
  <2> QED
    BY <1>2, <2>1, NoThreadInv DEF HangUp, historyVars
<1>3. ASSUME NEW n \in Conn, NEW cmd \in Cmds, Send(n, cmd)
      PROVE  ServerInv'
  <2>1. inbox' \in [Conn -> Seq(Cmds)]
    <3>1. Append(inbox[n], cmd) \in Seq(Cmds)
      BY <1>1, AppendProperties DEF DataTyped
    <3> QED
      BY <1>1, <1>3, <3>1 DEF Send, DataTyped
  <2>2. sent' \in 0 .. MaxPackets
    BY <1>1, <1>3, ServerAssumption DEF Send, DataTyped
  <2>3. DataTyped'
    BY <1>1, <1>3, <2>1, <2>2 DEF Send, DataTyped, clientVars, threadVars, historyVars
  <2> QED
    BY <1>3, <2>3, NoThreadInv DEF Send, historyVars
<1> QED
  BY <1>2, <1>3 DEF PeerStep

LEMMA UndefinedSteps ==
  ASSUME ServerInv, Undefined
  PROVE  ServerInv'
<1>1. PICK kind \in {"own", "other"} : Break(kind)
  BY DEF Undefined, OwnUseAfterFree, OtherUseAfterFree
<1>2. DataTyped'
  BY <1>1, Typed DEF Break, DataTyped, kernelVars, peerVars, clientVars, threadVars
<1> QED
  BY <1>1, <1>2, NoThreadInv DEF Break, kernelVars

-----------------------------------------------------------------------------
(* The locks.                                                              *)

LEMMA LockClientStep ==
  ASSUME ServerInv, NEW w \in Workers, LockClient(w)
  PROVE  ServerInv'
<1> DEFINE n == Mine(w)
<1>1. w \in Threads /\ pc[w] = "lock" /\ "handle" \in LabelsOf(w)
  BY ThreadsLabels DEF LockClient, Running
<1>2. loc[w] \in Locals /\ Fits(w, pc[w], loc[w])
  BY <1>1, Local
<1>3. n \in Conn
  BY <1>1, <1>2, Accepted, ThreadsLabels DEF Mine, Fits, Points, Resting
<1>4. Moves(w, "handle", loc[w])
  BY Typed DEF LockClient, Goto, Moves
<1>5. Fits(w, "handle", loc[w])
  BY <1>1, <1>2 DEF Fits, Resting, WithNode
<1>6. Calm(w, "handle")
  BY <1>1 DEF LockClient, Calm, kernelVars, historyVars, ServerInv, OnlyAccepted
<1>7. mutex' = [mutex EXCEPT ![n] = w] /\ mutex \in [Conn -> Threads \cup {None}]
  BY Typed DEF DataTyped, LockClient
<1>8. DataTyped'
  BY <1>1, <1>7, Typed DEF LockClient, DataTyped, kernelVars, peerVars, historyVars
<1>9. QueuedPoint'
  BY DEF LockClient, ServerInv, QueuedPoint, Points
<1>10. ASSUME NEW u \in Threads, pc[u] = "free"
       PROVE  pc'[u] = "free" /\ loc'[u] = loc[u]
  BY <1>1, <1>10, Typed DEF LockClient, Goto
<1>11. ASSUME NEW v \in Workers, pc'[v] \notin {"idle", "lock"},
              mutex'[Mine(v)'] # v, Mine(v)' \notin freed'
       PROVE  \E u \in Threads : pc'[u] = "free" /\ loc'[u].node = Mine(v)'
  <2>1. v \in Threads /\ Mine(v)' = Mine(v) /\ freed' = freed
    BY ThreadsLabels DEF LockClient, Mine
  <2>2. v # w
    BY <1>3, <1>7, <1>11, <2>1
  <2>3. pc[v] \notin {"idle", "lock"}
    BY <2>1, <2>2, <1>11, Typed DEF LockClient, Goto
  <2>4. mutex[Mine(v)] # v
    <3>1. CASE Mine(v) = n
      BY <3>1, <2>1, ServerAssumption DEF LockClient
    <3>2. CASE Mine(v) # n
      BY <3>2, <2>1, <1>7, <1>11
    <3> QED
      BY <3>1, <3>2
  <2>5. PICK u \in Threads : pc[u] = "free" /\ loc[u].node = Mine(v)
    BY <2>1, <2>3, <2>4, <1>11 DEF ServerInv, LockHeld
  <2> QED
    BY <2>1, <2>5, <1>10
<1>12. LockHeld'
  BY <1>11 DEF LockHeld
<1> QED
  BY <1>1, <1>2, <1>4, <1>5, <1>6, <1>8, <1>9, <1>12, CalmInv

LEMMA UnlockStep ==
  ASSUME ServerInv, NEW w \in Workers, Unlock(w)
  PROVE  ServerInv'
<1> DEFINE n == Mine(w)
<1>1. w \in Threads /\ pc[w] = "unlock" /\ "idle" \in LabelsOf(w)
  BY ThreadsLabels DEF Unlock, Running
<1>2. Moves(w, "idle", NoLocals)
  BY DEF Unlock, Goto, Moves
<1>3. Fits(w, "idle", NoLocals)
  BY DEF Fits, Resting, WithNode
<1>4. Calm(w, "idle")
  BY <1>1 DEF Unlock, Calm, kernelVars, historyVars, ServerInv, OnlyAccepted
<1>5. mutex' = [mutex EXCEPT ![n] = None] /\ mutex \in [Conn -> Threads \cup {None}]
  BY Typed DEF DataTyped, Unlock
<1>6. DataTyped'
  BY <1>5, Typed DEF Unlock, DataTyped, kernelVars, peerVars, historyVars
<1>7. QueuedPoint'
  BY DEF Unlock, ServerInv, QueuedPoint, Points
<1>8. ASSUME NEW u \in Threads, pc[u] = "free"
      PROVE  pc'[u] = "free" /\ loc'[u] = loc[u]
  BY <1>1, <1>8, Typed DEF Unlock, Goto
<1>9. ASSUME NEW v \in Workers, pc'[v] \notin {"idle", "lock"},
             mutex'[Mine(v)'] # v, Mine(v)' \notin freed'
      PROVE  \E u \in Threads : pc'[u] = "free" /\ loc'[u].node = Mine(v)'
  <2>1. v # w
    BY <1>1, <1>9, Typed DEF Unlock, Goto
  <2>2. v \in Threads /\ Mine(v)' = Mine(v) /\ freed' = freed /\ pc'[v] = pc[v]
    BY <2>1, ThreadsLabels, Typed DEF Unlock, Goto, Mine
  <2>3. mutex[Mine(v)] # v \/ mutex[Mine(v)] # w
    BY <2>1
  <2>4. \E u \in Threads : pc[u] = "free" /\ loc[u].node = Mine(v)
    <3>1. CASE Mine(v) = n /\ mutex[n] # w
      BY <3>1, <2>2, <1>1, <1>9 DEF ServerInv, LockHeld
    <3>2. CASE Mine(v) = n /\ mutex[n] = w
      BY <3>2, <2>1, <2>2, <1>9 DEF ServerInv, LockHeld
    <3>3. CASE Mine(v) # n
      BY <3>3, <2>2, <1>5, <1>9 DEF ServerInv, LockHeld
    <3> QED
      BY <3>1, <3>2, <3>3
  <2> QED
    BY <2>2, <2>4, <1>8
<1>10. LockHeld'
  BY <1>9 DEF LockHeld
<1> QED
  BY <1>1, <1>2, <1>3, <1>4, <1>6, <1>7, <1>10, RestLocals, CalmInv

LEMMA UnlockNodeStep ==
  ASSUME ServerInv, NEW t \in Threads, UnlockNode(t)
  PROVE  ServerInv'
<1> DEFINE n == loc[t].node
<1>1. pc[t] = "unlockNode" /\ pc[t] \in LabelsOf(t) /\ loc[t] \in Locals /\ Fits(t, pc[t], loc[t])
  BY Local DEF UnlockNode, Running
<1>2. t # Main /\ "free" \in LabelsOf(t)
  BY <1>1, ThreadsLabels DEF LabelsOf, Closing
<1>3. Moves(t, "free", loc[t])
  BY Typed DEF UnlockNode, Goto, Moves
<1>4. Fits(t, "free", loc[t])
  BY <1>1 DEF Fits, Resting, WithNode
<1>5. Calm(t, "free")
  BY <1>1 DEF UnlockNode, Calm, kernelVars, historyVars, ServerInv, OnlyAccepted
<1>6. mutex' = [mutex EXCEPT ![n] = None] /\ mutex \in [Conn -> Threads \cup {None}]
  BY Typed DEF DataTyped, UnlockNode
<1>7. DataTyped'
  BY <1>6, Typed DEF UnlockNode, DataTyped, kernelVars, peerVars, historyVars
<1>8. QueuedPoint'
  BY DEF UnlockNode, ServerInv, QueuedPoint, Points
<1>9. ASSUME NEW u \in Threads
      PROVE  pc'[u] = (IF u = t THEN "free" ELSE pc[u]) /\ loc'[u] = loc[u]
  BY Typed DEF UnlockNode, Goto
<1>10. ASSUME NEW v \in Workers, pc'[v] \notin {"idle", "lock"},
              mutex'[Mine(v)'] # v, Mine(v)' \notin freed'
       PROVE  \E u \in Threads : pc'[u] = "free" /\ loc'[u].node = Mine(v)'
  <2>1. v \in Threads /\ Mine(v)' = Mine(v) /\ freed' = freed
    BY ThreadsLabels DEF UnlockNode, Mine
  <2>2. CASE Mine(v) = n
    BY <2>1, <2>2, <1>9
  <2>3. CASE Mine(v) # n
    <3>1. pc[v] \notin {"idle", "lock"}
      BY <2>1, <1>1, <1>9, <1>10
    <3>2. mutex[Mine(v)] # v
      BY <2>1, <2>3, <1>6, <1>10
    <3> QED
      BY <2>1, <3>1, <3>2, <1>9, <1>10 DEF ServerInv, LockHeld
  <2> QED
    BY <2>2, <2>3
<1>11. LockHeld'
  BY <1>10 DEF LockHeld
<1> QED
  BY <1>1, <1>2, <1>3, <1>4, <1>5, <1>7, <1>8, <1>11, CalmInv

-----------------------------------------------------------------------------
(* The steps of a close.                                                   *)

LEMMA AddedIsUnlisted ==
  ASSUME ServerInv, pc[Main] = "add"
  PROVE  /\ Points(loc[Main].fd, loc[Main].client) /\ loc[Main].fd \in Fds
         /\ loc[Main].client \notin freed /\ ~Listed(loc[Main].client)
<1>1. Points(loc[Main].fd, loc[Main].client) /\ loc[Main].fd \in Fds
  BY ThreadsLabels, Local, ServerAssumption DEF Fits, Resting
<1>2. loc[Main].client \notin freed
  BY DEF ServerInv, NotListedYet
<1>3. ASSUME NEW t \in Threads, pc[t] = "delete"
      PROVE  loc[t].node # loc[Main].client
  BY <1>2, <1>3 DEF ServerInv, OneFrees
<1> QED
  BY <1>1, <1>2, <1>3 DEF Points, ServerInv, ListedOrFreed

(* A freed client is listed only until the one who freed it deletes it.    *)
LEMMA FreedIsUnlisted ==
  ASSUME ServerInv, NEW t \in Threads, pc[t] = "close"
  PROVE  loc[t].node \in freed /\ ~Listed(loc[t].node)
<1>1. loc[t].node \in 1 .. conns
  BY Local DEF Fits, WithNode, Points
<1>2. loc[t].node \in freed
  BY DEF ServerInv, OneFrees
<1>3. ASSUME NEW u \in Threads, pc[u] = "delete"
      PROVE  loc[u].node # loc[t].node
  BY <1>3 DEF ServerInv, OneFrees
<1> QED
  BY <1>1, <1>2, <1>3 DEF ServerInv, ListedOrFreed

LEMMA FreeClientStep ==
  ASSUME ServerInv, NEW t \in Threads, FreeClient(t)
  PROVE  ServerInv'
<1> DEFINE n == loc[t].node
<1>1. /\ pc[t] = "free" /\ pc[t] \in LabelsOf(t) /\ loc[t] \in Locals /\ Fits(t, pc[t], loc[t])
      /\ Listed(n) /\ n \notin freed
  BY Local DEF FreeClient, Running, NodeIsUsable
<1>2. t # Main /\ "delete" \in LabelsOf(t)
  BY <1>1, ThreadsLabels DEF LabelsOf, Closing
<1>3. Moves(t, "delete", loc[t])
  BY Typed DEF FreeClient, Goto, Moves
<1>4. Fits(t, "delete", loc[t])
  BY <1>1 DEF Fits, Resting, WithNode
<1>5. n \in 1 .. conns /\ n \in Conn
  BY <1>1, Accepted DEF Fits, WithNode, Points
<1>6. /\ pc' \in [Threads -> Labels] /\ loc' \in [Threads -> Locals]
      /\ OwnLabels' /\ LocalsByPc'
  BY <1>1, <1>2, <1>3, <1>4, StepLocals DEF FreeClient
<1>7. ASSUME NEW u \in Threads
      PROVE  pc'[u] = (IF u = t THEN "delete" ELSE pc[u]) /\ loc'[u] = loc[u]
  BY Typed DEF FreeClient, Goto
<1>8. TypeOK'
  BY <1>5, <1>6, Typed DEF FreeClient, TypeOK, DataTyped, kernelVars, peerVars, historyVars
<1>9. QueuedPoint' /\ OnlyAccepted' /\ ListedOnce'
  BY <1>5 DEF FreeClient, kernelVars, historyVars, ServerInv, QueuedPoint, OnlyAccepted,
              Points, ListedOnce
<1>10. NotListedYet'
  <2>1. pc[Main] = "add" => loc[Main].client # n
    BY <1>1, AddedIsUnlisted
  <2> QED
    BY <2>1, <1>2, <1>7, ThreadsLabels DEF FreeClient, kernelVars, ServerInv, NotListedYet
<1>11. OneFrees'
  <2>1. ASSUME NEW u \in Threads, pc[u] \in {"delete", "close"}
        PROVE  loc[u].node # n /\ loc[u].node \in freed
    BY <2>1, <1>1 DEF ServerInv, OneFrees
  <2>2. freed' = freed \cup {n}
    BY DEF FreeClient
  <2>3. ASSUME NEW u \in Threads, pc'[u] \in {"delete", "close"}
        PROVE  loc'[u].node \in freed' /\ (loc'[u].node = n => u = t)
    BY <2>1, <2>2, <2>3, <1>7
  <2>4. ASSUME NEW u \in Threads, pc'[u] \in {"delete", "close"},
               NEW v \in Threads, pc'[v] \in {"delete", "close"}, loc'[v].node = loc'[u].node
        PROVE  v = u
    <3>1. CASE u = t \/ v = t
      BY <3>1, <2>3, <2>4, <1>7
    <3>2. CASE u # t /\ v # t
      BY <3>2, <2>4, <1>7 DEF ServerInv, OneFrees
    <3> QED
      BY <3>1, <3>2
  <2> QED
    BY <2>3, <2>4 DEF OneFrees
<1>12. OwnSocket' /\ ListTellsTruth'
  BY <1>2, <1>7, ThreadsLabels
     DEF FreeClient, kernelVars, historyVars, ServerInv, OwnSocket, ListTellsTruth
<1>13. LockHeld'
  <2>1. mutex' = [mutex EXCEPT ![n] = None] /\ mutex \in [Conn -> Threads \cup {None}]
    BY Typed DEF DataTyped, FreeClient
  <2>2. ASSUME NEW w \in Workers, pc'[w] \notin {"idle", "lock"},
               mutex'[Mine(w)'] # w, Mine(w)' \notin freed'
        PROVE  \E u \in Threads : pc'[u] = "free" /\ loc'[u].node = Mine(w)'
    <3>1. w \in Threads /\ Mine(w)' = Mine(w) /\ pc[w] \notin {"idle", "lock"}
      BY <2>2, <1>1, <1>7, ThreadsLabels DEF Mine
    <3>2. Mine(w) # n /\ Mine(w) \notin freed
      BY <2>2, <3>1 DEF FreeClient
    <3>3. PICK u \in Threads : pc[u] = "free" /\ loc[u].node = Mine(w)
      BY <2>1, <2>2, <3>1, <3>2 DEF ServerInv, LockHeld
    <3> QED
      BY <3>1, <3>2, <3>3, <1>7
  <2> QED
    BY <2>2 DEF LockHeld
<1>14. ListedOrFreed'
  <2>1. ASSUME NEW m \in 1 .. conns
        PROVE  Listed(m) <=>
                 \/ m \notin freed' /\ ~(pc'[Main] = "add" /\ loc'[Main].client = m)
                 \/ \E u \in Threads : pc'[u] = "delete" /\ loc'[u].node = m
    <3>1. CASE m = n
      BY <3>1, <1>1, <1>7
    <3>2. CASE m # n
      BY <3>2, <1>1, <1>2, <1>7, ThreadsLabels DEF FreeClient, ServerInv, ListedOrFreed
    <3> QED
      BY <3>1, <3>2
  <2> QED
    BY <2>1 DEF ListedOrFreed, Listed, FreeClient
<1>15. SocketsAccounted'
  BY <1>1, <1>2, <1>7, ThreadsLabels
     DEF FreeClient, kernelVars, ServerInv, SocketsAccounted, Listed
<1> QED
  BY <1>6, <1>8, <1>9, <1>10, <1>11, <1>12, <1>13, <1>14, <1>15 DEF ServerInv

(* Taking the i-th element out of a sequence without duplicates.           *)
LEMMA Removal ==
  ASSUME NEW S, NEW s \in Seq(S), NEW i \in 1 .. Len(s),
         \A j, k \in 1 .. Len(s) : s[j] = s[k] => j = k
  PROVE  /\ RemoveAt(s, i) \in Seq(S)
         /\ \A j, k \in 1 .. Len(RemoveAt(s, i)) :
              RemoveAt(s, i)[j] = RemoveAt(s, i)[k] => j = k
         /\ \A j \in 1 .. Len(RemoveAt(s, i)) :
              RemoveAt(s, i)[j] # s[i] /\ \E k \in 1 .. Len(s) : s[k] = RemoveAt(s, i)[j]
         /\ \A j \in 1 .. Len(s) : s[j] # s[i] =>
              \E k \in 1 .. Len(RemoveAt(s, i)) : RemoveAt(s, i)[k] = s[j]
<1> PICK r : r = RemoveAt(s, i)
  OBVIOUS
<1>0. PICK l \in Nat : l = Len(s)
  BY LenProperties
<1>1. i \in Int /\ 1 <= i /\ i <= l
  BY <1>0
<1>2. \A j \in 1 .. l : s[j] \in S
  BY <1>0, ElementOfSeq
<1>3. PICK a : a = SubSeq(s, 1, i - 1)
  OBVIOUS
<1>4. PICK b : b = SubSeq(s, i + 1, Len(s))
  OBVIOUS
<1>5. /\ a \in Seq(S) /\ Len(a) = i - 1
      /\ \A j \in 1 .. i - 1 : a[j] = s[j]
  <2>1. \A j \in 1 .. i - 1 : s[j] \in S
    BY <1>1, <1>2
  <2> QED
    BY <1>1, <1>3, <2>1, SubSeqProperties
<1>6. /\ b \in Seq(S) /\ Len(b) = IF i + 1 <= l THEN l - (i + 1) + 1 ELSE 0
      /\ \A j \in 1 .. l - (i + 1) + 1 : b[j] = s[(i + 1) + j - 1]
  <2>1. \A j \in i + 1 .. l : s[j] \in S
    BY <1>1, <1>2
  <2> QED
    BY <1>0, <1>1, <1>4, <2>1, SubSeqProperties
<1>7. Len(b) = l - i
  BY <1>1, <1>6
<1>8. ASSUME NEW j \in 1 .. l - i
      PROVE  b[j] = s[i + j]
  <2>1. j \in 1 .. l - (i + 1) + 1 /\ (i + 1) + j - 1 = i + j
    BY <1>1
  <2> QED
    BY <1>6, <2>1
<1>9. r = a \o b
  BY <1>3, <1>4 DEF RemoveAt
<1>10. /\ r \in Seq(S) /\ Len(r) = Len(a) + Len(b)
       /\ \A j \in 1 .. Len(a) + Len(b) : r[j] = IF j <= Len(a) THEN a[j] ELSE b[j - Len(a)]
  <2>1. a \in Seq(S) /\ b \in Seq(S)
    BY <1>5, <1>6
  <2>2. /\ a \o b \in Seq(S) /\ Len(a \o b) = Len(a) + Len(b)
        /\ \A j \in 1 .. Len(a) + Len(b) :
             (a \o b)[j] = IF j <= Len(a) THEN a[j] ELSE b[j - Len(a)]
    BY ONLY <2>1, ConcatProperties
  <2> QED
    BY <1>9, <2>2
<1>11. Len(r) = l - 1
  BY <1>1, <1>5, <1>7, <1>10
<1>12. ASSUME NEW j \in 1 .. l - 1
       PROVE  r[j] = IF j < i THEN s[j] ELSE s[j + 1]
  <2>1. r[j] = IF j <= i - 1 THEN a[j] ELSE b[j - (i - 1)]
    BY <1>5, <1>10, <1>11
  <2>2. CASE j < i
    BY <2>1, <2>2, <1>1, <1>5
  <2>3. CASE ~(j < i)
    <3>1. j - (i - 1) \in 1 .. l - i /\ i + (j - (i - 1)) = j + 1 /\ ~(j <= i - 1)
      BY <2>3, <1>1
    <3> QED
      BY <2>1, <2>3, <3>1, <1>8
  <2> QED
    BY <2>2, <2>3
<1>13. \A j, k \in 1 .. l : s[j] = s[k] => j = k
  BY <1>0
<1>14. ASSUME NEW j \in 1 .. l - 1, NEW k \in 1 .. l - 1, r[j] = r[k]
       PROVE  j = k
  BY <1>1, <1>12, <1>13, <1>14
<1>15. ASSUME NEW j \in 1 .. l - 1
       PROVE  r[j] # s[i] /\ \E k \in 1 .. l : s[k] = r[j]
  BY <1>1, <1>12, <1>13
<1>16. ASSUME NEW j \in 1 .. l, s[j] # s[i]
       PROVE  \E k \in 1 .. l - 1 : r[k] = s[j]
  <2>1. CASE j < i
    BY <1>1, <1>12, <2>1
  <2>2. CASE ~(j < i)
    <3>1. j - 1 \in 1 .. l - 1 /\ ~(j - 1 < i) /\ (j - 1) + 1 = j
      BY <1>1, <1>16, <2>2
    <3> QED
      BY <1>12, <3>1
  <2> QED
    BY <2>1, <2>2
<1>17. \A j, k \in 1 .. Len(r) : r[j] = r[k] => j = k
  BY <1>11, <1>14
<1>18. \A j \in 1 .. Len(r) : r[j] # s[i] /\ \E k \in 1 .. Len(s) : s[k] = r[j]
  BY <1>0, <1>11, <1>15
<1>19. \A j \in 1 .. Len(s) : s[j] # s[i] => \E k \in 1 .. Len(r) : r[k] = s[j]
  BY <1>0, <1>11, <1>16
<1> QED
  BY <1>10, <1>17, <1>18, <1>19

LEMMA DeleteStep ==
  ASSUME ServerInv, NEW t \in Threads, Delete(t)
  PROVE  ServerInv'
<1> DEFINE n == loc[t].node
<1>1. /\ pc[t] = "delete" /\ pc[t] \in LabelsOf(t) /\ loc[t] \in Locals
      /\ Fits(t, pc[t], loc[t])
  BY Local DEF Delete, Running
<1>2. t # Main /\ "close" \in LabelsOf(t)
  BY <1>1, ThreadsLabels DEF LabelsOf, Closing
<1>3. Moves(t, "close", loc[t])
  BY Typed DEF Delete, Goto, Moves
<1>4. Fits(t, "close", loc[t])
  BY <1>1 DEF Fits, Resting, WithNode
<1>5. n \in 1 .. conns /\ fdOf[n] = loc[t].fd /\ n \in freed
  BY <1>1 DEF Fits, WithNode, Points, ServerInv, OneFrees
<1>6. /\ pc' \in [Threads -> Labels] /\ loc' \in [Threads -> Locals]
      /\ OwnLabels' /\ LocalsByPc'
  BY <1>1, <1>2, <1>3, <1>4, StepLocals DEF Delete
<1>7. ASSUME NEW u \in Threads
      PROVE  pc'[u] = (IF u = t THEN "close" ELSE pc[u]) /\ loc'[u] = loc[u]
  BY Typed DEF Delete, Goto
<1>8. /\ list' \in Seq(Conn) /\ ListedOnce'
      /\ Listed(n) /\ \A m : Listed(m)' <=> Listed(m) /\ m # n
  <2>1. PICK i \in 1 .. Len(list) :
            list[i] = n /\ list' = RemoveAt(list, i)
    BY DEF Delete
  <2>2. list \in Seq(Conn)
    BY Typed DEF DataTyped
  <2>3. \A j, k \in 1 .. Len(list) : list[j] = list[k] => j = k
    BY DEF ServerInv, ListedOnce
  <2> DEFINE r == RemoveAt(list, i)
  <2>4. /\ r \in Seq(Conn)
        /\ \A j, k \in 1 .. Len(r) : r[j] = r[k] => j = k
        /\ \A j \in 1 .. Len(r) : r[j] # list[i] /\ \E k \in 1 .. Len(list) : list[k] = r[j]
        /\ \A j \in 1 .. Len(list) : list[j] # list[i] =>
             \E k \in 1 .. Len(r) : r[k] = list[j]
    BY ONLY <2>2, <2>3, Removal, Zenon
  <2> HIDE DEF r
  <2>5. list' = r
    BY <2>1 DEF r
  <2>6. /\ list' \in Seq(Conn)
        /\ \A j, k \in 1 .. Len(list') : list'[j] = list'[k] => j = k
        /\ \A j \in 1 .. Len(list') :
             list'[j] # list[i] /\ \E k \in 1 .. Len(list) : list[k] = list'[j]
        /\ \A j \in 1 .. Len(list) : list[j] # list[i] =>
             \E k \in 1 .. Len(list') : list'[k] = list[j]
    BY <2>4, <2>5
  <2>7. ListedOnce'
    BY <2>6 DEF ListedOnce
  <2>8. ASSUME NEW m
        PROVE  Listed(m)' <=> Listed(m) /\ m # n
    <3>1. Listed(m) <=> \E k \in 1 .. Len(list) : list[k] = m
      BY DEF Listed
    <3>2. Listed(m)' <=> \E k \in 1 .. Len(list') : list'[k] = m
      BY DEF Listed
    <3>3. ASSUME NEW j \in 1 .. Len(list'), list'[j] = m
          PROVE  m # list[i] /\ \E k \in 1 .. Len(list) : list[k] = m
      BY ONLY <2>6, <3>3, Zenon
    <3>4. ASSUME NEW j \in 1 .. Len(list), list[j] = m, m # list[i]
          PROVE  \E k \in 1 .. Len(list') : list'[k] = m
      BY ONLY <2>6, <3>4, Zenon
    <3> QED
      BY ONLY <2>1, <3>1, <3>2, <3>3, <3>4, Zenon
  <2> QED
    BY <2>1, <2>6, <2>7, <2>8 DEF Listed
<1>9. TypeOK'
  BY <1>6, <1>8, Typed DEF Delete, TypeOK, DataTyped, kernelVars, peerVars, historyVars
<1>10. QueuedPoint' /\ OnlyAccepted'
  <2>1. \A i \in 1 .. Len(list') : list'[i] \in 1 .. conns
    BY <1>8 DEF Listed, ServerInv, OnlyAccepted
  <2> QED
    BY <2>1 DEF Delete, kernelVars, ServerInv, QueuedPoint, OnlyAccepted, Points
<1>11. NotListedYet'
  BY <1>2, <1>7, ThreadsLabels DEF Delete, kernelVars, ServerInv, NotListedYet
<1>12. OneFrees'
  <2>1. ASSUME NEW u \in Threads, pc'[u] \in {"delete", "close"}
        PROVE  pc[u] \in {"delete", "close"}
    BY <2>1, <1>1, <1>7
  <2> QED
    BY <2>1, <1>7 DEF Delete, ServerInv, OneFrees
<1>13. OwnSocket'
  <2>1. ~unknown => sock[loc[t].fd] = n
    BY <1>5, <1>8 DEF Listed, ServerInv, ListTellsTruth
  <2> QED
    BY <2>1, <1>2, <1>7, ThreadsLabels DEF Delete, kernelVars, historyVars, ServerInv, OwnSocket
<1>14. ListTellsTruth'
  <2>1. ASSUME ~unknown, NEW m, Listed(m)
        PROVE  sock[fdOf[m]] = m
    BY <2>1 DEF Listed, ServerInv, ListTellsTruth
  <2>2. \A i \in 1 .. Len(list') : Listed(list'[i])
    BY <1>8 DEF Listed
  <2> QED
    BY <2>1, <2>2 DEF Delete, kernelVars, historyVars, ListTellsTruth
<1>15. LockHeld'
  <2>1. ASSUME NEW w \in Workers
        PROVE  /\ w \in Threads /\ Mine(w)' = Mine(w)
               /\ pc'[w] \notin {"idle", "lock"} => pc[w] \notin {"idle", "lock"}
    BY <1>1, <1>7, ThreadsLabels DEF Mine
  <2> QED
    BY <2>1, <1>1, <1>7 DEF Delete, ServerInv, LockHeld
<1>16. ListedOrFreed'
  <2>1. ASSUME NEW m \in 1 .. conns
        PROVE  Listed(m)' <=>
                 \/ m \notin freed /\ ~(pc'[Main] = "add" /\ loc'[Main].client = m)
                 \/ \E u \in Threads : pc'[u] = "delete" /\ loc'[u].node = m
    <3>1. CASE m = n
      <4>1. ~Listed(m)' /\ m \in freed
        BY <3>1, <1>5, <1>8
      <4>2. ASSUME NEW u \in Threads
            PROVE  ~(pc'[u] = "delete" /\ loc'[u].node = m)
        BY <3>1, <1>1, <1>7 DEF ServerInv, OneFrees
      <4> QED
        BY <4>1, <4>2
    <3>2. CASE m # n
      BY <3>2, <1>1, <1>2, <1>7, <1>8, ThreadsLabels DEF ServerInv, ListedOrFreed
    <3> QED
      BY <3>1, <3>2
  <2> QED
    BY <2>1 DEF ListedOrFreed, Delete
<1>17. SocketsAccounted'
  <2>3. sock' = sock
    BY DEF Delete, kernelVars
  <2>1. ASSUME NEW f \in Fds, sock[f] = n
        PROVE  f = loc[t].fd
    <3>1. sock[f] # 0
      BY <2>1, <1>5
    <3> QED
      BY <2>1, <3>1, <1>5 DEF ServerInv, OnlyAccepted, Points
  <2>2. ASSUME NEW f \in Fds
        PROVE  \/ sock[f] = 0
               \/ Listed(sock[f])'
               \/ pc'[Main] = "add" /\ loc'[Main].fd = f
               \/ \E u \in Threads : pc'[u] = "close" /\ loc'[u].fd = f
    <3>1. CASE sock[f] = n
      BY <3>1, <2>1, <1>7
    <3>2. CASE sock[f] # n
      <4>1. Listed(sock[f]) => Listed(sock[f])'
        BY <3>2, <1>8, <2>3
      <4> QED
        BY <4>1, <1>1, <1>2, <1>7, ThreadsLabels DEF ServerInv, SocketsAccounted
    <3> QED
      BY <3>1, <3>2
  <2> QED
    BY <2>2, <2>3 DEF SocketsAccounted, Listed
<1> QED
  BY <1>6, <1>8, <1>9, <1>10, <1>11, <1>12, <1>13, <1>14, <1>15, <1>16, <1>17 DEF ServerInv

(* Closing a socket: f is one, or none.                                    *)
LEMMA CloseTyped ==
  ASSUME ServerInv, NEW f, Close(f), UNCHANGED <<peer, sent, clientVars, queue, walk, rounds>>,
         broken' = broken, unknown' \in BOOLEAN, misrouted' = misrouted
  PROVE  DataTyped' /\ watched' \subseteq watched
<1>1. DataTyped
  BY Typed
<1>2. inbox' \in [Conn -> Seq(Cmds)]
  <2>1. << >> \in Seq(Cmds)
    BY EmptySeq
  <2> QED
    BY <1>1, <2>1 DEF Close, DataTyped
<1> QED
  BY <1>1, <1>2 DEF Close, DataTyped, clientVars

LEMMA CloseFdStep ==
  ASSUME ServerInv, NEW t \in Threads, CloseFd(t)
  PROVE  ServerInv'
<1> DEFINE f == loc[t].fd
           n == loc[t].node
<1>1. pc[t] = "close" /\ Return(t) /\ Close(f)
  BY DEF CloseFd, Running
<1>2. PICK label \in LabelsOf(t) \cap {"wait", "walk", "unlock", "idle"}, r \in Locals :
        /\ Moves(t, label, r) /\ Fits(t, label, r)
        /\ label = "unlock" => t \in Workers /\ r.client = loc[t].client
        /\ t \in Workers => label \in {"unlock", "idle"}
  BY <1>1, ReturnFits
<1>3. f \in Fds /\ n \in 1 .. conns /\ n \in freed /\ ~Listed(n)
  BY <1>1, Local, FreedIsUnlisted DEF Fits, Resting, WithNode, Points
<1>4. ASSUME NEW u \in Threads
      PROVE  pc'[u] = (IF u = t THEN label ELSE pc[u]) /\ loc'[u] = (IF u = t THEN r ELSE loc[u])
  BY <1>2, Typed DEF Moves
<1>5. ASSUME NEW u \in Threads, pc[u] \in {"add", "free", "delete"}
      PROVE  u # t /\ pc'[u] = pc[u] /\ loc'[u] = loc[u]
  BY <1>1, <1>4, <1>5
<1>6. ASSUME NEW u \in Threads, pc'[u] \in {"add", "free", "delete", "close"}
      PROVE  u # t /\ pc'[u] = pc[u] /\ loc'[u] = loc[u]
  BY <1>2, <1>4, <1>6
<1>7. sock' = [sock EXCEPT ![f] = 0] /\ sock \in [Fds -> Conn \cup {0}]
  BY <1>1, Typed DEF Close, DataTyped
<1>8. /\ pc' \in [Threads -> Labels] /\ loc' \in [Threads -> Locals]
      /\ OwnLabels' /\ LocalsByPc'
  BY <1>2, StepLocals DEF CloseFd, clientVars
<1>9. DataTyped' /\ watched' \subseteq watched
  BY <1>1, CloseTyped, Typed DEF CloseFd, DataTyped, historyVars
<1>10. TypeOK'
  BY <1>8, <1>9 DEF TypeOK, DataTyped
<1>11. QueuedPoint' /\ OnlyAccepted' /\ ListedOnce'
  BY <1>7, <1>9 DEF CloseFd, clientVars, ServerInv, QueuedPoint, OnlyAccepted, Points, ListedOnce
<1>12. NotListedYet'
  BY <1>6, <1>7, <1>9, ThreadsLabels DEF CloseFd, clientVars, ServerInv, NotListedYet
<1>13. OneFrees'
  BY <1>6 DEF CloseFd, clientVars, ServerInv, OneFrees
<1>14. ASSUME ~unknown
       PROVE  sock[f] = n
  BY <1>1, <1>14 DEF ServerInv, OwnSocket
<1>15. OwnSocket'
  <2>1. ASSUME ~unknown, NEW u \in Threads, pc'[u] = "close"
        PROVE  sock'[loc'[u].fd] = loc'[u].node
    <3>1. u # t /\ pc[u] = "close" /\ loc'[u] = loc[u]
      BY <2>1, <1>6
    <3>2. loc[u].node # n /\ sock[loc[u].fd] = loc[u].node
      BY <2>1, <3>1, <1>1 DEF ServerInv, OneFrees, OwnSocket
    <3> QED
      BY <2>1, <3>1, <3>2, <1>7, <1>14
  <2>2. ASSUME ~unknown, pc'[Main] = "add"
        PROVE  sock'[loc'[Main].fd] = loc'[Main].client
    <3>1. pc[Main] = "add" /\ loc'[Main] = loc[Main]
      BY <2>2, <1>6, ThreadsLabels
    <3>2. loc[Main].client # n /\ sock[loc[Main].fd] = loc[Main].client
      BY <2>2, <3>1, <1>3 DEF ServerInv, NotListedYet, OwnSocket
    <3> QED
      BY <2>2, <3>1, <3>2, <1>7, <1>14
  <2> QED
    BY <2>1, <2>2 DEF OwnSocket, CloseFd, historyVars
<1>16. ListTellsTruth'
  <2>1. ASSUME ~unknown, NEW i \in 1 .. Len(list)
        PROVE  sock'[fdOf[list[i]]] = list[i]
    <3>1. list[i] # n /\ sock[fdOf[list[i]]] = list[i]
      BY <2>1, <1>3 DEF Listed, ServerInv, ListTellsTruth
    <3> QED
      BY <2>1, <3>1, <1>7, <1>14
  <2> QED
    BY <2>1 DEF ListTellsTruth, CloseFd, clientVars, historyVars
<1>17. LockHeld'
  <2>1. ASSUME NEW w \in Workers
        PROVE  /\ w \in Threads
               /\ pc'[w] \notin {"idle", "lock"} =>
                     pc[w] \notin {"idle", "lock"} /\ Mine(w)' = Mine(w)
    BY <1>1, <1>2, <1>4, ThreadsLabels DEF Mine
  <2> QED
    BY <2>1, <1>5 DEF CloseFd, clientVars, ServerInv, LockHeld
<1>18. ListedOrFreed'
  BY <1>5, <1>6, ThreadsLabels DEF CloseFd, clientVars, ServerInv, ListedOrFreed, Listed
<1>19. SocketsAccounted'
  <2>1. ASSUME NEW g \in Fds, g # f, sock[g] # 0, ~Listed(sock[g])
        PROVE  \/ pc'[Main] = "add" /\ loc'[Main].fd = g
               \/ \E u \in Threads : pc'[u] = "close" /\ loc'[u].fd = g
    <3>1. CASE pc[Main] = "add" /\ loc[Main].fd = g
      BY <3>1, <1>5, ThreadsLabels
    <3>2. CASE \E u \in Threads : pc[u] = "close" /\ loc[u].fd = g
      BY <3>2, <2>1, <1>4
    <3> QED
      BY <2>1, <3>1, <3>2 DEF ServerInv, SocketsAccounted
  <2> QED
    BY <2>1, <1>7 DEF SocketsAccounted, Listed, CloseFd, clientVars
<1> QED
  BY <1>8, <1>10, <1>11, <1>12, <1>13, <1>15, <1>16, <1>17, <1>18, <1>19 DEF ServerInv

LEMMA CloseUnknownStep ==
  ASSUME ServerInv, CloseUnknown
  PROVE  ServerInv'
<1> DEFINE f == loc[Epoll].fd
<1>1. /\ Epoll \in Threads /\ "wait" \in LabelsOf(Epoll)
      /\ pc[Epoll] = "closeUnknown" /\ Close(f) /\ unknown' = TRUE
  BY ThreadsLabels DEF CloseUnknown, Running
<1>2. f \in Fds
  BY <1>1, Local DEF Fits, Resting
<1>3. Moves(Epoll, "wait", NoLocals) /\ Fits(Epoll, "wait", NoLocals)
  BY ThreadsLabels DEF CloseUnknown, Goto, Moves, Fits, Resting, WithNode
<1>4. ASSUME NEW u \in Threads
      PROVE  /\ pc'[u] = (IF u = Epoll THEN "wait" ELSE pc[u])
             /\ loc'[u] = (IF u = Epoll THEN NoLocals ELSE loc[u])
  BY <1>3, Typed DEF Moves
<1>5. ASSUME NEW u \in Threads,
             \/ pc[u] \in {"add", "free", "delete", "close"}
             \/ pc'[u] \in {"add", "free", "delete", "close"}
      PROVE  u # Epoll /\ pc'[u] = pc[u] /\ loc'[u] = loc[u]
  BY <1>1, <1>4, <1>5
<1>6. sock' = [sock EXCEPT ![f] = 0] /\ sock \in [Fds -> Conn \cup {0}]
  BY <1>1, Typed DEF Close, DataTyped
<1>7. /\ pc' \in [Threads -> Labels] /\ loc' \in [Threads -> Locals]
      /\ OwnLabels' /\ LocalsByPc'
  BY <1>1, <1>3, RestLocals, StepLocals DEF CloseUnknown, clientVars
<1>8. DataTyped' /\ watched' \subseteq watched
  BY <1>1, CloseTyped DEF CloseUnknown
<1>9. TypeOK'
  BY <1>7, <1>8 DEF TypeOK, DataTyped
<1>10. QueuedPoint' /\ OnlyAccepted' /\ ListedOnce'
  BY <1>6, <1>8
     DEF CloseUnknown, clientVars, ServerInv, QueuedPoint, OnlyAccepted, Points, ListedOnce
<1>11. NotListedYet'
  BY <1>2, <1>5, <1>6, <1>8, ThreadsLabels DEF CloseUnknown, clientVars, ServerInv, NotListedYet
<1>12. OneFrees'
  BY <1>5 DEF CloseUnknown, clientVars, ServerInv, OneFrees
<1>13. OwnSocket' /\ ListTellsTruth'
  BY <1>1 DEF OwnSocket, ListTellsTruth
<1>14. LockHeld'
  <2>1. ASSUME NEW w \in Workers
        PROVE  w \in Threads /\ pc'[w] = pc[w] /\ Mine(w)' = Mine(w)
    BY <1>4, ThreadsLabels DEF Mine
  <2> QED
    BY <2>1, <1>5 DEF CloseUnknown, clientVars, ServerInv, LockHeld
<1>15. ListedOrFreed'
  BY <1>5, ThreadsLabels DEF CloseUnknown, clientVars, ServerInv, ListedOrFreed, Listed
<1>16. SocketsAccounted'
  BY <1>2, <1>5, <1>6, ThreadsLabels
     DEF CloseUnknown, clientVars, ServerInv, SocketsAccounted, Listed
<1> QED
  BY <1>7, <1>9, <1>10, <1>11, <1>12, <1>13, <1>14, <1>15, <1>16 DEF ServerInv

LEMMA CloseSteps ==
  ASSUME ServerInv, NEW t \in Threads, CloseStep(t)
  PROVE  ServerInv'
BY CallCloseStep, FindStep, FindFailsStep, UnlockNodeStep, FreeClientStep, DeleteStep, CloseFdStep
   DEF CloseStep

-----------------------------------------------------------------------------
(* main.                                                                   *)

LEMMA AddStep ==
  ASSUME ServerInv, Add
  PROVE  ServerInv'
<1> DEFINE n == loc[Main].client
<1>1. Main \in Threads /\ pc[Main] = "add" /\ "watch" \in LabelsOf(Main)
  BY ThreadsLabels DEF Add, Running
<1>2. /\ n \in 1 .. conns /\ n \in Conn /\ fdOf[n] = loc[Main].fd /\ loc[Main].fd \in Fds
      /\ n \notin freed /\ ~Listed(n)
  BY <1>1, AddedIsUnlisted, Accepted DEF Points
<1>3. loc[Main] \in Locals /\ Fits(Main, "add", loc[Main])
  BY <1>1, Local
<1>4. Moves(Main, "watch", loc[Main])
  BY Typed DEF Add, Goto, Moves
<1>5. Fits(Main, "watch", loc[Main])
  BY <1>3, ThreadsLabels DEF Fits, Resting, WithNode
<1>6. /\ pc' \in [Threads -> Labels] /\ loc' \in [Threads -> Locals]
      /\ OwnLabels' /\ LocalsByPc'
  BY <1>1, <1>3, <1>4, <1>5, StepLocals DEF Add
<1>7. ASSUME NEW u \in Threads
      PROVE  pc'[u] = (IF u = Main THEN "watch" ELSE pc[u]) /\ loc'[u] = loc[u]
  BY Typed DEF Add, Goto
<1>8. list \in Seq(Conn) /\ Len(list) \in Nat
  BY Typed DEF DataTyped
<1>9. /\ list' \in Seq(Conn) /\ Len(list') = Len(list) + 1
      /\ \A i \in 1 .. Len(list) : list'[i] = list[i]
      /\ list'[Len(list) + 1] = n
  BY <1>2, <1>8, AppendProperties DEF Add
<1>10. ASSUME NEW m
       PROVE  Listed(m)' <=> Listed(m) \/ m = n
  BY <1>8, <1>9 DEF Listed
<1>11. TypeOK'
  BY <1>6, <1>9, Typed DEF Add, TypeOK, DataTyped, kernelVars, peerVars, historyVars
<1>12. QueuedPoint' /\ OnlyAccepted'
  <2>1. \A i \in 1 .. Len(list') : list'[i] \in 1 .. conns
    BY <1>2, <1>8, <1>9 DEF ServerInv, OnlyAccepted
  <2> QED
    BY <2>1 DEF Add, kernelVars, ServerInv, QueuedPoint, OnlyAccepted, Points
<1>13. ListedOnce'
  <2>1. \A i \in 1 .. Len(list) : list[i] # n
    BY <1>2 DEF Listed
  <2> QED
    BY <2>1, <1>8, <1>9 DEF ServerInv, ListedOnce
<1>14. NotListedYet' /\ OneFrees' /\ OwnSocket'
  BY <1>1, <1>7 DEF Add, kernelVars, historyVars, ServerInv, NotListedYet, OneFrees, OwnSocket
<1>15. LockHeld'
  <2>1. ASSUME NEW w \in Workers
        PROVE  w \in Threads /\ pc'[w] = pc[w] /\ Mine(w)' = Mine(w)
    BY <1>7, ThreadsLabels DEF Mine
  <2> QED
    BY <2>1, <1>1, <1>7 DEF Add, ServerInv, LockHeld
<1>16. ListTellsTruth'
  <2>1. ASSUME ~unknown
        PROVE  sock[fdOf[n]] = n
    BY <2>1, <1>1, <1>2 DEF ServerInv, OwnSocket
  <2>2. ASSUME ~unknown, NEW i \in 1 .. Len(list')
        PROVE  sock[fdOf[list'[i]]] = list'[i]
    <3>1. i \in 1 .. Len(list) \/ i = Len(list) + 1
      BY <1>8, <1>9
    <3> QED
      BY <2>1, <2>2, <3>1, <1>9 DEF ServerInv, ListTellsTruth
  <2> QED
    BY <2>2 DEF Add, kernelVars, historyVars, ListTellsTruth
<1>17. ListedOrFreed'
  <2>1. ASSUME NEW m \in 1 .. conns
        PROVE  Listed(m)' <=>
                 \/ m \notin freed /\ ~(pc'[Main] = "add" /\ loc'[Main].client = m)
                 \/ \E u \in Threads : pc'[u] = "delete" /\ loc'[u].node = m
    <3>1. CASE m = n
      BY <3>1, <1>1, <1>2, <1>7, <1>10
    <3>2. CASE m # n
      BY <3>2, <1>1, <1>7, <1>10 DEF ServerInv, ListedOrFreed
    <3> QED
      BY <3>1, <3>2
  <2> QED
    BY <2>1 DEF ListedOrFreed, Add
<1>18. SocketsAccounted'
  <2>1. sock' = sock
    BY DEF Add, kernelVars
  <2>2. ASSUME NEW f \in Fds
        PROVE  \/ sock[f] = 0
               \/ Listed(sock[f])'
               \/ \E u \in Threads : pc'[u] = "close" /\ loc'[u].fd = f
    <3>1. CASE loc[Main].fd = f
      BY <3>1, <1>1, <1>10, <2>1 DEF ServerInv, NotListedYet
    <3>2. CASE loc[Main].fd # f
      <4>1. Listed(sock[f]) => Listed(sock[f])'
        BY <1>10, <2>1
      <4> QED
        BY <3>2, <4>1, <1>1, <1>7 DEF ServerInv, SocketsAccounted
    <3> QED
      BY <3>1, <3>2
  <2> QED
    BY <2>1, <2>2 DEF SocketsAccounted, Listed
<1> QED
  BY <1>6, <1>9, <1>11, <1>12, <1>13, <1>14, <1>15, <1>16, <1>17, <1>18 DEF ServerInv

LEMMA AcceptStep ==
  ASSUME ServerInv, NEW f \in Fds, Accept(f)
  PROVE  ServerInv'
<1> DEFINE n == conns + 1
           r == [loc[Main] EXCEPT !.fd = f, !.client = n]
<1>1. /\ Main \in Threads /\ pc[Main] = "accept" /\ "add" \in LabelsOf(Main)
      /\ n \in Conn /\ sock[f] = 0
  BY ThreadsLabels DEF Accept, Running
<1>2. /\ sock' = [sock EXCEPT ![f] = n] /\ fdOf' = [fdOf EXCEPT ![n] = f] /\ conns' = n
      /\ sock \in [Fds -> Conn \cup {0}] /\ fdOf \in [Conn -> Fds \cup {0}]
  BY Typed DEF Accept, DataTyped
<1>3. conns \in Nat /\ 1 .. conns \subseteq Conn /\ n \notin 1 .. conns
  BY Accepted
<1>4. loc[Main] = NoLocals
  BY <1>1, Local DEF Fits, Resting
<1>5. /\ r \in Locals /\ r.fd = f /\ r.client = n /\ r.node = 0
      /\ loc' = [loc EXCEPT ![Main] = r] /\ pc' = [pc EXCEPT ![Main] = "add"]
  <2>1. loc[Main] \in Locals /\ loc[Main].node = 0
    BY <1>1, <1>4, Local DEF NoLocals
  <2>2. r \in Locals /\ r.fd = f /\ r.client = n /\ r.node = 0
    BY <1>1, <2>1 DEF Locals
  <2>3. loc' = [loc EXCEPT ![Main] = r] /\ pc' = [pc EXCEPT ![Main] = "add"]
    BY Typed DEF Accept, Goto
  <2> QED
    BY <2>2, <2>3
<1>6. ASSUME NEW u \in Threads
      PROVE  /\ pc'[u] = (IF u = Main THEN "add" ELSE pc[u])
             /\ loc'[u] = (IF u = Main THEN r ELSE loc[u])
  BY <1>5, Typed
<1> HIDE DEF r
<1>7. ASSUME NEW g, NEW m, Points(g, m)
      PROVE  Points(g, m)' /\ fdOf'[m] = fdOf[m] /\ m # n
  BY <1>2, <1>3, <1>7 DEF Points
<1>8. n \in 1 .. conns' /\ fdOf'[n] = f
  BY <1>1, <1>2, <1>3
<1>9. /\ pc' \in [Threads -> Labels] /\ loc' \in [Threads -> Locals]
  BY <1>5, Typed DEF Labels
<1>10. OwnLabels'
  <2>1. ASSUME NEW u \in Threads
        PROVE  pc'[u] \in LabelsOf(u)
    BY <1>1, <1>6 DEF ServerInv, OwnLabels
  <2> QED
    BY <2>1 DEF OwnLabels, LabelsOf
<1>11. LocalsByPc'
  <2>1. ASSUME NEW u \in Threads
        PROVE  Fits(u, pc[u], loc[u])'
    <3>1. CASE u = Main
      BY <3>1, <1>5, <1>6, <1>8, ThreadsLabels DEF Fits, Points, Resting, WithNode
    <3>2. CASE u # Main
      <4>1. Fits(u, pc[u], loc[u])
        BY Local
      <4>2. pc'[u] = pc[u] /\ loc'[u] = loc[u]
        BY <3>2, <1>6
      <4> QED
        BY <4>1, <4>2, <1>7 DEF Fits
    <3> QED
      BY <3>1, <3>2
  <2> QED
    BY <2>1 DEF LocalsByPc
<1>12. TypeOK'
  <2>1. sock' \in [Fds -> Conn \cup {0}] /\ fdOf' \in [Conn -> Fds \cup {0}]
    BY <1>1, <1>2
  <2>2. conns' \in 0 .. MaxConn
    BY <1>1, <1>2, <1>3, ServerAssumption DEF Conn
  <2> QED
    BY <1>1, <1>9, <2>1, <2>2, Typed DEF Accept, TypeOK, DataTyped, historyVars
<1>13. QueuedPoint' /\ ListedOnce'
  BY <1>7 DEF Accept, ServerInv, QueuedPoint, ListedOnce
<1>14. OnlyAccepted'
  <2>1. \A m \in 1 .. conns' : fdOf'[m] \in Fds
    BY <1>1, <1>2, <1>3 DEF ServerInv, OnlyAccepted
  <2>2. \A g \in Fds : sock'[g] # 0 => Points(g, sock[g])'
    <3>1. ASSUME NEW g \in Fds, sock'[g] # 0
          PROVE  Points(g, sock[g])'
      <4>1. CASE g = f
        BY <4>1, <1>2, <1>8 DEF Points
      <4>2. CASE g # f
        <5>1. sock'[g] = sock[g] /\ Points(g, sock[g])
          BY <3>1, <4>2, <1>2 DEF ServerInv, OnlyAccepted
        <5> QED
          BY <5>1, <1>2, <1>3 DEF Points
      <4> QED
        BY <4>1, <4>2
    <3> QED
      BY <3>1
  <2>3. 1 .. conns \subseteq 1 .. conns' /\ \A m \in Conn : m > conns' => m > conns
    BY <1>2, <1>3 DEF Conn
  <2> QED
    BY <2>1, <2>2, <2>3 DEF Accept, ServerInv, OnlyAccepted
<1>15. NotListedYet'
  BY <1>1, <1>2, <1>3, <1>5, <1>6 DEF Accept, ServerInv, OnlyAccepted, NotListedYet
<1>16. OneFrees'
  <2>1. ASSUME NEW u \in Threads, pc'[u] \in {"delete", "close"}
        PROVE  pc[u] = pc'[u] /\ loc[u] = loc'[u]
    BY <2>1, <1>6
  <2>2. freed' = freed
    BY DEF Accept
  <2> QED
    BY <2>1, <2>2 DEF ServerInv, OneFrees
<1>17. OwnSocket'
  <2>1. ASSUME ~unknown, NEW u \in Threads, pc'[u] = "close"
        PROVE  sock'[loc'[u].fd] = loc'[u].node
    <3>1. u # Main /\ pc[u] = "close" /\ loc'[u] = loc[u]
      BY <2>1, <1>6
    <3>2. loc[u].node \in 1 .. conns /\ sock[loc[u].fd] = loc[u].node
      BY <2>1, <3>1, Local DEF ServerInv, OwnSocket, Fits, WithNode, Points
    <3> QED
      BY <3>1, <3>2, <1>1, <1>2, <1>3
  <2>2. sock'[loc'[Main].fd] = loc'[Main].client
    BY <1>1, <1>2, <1>5, <1>6
  <2> QED
    BY <2>1, <2>2 DEF OwnSocket, Accept, historyVars
<1>18. LockHeld'
  <2>1. ASSUME NEW w \in Workers
        PROVE  w \in Threads /\ pc'[w] = pc[w] /\ Mine(w)' = Mine(w)
    BY <1>6, ThreadsLabels DEF Mine
  <2>2. ASSUME NEW u \in Threads, pc[u] = "free"
        PROVE  pc'[u] = "free" /\ loc'[u] = loc[u]
    BY <2>2, <1>1, <1>6
  <2>3. freed' = freed /\ mutex' = mutex
    BY DEF Accept
  <2> QED
    BY <2>1, <2>2, <2>3 DEF ServerInv, LockHeld
<1>19. ListTellsTruth'
  <2>1. ASSUME ~unknown, NEW i \in 1 .. Len(list)
        PROVE  sock'[fdOf'[list[i]]] = list[i]
    <3>1. list[i] \in 1 .. conns /\ sock[fdOf[list[i]]] = list[i]
      BY <2>1 DEF ServerInv, OnlyAccepted, ListTellsTruth
    <3> QED
      BY <3>1, <1>1, <1>2, <1>3
  <2> QED
    BY <2>1 DEF ListTellsTruth, Accept, historyVars
<1>20. ListedOrFreed'
  <2>1. ASSUME NEW m \in 1 .. conns'
        PROVE  Listed(m) <=>
                 \/ m \notin freed /\ ~(pc'[Main] = "add" /\ loc'[Main].client = m)
                 \/ \E u \in Threads : pc'[u] = "delete" /\ loc'[u].node = m
    <3>1. CASE m = n
      <4>1. ~Listed(m) /\ pc'[Main] = "add" /\ loc'[Main].client = m
        BY <3>1, <1>1, <1>3, <1>5, <1>6 DEF Listed, ServerInv, OnlyAccepted
      <4>2. ASSUME NEW u \in Threads, pc'[u] = "delete"
            PROVE  loc'[u].node # m
        BY <3>1, <4>2, <1>3, <1>6, Local DEF Fits, WithNode, Points
      <4> QED
        BY <4>1, <4>2
    <3>2. CASE m # n
      <4>1. m \in 1 .. conns
        BY <3>2, <1>2, <1>3
      <4> QED
        BY <3>2, <4>1, <1>1, <1>5, <1>6 DEF ServerInv, ListedOrFreed
    <3> QED
      BY <3>1, <3>2
  <2> QED
    BY <2>1 DEF ListedOrFreed, Listed, Accept
<1>21. SocketsAccounted'
  <2>1. ASSUME NEW g \in Fds
        PROVE  \/ sock'[g] = 0
               \/ Listed(sock'[g])
               \/ pc'[Main] = "add" /\ loc'[Main].fd = g
               \/ \E u \in Threads : pc'[u] = "close" /\ loc'[u].fd = g
    <3>1. CASE g = f
      BY <3>1, <1>1, <1>5, <1>6
    <3>2. CASE g # f
      <4>1. sock'[g] = sock[g]
        BY <3>2, <1>2
      <4> QED
        BY <4>1, <1>1, <1>6 DEF ServerInv, SocketsAccounted
    <3> QED
      BY <3>1, <3>2
  <2> QED
    BY <2>1 DEF SocketsAccounted, Listed, Accept
<1> QED
  BY <1>9, <1>10, <1>11, <1>12, <1>13, <1>14, <1>15, <1>16, <1>17, <1>18, <1>19, <1>20, <1>21
     DEF ServerInv

-----------------------------------------------------------------------------
(* The invariant holds in every reachable state.                           *)

LEMMA InitServer ==
  ASSUME Init
  PROVE  ServerInv
<1>1. Main \in Threads /\ pc[Main] = "accept"
  BY ThreadsLabels DEF Init
<1>2. ASSUME NEW t \in Threads
      PROVE  pc[t] \in {"accept", "wait", "sleep", "idle"} /\ pc[t] \in LabelsOf(t)
  BY <1>2, ServerAssumption DEF Init, LabelsOf, Threads
<1>3. ASSUME NEW t \in Threads
      PROVE  loc[t] = NoLocals
  BY DEF Init
<1>4. list = << >> /\ Len(list) = 0 /\ queue = << >> /\ Len(queue) = 0
  BY EmptySeq DEF Init
<1>5. TypeOK
  <2>1. pc \in [Threads -> Labels] /\ loc \in [Threads -> Locals]
    BY RestLocals DEF Init, Labels
  <2>2. << >> \in Seq(Cmds) /\ << >> \in Seq(Conn) /\ << >> \in Seq(Tasks)
    BY EmptySeq
  <2>3. 0 \in 0 .. MaxPackets /\ 0 \in 0 .. MaxConn /\ 0 \in 0 .. Timeout + 1 /\ 0 \in 0 .. MaxRounds
    BY ServerAssumption
  <2> QED
    BY <2>1, <2>2, <2>3 DEF Init, TypeOK
<1>6. OwnLabels /\ LocalsByPc
  <2>1. ASSUME NEW t \in Threads
        PROVE  Fits(t, pc[t], loc[t])
    <3>1. t \in Workers => pc[t] = "idle"
      BY ThreadsLabels, ServerAssumption DEF Init
    <3> QED
      BY <1>2, <1>3, <3>1 DEF Fits, Resting, WithNode
  <2> QED
    BY <1>2, <2>1 DEF OwnLabels, LocalsByPc
<1>7. QueuedPoint /\ OnlyAccepted /\ ListedOnce /\ ListTellsTruth
  BY <1>4 DEF Init, QueuedPoint, OnlyAccepted, ListedOnce, ListTellsTruth
<1>8. NotListedYet /\ OneFrees /\ OwnSocket /\ SocketsAccounted
  BY <1>1, <1>2 DEF Init, NotListedYet, OneFrees, OwnSocket, SocketsAccounted
<1>9. LockHeld
  <2>1. ASSUME NEW w \in Workers
        PROVE  pc[w] = "idle"
    BY ThreadsLabels, ServerAssumption DEF Init
  <2> QED
    BY <2>1 DEF LockHeld
<1>10. ListedOrFreed
  BY DEF Init, ListedOrFreed
<1> QED
  BY <1>5, <1>6, <1>7, <1>8, <1>9, <1>10 DEF ServerInv

LEMMA NextServer ==
  ASSUME ServerInv, [Next]_vars
  PROVE  ServerInv'
<1>1. CASE MainStep
  BY <1>1, AcceptStep, AddStep, WatchStep DEF MainStep
<1>2. CASE EpollStep
  BY <1>2, WaitStep, LookupStep, LookupFailsStep, CloseUnknownStep, RecvStep, RecvFailsStep,
     NewTaskStep, NewTaskFailsStep, CloseSteps, ThreadsLabels DEF EpollStep
<1>3. CASE HeartStep
  BY <1>3, TickStep, VisitStep, WalkEndsStep, CloseSteps, ThreadsLabels DEF HeartStep
<1>4. ASSUME NEW w \in Workers, WorkerStep(w)
      PROVE  ServerInv'
  BY <1>4, TakeStep, LockClientStep, HandleLoginStep, HandleHeartbeatStep, HandleElseStep,
     SeekStep, DeliverStep, ReplyStep, UnlockStep, CloseSteps, ThreadsLabels DEF WorkerStep
<1>5. CASE UNCHANGED vars
  <2>1. DataTyped'
    BY <1>5, Typed DEF DataTyped, vars, kernelVars, peerVars, clientVars, threadVars, historyVars
  <2> QED
    BY <1>5, <2>1, NoThreadInv DEF vars, kernelVars, historyVars
<1> QED
  BY <1>1, <1>2, <1>3, <1>4, <1>5, PeerSteps, UndefinedSteps DEF Next

(* Whatever the peers do, and up to the first use of what was freed.       *)
THEOREM ServerInvariant == Spec => []ServerInv
<1>1. Init => ServerInv
  BY InitServer
<1>2. ServerInv /\ [Next]_vars => ServerInv'
  BY NextServer
<1> QED
  BY <1>1, <1>2, PTL DEF Spec

(* However many workers there are, two are in the handlers of one client   *)
(* only while somebody closes it or when it is freed already (handle.c:23, *)
(* spider_function.c:207).                                                 *)
THEOREM OneInTheHandlers == Spec => []HandlersExclusive
<1>1. ServerInv => HandlersExclusive
  <2>1. ASSUME ServerInv, NEW v \in Workers, NEW w \in Workers,
               v # w, InHandler(v), InHandler(w), Mine(v) = Mine(w), Mine(v) \notin freed
        PROVE  \E t \in Threads : pc[t] = "free" /\ loc[t].node = Mine(v)
    BY <2>1 DEF ServerInv, LockHeld, InHandler
  <2> QED
    BY <2>1 DEF HandlersExclusive
<1> QED
  BY <1>1, ServerInvariant, PTL

(* The list and the kernel agree on whose socket is whose until the epoll  *)
(* thread closes one it did not find (spider_tcp_server.c:152-156).        *)
THEOREM ListIsTheKernels == Spec => []ListTellsTruth
<1>1. ServerInv => ListTellsTruth
  BY DEF ServerInv
<1> QED
  BY <1>1, ServerInvariant, PTL

(* No interleaving leaks a client or a socket (spider_tcp_server.c:98-116, *)
(* spider_function.c:192-226).                                             *)
THEOREM NoLeaks == Spec => []NothingLeaks
<1>1. ServerInv => NothingLeaks
  BY DEF ServerInv, NothingLeaks, ListedOrFreed, SocketsAccounted
<1> QED
  BY <1>1, ServerInvariant, PTL

-----------------------------------------------------------------------------
(* With polite peers: who closes a connection is the only one that still   *)
(* has to do with it.                                                      *)

(* Where no socket was closed behind a client's back, a socket number      *)
(* leads to its client.                                                    *)
LEMMA FoundIsOwner ==
  ASSUME ServerInv, ~unknown, NEW f \in Fds, NEW n \in Conn, Found(f, n)
  PROVE  n = sock[f]
BY DEF Found, ServerInv, ListTellsTruth

LEMMA WorksHere ==
  ASSUME ServerInv, NEW w \in Workers, NEW n \in 1 .. conns
  PROVE  loc[w].client = n <=> Works(w, n)
<1>1. pc[w] = "idle" => loc[w] = NoLocals
  BY ThreadsLabels, Local DEF Fits, Resting
<1>2. n # 0
  BY Accepted
<1> QED
  BY <1>1, <1>2 DEF Works, NoLocals

LEMMA CloserAlone ==
  ASSUME ServerInv, PoliteInv, NEW u \in Threads, pc[u] \in WithNode,
         NEW n, n = loc[u].node
  PROVE  /\ n \in 1 .. conns /\ sock[loc[u].fd] = n /\ loc[u].fd \in Fds
         /\ \A w \in Workers : w # u => loc[w].client # n
         /\ u # Epoll /\ pc[Epoll] \in {"recv", "newTask"} \cup Closing => loc[Epoll].client # n
         /\ pc[Epoll] = "lookup" => sock[loc[Epoll].fd] # n
         /\ ~Queued(n)
         /\ \A t \in Threads : t # u /\ pc[t] \in WithNode => loc[t].node # n
<1>1. pc[u] \in LabelsOf(u) /\ Points(loc[u].fd, n) /\ loc[u].fd \in Fds
  BY Local DEF Fits, WithNode, Resting
<1>2. n \in 1 .. conns /\ n \in Conn
  BY <1>1, Accepted DEF Points
<1>3. u = Epoll \/ u = Heart \/ u \in Workers
  BY <1>1, ThreadsLabels DEF WithNode, Threads
<1>4. pc[u] \in Closing
  BY DEF WithNode, Closing
<1>5. ASSUME NEW w \in Workers, loc[w].client = n
      PROVE  w \in Threads /\ Works(w, n) /\ pc[w] # "idle"
  BY <1>2, <1>5, WorksHere, ThreadsLabels DEF Works
<1>6. CASE u = Heart
  <2>1. sock[loc[u].fd] = n /\ age[n] > Timeout
    BY <1>4, <1>6 DEF PoliteInv, OwnReason
  <2>2. IsOpen(n)
    BY <1>1, <2>1 DEF IsOpen
  <2>3. peer[n] = "open" /\ Settled(n)
    BY <1>2, <2>1, <2>2 DEF PoliteInv, TimedOutIdle
  <2>4. \A t \in Threads : loc[t].client # n
    BY <2>3 DEF Settled
  <2>5. ~Queued(n) /\ inbox[n] = << >>
    BY <2>3 DEF Settled, Queued
  <2>6. pc[Epoll] = "lookup" => sock[loc[Epoll].fd] # n
    BY <2>3, <2>5 DEF PoliteInv, EventIsMeant
  <2>7. ASSUME NEW t \in Threads, t # u, pc[t] \in WithNode
        PROVE  loc[t].node # n
    BY <1>6, <2>4, <2>7 DEF PoliteInv, OwnReason
  <2> QED
    BY <1>1, <1>2, <2>1, <2>4, <2>5, <2>6, <2>7, ThreadsLabels
<1>7. CASE u = Epoll
  <2>1. n = loc[u].client /\ sock[loc[u].fd] = n /\ peer[n] = "closed"
    BY <1>4, <1>7, ThreadsLabels DEF PoliteInv, OwnReason, Connected
  <2>2. n \notin waiting /\ \A t \in Threads : ~Works(t, n)
    BY <1>2, <2>1 DEF PoliteInv, HungUpIdle
  <2>3. \A w \in Workers : loc[w].client # n
    BY <1>5, <2>2
  <2>4. ~Queued(n)
    BY <1>2, <2>2 DEF PoliteInv, OneRequest
  <2>5. pc[Epoll] # "lookup"
    BY <1>7 DEF WithNode
  <2>6. ASSUME NEW t \in Threads, t # u, pc[t] \in WithNode, loc[t].node = n
        PROVE  FALSE
    <3>1. t = Heart
      <4>1. t # Main
        BY <2>6, Local, ThreadsLabels DEF WithNode
      <4>2. t \notin Workers
        BY <2>3, <2>6, ThreadsLabels DEF PoliteInv, OwnReason
      <4> QED
        BY <1>7, <2>6, <4>1, <4>2 DEF Threads
    <3>2. sock[loc[t].fd] = n /\ age[n] > Timeout /\ loc[t].fd \in Fds
      BY <2>6, <3>1, Local DEF WithNode, Closing, PoliteInv, OwnReason, Fits, Resting
    <3>3. peer[n] = "open"
      BY <1>2, <3>2 DEF IsOpen, PoliteInv, TimedOutIdle
    <3> QED
      BY <2>1, <3>3
  <2> QED
    BY <1>1, <1>2, <1>7, <2>1, <2>3, <2>4, <2>5, <2>6
<1>8. CASE u \in Workers
  <2>1. n = loc[u].client /\ pc[u] # "unlock" /\ pc[u] # "idle" /\ pc[u] # "lock"
    BY <1>8, ThreadsLabels DEF WithNode, PoliteInv, OwnReason
  <2>2. HeldBy(u, n) /\ Works(u, n) /\ n \in waiting /\ sock[loc[u].fd] = n
    BY <1>2, <1>8, <2>1 DEF HeldBy, Works, PoliteInv, OneRequest, Connected, Mine
  <2>3. inbox[n] = << >> /\ ~Queued(n) /\ \A t \in Threads : HeldBy(t, n) => t = u
    BY <1>2, <2>2 DEF PoliteInv, OneRequest
  <2>4. peer[n] # "closed"
    BY <1>2, <2>2 DEF PoliteInv, HungUpIdle
  <2>5. ASSUME NEW w \in Workers, w # u, loc[w].client = n
        PROVE  FALSE
    <3>1. w \in Threads /\ pc[w] # "idle"
      BY <1>5, <2>5
    <3>2. pc[w] = "unlock"
      BY <2>3, <2>5, <3>1 DEF HeldBy
    <3> QED
      BY <1>8, <2>1, <2>5, <3>1, <3>2 DEF PoliteInv, TakeTurns, Mine
  <2>6. pc[Epoll] \in {"recv", "newTask"} \cup Closing => loc[Epoll].client # n
    <3>1. CASE pc[Epoll] = "recv"
      BY <2>3, <2>4, <3>1 DEF PoliteInv, EventIsMeant, Connected
    <3>2. CASE pc[Epoll] = "newTask"
      BY <1>8, <2>3, <3>2, ThreadsLabels DEF HeldBy
    <3>3. CASE pc[Epoll] \in Closing
      BY <2>4, <3>3 DEF PoliteInv, OwnReason
    <3> QED
      BY <3>1, <3>2, <3>3
  <2>7. pc[Epoll] = "lookup" => sock[loc[Epoll].fd] # n
    BY <2>3, <2>4 DEF PoliteInv, EventIsMeant
  <2>8. ASSUME NEW t \in Threads, t # u, pc[t] \in WithNode, loc[t].node = n
        PROVE  FALSE
    <3>1. pc[t] \in Closing
      BY <2>8 DEF WithNode, Closing
    <3>2. t # Main
      BY <2>8, Local, ThreadsLabels DEF WithNode
    <3>3. CASE t = Epoll
      BY <2>6, <2>8, <3>1, <3>3, ThreadsLabels DEF PoliteInv, OwnReason
    <3>4. CASE t \in Workers
      BY <2>5, <2>8, <3>4, ThreadsLabels DEF PoliteInv, OwnReason
    <3>5. CASE t = Heart
      <4>1. sock[loc[t].fd] = n /\ age[n] > Timeout /\ loc[t].fd \in Fds
        BY <2>8, <3>1, <3>5, Local DEF PoliteInv, OwnReason, Fits, Resting, WithNode
      <4>2. Settled(n)
        BY <1>2, <4>1 DEF IsOpen, PoliteInv, TimedOutIdle
      <4> QED
        BY <2>2, <4>2 DEF Settled
    <3> QED
      BY <3>2, <3>3, <3>4, <3>5 DEF Threads
  <2> QED
    BY <1>1, <1>2, <2>2, <2>3, <2>5, <2>6, <2>7, <2>8
<1> QED
  BY <1>3, <1>6, <1>7, <1>8

(* A connection that is open and freed is being closed.                    *)
LEMMA OpenAndFreed ==
  ASSUME ServerInv, ~unknown, NEW f \in Fds, sock[f] # 0, sock[f] \in freed
  PROVE  \E u \in Threads : pc[u] \in {"delete", "close"} /\ loc[u].node = sock[f]
<1>1. sock[f] \in 1 .. conns
  BY DEF ServerInv, OnlyAccepted, Points
<1>2. CASE Listed(sock[f])
  BY <1>1, <1>2 DEF ServerInv, ListedOrFreed
<1>3. CASE pc[Main] = "add" /\ loc[Main].fd = f
  BY <1>3 DEF ServerInv, OwnSocket, NotListedYet
<1>4. ASSUME NEW u \in Threads, pc[u] = "close", loc[u].fd = f
      PROVE  loc[u].node = sock[f]
  BY <1>4 DEF ServerInv, OwnSocket
<1> QED
  BY <1>2, <1>3, <1>4 DEF ServerInv, SocketsAccounted

(* What Moves means for each thread.                                       *)
LEMMA MovesOne ==
  ASSUME ServerInv, NEW t \in Threads, NEW label, NEW r, Moves(t, label, r), NEW u \in Threads
  PROVE  /\ pc'[u] = IF u = t THEN label ELSE pc[u]
         /\ loc'[u] = IF u = t THEN r ELSE loc[u]
BY Typed DEF Moves

(* Sockets, requests and answers stay as they are.                         *)
SameTraffic == UNCHANGED <<sock, inbox, peer, waiting, queue, unknown, misrouted>>

(* No timer runs on, and none is reset of a client that timed out.         *)
TimersKeep ==
    \A n \in Conn :
        \/ age'[n] = age[n]
        \/ age'[n] = 0 /\ ~(pc[Heart] \in Closing /\ loc[Heart].node = n)

(* A thread that goes on working for its connection.                       *)
GoesOn(t, label, r) ==
    /\ r.client = loc[t].client /\ r.from = loc[t].from
    /\ r.fd = loc[t].fd /\ r.cmd = loc[t].cmd
    /\ t \in Workers => pc[t] \notin {"idle", "lock", "unlock"}
                        /\ label \notin {"idle", "lock", "unlock"}
    /\ t \in {Epoll, Heart} => pc[t] \in Closing /\ label \in Closing
    /\ t = Heart => r.node = loc[t].node
    /\ t = Main => label # "add"
    /\ label \in WithNode =>
        /\ t # Heart => r.node = r.client
        /\ ~(pc[Main] = "add" /\ loc[Main].client = r.node)

LEMMA GoesOnPolite ==
  ASSUME ServerInv, PoliteInv,
         NEW t \in Threads, NEW label \in LabelsOf(t), NEW r,
         Moves(t, label, r), GoesOn(t, label, r), SameTraffic, TimersKeep, broken' # "own"
  PROVE  PoliteInv'
<1>1. ASSUME NEW u \in Threads
      PROVE  /\ pc'[u] = IF u = t THEN label ELSE pc[u]
             /\ loc'[u] = IF u = t THEN r ELSE loc[u]
  BY MovesOne
<1>2. /\ Main \in Threads /\ Epoll \in Threads /\ Heart \in Threads
      /\ \A w \in Workers : w \in Threads /\ w # Main /\ w # Epoll /\ w # Heart
  BY ThreadsLabels
<1>3. pc'[Main] = "add" => pc[Main] = "add" /\ loc'[Main] = loc[Main]
  BY <1>1, <1>2 DEF GoesOn
<1>4. ASSUME NEW u \in Threads
      PROVE  /\ loc'[u].client = loc[u].client /\ loc'[u].from = loc[u].from
             /\ loc'[u].fd = loc[u].fd /\ loc'[u].cmd = loc[u].cmd
  BY <1>1 DEF GoesOn
<1>5. ASSUME NEW w \in Workers
      PROVE  /\ pc'[w] = "idle" <=> pc[w] = "idle"
             /\ pc'[w] = "lock" <=> pc[w] = "lock"
             /\ pc'[w] = "unlock" <=> pc[w] = "unlock"
  BY <1>1, <1>2 DEF GoesOn
<1>6. pc'[Epoll] = pc[Epoll] \/ (pc[Epoll] \in Closing /\ pc'[Epoll] \in Closing)
  BY <1>1, <1>2 DEF GoesOn
<1>7. \A u \in Threads, n \in Conn : HeldBy(u, n)' <=> HeldBy(u, n)
  BY <1>4, <1>5, <1>6 DEF HeldBy, Closing
<1>8. \A u \in Threads, n \in Conn : Works(u, n)' <=> Works(u, n)
  BY <1>4, <1>5 DEF Works
<1>9. /\ unknown' = unknown /\ misrouted' = misrouted /\ sock' = sock /\ inbox' = inbox
      /\ peer' = peer /\ waiting' = waiting /\ queue' = queue
  BY DEF SameTraffic
<1>10. ~unknown' /\ OwnNeverStale' /\ EventsAreKnown' /\ RepliesReachSender'
  BY <1>6, <1>9 DEF PoliteInv, OwnNeverStale, EventsAreKnown, RepliesReachSender, Closing
<1>11. OneRequest' /\ QueuedOnce'
  BY <1>7, <1>9 DEF PoliteInv, OneRequest, QueuedOnce, Queued
<1>12. TakeTurns'
  BY <1>2, <1>4, <1>5 DEF PoliteInv, TakeTurns, Mine
<1>13. WellFormedOnly'
  BY <1>4, <1>9 DEF PoliteInv, WellFormedOnly, WellFormed
<1>14. Connected'
  BY <1>2, <1>4, <1>5, <1>6, <1>9 DEF PoliteInv, Connected, Mine, Closing
<1>15. EventIsMeant'
  BY <1>2, <1>3, <1>4, <1>6, <1>9 DEF PoliteInv, EventIsMeant, Closing
<1>16. HungUpIdle'
  BY <1>8, <1>9 DEF PoliteInv, HungUpIdle
<1>17. TimedOutIdle'
  <2>1. \A n \in Conn : age'[n] = age[n] \/ age'[n] = 0
    BY DEF TimersKeep
  <2>2. \A n \in Conn : Settled(n)' <=> Settled(n)
    BY <1>4, <1>9 DEF Settled
  <2>3. \A n \in Conn : age'[n] > Timeout => age[n] > Timeout
    BY <2>1, ServerAssumption
  <2> QED
    BY <2>2, <2>3, <1>9 DEF PoliteInv, TimedOutIdle, IsOpen
<1>18. OwnReason'
  <2>1. pc'[Epoll] \in Closing => peer'[loc'[Epoll].client] = "closed"
    BY <1>2, <1>4, <1>6, <1>9 DEF PoliteInv, OwnReason
  <2>2. pc'[Heart] \in Closing =>
            /\ sock'[loc'[Heart].fd] = loc'[Heart].node /\ age'[loc'[Heart].node] > Timeout
    <3>1. SUFFICES ASSUME pc'[Heart] \in Closing
          PROVE  /\ sock'[loc'[Heart].fd] = loc'[Heart].node /\ age'[loc'[Heart].node] > Timeout
      OBVIOUS
    <3>2. pc[Heart] \in Closing /\ loc'[Heart].node = loc[Heart].node
      BY <3>1, <1>1, <1>2 DEF GoesOn
    <3>3. pc[Heart] \in WithNode
      BY <1>2, <3>2, Local, ThreadsLabels DEF Closing, WithNode
    <3>4. loc[Heart].node \in Conn
      BY <1>2, <3>3, Local, Accepted DEF Fits, Points
    <3> QED
      BY <1>2, <1>4, <1>9, <3>2, <3>4 DEF PoliteInv, OwnReason, TimersKeep
  <2>3. ASSUME NEW u \in Threads, pc'[u] \in WithNode
        PROVE  /\ u # Heart => loc'[u].node = loc'[u].client
               /\ ~(pc'[Main] = "add" /\ loc'[Main].client = loc'[u].node)
    BY <2>3, <1>1, <1>3 DEF PoliteInv, OwnReason, GoesOn
  <2> QED
    BY <2>1, <2>2, <2>3 DEF OwnReason
<1> QED
  BY <1>10, <1>11, <1>12, <1>13, <1>14, <1>15, <1>16, <1>17, <1>18 DEF PoliteInv

(* A thread that is done with its connection.                              *)
LEMMA RestsPolite ==
  ASSUME ServerInv, PoliteInv,
         NEW t \in Threads, NEW label \in LabelsOf(t), label \in Resting,
         Moves(t, label, NoLocals), SameTraffic, age' = age, broken' # "own"
  PROVE  PoliteInv'
<1>1. ASSUME NEW u \in Threads
      PROVE  /\ pc'[u] = IF u = t THEN label ELSE pc[u]
             /\ loc'[u] = IF u = t THEN NoLocals ELSE loc[u]
  BY MovesOne
<1>2. /\ Main \in Threads /\ Epoll \in Threads /\ Heart \in Threads
      /\ \A w \in Workers : w \in Threads /\ w # Main /\ w # Epoll /\ w # Heart
  BY ThreadsLabels
<1>3. pc'[Main] = "add" => pc[Main] = "add" /\ loc'[Main] = loc[Main]
  BY <1>1, <1>2 DEF Resting
<1>4. t \in Workers => label = "idle"
  BY ThreadsLabels DEF Resting, Closing
<1>5. ASSUME NEW u \in Threads, pc'[u] \notin Resting
      PROVE  pc'[u] = pc[u] /\ loc'[u] = loc[u]
  BY <1>1, <1>5
<1>6. ASSUME NEW w \in Workers, pc'[w] # "idle"
      PROVE  pc'[w] = pc[w] /\ loc'[w] = loc[w]
  BY <1>1, <1>2, <1>4, <1>6
<1>7. 0 \notin Conn
  BY DEF Conn
<1>8. ASSUME NEW w \in Workers, NEW n \in Conn, loc'[w].client = n
      PROVE  pc'[w] = pc[w] /\ loc'[w] = loc[w]
  BY <1>1, <1>2, <1>7, <1>8 DEF NoLocals
<1>9. \A u \in Threads, n \in Conn : HeldBy(u, n)' => HeldBy(u, n)
  BY <1>5, <1>8 DEF HeldBy, Resting
<1>10. \A u \in Threads, n \in Conn : Works(u, n)' => Works(u, n)
  BY <1>6 DEF Works
<1>11. /\ unknown' = unknown /\ misrouted' = misrouted /\ sock' = sock /\ inbox' = inbox
       /\ peer' = peer /\ waiting' = waiting /\ age' = age /\ queue' = queue
  BY DEF SameTraffic
<1>12. ~unknown' /\ OwnNeverStale' /\ EventsAreKnown' /\ RepliesReachSender'
  BY <1>2, <1>5, <1>11
     DEF PoliteInv, OwnNeverStale, EventsAreKnown, RepliesReachSender, Resting
<1>13. OneRequest' /\ QueuedOnce'
  BY <1>9, <1>11 DEF PoliteInv, OneRequest, QueuedOnce, Queued
<1>14. TakeTurns'
  BY <1>6 DEF PoliteInv, TakeTurns, Mine
<1>15. WellFormedOnly'
  BY <1>1, <1>11 DEF PoliteInv, WellFormedOnly, WellFormed, NoLocals
<1>16. Connected'
  BY <1>2, <1>5, <1>6, <1>11 DEF PoliteInv, Connected, Mine, Closing, Resting
<1>17. EventIsMeant'
  BY <1>2, <1>3, <1>5, <1>11 DEF PoliteInv, EventIsMeant, Resting
<1>18. HungUpIdle'
  BY <1>10, <1>11 DEF PoliteInv, HungUpIdle
<1>19. TimedOutIdle'
  BY <1>1, <1>7, <1>11 DEF PoliteInv, TimedOutIdle, IsOpen, Settled, NoLocals
<1>20. OwnReason'
  BY <1>2, <1>3, <1>5, <1>11 DEF PoliteInv, OwnReason, Closing, WithNode, Resting
<1> QED
  BY <1>12, <1>13, <1>14, <1>15, <1>16, <1>17, <1>18, <1>19, <1>20 DEF PoliteInv

-----------------------------------------------------------------------------
(* The steps in which a thread goes on.                                    *)

LEMMA LabelPolite ==
  ASSUME ServerInv, PoliteInv,
         NEW t \in Threads, NEW label \in LabelsOf(t),
         pc' = [pc EXCEPT ![t] = label], loc' = loc,
         GoesOn(t, label, loc[t]), SameTraffic, TimersKeep, broken' # "own"
  PROVE  PoliteInv'
<1>1. Moves(t, label, loc[t])
  BY Typed DEF Moves
<1> QED
  BY <1>1, GoesOnPolite

LEMMA AddPolite ==
  ASSUME ServerInv, PoliteInv, Add
  PROVE  PoliteInv'
<1>1. Main \in Threads /\ "watch" \in LabelsOf(Main) /\ Main \notin Workers \cup {Epoll, Heart}
  BY ThreadsLabels, ServerAssumption
<1>2. GoesOn(Main, "watch", loc[Main])
  BY <1>1 DEF GoesOn, WithNode
<1> QED
  BY <1>1, <1>2, LabelPolite
     DEF Add, Running, Goto, SameTraffic, TimersKeep, kernelVars, peerVars, historyVars

(* A closer that does not look for the node yet, or has found it.          *)
LEMMA ClosingPolite ==
  ASSUME ServerInv, PoliteInv, NEW t \in Threads, NEW label \in LabelsOf(t) \cap Closing,
         pc[t] \in Closing, label \in WithNode => pc[t] \in WithNode,
         pc' = [pc EXCEPT ![t] = label], loc' = loc, SameTraffic, TimersKeep, broken' # "own"
  PROVE  PoliteInv'
<1>1. t # Main
  BY Local, ThreadsLabels DEF Closing
<1>2. label \in WithNode =>
        /\ t # Heart => loc[t].node = loc[t].client
        /\ ~(pc[Main] = "add" /\ loc[Main].client = loc[t].node)
  BY DEF PoliteInv, OwnReason
<1>3. GoesOn(t, label, loc[t])
  BY <1>1, <1>2 DEF GoesOn, Closing
<1> QED
  BY <1>3, LabelPolite

LEMMA FindPolite ==
  ASSUME ServerInv, PoliteInv, NEW t \in Threads, Find(t)
  PROVE  PoliteInv'
<1>1. PICK n \in Conn : Found(loc[t].fd, n) /\ loc' = [loc EXCEPT ![t].node = n]
  BY DEF Find
<1> DEFINE r == [loc[t] EXCEPT !.node = n]
<1>2. pc[t] = "find" /\ pc[t] \in LabelsOf(t) /\ loc[t] \in Locals /\ Fits(t, pc[t], loc[t])
  BY Local DEF Find, Running
<1>3. t # Main /\ t # Heart /\ "unlockNode" \in LabelsOf(t)
  BY <1>2, ThreadsLabels DEF LabelsOf, Closing
<1>4. Moves(t, "unlockNode", r)
  BY <1>1, Typed DEF Find, Goto, Moves
<1>5. /\ r.fd = loc[t].fd /\ r.client = loc[t].client /\ r.node = n
      /\ r.cmd = loc[t].cmd /\ r.from = loc[t].from
  BY <1>2 DEF Locals
<1>6. n = sock[loc[t].fd]
  BY <1>1, <1>2, FoundIsOwner DEF PoliteInv, Fits, Resting
<1>7. sock[loc[t].fd] = loc[t].client
  BY <1>2, <1>3 DEF PoliteInv, Connected, Closing, Mine, Threads
<1>8. ~(pc[Main] = "add" /\ loc[Main].client = n)
  BY <1>1, AddedIsUnlisted DEF Found, Listed
<1>9. GoesOn(t, "unlockNode", r)
  BY <1>2, <1>3, <1>5, <1>6, <1>7, <1>8 DEF GoesOn, Closing
<1> QED
  BY <1>3, <1>4, <1>9, GoesOnPolite
     DEF Find, Running, SameTraffic, TimersKeep, kernelVars, peerVars, clientVars, historyVars

LEMMA CloseStepsPolite ==
  ASSUME ServerInv, PoliteInv, NEW t \in Threads,
         CallClose(t) \/ UnlockNode(t) \/ FreeClient(t) \/ Delete(t)
  PROVE  PoliteInv'
<1>1. pc[t] \in LabelsOf(t) /\ Closing \cap LabelsOf(t) # {}
  BY Local DEF CallClose, UnlockNode, FreeClient, Delete, Running, Closing
<1>2. t \in Workers \cup {Epoll, Heart}
  BY <1>1, ThreadsLabels DEF Closing, Threads
<1>3. {"free", "delete", "close"} \subseteq LabelsOf(t) /\ (t # Heart => "find" \in LabelsOf(t))
  BY <1>2, ThreadsLabels DEF Closing
<1>4. CASE CallClose(t)
  <2>1. t # Heart
    BY <1>1, <1>4, ThreadsLabels DEF CallClose, Running
  <2> QED
    BY <1>3, <1>4, <2>1, ClosingPolite
       DEF CallClose, Running, Goto, Closing, WithNode, SameTraffic,
           TimersKeep, kernelVars, peerVars, clientVars, historyVars
<1>5. CASE UnlockNode(t)
  BY <1>3, <1>5, ClosingPolite
     DEF UnlockNode, Running, Goto, Closing, WithNode, SameTraffic, TimersKeep, kernelVars, peerVars, historyVars
<1>6. CASE FreeClient(t)
  BY <1>3, <1>6, ClosingPolite
     DEF FreeClient, Running, Goto, Closing, WithNode, SameTraffic, TimersKeep, kernelVars, peerVars, historyVars
<1>7. CASE Delete(t)
  BY <1>3, <1>7, ClosingPolite
     DEF Delete, Running, Goto, Closing, WithNode, SameTraffic, TimersKeep, kernelVars, peerVars, historyVars
<1> QED
  BY <1>4, <1>5, <1>6, <1>7

(* A handler's own steps.                                                  *)
LEMMA HandlerGoesOn ==
  ASSUME NEW w \in Workers, NEW label \in {"handle", "seek", "deliver", "reply", "callClose"},
         pc[w] \in {"handle", "seek", "deliver", "reply"},
         NEW r, r.client = loc[w].client, r.from = loc[w].from, r.fd = loc[w].fd, r.cmd = loc[w].cmd
  PROVE  w \in Threads /\ label \in LabelsOf(w) /\ GoesOn(w, label, r)
BY ThreadsLabels DEF GoesOn, WithNode, Closing

LEMMA HandleLoginPolite ==
  ASSUME ServerInv, PoliteInv, NEW w \in Workers, HandleLogin(w)
  PROVE  PoliteInv'
<1>1. w \in Threads /\ "reply" \in LabelsOf(w) /\ GoesOn(w, "reply", loc[w])
  BY HandlerGoesOn DEF HandleLogin, Handling, Running
<1> QED
  BY <1>1, LabelPolite
     DEF HandleLogin, Handling, Running, Goto, SameTraffic, TimersKeep, kernelVars, peerVars, historyVars

LEMMA HandleElsePolite ==
  ASSUME ServerInv, PoliteInv, NEW w \in Workers, HandleElse(w)
  PROVE  PoliteInv'
<1>1. PICK next \in {<<"friends", "reply">>, <<"chat", "seek">>, <<"unknown", "unlock">>,
                     <<"badBeat", "callClose">>, <<"logout", "callClose">>} :
        Handling(w, next[1]) /\ Goto(w, next[2])
  BY DEF HandleElse
<1>2. loc[w].cmd # "unknown"
  BY ThreadsLabels DEF PoliteInv, WellFormedOnly, WellFormed
<1>3. next[2] \in {"reply", "seek", "callClose"}
  BY <1>1, <1>2 DEF Handling
<1>4. w \in Threads /\ next[2] \in LabelsOf(w) /\ GoesOn(w, next[2], loc[w])
  BY <1>1, <1>3, HandlerGoesOn DEF Handling, Running
<1> QED
  BY <1>1, <1>4, LabelPolite
     DEF HandleElse, Handling, Running, Goto, SameTraffic, TimersKeep, kernelVars, peerVars, clientVars, historyVars

LEMMA SeekPolite ==
  ASSUME ServerInv, PoliteInv, NEW w \in Workers, NEW m \in Conn, Seek(w, m)
  PROVE  PoliteInv'
<1>1. w \in Threads /\ pc[w] = "seek" /\ loc[w] \in Locals
  BY ThreadsLabels, Local DEF Seek, Running
<1>2. SameTraffic /\ TimersKeep /\ broken' # "own"
  BY DEF Seek, Running, SameTraffic, TimersKeep, kernelVars, peerVars, clientVars, historyVars
<1>3. CASE Listed(m) /\ m \in logged
  <2> DEFINE r == [loc[w] EXCEPT !.node = m]
  <2>1. /\ r.fd = loc[w].fd /\ r.client = loc[w].client
        /\ r.cmd = loc[w].cmd /\ r.from = loc[w].from
    BY <1>1 DEF Locals
  <2>2. Moves(w, "deliver", r)
    BY <1>1, <1>3, Typed DEF Seek, Goto, Moves
  <2>3. "deliver" \in LabelsOf(w) /\ GoesOn(w, "deliver", r)
    BY <1>1, <2>1, HandlerGoesOn
  <2> QED
    BY <1>1, <1>2, <2>2, <2>3, GoesOnPolite
<1>4. CASE ~(Listed(m) /\ m \in logged)
  <2>1. "reply" \in LabelsOf(w) /\ GoesOn(w, "reply", loc[w])
    BY <1>1, HandlerGoesOn
  <2> QED
    BY <1>1, <1>2, <1>4, <2>1, LabelPolite DEF Seek, Goto
<1> QED
  BY <1>3, <1>4

LEMMA DeliverPolite ==
  ASSUME ServerInv, PoliteInv, NEW w \in Workers, Deliver(w)
  PROVE  PoliteInv'
<1> DEFINE r == [loc[w] EXCEPT !.node = 0]
<1>1. w \in Threads /\ pc[w] = "deliver" /\ loc[w] \in Locals
  BY ThreadsLabels, Local DEF Deliver, Running
<1>2. /\ r.fd = loc[w].fd /\ r.client = loc[w].client
      /\ r.cmd = loc[w].cmd /\ r.from = loc[w].from
  BY <1>1 DEF Locals
<1>3. Moves(w, "reply", r)
  BY <1>1, Typed DEF Deliver, Goto, Moves
<1>4. "reply" \in LabelsOf(w) /\ GoesOn(w, "reply", r)
  BY <1>1, <1>2, HandlerGoesOn
<1> QED
  BY <1>1, <1>3, <1>4, GoesOnPolite
     DEF Deliver, Running, SameTraffic, TimersKeep, kernelVars, peerVars, clientVars, historyVars

-----------------------------------------------------------------------------
(* The steps in which a thread comes to rest.                              *)

LEMMA WatchPolite ==
  ASSUME ServerInv, PoliteInv, Watch
  PROVE  PoliteInv'
<1>1. Main \in Threads /\ "accept" \in LabelsOf(Main) /\ Moves(Main, "accept", NoLocals)
  BY ThreadsLabels DEF Watch, Goto, Moves
<1> QED
  BY <1>1, RestsPolite
     DEF Watch, Running, Resting, SameTraffic, peerVars, clientVars, historyVars

LEMMA WalkEndsPolite ==
  ASSUME ServerInv, PoliteInv, WalkEnds
  PROVE  PoliteInv'
<1>1. Heart \in Threads /\ "sleep" \in LabelsOf(Heart) /\ loc[Heart] = NoLocals
  BY ThreadsLabels, Local DEF WalkEnds, Running, Fits, Resting
<1>2. Moves(Heart, "sleep", NoLocals)
  BY <1>1, Typed DEF WalkEnds, Goto, Moves
<1> QED
  BY <1>1, <1>2, RestsPolite
     DEF WalkEnds, Running, Resting, SameTraffic, kernelVars, peerVars, clientVars, historyVars

LEMMA UnlockPolite ==
  ASSUME ServerInv, PoliteInv, NEW w \in Workers, Unlock(w)
  PROVE  PoliteInv'
<1>1. w \in Threads /\ "idle" \in LabelsOf(w) /\ Moves(w, "idle", NoLocals)
  BY ThreadsLabels DEF Unlock, Goto, Moves
<1> QED
  BY <1>1, RestsPolite
     DEF Unlock, Running, Resting, SameTraffic, kernelVars, peerVars, historyVars

(* No closer has a malformed heartbeat to go back to.                      *)
LEMMA ReturnRests ==
  ASSUME ServerInv, PoliteInv, NEW t \in Threads, pc[t] \in Closing, Return(t)
  PROVE  \E label \in LabelsOf(t) \cap Resting : Moves(t, label, NoLocals)
<1>1. loc[t].cmd # "badBeat"
  BY DEF PoliteInv, WellFormedOnly, WellFormed
<1>2. t \in Workers \cup {Epoll, Heart}
  BY Local, ThreadsLabels DEF Closing, Threads
<1>3. AfterClose(t) \in LabelsOf(t) \cap Resting /\ AfterClose(t) # "unlock"
  BY <1>1, <1>2, ThreadsLabels DEF AfterClose, Resting
<1> QED
  BY <1>3 DEF Return, Goto, Moves

LEMMA FindFailsPolite ==
  ASSUME ServerInv, PoliteInv, NEW t \in Threads, FindFails(t)
  PROVE  PoliteInv'
<1>1. PICK label \in LabelsOf(t) \cap Resting : Moves(t, label, NoLocals)
  BY ReturnRests DEF FindFails, Running, Closing
<1> QED
  BY <1>1, RestsPolite
     DEF FindFails, Running, SameTraffic, kernelVars, peerVars, clientVars, historyVars

-----------------------------------------------------------------------------
(* The handlers that change what the peers see.                            *)

LEMMA HandleHeartbeatPolite ==
  ASSUME ServerInv, PoliteInv, NEW w \in Workers, HandleHeartbeat(w)
  PROVE  PoliteInv'
<1>1. w \in Threads /\ "reply" \in LabelsOf(w) /\ GoesOn(w, "reply", loc[w])
  BY HandlerGoesOn DEF HandleHeartbeat, Handling, Running
<1>2. pc[Heart] \in Closing => loc[Heart].node # Mine(w)
  <2>1. pc[Heart] \in Closing => pc[Heart] \in WithNode
    BY ThreadsLabels, Local DEF Closing, WithNode
  <2> QED
    BY <2>1, ThreadsLabels, CloserAlone DEF Mine
<1>3. TimersKeep
  BY <1>2, Typed DEF HandleHeartbeat, TimersKeep, DataTyped
<1> QED
  BY <1>1, <1>3, LabelPolite
     DEF HandleHeartbeat, Handling, Running, Goto, SameTraffic, kernelVars, peerVars, historyVars

(* No other worker is past the lock of a client whose mutex is free.       *)
LEMMA LockIsFree ==
  ASSUME ServerInv, PoliteInv, NEW w \in Workers, LockClient(w),
         NEW v \in Workers, v # w, pc[v] # "idle", Mine(v) = Mine(w)
  PROVE  pc[v] = "lock"
<1>1. SUFFICES ASSUME pc[v] # "lock" PROVE FALSE
  OBVIOUS
<1>2. mutex[Mine(v)] # v /\ Mine(v) \notin freed
  BY ThreadsLabels, ServerAssumption DEF LockClient, Threads
<1>3. PICK u \in Threads : pc[u] = "free" /\ loc[u].node = Mine(v)
  BY <1>1, <1>2 DEF ServerInv, LockHeld
<1>4. \A x \in Workers : x # u => Mine(x) # Mine(v)
  BY <1>3, CloserAlone DEF WithNode, Mine
<1> QED
  BY <1>4

LEMMA LockClientPolite ==
  ASSUME ServerInv, PoliteInv, NEW w \in Workers, LockClient(w)
  PROVE  PoliteInv'
<1>1. /\ w \in Threads /\ pc[w] = "lock" /\ broken = "no"
      /\ Main \in Threads /\ Epoll \in Threads /\ Heart \in Threads
      /\ \A x \in Workers : x \in Threads /\ x # Main /\ x # Epoll /\ x # Heart
  BY ThreadsLabels DEF LockClient, Running
<1>2. ASSUME NEW u \in Threads
      PROVE  pc'[u] = IF u = w THEN "handle" ELSE pc[u]
  BY Typed DEF LockClient, Goto
<1>3. /\ loc' = loc /\ unknown' = unknown /\ misrouted' = misrouted /\ broken' = broken
      /\ sock' = sock /\ inbox' = inbox /\ peer' = peer /\ waiting' = waiting
      /\ age' = age /\ queue' = queue
  BY DEF LockClient, kernelVars, peerVars, historyVars
<1>4. ASSUME NEW u \in Threads, u \notin Workers
      PROVE  pc'[u] = pc[u]
  BY <1>1, <1>2, <1>4
<1>5. \A u \in Threads, n \in Conn : HeldBy(u, n)' <=> HeldBy(u, n)
  BY <1>1, <1>2, <1>3 DEF HeldBy
<1>6. \A u \in Threads, n \in Conn : Works(u, n)' <=> Works(u, n)
  BY <1>1, <1>2, <1>3 DEF Works
<1>7. ~unknown' /\ OwnNeverStale' /\ EventsAreKnown' /\ RepliesReachSender'
  BY <1>1, <1>2, <1>3 DEF PoliteInv, OwnNeverStale, EventsAreKnown, RepliesReachSender
<1>8. OneRequest' /\ QueuedOnce'
  BY <1>3, <1>5 DEF PoliteInv, OneRequest, QueuedOnce, Queued
<1>9. TakeTurns'
  BY <1>1, <1>2, <1>3, LockIsFree DEF PoliteInv, TakeTurns, Mine
<1>10. WellFormedOnly'
  BY <1>3 DEF PoliteInv, WellFormedOnly, WellFormed
<1>11. Connected'
  BY <1>1, <1>2, <1>3 DEF PoliteInv, Connected, Mine
<1>12. EventIsMeant'
  BY <1>1, <1>2, <1>3 DEF PoliteInv, EventIsMeant
<1>13. HungUpIdle'
  BY <1>3, <1>6 DEF PoliteInv, HungUpIdle
<1>14. TimedOutIdle'
  BY <1>3 DEF PoliteInv, TimedOutIdle, IsOpen, Settled
<1>15. OwnReason'
  BY <1>1, <1>2, <1>3 DEF PoliteInv, OwnReason, WithNode
<1> QED
  BY <1>7, <1>8, <1>9, <1>10, <1>11, <1>12, <1>13, <1>14, <1>15 DEF PoliteInv

(* The answer goes to the connection the task came from, which awaits it.  *)
LEMMA ReplyPolite ==
  ASSUME ServerInv, PoliteInv, NEW w \in Workers, Reply(w)
  PROVE  PoliteInv'
<1>1. /\ w \in Threads /\ pc[w] = "reply" /\ broken = "no"
      /\ Main \in Threads /\ Epoll \in Threads /\ Heart \in Threads
      /\ \A x \in Workers : x \in Threads /\ x # Main /\ x # Epoll /\ x # Heart
  BY ThreadsLabels DEF Reply, Running
<1> DEFINE m == loc[w].client
<1>2. /\ m \in Conn /\ sock[loc[w].fd] = m /\ loc[w].from = m
      /\ HeldBy(w, m) /\ Works(w, m)
  BY <1>1, Local, Accepted DEF Fits, Resting, Points, PoliteInv, Connected, Mine, HeldBy, Works
<1>3. /\ m \in waiting /\ inbox[m] = << >> /\ ~Queued(m)
      /\ \A u \in Threads : u # w => ~HeldBy(u, m)
  BY <1>1, <1>2 DEF PoliteInv, OneRequest
<1>4. ASSUME NEW u \in Threads
      PROVE  pc'[u] = IF u = w THEN "unlock" ELSE pc[u]
  BY Typed DEF Reply, Goto
<1>5. /\ loc' = loc /\ unknown' = unknown /\ misrouted' = misrouted /\ broken' = broken
      /\ sock' = sock /\ inbox' = inbox /\ peer' = peer
      /\ age' = age /\ queue' = queue
  BY <1>2, Typed DEF Reply, kernelVars, clientVars, DataTyped
<1>6. waiting' = waiting \ {m}
  BY <1>2 DEF Reply
<1>7. \A u \in Threads, n \in Conn : HeldBy(u, n)' => HeldBy(u, n) /\ n # m
  BY <1>1, <1>3, <1>4, <1>5 DEF HeldBy
<1>8. \A u \in Threads, n \in Conn : Works(u, n)' <=> Works(u, n)
  BY <1>1, <1>4, <1>5 DEF Works
<1>9. ~unknown' /\ OwnNeverStale' /\ EventsAreKnown' /\ RepliesReachSender'
  BY <1>1, <1>4, <1>5 DEF PoliteInv, OwnNeverStale, EventsAreKnown, RepliesReachSender
<1>10. OneRequest' /\ QueuedOnce'
  BY <1>3, <1>5, <1>6, <1>7 DEF PoliteInv, OneRequest, QueuedOnce, Queued
<1>11. TakeTurns'
  BY <1>1, <1>4, <1>5 DEF PoliteInv, TakeTurns, Mine
<1>12. WellFormedOnly'
  BY <1>5 DEF PoliteInv, WellFormedOnly, WellFormed
<1>13. Connected'
  BY <1>1, <1>4, <1>5 DEF PoliteInv, Connected, Mine
<1>14. EventIsMeant'
  BY <1>1, <1>4, <1>5 DEF PoliteInv, EventIsMeant
<1>15. HungUpIdle'
  BY <1>5, <1>6, <1>8 DEF PoliteInv, HungUpIdle
<1>16. TimedOutIdle'
  <2>1. ASSUME NEW n \in Conn, IsOpen(n)', age'[n] > Timeout
        PROVE  (peer[n] = "open" /\ Settled(n))'
    <3>1. peer[n] = "open" /\ Settled(n)
      BY <2>1, <1>5 DEF PoliteInv, TimedOutIdle, IsOpen
    <3> QED
      BY <3>1, <1>5, <1>6 DEF Settled
  <2> QED
    BY <2>1 DEF TimedOutIdle
<1>17. OwnReason'
  BY <1>1, <1>4, <1>5 DEF PoliteInv, OwnReason, WithNode, Closing
<1> QED
  BY <1>9, <1>10, <1>11, <1>12, <1>13, <1>14, <1>15, <1>16, <1>17 DEF PoliteInv

(* A worker takes the one request of a client from the one place it is in. *)
LEMMA TakePolite ==
  ASSUME ServerInv, PoliteInv, NEW w \in Workers, Take(w)
  PROVE  PoliteInv'
<1>1. /\ w \in Threads /\ pc[w] = "idle" /\ broken = "no" /\ "lock" \in LabelsOf(w)
      /\ Main \in Threads /\ Epoll \in Threads /\ Heart \in Threads
      /\ \A x \in Workers : x \in Threads /\ x # Main /\ x # Epoll /\ x # Heart
  BY ThreadsLabels DEF Take, Running
<1>2. queue \in Seq(Tasks) /\ queue # << >>
  BY Typed DEF Take, DataTyped
<1> DEFINE q == queue[1]
           m == q.client
<1>3. /\ Len(queue) \in Nat /\ 1 \in 1 .. Len(queue) /\ Head(queue) = q /\ q \in Tasks
      /\ queue' = Tail(queue) /\ Len(queue') = Len(queue) - 1
      /\ \A i \in 1 .. Len(queue') : i + 1 \in 1 .. Len(queue) /\ queue'[i] = queue[i + 1]
  BY <1>2 DEF Take
<1>4. m \in Conn /\ sock[q.fd] = m /\ q.from = m /\ WellFormed(q.cmd) /\ Queued(m)
  BY <1>3 DEF Tasks, PoliteInv, Connected, WellFormedOnly, Queued
<1>5. m \in waiting /\ inbox[m] = << >> /\ \A u \in Threads : ~HeldBy(u, m)
  BY <1>4 DEF PoliteInv, OneRequest
<1>6. ASSUME NEW u \in Threads
      PROVE  /\ pc'[u] = IF u = w THEN "lock" ELSE pc[u]
             /\ loc'[u] = IF u = w THEN q ELSE loc[u]
  BY <1>3, Typed DEF Take, Goto
<1>7. /\ unknown' = unknown /\ misrouted' = misrouted /\ broken' = broken
      /\ sock' = sock /\ inbox' = inbox /\ peer' = peer /\ waiting' = waiting /\ age' = age
  BY DEF Take, kernelVars, peerVars, clientVars, historyVars
<1>8. \A n \in Conn : Queued(n)' => Queued(n) /\ n # m
  BY <1>3 DEF PoliteInv, QueuedOnce, Queued
<1>9. \A u \in Threads, n \in Conn : HeldBy(u, n)' => HeldBy(u, n) \/ (u = w /\ n = m)
  BY <1>1, <1>6 DEF HeldBy
<1>10. \A u \in Threads, n \in Conn : Works(u, n)' => Works(u, n) \/ n = m
  BY <1>1, <1>6 DEF Works
<1>11. ~unknown' /\ OwnNeverStale' /\ EventsAreKnown' /\ RepliesReachSender'
  BY <1>1, <1>6, <1>7 DEF PoliteInv, OwnNeverStale, EventsAreKnown, RepliesReachSender
<1>12. OneRequest'
  <2>1. ASSUME NEW n \in Conn
        PROVE  /\ inbox[n] # << >> \/ Queued(n)' \/ (\E t \in Threads : HeldBy(t, n)') => n \in waiting
               /\ Len(inbox[n]) <= 1
               /\ inbox[n] # << >> => ~Queued(n)'
               /\ inbox[n] # << >> \/ Queued(n)' => \A t \in Threads : ~HeldBy(t, n)'
               /\ \A t, u \in Threads : HeldBy(t, n)' /\ HeldBy(u, n)' => t = u
    BY <1>5, <1>8, <1>9 DEF PoliteInv, OneRequest
  <2> QED
    BY <2>1, <1>7 DEF OneRequest
<1>13. QueuedOnce'
  BY <1>3 DEF PoliteInv, QueuedOnce
<1>14. TakeTurns'
  BY <1>1, <1>6 DEF PoliteInv, TakeTurns, Mine
<1>15. WellFormedOnly'
  BY <1>3, <1>4, <1>6, <1>7 DEF PoliteInv, WellFormedOnly, WellFormed
<1>16. Connected'
  BY <1>1, <1>3, <1>4, <1>6, <1>7 DEF PoliteInv, Connected, Mine
<1>17. EventIsMeant'
  BY <1>1, <1>6, <1>7 DEF PoliteInv, EventIsMeant
<1>18. HungUpIdle'
  BY <1>5, <1>7, <1>10 DEF PoliteInv, HungUpIdle
<1>19. TimedOutIdle'
  <2>1. ASSUME NEW n \in Conn, IsOpen(n)', age'[n] > Timeout
        PROVE  (peer[n] = "open" /\ Settled(n))'
    <3>1. peer[n] = "open" /\ Settled(n)
      BY <2>1, <1>7 DEF PoliteInv, TimedOutIdle, IsOpen
    <3>2. n # m
      BY <3>1, <1>5 DEF Settled
    <3> QED
      BY <3>1, <3>2, <1>3, <1>6, <1>7 DEF Settled
  <2> QED
    BY <2>1 DEF TimedOutIdle
<1>20. OwnReason'
  BY <1>1, <1>6, <1>7 DEF PoliteInv, OwnReason, WithNode
<1> QED
  BY <1>11, <1>12, <1>13, <1>14, <1>15, <1>16, <1>17, <1>18, <1>19, <1>20 DEF PoliteInv

-----------------------------------------------------------------------------
(* The peers.                                                              *)

LEMMA SendPolite ==
  ASSUME ServerInv, PoliteInv, Benign, NEW n \in Conn, NEW cmd \in Cmds, Send(n, cmd)
  PROVE  PoliteInv'
<1>1. n \notin waiting /\ age[n] < Timeout /\ WellFormed(cmd) /\ peer[n] = "open" /\ broken = "no"
  BY DEF Send, InTime, WellFormed
<1>2. /\ inbox \in [Conn -> Seq(Cmds)] /\ age[n] \in Nat /\ Timeout \in Nat
  BY Typed, ServerAssumption DEF DataTyped
<1>3. inbox[n] = << >> /\ ~Queued(n) /\ \A t \in Threads : ~HeldBy(t, n)
  BY <1>1 DEF PoliteInv, OneRequest
<1>4. /\ inbox'[n] # << >> /\ Len(inbox'[n]) = 1 /\ inbox'[n][1] = cmd
      /\ \A m \in Conn : m # n => inbox'[m] = inbox[m]
  BY <1>2, <1>3 DEF Send
<1>5. /\ waiting' = waiting \cup {n}
      /\ sock' = sock /\ peer' = peer /\ age' = age /\ queue' = queue /\ pc' = pc /\ loc' = loc
      /\ broken' = broken /\ unknown' = unknown /\ misrouted' = misrouted
  BY DEF Send, clientVars, threadVars, historyVars
<1>6. ~unknown' /\ OwnNeverStale' /\ EventsAreKnown' /\ RepliesReachSender'
  BY <1>5 DEF PoliteInv, OwnNeverStale, EventsAreKnown, RepliesReachSender
<1>7. \A u \in Threads, m \in Conn : HeldBy(u, m)' <=> HeldBy(u, m)
  BY <1>5 DEF HeldBy
<1>8. \A u \in Threads, m \in Conn : Works(u, m)' <=> Works(u, m)
  BY <1>5 DEF Works
<1>9. OneRequest'
  <2>1. \A m \in Conn : Queued(m)' <=> Queued(m)
    BY <1>5 DEF Queued
  <2>2. ASSUME NEW m \in Conn
        PROVE  /\ inbox'[m] # << >> \/ Queued(m) \/ (\E t \in Threads : HeldBy(t, m)) =>
                      m \in waiting'
               /\ Len(inbox'[m]) <= 1
               /\ inbox'[m] # << >> => ~Queued(m)
               /\ inbox'[m] # << >> \/ Queued(m) => \A t \in Threads : ~HeldBy(t, m)
               /\ \A t, u \in Threads : HeldBy(t, m) /\ HeldBy(u, m) => t = u
    <3>1. CASE m = n
      <4>1. ~Queued(m) /\ \A t \in Threads : ~HeldBy(t, m)
        BY <1>3, <3>1
      <4>2. inbox'[m] # << >> /\ Len(inbox'[m]) = 1 /\ m \in waiting'
        BY <1>4, <1>5, <3>1
      <4> QED
        BY <4>1, <4>2
    <3>2. CASE m # n
      BY <1>4, <1>5, <3>2 DEF PoliteInv, OneRequest
    <3> QED
      BY <3>1, <3>2
  <2> QED
    BY <1>7, <2>1, <2>2 DEF OneRequest
<1>10. QueuedOnce' /\ TakeTurns' /\ Connected'
  BY <1>5 DEF PoliteInv, QueuedOnce, TakeTurns, Connected, Mine
<1>11. WellFormedOnly'
  BY <1>1, <1>4, <1>5 DEF PoliteInv, WellFormedOnly, WellFormed
<1>12. EventIsMeant'
  <2>1. ASSUME pc[Epoll] \in {"lookup", "recv"}, sock[loc[Epoll].fd] # 0
        PROVE  sock[loc[Epoll].fd] \in Conn
    BY <2>1, EventConn
  <2> QED
    BY <1>4, <1>5, <2>1 DEF PoliteInv, EventIsMeant
<1>13. HungUpIdle'
  BY <1>1, <1>5, <1>8 DEF PoliteInv, HungUpIdle
<1>14. TimedOutIdle'
  BY <1>1, <1>2, <1>4, <1>5 DEF PoliteInv, TimedOutIdle, IsOpen, Settled
<1>15. OwnReason'
  BY <1>5 DEF PoliteInv, OwnReason
<1> QED
  BY <1>6, <1>9, <1>10, <1>11, <1>12, <1>13, <1>14, <1>15 DEF PoliteInv

LEMMA HangUpPolite ==
  ASSUME ServerInv, PoliteInv, Benign, NEW n \in Conn, HangUp(n)
  PROVE  PoliteInv'
<1>1. age[n] < Timeout /\ Settled(n) /\ age[n] \in Nat /\ Timeout \in Nat
  BY Typed, ServerAssumption DEF HangUp, InTime, DataTyped
<1>2. /\ peer'[n] = "closed" /\ \A m \in Conn : m # n => peer'[m] = peer[m]
  BY Typed DEF HangUp, DataTyped
<1>3. /\ inbox' = inbox /\ waiting' = waiting
      /\ sock' = sock /\ age' = age /\ queue' = queue /\ pc' = pc /\ loc' = loc
      /\ broken' = broken /\ unknown' = unknown /\ misrouted' = misrouted
  BY DEF HangUp, clientVars, threadVars, historyVars
<1>4. ~unknown' /\ OwnNeverStale' /\ EventsAreKnown' /\ RepliesReachSender'
  BY <1>3 DEF PoliteInv, OwnNeverStale, EventsAreKnown, RepliesReachSender
<1>5. OneRequest' /\ QueuedOnce' /\ WellFormedOnly'
  BY <1>3 DEF PoliteInv, OneRequest, QueuedOnce, Queued, HeldBy, WellFormedOnly, WellFormed
<1>6. TakeTurns' /\ Connected'
  BY <1>3 DEF PoliteInv, TakeTurns, Connected, Mine
<1>7. ASSUME NEW m \in Conn, peer[m] = "closed"
      PROVE  peer'[m] = "closed"
  BY <1>2, <1>7
<1>8. EventIsMeant'
  <2>1. ASSUME pc[Epoll] \in {"lookup", "recv"}, sock[loc[Epoll].fd] # 0
        PROVE  sock[loc[Epoll].fd] \in Conn
    BY <2>1, EventConn
  <2> QED
    BY <1>3, <1>7, <2>1 DEF PoliteInv, EventIsMeant
<1>9. HungUpIdle'
  <2>1. n \notin waiting /\ \A t \in Threads : ~Works(t, n)
    BY <1>1 DEF Settled, Works
  <2>2. \A u \in Threads, m \in Conn : Works(u, m)' <=> Works(u, m)
    BY <1>3 DEF Works
  <2> QED
    BY <1>2, <1>3, <2>1, <2>2 DEF PoliteInv, HungUpIdle
<1>10. TimedOutIdle'
  BY <1>1, <1>2, <1>3 DEF PoliteInv, TimedOutIdle, IsOpen, Settled
<1>11. OwnReason'
  <2>1. pc[Epoll] \in Closing => loc[Epoll].client \in Conn
    BY ThreadsLabels, Local, Accepted, ServerAssumption DEF Fits, Resting, Closing, Points
  <2> QED
    BY <1>3, <1>7, <2>1 DEF PoliteInv, OwnReason
<1> QED
  BY <1>4, <1>5, <1>6, <1>8, <1>9, <1>10, <1>11 DEF PoliteInv

-----------------------------------------------------------------------------
(* serv_heartbeat.                                                         *)

LEMMA TickPolite ==
  ASSUME ServerInv, PoliteInv, Benign, Tick
  PROVE  PoliteInv'
<1>1. /\ Heart \in Threads /\ pc[Heart] = "sleep" /\ broken = "no"
      /\ Main \in Threads /\ Epoll \in Threads
      /\ Heart # Main /\ Heart # Epoll
      /\ \A x \in Workers : x \in Threads /\ x # Heart
  BY ThreadsLabels, ServerAssumption DEF Tick, Running
<1>2. ASSUME NEW u \in Threads
      PROVE  pc'[u] = IF u = Heart THEN "walk" ELSE pc[u]
  BY Typed DEF Tick, Goto
<1>3. /\ loc' = loc /\ inbox' = inbox /\ waiting' = waiting /\ peer' = peer
      /\ sock' = sock /\ queue' = queue
      /\ broken' = broken /\ unknown' = unknown /\ misrouted' = misrouted
  BY DEF Tick, kernelVars, peerVars
<1>4. ~unknown' /\ OwnNeverStale' /\ EventsAreKnown' /\ RepliesReachSender'
  BY <1>1, <1>2, <1>3 DEF PoliteInv, OwnNeverStale, EventsAreKnown, RepliesReachSender
<1>5. \A u \in Threads, m \in Conn : HeldBy(u, m)' <=> HeldBy(u, m)
  BY <1>1, <1>2, <1>3 DEF HeldBy
<1>6. \A u \in Threads, m \in Conn : Works(u, m)' <=> Works(u, m)
  BY <1>1, <1>2, <1>3 DEF Works
<1>7. OneRequest' /\ QueuedOnce' /\ WellFormedOnly'
  BY <1>3, <1>5 DEF PoliteInv, OneRequest, QueuedOnce, Queued, WellFormedOnly, WellFormed
<1>8. TakeTurns' /\ Connected' /\ EventIsMeant'
  BY <1>1, <1>2, <1>3 DEF PoliteInv, TakeTurns, Connected, Mine, EventIsMeant
<1>9. HungUpIdle'
  BY <1>3, <1>6 DEF PoliteInv, HungUpIdle
<1>10. TimedOutIdle'
  <2>1. ASSUME NEW n \in Conn, IsOpen(n), age'[n] > Timeout
        PROVE  peer[n] = "open" /\ Settled(n)
    <3>1. age[n] \in Nat /\ Timeout \in Nat
      BY Typed, ServerAssumption DEF DataTyped
    <3>2. age'[n] = IF age[n] <= Timeout THEN age[n] + 1 ELSE age[n]
      BY <2>1 DEF Tick
    <3>3. CASE age[n] > Timeout
      BY <2>1, <3>3 DEF PoliteInv, TimedOutIdle
    <3>4. CASE age[n] = Timeout
      BY <2>1, <3>4 DEF Tick
    <3> QED
      BY <2>1, <3>1, <3>2, <3>3, <3>4
  <2> QED
    BY <2>1, <1>3 DEF TimedOutIdle, IsOpen, Settled
<1>11. OwnReason'
  BY <1>1, <1>2, <1>3 DEF PoliteInv, OwnReason, WithNode, Closing
<1> QED
  BY <1>4, <1>7, <1>8, <1>9, <1>10, <1>11 DEF PoliteInv

LEMMA VisitPolite ==
  ASSUME ServerInv, PoliteInv, Visit
  PROVE  PoliteInv'
<1>1. /\ Heart \in Threads /\ pc[Heart] = "walk" /\ broken = "no" /\ loc[Heart] = NoLocals
      /\ Main \in Threads /\ Epoll \in Threads
      /\ Heart # Main /\ Heart # Epoll
      /\ \A x \in Workers : x \in Threads /\ x # Heart
  BY ThreadsLabels, Local, ServerAssumption DEF Visit, Running, Fits, Resting
<1>2. /\ inbox' = inbox /\ waiting' = waiting /\ peer' = peer /\ age' = age
      /\ sock' = sock /\ queue' = queue
      /\ broken' = broken /\ unknown' = unknown /\ misrouted' = misrouted
  BY DEF Visit, kernelVars, peerVars, clientVars, historyVars
<1>3. CASE age[walk] > Timeout
  <2> DEFINE r == [NoLocals EXCEPT !.node = walk, !.fd = fdOf[walk]]
  <2>1. /\ r.fd = fdOf[walk] /\ r.client = 0 /\ r.node = walk /\ r.cmd = "none"
    BY DEF NoLocals
  <2>2. ASSUME NEW u \in Threads
        PROVE  /\ pc'[u] = IF u = Heart THEN "free" ELSE pc[u]
               /\ loc'[u] = IF u = Heart THEN r ELSE loc[u]
    BY <1>1, <1>3, Typed DEF Visit, Goto
  <2>3. ASSUME NEW u \in Threads
        PROVE  loc'[u].client = loc[u].client /\ loc'[u].cmd = loc[u].cmd
    BY <1>1, <2>1, <2>2 DEF NoLocals
  <2>4. sock[fdOf[walk]] = walk
    BY DEF Visit, Listed, PoliteInv, ServerInv, ListTellsTruth
  <2>5. ~(pc[Main] = "add" /\ loc[Main].client = walk)
    BY AddedIsUnlisted DEF Visit
  <2>6. ~unknown' /\ OwnNeverStale' /\ EventsAreKnown' /\ RepliesReachSender'
    BY <1>1, <1>2, <2>2 DEF PoliteInv, OwnNeverStale, EventsAreKnown, RepliesReachSender
  <2>7. \A u \in Threads, m \in Conn : HeldBy(u, m)' <=> HeldBy(u, m)
    BY <1>1, <2>2 DEF HeldBy
  <2>8. \A u \in Threads, m \in Conn : Works(u, m)' <=> Works(u, m)
    BY <1>1, <2>2 DEF Works
  <2>9. OneRequest' /\ QueuedOnce'
    BY <1>2, <2>7 DEF PoliteInv, OneRequest, QueuedOnce, Queued
  <2>10. WellFormedOnly'
    BY <1>2, <2>3 DEF PoliteInv, WellFormedOnly, WellFormed
  <2>11. TakeTurns' /\ Connected' /\ EventIsMeant'
    BY <1>1, <1>2, <2>2 DEF PoliteInv, TakeTurns, Connected, Mine, EventIsMeant
  <2>12. HungUpIdle'
    BY <1>2, <2>8 DEF PoliteInv, HungUpIdle
  <2>13. TimedOutIdle'
    BY <1>2, <2>3 DEF PoliteInv, TimedOutIdle, IsOpen, Settled
  <2>14. OwnReason'
    <3>1. pc'[Epoll] \in Closing => peer'[loc'[Epoll].client] = "closed"
      BY <1>1, <1>2, <2>2 DEF PoliteInv, OwnReason
    <3>2. sock'[loc'[Heart].fd] = loc'[Heart].node /\ age'[loc'[Heart].node] > Timeout
      BY <1>1, <1>2, <1>3, <2>1, <2>2, <2>4
    <3>3. ASSUME NEW u \in Threads, pc'[u] \in WithNode
          PROVE  /\ u # Heart => loc'[u].node = loc'[u].client
                 /\ ~(pc'[Main] = "add" /\ loc'[Main].client = loc'[u].node)
      BY <1>1, <2>1, <2>2, <2>5, <3>3 DEF PoliteInv, OwnReason
    <3> QED
      BY <3>1, <3>2, <3>3 DEF OwnReason
  <2> QED
    BY <2>6, <2>9, <2>10, <2>11, <2>12, <2>13, <2>14 DEF PoliteInv
<1>4. CASE ~(age[walk] > Timeout)
  <2>1. Moves(Heart, "walk", NoLocals)
    BY <1>1, <1>4, Typed DEF Visit, Moves
  <2>2. "walk" \in LabelsOf(Heart)
    BY ThreadsLabels
  <2> QED
    BY <1>1, <1>2, <2>1, <2>2, RestsPolite DEF Resting, SameTraffic
<1> QED
  BY <1>3, <1>4

-----------------------------------------------------------------------------
(* main.                                                                   *)

(* A new connection has a new client and a socket no one works with.       *)
LEMMA AcceptPolite ==
  ASSUME ServerInv, PoliteInv, NEW f \in Fds, Accept(f)
  PROVE  PoliteInv'
<1>1. PICK n : n = conns + 1
  OBVIOUS
<1>2. /\ n \in Conn /\ n \notin 1 .. conns /\ n > conns /\ conns \in Nat /\ n # 0
      /\ sock[f] = 0 /\ broken = "no" /\ pc[Main] = "accept"
  BY <1>1, Accepted DEF Accept, Running, Conn
<1>3. /\ Main \in Threads /\ Epoll \in Threads /\ Heart \in Threads
      /\ Main # Epoll /\ Main # Heart
      /\ \A x \in Workers : x \in Threads /\ x # Main
  BY ThreadsLabels, ServerAssumption
<1>4. /\ inbox' = inbox /\ waiting' = waiting /\ age' = age /\ queue' = queue
      /\ broken' = broken /\ unknown' = unknown /\ misrouted' = misrouted
  BY DEF Accept, historyVars
<1>5. /\ sock'[f] = n /\ \A g \in Fds : g # f => sock'[g] = sock[g]
      /\ peer'[n] = "open" /\ \A m \in Conn : m # n => peer'[m] = peer[m]
  BY <1>1, <1>2, Typed DEF Accept, DataTyped
<1>6. ASSUME NEW u \in Threads
      PROVE  /\ pc'[u] = IF u = Main THEN "add" ELSE pc[u]
             /\ u # Main => loc'[u] = loc[u]
  BY Typed DEF Accept, Goto
<1>7. loc'[Main].client = n /\ loc'[Main].cmd = loc[Main].cmd
  BY <1>1, <1>3, Typed DEF Accept, Locals
<1>8. ASSUME NEW g \in Fds, NEW m \in Conn, sock[g] = m
      PROVE  sock'[g] = m /\ m \in 1 .. conns /\ m # n /\ m # 0
  <2>1. m # 0
    BY DEF Conn
  <2>2. m \in 1 .. conns
    BY <1>8, <2>1 DEF ServerInv, OnlyAccepted, Points
  <2> QED
    BY <1>2, <1>5, <1>8, <2>1, <2>2
<1>9. ASSUME NEW w \in Workers
      PROVE  pc'[w] = pc[w] /\ loc'[w] = loc[w]
  BY <1>3, <1>6
<1>10. pc'[Epoll] = pc[Epoll] /\ loc'[Epoll] = loc[Epoll]
  BY <1>3, <1>6
<1>11. pc'[Heart] = pc[Heart] /\ loc'[Heart] = loc[Heart]
  BY <1>3, <1>6
<1>12. ~unknown' /\ OwnNeverStale' /\ EventsAreKnown' /\ RepliesReachSender'
  BY <1>4, <1>10 DEF PoliteInv, OwnNeverStale, EventsAreKnown, RepliesReachSender
<1>13. \A u \in Threads, m \in Conn : HeldBy(u, m)' <=> HeldBy(u, m)
  BY <1>9, <1>10 DEF HeldBy
<1>14. \A u \in Threads, m \in Conn : Works(u, m)' <=> Works(u, m)
  BY <1>9 DEF Works
<1>15. OneRequest' /\ QueuedOnce'
  BY <1>4, <1>13 DEF PoliteInv, OneRequest, QueuedOnce, Queued
<1>16. TakeTurns'
  BY <1>9 DEF PoliteInv, TakeTurns, Mine
<1>17. WellFormedOnly'
  BY <1>3, <1>4, <1>6, <1>7 DEF PoliteInv, WellFormedOnly, WellFormed
<1>18. Connected'
  <2>1. ASSUME NEW i \in 1 .. Len(queue)
        PROVE  sock'[queue[i].fd] = queue[i].client /\ queue[i].from = queue[i].client
    <3>1. queue[i] \in Tasks
      BY Typed DEF DataTyped
    <3>2. queue[i].fd \in Fds /\ queue[i].client \in Conn
      BY <3>1 DEF Tasks
    <3> QED
      BY <1>8, <3>2 DEF PoliteInv, Connected
  <2>2. ASSUME NEW w \in Workers, pc[w] # "idle"
        PROVE  sock'[loc[w].fd] = Mine(w) /\ loc[w].from = Mine(w)
    <3>1. loc[w].fd \in Fds /\ Mine(w) \in Conn
      BY <1>3, <2>2, Local, Accepted, ThreadsLabels DEF Fits, Resting, Points, Mine, Closing
    <3> QED
      BY <1>8, <2>2, <3>1 DEF PoliteInv, Connected
  <2>3. ASSUME pc[Epoll] \in {"recv", "newTask"} \cup Closing
        PROVE  sock'[loc[Epoll].fd] = loc[Epoll].client
    <3>1. loc[Epoll].fd \in Fds /\ loc[Epoll].client \in Conn
      BY <1>3, <2>3, Local, Accepted, ServerAssumption DEF Fits, Resting, Points, Closing
    <3> QED
      BY <1>8, <2>3, <3>1 DEF PoliteInv, Connected
  <2>4. pc[Epoll] = "newTask" => loc[Epoll].from = loc[Epoll].client
    BY DEF PoliteInv, Connected
  <2> QED
    BY <1>4, <1>9, <1>10, <2>1, <2>2, <2>3, <2>4 DEF Connected, Mine
<1>19. EventIsMeant'
  <2>1. SUFFICES ASSUME pc[Epoll] \in {"lookup", "recv"}
        PROVE  LET m == sock'[loc[Epoll].fd]
               IN  /\ m # 0
                   /\ inbox[m] # << >> \/ peer'[m] = "closed"
                   /\ m # n
    BY <1>4, <1>7, <1>10 DEF EventIsMeant
  <2> DEFINE m == sock[loc[Epoll].fd]
  <2>2. m # 0 /\ (inbox[m] # << >> \/ peer[m] = "closed")
    BY <2>1 DEF PoliteInv, EventIsMeant
  <2>3. loc[Epoll].fd \in Fds /\ m \in Conn
    BY <1>3, <2>1, <2>2, Local, Typed DEF DataTyped, Fits, Resting
  <2>4. sock'[loc[Epoll].fd] = m /\ m # n
    BY <1>8, <2>3
  <2> QED
    BY <1>5, <2>2, <2>3, <2>4
<1>20. HungUpIdle'
  BY <1>4, <1>5, <1>14 DEF PoliteInv, HungUpIdle
<1>21. TimedOutIdle'
  <2>1. ASSUME NEW m \in Conn, IsOpen(m)', age[m] > Timeout
        PROVE  (peer[m] = "open" /\ Settled(m))'
    <3>1. age[n] = 0
      BY <1>2 DEF ServerInv, OnlyAccepted
    <3>2. m # n
      BY <2>1, <3>1, ServerAssumption
    <3>3. IsOpen(m)
      BY <1>5, <2>1, <3>2 DEF IsOpen
    <3>4. peer[m] = "open" /\ Settled(m)
      BY <2>1, <3>3 DEF PoliteInv, TimedOutIdle
    <3> QED
      BY <1>3, <1>4, <1>5, <1>6, <1>7, <3>2, <3>4 DEF Settled
  <2> QED
    BY <2>1, <1>4 DEF TimedOutIdle
<1>22. OwnReason'
  <2>1. ASSUME pc[Epoll] \in Closing
        PROVE  peer'[loc[Epoll].client] = "closed"
    <3>1. loc[Epoll].client \in 1 .. conns
      BY <1>3, <2>1, Local, ServerAssumption DEF Fits, Resting, Points, Closing
    <3> QED
      BY <1>2, <1>5, <2>1, <3>1, Accepted DEF PoliteInv, OwnReason
  <2>2. ASSUME pc[Heart] \in Closing
        PROVE  sock'[loc[Heart].fd] = loc[Heart].node /\ age[loc[Heart].node] > Timeout
    <3>1. pc[Heart] \in WithNode
      BY <1>3, <2>2, Local, ThreadsLabels DEF WithNode, Closing
    <3>2. loc[Heart].fd \in Fds /\ loc[Heart].node \in Conn
      BY <1>3, <3>1, Local, Accepted DEF Fits, Resting, WithNode, Points
    <3> QED
      BY <1>8, <2>2, <3>2 DEF PoliteInv, OwnReason
  <2>3. ASSUME NEW u \in Threads, pc'[u] \in WithNode
        PROVE  /\ u # Heart => loc'[u].node = loc'[u].client
               /\ ~(pc'[Main] = "add" /\ loc'[Main].client = loc'[u].node)
    <3>1. u # Main /\ pc[u] \in WithNode /\ loc'[u] = loc[u]
      BY <1>6, <2>3 DEF WithNode
    <3>2. loc[u].node \in 1 .. conns
      BY <3>1, Local DEF Fits, Points
    <3> QED
      BY <1>2, <1>7, <3>1, <3>2 DEF PoliteInv, OwnReason
  <2> QED
    BY <1>4, <1>10, <1>11, <2>1, <2>2, <2>3 DEF OwnReason
<1> QED
  BY <1>12, <1>15, <1>16, <1>17, <1>18, <1>19, <1>20, <1>21, <1>22 DEF PoliteInv

-----------------------------------------------------------------------------
(* serv_epoll.                                                             *)

(* Who the epoll thread is not.                                            *)
LEMMA EpollOnly ==
  /\ Epoll \in Threads /\ Main \in Threads /\ Heart \in Threads
  /\ Epoll # Main /\ Epoll # Heart
  /\ \A x \in Workers : x \in Threads /\ x # Epoll
BY ThreadsLabels, ServerAssumption

(* What a step of the epoll thread alone leaves as it is.                  *)
LEMMA EpollMoves ==
  ASSUME ServerInv, NEW label, NEW r, Moves(Epoll, label, r)
  PROVE  /\ pc'[Epoll] = label /\ loc'[Epoll] = r
         /\ \A u \in Threads : u # Epoll => pc'[u] = pc[u] /\ loc'[u] = loc[u]
         /\ pc'[Main] = pc[Main] /\ loc'[Main] = loc[Main]
         /\ pc'[Heart] = pc[Heart] /\ loc'[Heart] = loc[Heart]
         /\ \A w \in Workers : pc'[w] = pc[w] /\ loc'[w] = loc[w]
BY EpollOnly, MovesOne

(* A client that is listed first is no longer main's when its event comes. *)
LEMMA WaitPolite ==
  ASSUME ServerInv, PoliteInv, Wait
  PROVE  PoliteInv'
<1>1. PICK f \in Fds : /\ sock[f] \in ready
                       /\ HasInput(sock[f]) \/ peer[sock[f]] = "closed"
                       /\ loc' = [loc EXCEPT ![Epoll].fd = f]
  BY DEF Wait
<1> DEFINE r == [loc[Epoll] EXCEPT !.fd = f]
           n == sock[f]
<1>2. pc[Epoll] = "wait" /\ broken = "no" /\ loc[Epoll] = NoLocals
  BY EpollOnly, Local DEF Wait, Running, Fits, Resting
<1>3. r.fd = f /\ r.client = 0 /\ r.cmd = "none"
  BY <1>2 DEF NoLocals
<1>4. Moves(Epoll, "lookup", r)
  BY <1>1 DEF Wait, Goto, Moves
<1>5. /\ pc'[Epoll] = "lookup" /\ loc'[Epoll] = r
      /\ \A u \in Threads : u # Epoll => pc'[u] = pc[u] /\ loc'[u] = loc[u]
      /\ pc'[Main] = pc[Main] /\ loc'[Main] = loc[Main]
      /\ pc'[Heart] = pc[Heart] /\ loc'[Heart] = loc[Heart]
      /\ \A w \in Workers : pc'[w] = pc[w] /\ loc'[w] = loc[w]
  BY <1>4, EpollMoves
<1>6. /\ inbox' = inbox /\ waiting' = waiting /\ peer' = peer /\ age' = age
      /\ sock' = sock /\ queue' = queue
      /\ broken' = broken /\ unknown' = unknown /\ misrouted' = misrouted
  BY DEF Wait, peerVars, clientVars, historyVars
<1>7. /\ n # 0 /\ n \in watched
      /\ inbox[n] # << >> \/ peer[n] = "closed"
  BY <1>1, Typed DEF DataTyped, Conn, HasInput
<1>8. ~(pc[Main] = "add" /\ loc[Main].client = n)
  BY <1>7 DEF ServerInv, NotListedYet
<1>9. ~unknown' /\ OwnNeverStale' /\ EventsAreKnown' /\ RepliesReachSender'
  BY <1>5, <1>6 DEF PoliteInv, OwnNeverStale, EventsAreKnown, RepliesReachSender
<1>10. \A u \in Threads, m \in Conn : HeldBy(u, m)' => HeldBy(u, m)
  BY <1>5, EpollOnly DEF HeldBy
<1>11. \A u \in Threads, m \in Conn : Works(u, m)' => Works(u, m)
  BY <1>5 DEF Works
<1>12. OneRequest' /\ QueuedOnce'
  BY <1>6, <1>10 DEF PoliteInv, OneRequest, QueuedOnce, Queued
<1>13. TakeTurns'
  BY <1>5 DEF PoliteInv, TakeTurns, Mine
<1>14. WellFormedOnly'
  BY <1>3, <1>5, <1>6 DEF PoliteInv, WellFormedOnly, WellFormed
<1>15. Connected'
  BY <1>5, <1>6 DEF PoliteInv, Connected, Mine, Closing
<1>16. EventIsMeant'
  BY <1>3, <1>5, <1>6, <1>7, <1>8 DEF EventIsMeant
<1>17. HungUpIdle'
  BY <1>6, <1>11 DEF PoliteInv, HungUpIdle
<1>18. TimedOutIdle'
  <2>1. 0 \notin Conn
    BY DEF Conn
  <2>2. ASSUME NEW m \in Conn, Settled(m)
        PROVE  Settled(m)'
    <3>1. ASSUME NEW t \in Threads
          PROVE  loc'[t].client # m
      <4>1. CASE t = Epoll
        BY <1>3, <1>5, <2>1, <4>1
      <4>2. CASE t # Epoll
        BY <1>5, <2>2, <4>2 DEF Settled
      <4> QED
        BY <4>1, <4>2
    <3> QED
      BY <1>6, <2>2, <3>1 DEF Settled
  <2> QED
    BY <1>6, <2>2 DEF PoliteInv, TimedOutIdle, IsOpen
<1>19. OwnReason'
  BY <1>5, <1>6 DEF PoliteInv, OwnReason, WithNode, Closing
<1> QED
  BY <1>9, <1>12, <1>13, <1>14, <1>15, <1>16, <1>17, <1>18, <1>19 DEF PoliteInv

LEMMA LookupPolite ==
  ASSUME ServerInv, PoliteInv, Lookup
  PROVE  PoliteInv'
<1>1. PICK n \in Conn : /\ Found(loc[Epoll].fd, n)
                        /\ loc' = [loc EXCEPT ![Epoll].client = n]
  BY DEF Lookup
<1> DEFINE r == [loc[Epoll] EXCEPT !.client = n]
<1>2. /\ pc[Epoll] = "lookup" /\ broken = "no" /\ loc[Epoll] \in Locals
      /\ loc[Epoll].fd \in Fds
  BY EpollOnly, Local DEF Lookup, Running, Fits, Resting
<1>3. r.fd = loc[Epoll].fd /\ r.client = n /\ r.cmd = loc[Epoll].cmd
  BY <1>2 DEF Locals
<1>4. Moves(Epoll, "recv", r)
  BY <1>1 DEF Lookup, Goto, Moves
<1>5. /\ pc'[Epoll] = "recv" /\ loc'[Epoll] = r
      /\ \A u \in Threads : u # Epoll => pc'[u] = pc[u] /\ loc'[u] = loc[u]
      /\ pc'[Main] = pc[Main] /\ loc'[Main] = loc[Main]
      /\ pc'[Heart] = pc[Heart] /\ loc'[Heart] = loc[Heart]
      /\ \A w \in Workers : pc'[w] = pc[w] /\ loc'[w] = loc[w]
  BY <1>4, EpollMoves
<1>6. /\ inbox' = inbox /\ waiting' = waiting /\ peer' = peer /\ age' = age
      /\ sock' = sock /\ queue' = queue
      /\ broken' = broken /\ unknown' = unknown /\ misrouted' = misrouted
  BY DEF Lookup, kernelVars, peerVars, clientVars, historyVars
<1>7. n = sock[loc[Epoll].fd]
  BY <1>1, <1>2, FoundIsOwner DEF PoliteInv
<1>8. inbox[n] # << >> \/ peer[n] = "closed"
  BY <1>2, <1>7 DEF PoliteInv, EventIsMeant
<1>9. ~unknown' /\ OwnNeverStale' /\ EventsAreKnown' /\ RepliesReachSender'
  BY <1>5, <1>6 DEF PoliteInv, OwnNeverStale, EventsAreKnown, RepliesReachSender
<1>10. \A u \in Threads, m \in Conn : HeldBy(u, m)' => HeldBy(u, m)
  BY <1>5, EpollOnly DEF HeldBy
<1>11. \A u \in Threads, m \in Conn : Works(u, m)' => Works(u, m)
  BY <1>5 DEF Works
<1>12. OneRequest' /\ QueuedOnce'
  BY <1>6, <1>10 DEF PoliteInv, OneRequest, QueuedOnce, Queued
<1>13. TakeTurns'
  BY <1>5 DEF PoliteInv, TakeTurns, Mine
<1>14. WellFormedOnly'
  <2>1. ASSUME NEW t \in Threads
        PROVE  loc'[t].cmd = loc[t].cmd
    <3>1. CASE t = Epoll
      BY <1>3, <1>5, <3>1
    <3>2. CASE t # Epoll
      BY <1>5, <3>2
    <3> QED
      BY <3>1, <3>2
  <2> QED
    BY <1>6, <2>1 DEF PoliteInv, WellFormedOnly, WellFormed
<1>15. Connected'
  BY <1>3, <1>5, <1>6, <1>7 DEF PoliteInv, Connected, Mine
<1>16. EventIsMeant'
  BY <1>2, <1>3, <1>5, <1>6 DEF PoliteInv, EventIsMeant
<1>17. HungUpIdle'
  BY <1>6, <1>11 DEF PoliteInv, HungUpIdle
<1>18. TimedOutIdle'
  <2>1. ASSUME NEW m \in Conn, IsOpen(m), age[m] > Timeout
        PROVE  peer[m] = "open" /\ Settled(m)'
    <3>1. peer[m] = "open" /\ Settled(m)
      BY <2>1 DEF PoliteInv, TimedOutIdle
    <3>2. m # n
      BY <1>8, <3>1 DEF Settled
    <3> QED
      BY <1>3, <1>5, <1>6, <3>1, <3>2 DEF Settled
  <2> QED
    BY <1>6, <2>1 DEF TimedOutIdle, IsOpen
<1>19. OwnReason'
  BY <1>5, <1>6 DEF PoliteInv, OwnReason, WithNode, Closing
<1> QED
  BY <1>9, <1>12, <1>13, <1>14, <1>15, <1>16, <1>17, <1>18, <1>19 DEF PoliteInv

(* An event's socket is in the list: nobody is about to list it or to      *)
(* close it.                                                               *)
LEMMA EventIsFound ==
  ASSUME ServerInv, PoliteInv
  PROVE  ~LookupFails /\ ~CloseUnknown
<1>1. ~CloseUnknown
  BY DEF CloseUnknown, Running, PoliteInv, EventsAreKnown
<1>2. ASSUME LookupFails
      PROVE  FALSE
  <2> DEFINE f == loc[Epoll].fd
             n == sock[f]
  <2>1. pc[Epoll] = "lookup" /\ f \in Fds /\ NotFound(f)
    BY <1>2, EpollOnly, Local DEF LookupFails, Running, Fits, Resting
  <2>2. n # 0 /\ ~(pc[Main] = "add" /\ loc[Main].client = n)
    BY <2>1 DEF PoliteInv, EventIsMeant
  <2>3. fdOf[n] = f
    BY <2>1, <2>2 DEF ServerInv, OnlyAccepted, Points
  <2>4. ~Listed(n)
    BY <2>1, <2>3 DEF Listed, NotFound
  <2>5. ~(pc[Main] = "add" /\ loc[Main].fd = f)
    BY <2>2 DEF ServerInv, OwnSocket, PoliteInv
  <2>6. ASSUME NEW u \in Threads, pc[u] = "close", loc[u].fd = f
        PROVE  FALSE
    <3>1. sock[loc[u].fd] = loc[u].node
      BY <2>6, CloserAlone DEF WithNode
    <3>2. sock[f] # loc[u].node
      BY <2>1, <2>6, CloserAlone DEF WithNode
    <3> QED
      BY <2>6, <3>1, <3>2
  <2> QED
    BY <2>1, <2>2, <2>4, <2>5, <2>6 DEF ServerInv, SocketsAccounted
<1> QED
  BY <1>1, <1>2

LEMMA RecvPolite ==
  ASSUME ServerInv, PoliteInv, Recv
  PROVE  PoliteInv'
<1>1. /\ pc[Epoll] = "recv" /\ broken = "no" /\ loc[Epoll] \in Locals
      /\ loc[Epoll].fd \in Fds /\ Points(loc[Epoll].fd, loc[Epoll].client)
  BY EpollOnly, Local DEF Recv, Running, Fits, Resting
<1> DEFINE n == loc[Epoll].client
           r == [loc[Epoll] EXCEPT !.cmd = Head(inbox[n]), !.from = n]
<1>2. n = sock[loc[Epoll].fd] /\ n \in Conn
  BY <1>1, Accepted DEF PoliteInv, Connected, Points
<1>3. inbox[n] \in Seq(Cmds) /\ inbox[n] # << >> /\ Len(inbox[n]) <= 1 /\ Len(inbox[n]) \in Nat
  BY <1>2, Typed DEF Recv, HasInput, DataTyped, PoliteInv, OneRequest
<1>4. Head(inbox[n]) = inbox[n][1] /\ Tail(inbox[n]) = << >>
  BY <1>3
<1>5. /\ r.fd = loc[Epoll].fd /\ r.client = n /\ r.from = n
      /\ r.cmd = inbox[n][1] /\ WellFormed(r.cmd)
  BY <1>1, <1>2, <1>3, <1>4 DEF Locals, PoliteInv, WellFormedOnly
<1>6. Moves(Epoll, "newTask", r)
  BY <1>2, Typed DEF Recv, Goto, Moves
<1>7. /\ pc'[Epoll] = "newTask" /\ loc'[Epoll] = r
      /\ \A u \in Threads : u # Epoll => pc'[u] = pc[u] /\ loc'[u] = loc[u]
      /\ pc'[Main] = pc[Main] /\ loc'[Main] = loc[Main]
      /\ pc'[Heart] = pc[Heart] /\ loc'[Heart] = loc[Heart]
      /\ \A w \in Workers : pc'[w] = pc[w] /\ loc'[w] = loc[w]
  BY <1>6, EpollMoves
<1>8. /\ waiting' = waiting /\ peer' = peer /\ age' = age
      /\ sock' = sock /\ queue' = queue
      /\ broken' = broken /\ unknown' = unknown /\ misrouted' = misrouted
  BY DEF Recv, peerVars, clientVars
<1>9. /\ inbox'[n] = << >>
      /\ \A m \in Conn : m # n => inbox'[m] = inbox[m]
  BY <1>2, <1>4, Typed DEF Recv, DataTyped
<1>10. n \in waiting /\ ~Queued(n) /\ \A t \in Threads : ~HeldBy(t, n)
  BY <1>2, <1>3 DEF PoliteInv, OneRequest
<1>11. ~unknown' /\ OwnNeverStale' /\ EventsAreKnown' /\ RepliesReachSender'
  BY <1>7, <1>8 DEF PoliteInv, OwnNeverStale, EventsAreKnown, RepliesReachSender
<1>12. \A u \in Threads, m \in Conn : HeldBy(u, m)' => HeldBy(u, m) \/ (u = Epoll /\ m = n)
  BY <1>5, <1>7, EpollOnly DEF HeldBy
<1>13. \A u \in Threads, m \in Conn : Works(u, m)' => Works(u, m)
  BY <1>7 DEF Works
<1>14. \A m \in Conn : Queued(m)' <=> Queued(m)
  BY <1>8 DEF Queued
<1>15. OneRequest'
  <2>1. ASSUME NEW m \in Conn
        PROVE  /\ inbox'[m] # << >> \/ Queued(m)' \/ (\E t \in Threads : HeldBy(t, m)') =>
                      m \in waiting'
               /\ Len(inbox'[m]) <= 1
               /\ inbox'[m] # << >> => ~Queued(m)'
               /\ inbox'[m] # << >> \/ Queued(m)' => \A t \in Threads : ~HeldBy(t, m)'
               /\ \A t, u \in Threads : HeldBy(t, m)' /\ HeldBy(u, m)' => t = u
    <3>1. CASE m = n
      <4>1. inbox'[m] = << >> /\ ~Queued(m)' /\ m \in waiting' /\ Len(inbox'[m]) = 0
        BY <1>8, <1>9, <1>10, <1>14, <3>1
      <4>2. \A t \in Threads : HeldBy(t, m)' => t = Epoll
        BY <1>10, <1>12, <3>1
      <4> QED
        BY <4>1, <4>2
    <3>2. CASE m # n
      <4>1. inbox'[m] = inbox[m] /\ (Queued(m)' <=> Queued(m))
        BY <1>9, <1>14, <3>2
      <4>2. \A t \in Threads : HeldBy(t, m)' => HeldBy(t, m)
        BY <1>12, <3>2
      <4> QED
        BY <1>8, <4>1, <4>2 DEF PoliteInv, OneRequest
    <3> QED
      BY <3>1, <3>2
  <2> QED
    BY <2>1 DEF OneRequest
<1>16. QueuedOnce'
  BY <1>8 DEF PoliteInv, QueuedOnce
<1>17. TakeTurns'
  BY <1>7 DEF PoliteInv, TakeTurns, Mine
<1>18. WellFormedOnly'
  <2>1. \A m \in Conn : inbox'[m] # << >> => WellFormed(inbox'[m][1])
    BY <1>9 DEF PoliteInv, WellFormedOnly
  <2>2. \A i \in 1 .. Len(queue') : WellFormed(queue'[i].cmd)
    BY <1>8 DEF PoliteInv, WellFormedOnly
  <2>3. ASSUME NEW t \in Threads
        PROVE  WellFormed(loc'[t].cmd)
    BY <1>5, <1>7 DEF PoliteInv, WellFormedOnly
  <2> QED
    BY <2>1, <2>2, <2>3 DEF WellFormedOnly, WellFormed
<1>19. Connected'
  BY <1>2, <1>5, <1>7, <1>8 DEF PoliteInv, Connected, Mine
<1>20. EventIsMeant'
  BY <1>7 DEF EventIsMeant
<1>21. HungUpIdle'
  BY <1>8, <1>13 DEF PoliteInv, HungUpIdle
<1>22. TimedOutIdle'
  <2>1. ASSUME NEW m \in Conn, IsOpen(m), age[m] > Timeout
        PROVE  peer[m] = "open" /\ Settled(m)'
    <3>1. peer[m] = "open" /\ Settled(m)
      BY <2>1 DEF PoliteInv, TimedOutIdle
    <3>2. m # n
      BY <3>1, EpollOnly DEF Settled
    <3>3. m \notin waiting' /\ inbox'[m] = << >>
      BY <1>8, <1>9, <3>1, <3>2 DEF Settled
    <3>4. ASSUME NEW t \in Threads
          PROVE  loc'[t].client # m
      <4>1. CASE t = Epoll
        BY <1>5, <1>7, <3>2, <4>1
      <4>2. CASE t # Epoll
        BY <1>7, <3>1, <4>2 DEF Settled
      <4> QED
        BY <4>1, <4>2
    <3>5. \A i \in 1 .. Len(queue') : queue'[i].client # m
      BY <1>8, <3>1 DEF Settled
    <3> QED
      BY <3>1, <3>3, <3>4, <3>5 DEF Settled
  <2> QED
    BY <1>8, <2>1 DEF TimedOutIdle, IsOpen
<1>23. OwnReason'
  BY <1>7, <1>8 DEF PoliteInv, OwnReason, WithNode, Closing
<1> QED
  BY <1>11, <1>15, <1>16, <1>17, <1>18, <1>19, <1>20, <1>21, <1>22, <1>23 DEF PoliteInv

(* A read that finds nothing was for a peer that has hung up.              *)
LEMMA RecvFailsPolite ==
  ASSUME ServerInv, PoliteInv, RecvFails
  PROVE  PoliteInv'
<1>1. pc[Epoll] = "recv" /\ broken = "no"
  BY DEF RecvFails, Running
<1>2. loc[Epoll].client = sock[loc[Epoll].fd] /\ peer[loc[Epoll].client] = "closed"
  BY <1>1 DEF RecvFails, HasInput, PoliteInv, Connected, EventIsMeant
<1>3. Moves(Epoll, "callClose", loc[Epoll])
  BY Typed DEF RecvFails, Goto, Moves
<1>4. /\ pc'[Epoll] = "callClose"
      /\ \A u \in Threads : u # Epoll => pc'[u] = pc[u] /\ loc'[u] = loc[u]
      /\ pc'[Main] = pc[Main] /\ pc'[Heart] = pc[Heart]
      /\ \A w \in Workers : pc'[w] = pc[w] /\ loc'[w] = loc[w]
  BY <1>3, EpollMoves
<1>5. /\ inbox' = inbox /\ waiting' = waiting /\ peer' = peer /\ age' = age
      /\ sock' = sock /\ queue' = queue /\ loc' = loc
      /\ broken' = broken /\ unknown' = unknown /\ misrouted' = misrouted
  BY DEF RecvFails, kernelVars, peerVars, clientVars, historyVars
<1>6. ~unknown' /\ OwnNeverStale' /\ EventsAreKnown' /\ RepliesReachSender'
  BY <1>4, <1>5 DEF PoliteInv, OwnNeverStale, EventsAreKnown, RepliesReachSender
<1>7. \A u \in Threads, m \in Conn : HeldBy(u, m)' => HeldBy(u, m)
  BY <1>4, <1>5, EpollOnly DEF HeldBy
<1>8. \A u \in Threads, m \in Conn : Works(u, m)' => Works(u, m)
  BY <1>4, <1>5 DEF Works
<1>9. OneRequest' /\ QueuedOnce'
  BY <1>5, <1>7 DEF PoliteInv, OneRequest, QueuedOnce, Queued
<1>10. TakeTurns' /\ WellFormedOnly'
  BY <1>4, <1>5 DEF PoliteInv, TakeTurns, WellFormedOnly, WellFormed, Mine
<1>11. Connected'
  BY <1>2, <1>4, <1>5 DEF PoliteInv, Connected, Mine
<1>12. EventIsMeant'
  BY <1>4 DEF EventIsMeant
<1>13. HungUpIdle'
  BY <1>5, <1>8 DEF PoliteInv, HungUpIdle
<1>14. TimedOutIdle'
  BY <1>5 DEF PoliteInv, TimedOutIdle, IsOpen, Settled
<1>15. OwnReason'
  BY <1>2, <1>4, <1>5 DEF PoliteInv, OwnReason, WithNode
<1> QED
  BY <1>6, <1>9, <1>10, <1>11, <1>12, <1>13, <1>14, <1>15 DEF PoliteInv

LEMMA NewTaskPolite ==
  ASSUME ServerInv, PoliteInv, NewTask
  PROVE  PoliteInv'
<1>1. /\ pc[Epoll] = "newTask" /\ broken = "no"
      /\ Points(loc[Epoll].fd, loc[Epoll].client)
  BY EpollOnly, ServerAssumption, Local DEF NewTask, Running, Fits, Resting
<1> DEFINE n == loc[Epoll].client
           k == Len(queue) + 1
<1>2. n \in Conn /\ n = sock[loc[Epoll].fd] /\ loc[Epoll].from = n /\ WellFormed(loc[Epoll].cmd)
  BY <1>1, Accepted, EpollOnly DEF Points, PoliteInv, Connected, WellFormedOnly
<1>3. HeldBy(Epoll, n)
  BY <1>1 DEF HeldBy
<1>4. /\ n \in waiting /\ inbox[n] = << >> /\ ~Queued(n)
      /\ \A t \in Threads : HeldBy(t, n) => t = Epoll
  BY <1>2, <1>3, EpollOnly DEF PoliteInv, OneRequest
<1>5. Moves(Epoll, "wait", NoLocals)
  BY DEF NewTask, Goto, Moves
<1>6. /\ pc'[Epoll] = "wait" /\ loc'[Epoll] = NoLocals
      /\ \A u \in Threads : u # Epoll => pc'[u] = pc[u] /\ loc'[u] = loc[u]
      /\ pc'[Main] = pc[Main] /\ loc'[Main] = loc[Main]
      /\ pc'[Heart] = pc[Heart] /\ loc'[Heart] = loc[Heart]
      /\ \A w \in Workers : pc'[w] = pc[w] /\ loc'[w] = loc[w]
  BY <1>5, EpollMoves
<1>7. /\ inbox' = inbox /\ waiting' = waiting /\ peer' = peer /\ age' = age /\ sock' = sock
      /\ broken' = broken /\ unknown' = unknown /\ misrouted' = misrouted
  BY DEF NewTask, kernelVars, peerVars, clientVars, historyVars
<1>8. /\ Len(queue) \in Nat /\ Len(queue') = k
      /\ queue'[k] = loc[Epoll]
      /\ \A i \in 1 .. Len(queue) : queue'[i] = queue[i]
      /\ \A i \in 1 .. Len(queue') : i \in 1 .. Len(queue) \/ i = k
  BY Typed, SMTT(30) DEF NewTask, DataTyped
<1>9. \A m \in Conn : Queued(m)' => Queued(m) \/ m = n
  BY <1>8 DEF Queued
<1>10. \A u \in Threads, m \in Conn : HeldBy(u, m)' => HeldBy(u, m) /\ u # Epoll
  BY <1>6, EpollOnly DEF HeldBy
<1>11. \A u \in Threads, m \in Conn : Works(u, m)' => Works(u, m)
  BY <1>6 DEF Works
<1>12. ~unknown' /\ OwnNeverStale' /\ EventsAreKnown' /\ RepliesReachSender'
  BY <1>6, <1>7 DEF PoliteInv, OwnNeverStale, EventsAreKnown, RepliesReachSender
<1>13. OneRequest'
  <2>1. ASSUME NEW m \in Conn
        PROVE  /\ inbox[m] # << >> \/ Queued(m)' \/ (\E t \in Threads : HeldBy(t, m)') =>
                      m \in waiting
               /\ Len(inbox[m]) <= 1
               /\ inbox[m] # << >> => ~Queued(m)'
               /\ inbox[m] # << >> \/ Queued(m)' => \A t \in Threads : ~HeldBy(t, m)'
               /\ \A t, u \in Threads : HeldBy(t, m)' /\ HeldBy(u, m)' => t = u
    <3>1. CASE m = n
      <4>1. inbox[m] = << >> /\ m \in waiting /\ Len(inbox[m]) = 0
        BY <1>4, <3>1
      <4>2. \A t \in Threads : ~HeldBy(t, m)'
        BY <1>4, <1>10, <3>1
      <4> QED
        BY <4>1, <4>2
    <3>2. CASE m # n
      <4>1. Queued(m)' => Queued(m)
        BY <1>9, <3>2
      <4> QED
        BY <1>10, <4>1 DEF PoliteInv, OneRequest
    <3> QED
      BY <3>1, <3>2
  <2> QED
    BY <1>7, <2>1 DEF OneRequest
<1>14. QueuedOnce'
  <2>1. ASSUME NEW i \in 1 .. Len(queue)
        PROVE  queue[i].client # n
    BY <1>4 DEF Queued
  <2>2. ASSUME NEW i \in 1 .. Len(queue'), NEW j \in 1 .. Len(queue'),
               queue'[i].client = queue'[j].client
        PROVE  i = j
    BY <1>8, <2>1, <2>2 DEF PoliteInv, QueuedOnce
  <2> QED
    BY <2>2 DEF QueuedOnce
<1>15. TakeTurns'
  BY <1>6 DEF PoliteInv, TakeTurns, Mine
<1>16. WellFormedOnly'
  <2>1. \A i \in 1 .. Len(queue') : WellFormed(queue'[i].cmd)
    BY <1>2, <1>8 DEF PoliteInv, WellFormedOnly
  <2>2. \A t \in Threads : WellFormed(loc'[t].cmd)
    BY <1>6 DEF PoliteInv, WellFormedOnly, WellFormed, NoLocals
  <2> QED
    BY <1>7, <2>1, <2>2 DEF PoliteInv, WellFormedOnly, WellFormed
<1>17. Connected'
  <2>1. \A i \in 1 .. Len(queue') :
            sock[queue'[i].fd] = queue'[i].client /\ queue'[i].from = queue'[i].client
    BY <1>2, <1>8 DEF PoliteInv, Connected
  <2> QED
    BY <1>6, <1>7, <2>1 DEF PoliteInv, Connected, Mine, Closing
<1>18. EventIsMeant'
  BY <1>6 DEF EventIsMeant
<1>19. HungUpIdle'
  BY <1>7, <1>11 DEF PoliteInv, HungUpIdle
<1>20. TimedOutIdle'
  <2>1. 0 \notin Conn
    BY DEF Conn
  <2>2. ASSUME NEW m \in Conn, IsOpen(m), age[m] > Timeout
        PROVE  peer[m] = "open" /\ Settled(m)'
    <3>1. peer[m] = "open" /\ Settled(m)
      BY <2>2 DEF PoliteInv, TimedOutIdle
    <3>2. m # n
      BY <3>1, EpollOnly DEF Settled
    <3>3. ASSUME NEW i \in 1 .. Len(queue')
          PROVE  queue'[i].client # m
      BY <1>8, <3>1, <3>2 DEF Settled
    <3>4. ASSUME NEW t \in Threads
          PROVE  loc'[t].client # m
      BY <1>6, <2>1, <3>1 DEF Settled, NoLocals
    <3>5. m \notin waiting' /\ inbox'[m] = << >>
      BY <1>7, <3>1 DEF Settled
    <3> QED
      BY <3>1, <3>3, <3>4, <3>5 DEF Settled
  <2> QED
    BY <1>7, <2>2 DEF TimedOutIdle, IsOpen
<1>21. OwnReason'
  BY <1>6, <1>7 DEF PoliteInv, OwnReason, WithNode, Closing
<1> QED
  BY <1>12, <1>13, <1>14, <1>15, <1>16, <1>17, <1>18, <1>19, <1>20, <1>21 DEF PoliteInv

-----------------------------------------------------------------------------
(* The end of a close, and what is undefined.                              *)

(* The socket goes when nothing is under way for its connection.           *)
LEMMA CloseFdPolite ==
  ASSUME ServerInv, PoliteInv, NEW t \in Threads, CloseFd(t)
  PROVE  PoliteInv'
<1> DEFINE f == loc[t].fd
           n == loc[t].node
<1>1. pc[t] = "close" /\ broken = "no"
  BY DEF CloseFd, Running
<1>2. /\ n \in 1 .. conns /\ sock[f] = n /\ f \in Fds
      /\ \A w \in Workers : w # t => loc[w].client # n
      /\ t # Epoll /\ pc[Epoll] \in {"recv", "newTask"} \cup Closing => loc[Epoll].client # n
      /\ pc[Epoll] = "lookup" => sock[loc[Epoll].fd] # n
      /\ ~Queued(n)
      /\ \A u \in Threads : u # t /\ pc[u] \in WithNode => loc[u].node # n
  BY <1>1, CloserAlone DEF WithNode
<1>3. n \in Conn
  BY <1>2, Accepted
<1>4. PICK label \in LabelsOf(t) \cap Resting : Moves(t, label, NoLocals)
  BY <1>1, ReturnRests DEF CloseFd, Closing
<1>5. ASSUME NEW u \in Threads
      PROVE  /\ pc'[u] = IF u = t THEN label ELSE pc[u]
             /\ loc'[u] = IF u = t THEN NoLocals ELSE loc[u]
  BY <1>4, MovesOne
<1>6. /\ Main \in Threads /\ Epoll \in Threads /\ Heart \in Threads
      /\ \A w \in Workers : w \in Threads
  BY ThreadsLabels
<1>7. ASSUME NEW u \in Threads, pc'[u] \notin Resting
      PROVE  u # t /\ pc'[u] = pc[u] /\ loc'[u] = loc[u]
  BY <1>4, <1>5, <1>7
<1>8. ASSUME NEW w \in Workers, pc'[w] # "idle"
      PROVE  w # t /\ pc'[w] = pc[w] /\ loc'[w] = loc[w]
  <2>1. t \in Workers => label = "idle"
    BY <1>4, ThreadsLabels DEF Resting, Closing
  <2> QED
    BY <1>5, <1>6, <1>8, <2>1
<1>9. ASSUME NEW w \in Workers, NEW m \in Conn, loc'[w].client = m
      PROVE  w # t /\ pc'[w] = pc[w] /\ loc'[w] = loc[w]
  <2>1. 0 \notin Conn
    BY DEF Conn
  <2> QED
    BY <1>5, <1>6, <1>9, <2>1 DEF NoLocals
<1>10. /\ peer' = peer /\ age' = age /\ queue' = queue
       /\ broken' = broken /\ unknown' = unknown /\ misrouted' = misrouted
  BY DEF CloseFd, clientVars, historyVars
<1>11. /\ waiting' = waiting \ {n}
       /\ inbox'[n] = << >> /\ \A m \in Conn : m # n => inbox'[m] = inbox[m]
       /\ \A g \in Fds : g # f => sock'[g] = sock[g]
       /\ sock'[f] = 0
  BY <1>2, <1>3, Typed DEF CloseFd, Close, DataTyped
<1>12. ASSUME NEW g \in Fds, NEW m \in Conn, m # n, sock[g] = m
       PROVE  sock'[g] = m
  BY <1>2, <1>11, <1>12
<1>13. ~unknown' /\ OwnNeverStale' /\ EventsAreKnown' /\ RepliesReachSender'
  BY <1>6, <1>7, <1>10 DEF PoliteInv, OwnNeverStale, EventsAreKnown, RepliesReachSender, Resting
<1>14. \A u \in Threads, m \in Conn : HeldBy(u, m)' => HeldBy(u, m) /\ m # n
  <2>1. ASSUME NEW m \in Conn, HeldBy(Epoll, m)'
        PROVE  HeldBy(Epoll, m) /\ m # n
    BY <1>2, <1>6, <1>7, <2>1, EpollOnly DEF HeldBy, Resting
  <2>2. ASSUME NEW w \in Workers, NEW m \in Conn, HeldBy(w, m)'
        PROVE  HeldBy(w, m) /\ m # n
    BY <1>2, <1>9, <2>2, EpollOnly DEF HeldBy
  <2> QED
    BY <2>1, <2>2 DEF HeldBy
<1>15. \A u \in Threads, m \in Conn : Works(u, m)' => Works(u, m)
  BY <1>8 DEF Works
<1>16. \A m \in Conn : Queued(m)' <=> Queued(m)
  BY <1>10 DEF Queued
<1>17. OneRequest'
  <2>1. ASSUME NEW m \in Conn
        PROVE  /\ inbox'[m] # << >> \/ Queued(m)' \/ (\E u \in Threads : HeldBy(u, m)') =>
                      m \in waiting'
               /\ Len(inbox'[m]) <= 1
               /\ inbox'[m] # << >> => ~Queued(m)'
               /\ inbox'[m] # << >> \/ Queued(m)' => \A u \in Threads : ~HeldBy(u, m)'
               /\ \A v, u \in Threads : HeldBy(v, m)' /\ HeldBy(u, m)' => v = u
    <3>1. CASE m = n
      <4>1. inbox'[m] = << >> /\ ~Queued(m)' /\ Len(inbox'[m]) = 0
        BY <1>2, <1>3, <1>11, <1>16, <3>1
      <4>2. \A u \in Threads : ~HeldBy(u, m)'
        BY <1>14, <3>1
      <4> QED
        BY <4>1, <4>2
    <3>2. CASE m # n
      <4>1. inbox'[m] = inbox[m] /\ (Queued(m)' <=> Queued(m)) /\ (m \in waiting' <=> m \in waiting)
        BY <1>11, <1>16, <3>2
      <4>2. \A u \in Threads : HeldBy(u, m)' => HeldBy(u, m)
        BY <1>14
      <4> QED
        BY <4>1, <4>2 DEF PoliteInv, OneRequest
    <3> QED
      BY <3>1, <3>2
  <2> QED
    BY <2>1 DEF OneRequest
<1>18. QueuedOnce'
  BY <1>10 DEF PoliteInv, QueuedOnce
<1>19. TakeTurns'
  BY <1>8 DEF PoliteInv, TakeTurns, Mine
<1>20. WellFormedOnly'
  <2>1. \A m \in Conn : inbox'[m] # << >> => WellFormed(inbox'[m][1])
    BY <1>11 DEF PoliteInv, WellFormedOnly
  <2>2. \A u \in Threads : WellFormed(loc'[u].cmd)
    BY <1>5 DEF PoliteInv, WellFormedOnly, WellFormed, NoLocals
  <2> QED
    BY <1>10, <2>1, <2>2 DEF PoliteInv, WellFormedOnly, WellFormed
<1>21. Connected'
  <2>1. ASSUME NEW i \in 1 .. Len(queue)
        PROVE  sock'[queue[i].fd] = queue[i].client /\ queue[i].from = queue[i].client
    <3>1. queue[i] \in Tasks
      BY Typed DEF DataTyped
    <3>2. queue[i].fd \in Fds /\ queue[i].client \in Conn
      BY <3>1 DEF Tasks
    <3>3. queue[i].client # n
      BY <1>2 DEF Queued
    <3> QED
      BY <1>12, <3>2, <3>3 DEF PoliteInv, Connected
  <2>2. ASSUME NEW w \in Workers, pc'[w] # "idle"
        PROVE  sock'[loc[w].fd] = Mine(w) /\ loc[w].from = Mine(w)
    <3>1. pc[w] # "idle" /\ Mine(w) # n
      BY <1>2, <1>8, <2>2 DEF Mine
    <3>2. loc[w].fd \in Fds /\ Mine(w) \in Conn
      BY <1>6, <3>1, Local, Accepted, ThreadsLabels DEF Fits, Resting, Points, Mine, Closing
    <3> QED
      BY <1>12, <3>1, <3>2 DEF PoliteInv, Connected
  <2>3. ASSUME pc'[Epoll] \in {"recv", "newTask"} \cup Closing
        PROVE  /\ sock'[loc[Epoll].fd] = loc[Epoll].client
               /\ pc[Epoll] = "newTask" => loc[Epoll].from = loc[Epoll].client
    <3>1. pc[Epoll] = pc'[Epoll] /\ loc[Epoll].client # n
      BY <1>2, <1>6, <1>7, <2>3 DEF Resting, Closing
    <3>2. loc[Epoll].fd \in Fds /\ loc[Epoll].client \in Conn
      BY <1>6, <2>3, <3>1, Local, Accepted, ServerAssumption DEF Fits, Resting, Points, Closing
    <3> QED
      BY <1>12, <2>3, <3>1, <3>2 DEF PoliteInv, Connected
  <2>4. \A i \in 1 .. Len(queue') :
            sock'[queue'[i].fd] = queue'[i].client /\ queue'[i].from = queue'[i].client
    BY <1>10, <2>1
  <2>5. ASSUME NEW w \in Workers, pc'[w] # "idle"
        PROVE  sock'[loc'[w].fd] = loc'[w].client /\ loc'[w].from = loc'[w].client
    BY <1>8, <2>2, <2>5 DEF Mine
  <2>6. pc'[Epoll] \in {"recv", "newTask"} \cup Closing =>
            sock'[loc'[Epoll].fd] = loc'[Epoll].client
    BY <1>6, <1>7, <2>3 DEF Resting, Closing
  <2>7. pc'[Epoll] = "newTask" => loc'[Epoll].from = loc'[Epoll].client
    BY <1>6, <1>7, <2>3 DEF Resting
  <2> QED
    BY <2>4, <2>5, <2>6, <2>7 DEF Connected, Mine
<1>22. EventIsMeant'
  <2>1. SUFFICES ASSUME pc'[Epoll] \in {"lookup", "recv"}
        PROVE  LET m == sock'[loc'[Epoll].fd]
               IN  /\ m # 0
                   /\ inbox'[m] # << >> \/ peer'[m] = "closed"
                   /\ ~(pc'[Main] = "add" /\ loc'[Main].client = m)
    BY DEF EventIsMeant
  <2> DEFINE m == sock[loc[Epoll].fd]
  <2>2. pc[Epoll] \in {"lookup", "recv"} /\ pc'[Epoll] = pc[Epoll] /\ loc'[Epoll] = loc[Epoll]
        /\ Epoll # t
    BY <1>6, <1>7, <2>1 DEF Resting
  <2>3. m # 0 /\ (inbox[m] # << >> \/ peer[m] = "closed") /\ ~(pc[Main] = "add" /\ loc[Main].client = m)
    BY <2>2 DEF PoliteInv, EventIsMeant
  <2>4. m # n
    BY <1>2, <2>2 DEF PoliteInv, Connected
  <2>5. loc[Epoll].fd \in Fds /\ m \in Conn
    BY <1>6, <2>2, <2>3, Local, Typed DEF DataTyped, Fits, Resting
  <2>6. sock'[loc'[Epoll].fd] = m
    BY <1>12, <2>2, <2>4, <2>5
  <2>7. pc'[Main] = "add" => pc[Main] = "add" /\ loc'[Main] = loc[Main]
    BY <1>6, <1>7 DEF Resting
  <2>8. inbox'[m] = inbox[m] /\ peer'[m] = peer[m]
    BY <1>10, <1>11, <2>4, <2>5
  <2> QED
    BY <2>3, <2>6, <2>7, <2>8
<1>23. HungUpIdle'
  BY <1>10, <1>11, <1>15 DEF PoliteInv, HungUpIdle
<1>24. TimedOutIdle'
  <2>1. ASSUME NEW m \in Conn, IsOpen(m)', age[m] > Timeout
        PROVE  peer[m] = "open" /\ Settled(m)'
    <3>1. m # 0
      BY DEF Conn
    <3>2. IsOpen(m)
      BY <1>11, <2>1, <3>1 DEF IsOpen
    <3>3. peer[m] = "open" /\ Settled(m)
      BY <2>1, <3>2 DEF PoliteInv, TimedOutIdle
    <3>4. m \notin waiting' /\ inbox'[m] = << >>
      BY <1>11, <3>3 DEF Settled
    <3>5. ASSUME NEW u \in Threads
          PROVE  loc'[u].client # m
      BY <1>5, <3>1, <3>3 DEF Settled, NoLocals
    <3>6. \A i \in 1 .. Len(queue') : queue'[i].client # m
      BY <1>10, <3>3 DEF Settled
    <3> QED
      BY <3>3, <3>4, <3>5, <3>6 DEF Settled
  <2> QED
    BY <1>10, <2>1 DEF TimedOutIdle
<1>25. OwnReason'
  <2>1. pc'[Epoll] \in Closing => peer'[loc'[Epoll].client] = "closed"
    BY <1>6, <1>7, <1>10 DEF PoliteInv, OwnReason, Closing, Resting
  <2>2. ASSUME pc'[Heart] \in Closing
        PROVE  sock'[loc'[Heart].fd] = loc'[Heart].node /\ age'[loc'[Heart].node] > Timeout
    <3>1. pc[Heart] \in Closing /\ loc'[Heart] = loc[Heart] /\ Heart # t
      BY <1>6, <1>7, <2>2 DEF Closing, Resting
    <3>2. pc[Heart] \in WithNode
      BY <1>6, <3>1, Local, ThreadsLabels DEF WithNode, Closing
    <3>3. loc[Heart].node \in Conn /\ loc[Heart].fd \in Fds /\ loc[Heart].node # n
      BY <1>2, <1>6, <3>1, <3>2, Local, Accepted DEF Fits, Points, Resting, WithNode
    <3>4. sock[loc[Heart].fd] = loc[Heart].node /\ age[loc[Heart].node] > Timeout
      BY <3>1 DEF PoliteInv, OwnReason
    <3> QED
      BY <1>10, <1>12, <3>1, <3>3, <3>4
  <2>3. ASSUME NEW u \in Threads, pc'[u] \in WithNode
        PROVE  /\ u # Heart => loc'[u].node = loc'[u].client
               /\ ~(pc'[Main] = "add" /\ loc'[Main].client = loc'[u].node)
    <3>1. pc[u] \in WithNode /\ loc'[u] = loc[u]
      BY <1>7, <2>3 DEF WithNode, Resting
    <3>2. pc'[Main] = "add" => pc[Main] = "add" /\ loc'[Main] = loc[Main]
      BY <1>6, <1>7 DEF Resting
    <3> QED
      BY <3>1, <3>2 DEF PoliteInv, OwnReason
  <2> QED
    BY <2>1, <2>2, <2>3 DEF OwnReason
<1> QED
  BY <1>13, <1>17, <1>18, <1>19, <1>20, <1>21, <1>22, <1>23, <1>24, <1>25 DEF PoliteInv

(* No thread is about to read its own connection's freed client or node.   *)
LEMMA OwnIsFresh ==
  ASSUME ServerInv, PoliteInv, NEW t \in Threads
  PROVE  ~OwnUseAfterFree(t)
<1>1. ASSUME pc[t] \in {"newTask", "callClose", "lock", "handle", "reply", "unlock"},
             loc[t].client \in freed
      PROVE  FALSE
  <2>1. t = Epoll \/ t \in Workers
    BY <1>1, Local, ThreadsLabels DEF Threads
  <2>2. sock[loc[t].fd] = loc[t].client
    <3>1. CASE t \in Workers
      BY <1>1, <3>1 DEF PoliteInv, Connected, Mine
    <3>2. CASE t = Epoll
      <4>1. pc[t] \in {"newTask", "callClose"}
        BY <1>1, <3>2, Local, ThreadsLabels DEF Closing
      <4> QED
        BY <3>2, <4>1 DEF PoliteInv, Connected, Closing
    <3> QED
      BY <2>1, <3>1, <3>2
  <2>3. loc[t].fd \in Fds /\ loc[t].client \in 1 .. conns
    BY <1>1, <2>1, ThreadsLabels, ServerAssumption, Local DEF Fits, Resting, Points
  <2>4. loc[t].client # 0
    BY <2>3, Accepted
  <2>5. PICK u \in Threads : pc[u] \in {"delete", "close"} /\ loc[u].node = loc[t].client
    BY <1>1, <2>2, <2>3, <2>4, OpenAndFreed DEF PoliteInv
  <2>6. u # t /\ pc[u] \in WithNode
    BY <1>1, <2>5 DEF WithNode
  <2>7. /\ \A w \in Workers : w # u => loc[w].client # loc[t].client
        /\ u # Epoll /\ pc[Epoll] \in {"recv", "newTask"} \cup Closing =>
               loc[Epoll].client # loc[t].client
    BY <2>5, <2>6, CloserAlone
  <2>8. t \notin Workers
    BY <2>6, <2>7
  <2>9. pc[t] = "newTask" \/ pc[t] = "callClose"
    BY <1>1, <2>1, <2>8, Local, ThreadsLabels DEF Closing
  <2> QED
    BY <2>1, <2>6, <2>7, <2>8, <2>9 DEF Closing
<1>2. ASSUME pc[t] \in {"unlockNode", "free"}, ~NodeIsUsable(t)
      PROVE  FALSE
  <2> DEFINE n == loc[t].node
  <2>1. /\ n \in 1 .. conns /\ sock[loc[t].fd] = n /\ loc[t].fd \in Fds
        /\ \A u \in Threads : u # t /\ pc[u] \in WithNode => loc[u].node # n
    BY <1>2, CloserAlone DEF WithNode
  <2>2. n # 0
    BY <2>1, Accepted
  <2>3. n \notin freed
    <3>1. SUFFICES ASSUME n \in freed PROVE FALSE
      OBVIOUS
    <3>2. PICK u \in Threads : pc[u] \in {"delete", "close"} /\ loc[u].node = n
      BY <2>1, <2>2, <3>1, OpenAndFreed DEF PoliteInv
    <3> QED
      BY <1>2, <2>1, <3>2 DEF WithNode
  <2>4. ~(pc[Main] = "add" /\ loc[Main].client = n)
    BY <1>2 DEF PoliteInv, OwnReason, WithNode
  <2>5. Listed(n)
    BY <2>1, <2>3, <2>4 DEF ServerInv, ListedOrFreed
  <2> QED
    BY <1>2, <2>3, <2>5 DEF NodeIsUsable
<1>3. ASSUME pc[t] = "delete"
      PROVE  Listed(loc[t].node)
  <2>1. loc[t].node \in 1 .. conns
    BY <1>3, Local DEF Fits, Points, WithNode
  <2> QED
    BY <1>3, <2>1 DEF ServerInv, ListedOrFreed
<1> QED
  BY <1>1, <1>2, <1>3 DEF OwnUseAfterFree

(* Where nothing changes, nor does the invariant.                          *)
LEMMA SamePolite ==
  ASSUME PoliteInv, UNCHANGED <<sock, inbox, peer, waiting, age, queue, pc, loc, unknown, misrouted>>,
         broken' # "own"
  PROVE  PoliteInv'
<1>1. ~unknown' /\ OwnNeverStale' /\ EventsAreKnown' /\ RepliesReachSender'
  BY DEF PoliteInv, OwnNeverStale, EventsAreKnown, RepliesReachSender
<1>2. OneRequest' /\ QueuedOnce'
  BY DEF PoliteInv, OneRequest, QueuedOnce, Queued, HeldBy
<1>3. TakeTurns' /\ WellFormedOnly' /\ Connected'
  BY DEF PoliteInv, TakeTurns, WellFormedOnly, WellFormed, Connected, Mine
<1>4. EventIsMeant' /\ HungUpIdle' /\ OwnReason'
  BY DEF PoliteInv, EventIsMeant, HungUpIdle, Works, OwnReason
<1>5. TimedOutIdle'
  BY DEF PoliteInv, TimedOutIdle, IsOpen, Settled
<1> QED
  BY <1>1, <1>2, <1>3, <1>4, <1>5 DEF PoliteInv

LEMMA UndefinedPolite ==
  ASSUME ServerInv, PoliteInv, Undefined
  PROVE  PoliteInv'
<1>1. PICK t \in Threads : OtherUseAfterFree(t)
  BY OwnIsFresh DEF Undefined
<1> QED
  BY <1>1, SamePolite
     DEF OtherUseAfterFree, Break, kernelVars, peerVars, clientVars, threadVars

-----------------------------------------------------------------------------
(* With polite peers the invariant holds in every reachable state.         *)

LEMMA InitPolite ==
  ASSUME Init
  PROVE  PoliteInv
<1>1. ASSUME NEW t \in Threads
      PROVE  loc[t] = NoLocals /\ pc[t] \in {"accept", "wait", "sleep", "idle"}
  BY <1>1, ServerAssumption DEF Init
<1>2. pc[Epoll] = "wait" /\ pc[Main] = "accept" /\ pc[Heart] = "sleep"
  BY ThreadsLabels, ServerAssumption DEF Init
<1>3. \A w \in Workers : pc[w] = "idle" /\ w \in Threads
  BY ThreadsLabels, ServerAssumption DEF Init
<1>4. queue = << >> /\ Len(queue) = 0
  BY EmptySeq DEF Init
<1>5. \A n \in Conn : inbox[n] = << >> /\ Len(inbox[n]) = 0 /\ peer[n] = "none" /\ age[n] = 0
  BY EmptySeq DEF Init
<1>6. ~unknown /\ OwnNeverStale /\ EventsAreKnown /\ RepliesReachSender
  BY <1>2 DEF Init, OwnNeverStale, EventsAreKnown, RepliesReachSender
<1>7. \A t \in Threads, n \in Conn : ~HeldBy(t, n)
  <2>1. 0 \notin Conn
    BY DEF Conn
  <2> QED
    BY <1>1, <2>1 DEF HeldBy, NoLocals
<1>8. OneRequest /\ QueuedOnce
  BY <1>4, <1>5, <1>7 DEF OneRequest, QueuedOnce, Queued
<1>9. TakeTurns /\ Connected
  BY <1>2, <1>3, <1>4 DEF TakeTurns, Connected, Closing
<1>10. WellFormedOnly
  BY <1>1, <1>4, <1>5 DEF WellFormedOnly, WellFormed, NoLocals
<1>11. EventIsMeant /\ HungUpIdle
  BY <1>2, <1>5 DEF EventIsMeant, HungUpIdle
<1>12. TimedOutIdle
  BY <1>5, ServerAssumption DEF TimedOutIdle
<1>13. OwnReason
  BY <1>1, <1>2 DEF OwnReason, Closing, WithNode
<1> QED
  BY <1>6, <1>8, <1>9, <1>10, <1>11, <1>12, <1>13 DEF PoliteInv

LEMMA NextPolite ==
  ASSUME Benign, ServerInv, PoliteInv, [Next]_vars
  PROVE  PoliteInv'
<1>1. ASSUME NEW t \in Threads, CloseStep(t)
      PROVE  PoliteInv'
  BY <1>1, CloseStepsPolite, FindPolite, FindFailsPolite, CloseFdPolite DEF CloseStep
<1>2. CASE PeerStep
  BY <1>2, SendPolite, HangUpPolite DEF PeerStep
<1>3. CASE MainStep
  BY <1>3, AcceptPolite, AddPolite, WatchPolite DEF MainStep
<1>4. CASE EpollStep
  <2>1. ~NewTaskFails
    BY DEF NewTaskFails
  <2> QED
    BY <1>1, <1>4, <2>1, WaitPolite, LookupPolite, EventIsFound, RecvPolite, RecvFailsPolite,
       NewTaskPolite, ThreadsLabels DEF EpollStep
<1>5. CASE HeartStep
  BY <1>1, <1>5, TickPolite, VisitPolite, WalkEndsPolite, ThreadsLabels DEF HeartStep
<1>6. ASSUME NEW w \in Workers, WorkerStep(w)
      PROVE  PoliteInv'
  BY <1>1, <1>6, TakePolite, LockClientPolite, HandleLoginPolite, HandleHeartbeatPolite,
     HandleElsePolite, SeekPolite, DeliverPolite, ReplyPolite, UnlockPolite, ThreadsLabels
     DEF WorkerStep
<1>7. CASE UNCHANGED vars
  BY <1>7, SamePolite
     DEF vars, kernelVars, peerVars, clientVars, threadVars, historyVars, PoliteInv, OwnNeverStale
<1> QED
  BY <1>2, <1>3, <1>4, <1>5, <1>6, <1>7, UndefinedPolite DEF Next

(* Benign is a constant: these peers are polite for ever.                  *)
THEOREM PoliteInvariant ==
  ASSUME Benign
  PROVE  Spec => []PoliteInv
<1>1. Init => PoliteInv
  BY InitPolite
<1>2. ServerInv /\ PoliteInv /\ [Next]_vars => PoliteInv'
  BY NextPolite
<1> QED
  BY <1>1, <1>2, ServerInvariant, PTL DEF Spec

(* While peers are polite, no thread reads a client or a node of its own   *)
(* connection after it was freed (handle.c:23-25,                          *)
(* spider_tcp_server.c:151-209, spider_function.c:192-226).                *)
THEOREM OwnIsNeverStale ==
  ASSUME Benign
  PROVE  Spec => []OwnNeverStale
<1>1. PoliteInv => OwnNeverStale
  BY DEF PoliteInv
<1> QED
  BY <1>1, PoliteInvariant, PTL

(* Nor does the epoll thread meet a socket it does not know                *)
(* (spider_tcp_server.c:113-116,152).                                      *)
THEOREM EventsStayKnown ==
  ASSUME Benign
  PROVE  Spec => []EventsAreKnown
<1>1. PoliteInv => EventsAreKnown
  BY DEF PoliteInv
<1> QED
  BY <1>1, PoliteInvariant, PTL

(* Every answer goes to the peer that asked, though its socket number may  *)
(* have had other owners (handle.c:68,88,111,136).                         *)
THEOREM AnswersReachSender ==
  ASSUME Benign
  PROVE  Spec => []RepliesReachSender
<1>1. PoliteInv => RepliesReachSender
  BY DEF PoliteInv
<1> QED
  BY <1>1, PoliteInvariant, PTL

=============================================================================
