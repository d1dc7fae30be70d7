----------------------------- MODULE ChatServer -----------------------------
(***************************************************************************)
(* The life of a connection across the server's threads: main accepts,     *)
(* serv_epoll reads packets and queues tasks, two readtask threads handle  *)
(* them, serv_heartbeat closes silent clients (spider_tcp_server.c:98-265, *)
(* handle.c:8-138, spider_function.c:144-216).  The peers and the kernel's *)
(* socket table are part of the model.                                     *)
(*                                                                         *)
(* A task holds a raw pointer to its spider_client and a socket number,    *)
(* and three kinds of thread free clients and close sockets.  So a pointer *)
(* can outlive its client, and a number can come back as another socket.   *)
(* Connection n is the n-th one accepted, and "client n" is the            *)
(* spider_client main made for it: clients have an identity of their own,  *)
(* so a use after free is seen even if malloc reuses the address.  Such a  *)
(* use is undefined; the model records it in `broken' and stops.           *)
(*                                                                         *)
(* Three parts are taken at what their own modules say of them: the task   *)
(* list is a queue (TaskQueue), a list operation is one step on a          *)
(* list that is not dangling (ClientRegistry), and a packet is read whole  *)
(* or not at all (PacketReader).  A node is deleted with its client, and   *)
(* any use of a deleted node counts as broken.                             *)
(*                                                                         *)
(* A definition A_Variant is a wrong form of A, defined to test that a     *)
(* property can tell it from the code; no specification uses it.           *)
(***************************************************************************)
EXTENDS Integers, SequencesExt

CONSTANTS
    Workers, Epoll, Heart, Main,  \* the threads
    Fds,          \* socket numbers accept may return
    MaxConn,      \* bound: connections accepted in all
    MaxPackets,   \* bound: packets sent in all
    Timeout,      \* 600 seconds, in rounds of serv_heartbeat
    MaxRounds,    \* bound: rounds of serv_heartbeat in all
    Cmds,         \* what peers send
    Benign,       \* peers are polite (see InTime) and malloc never fails
    None

Conn == 1 .. MaxConn
Threads == Workers \cup {Epoll, Heart, Main}

ASSUME ServerAssumption ==
    /\ MaxConn \in Nat /\ MaxPackets \in Nat
    /\ Timeout \in Nat /\ MaxRounds \in Nat
    /\ 0 \notin Fds
    /\ None \notin Threads
    /\ Workers \cap {Epoll, Heart, Main} = {}
    /\ Epoll # Heart /\ Epoll # Main /\ Heart # Main
    /\ Benign \in BOOLEAN
    /\ Cmds \subseteq {"login", "chat", "friends", "beat", "badBeat", "logout", "unknown"}

VARIABLES
    \* the kernel and the peers
    sock,      \* sock[f]: the connection socket f is open for, or 0
    watched,   \* connections in the epoll set
    ready,     \* connections with an edge epoll_wait has not reported
    inbox,     \* inbox[n]: packets that arrived and were not read
    peer,      \* peer[n]: not connected yet, open, or closed by the peer
    waiting,   \* connections whose peer awaits an answer
    sent,      \* packets sent so far
    \* the server's data
    conns,     \* connections accepted so far
    fdOf,      \* fdOf[n]: the fd field of client n and of its node
    list,      \* fd2clients, as the sequence of the clients in it
    freed,     \* the clients that were freed
    mutex,     \* mutex[n]: the owner of client n's client_mutex
    logged,    \* clients whose uid was set by a login
    age,       \* age[n]: heartbeat rounds since keepalivetime
    queue,     \* the task list
    \* the threads
    pc,        \* where each thread is
    loc,       \* each thread's locals
    walk,      \* temp of serv_heartbeat: the next client to visit, or 0
    rounds,    \* rounds of serv_heartbeat so far
    \* history
    broken,    \* a freed client or node was used: by a thread working for
               \* that client ("own"), or for another one ("other")
    unknown,   \* the epoll thread closed a socket it did not find
    misrouted  \* an answer went to a peer that did not ask

kernelVars == <<sock, watched, ready, inbox>>
peerVars == <<peer, waiting, sent>>
clientVars == <<conns, fdOf, list, freed, mutex, logged, age>>
threadVars == <<queue, pc, loc, walk, rounds>>
historyVars == <<broken, unknown, misrouted>>
vars == <<kernelVars, peerVars, clientVars, threadVars, historyVars>>

NoLocals == [fd |-> 0, client |-> 0, node |-> 0, cmd |-> "none", from |-> 0]

Init ==
    /\ sock = [f \in Fds |-> 0]
    /\ watched = {} /\ ready = {}
    /\ inbox = [n \in Conn |-> << >>]
    /\ peer = [n \in Conn |-> "none"]
    /\ waiting = {} /\ sent = 0
    /\ conns = 0
    /\ fdOf = [n \in Conn |-> 0]
    /\ list = << >> /\ freed = {}
    /\ mutex = [n \in Conn |-> None]
    /\ logged = {}
    /\ age = [n \in Conn |-> 0]
    /\ queue = << >>
    /\ pc = [t \in Threads |-> CASE t = Main -> "accept"
                                 [] t = Epoll -> "wait"
                                 [] t = Heart -> "sleep"
                                 [] OTHER -> "idle"]
    /\ loc = [t \in Threads |-> NoLocals]
    /\ walk = 0 /\ rounds = 0
    /\ broken = "no" /\ unknown = FALSE /\ misrouted = FALSE

-----------------------------------------------------------------------------
Running(t, label) == broken = "no" /\ pc[t] = label
Goto(t, label) == pc' = [pc EXCEPT ![t] = label]

Listed(n) == \E i \in 1 .. Len(list) : list[i] = n
IsOpen(n) == \E f \in Fds : sock[f] = n

(* is_exists_fd and find_fd2client: the first node with socket f.          *)
Found(f, n) ==
    \E i \in 1 .. Len(list) :
        /\ list[i] = n /\ fdOf[n] = f
        /\ \A j \in 1 .. i - 1 : fdOf[list[j]] # f
NotFound(f) == \A i \in 1 .. Len(list) : fdOf[list[i]] # f

(* close(f): the open file leaves the epoll set, what was not read is      *)
(* lost, and a peer that waits for an answer sees the connection end.      *)
Close(f) ==
    /\ sock' = [sock EXCEPT ![f] = 0]
    /\ watched' = watched \ {sock[f]}
    /\ ready' = ready \ {sock[f]}
    /\ waiting' = waiting \ {sock[f]}
    /\ inbox' = [n \in Conn |-> IF n = sock[f] THEN << >> ELSE inbox[n]]

-----------------------------------------------------------------------------
(* The peers.                                                              *)

(* Nothing is under way for connection n.                                  *)
Settled(n) ==
    /\ n \notin waiting /\ inbox[n] = << >>
    /\ \A t \in Threads : loc[t].client # n
    /\ \A i \in 1 .. Len(queue) : queue[i].client # n

(* Polite peers have one request outstanding at a time, send well-formed   *)
(* requests, and act while there is time before serv_heartbeat would close *)
(* them.  They do not hang up as soon as they have their answer: the       *)
(* worker that sent it has yet to unlock the mutex.  Impolite peers do     *)
(* anything.                                                               *)
InTime(n) == Benign => n \notin waiting /\ age[n] < Timeout

Send(n, cmd) ==
    /\ broken = "no"
    /\ peer[n] = "open" /\ IsOpen(n)
    /\ InTime(n)
    /\ Benign => cmd \notin {"badBeat", "unknown"}
    /\ sent < MaxPackets
    /\ sent' = sent + 1
    /\ inbox' = [inbox EXCEPT ![n] = Append(@, cmd)]
    /\ ready' = ready \cup ({n} \cap watched)
    /\ waiting' = waiting \cup {n}
    /\ UNCHANGED <<sock, watched, peer, clientVars, threadVars, historyVars>>

HangUp(n) ==
    /\ broken = "no"
    /\ peer[n] = "open" /\ IsOpen(n)
    /\ InTime(n)
    /\ Benign => Settled(n)
    /\ peer' = [peer EXCEPT ![n] = "closed"]
    /\ ready' = ready \cup ({n} \cap watched)
    /\ UNCHANGED <<sock, watched, inbox, waiting, sent, clientVars, threadVars, historyVars>>

-----------------------------------------------------------------------------
(* main.                                                                   *)

Accept_WatchesFirst(f) ==
    LET n == conns + 1
    IN  /\ Running(Main, "accept")
        /\ n \in Conn /\ sock[f] = 0
        /\ conns' = n
        /\ sock' = [sock EXCEPT ![f] = n]
        /\ watched' = watched \cup {n}
        /\ fdOf' = [fdOf EXCEPT ![n] = f]
        /\ peer' = [peer EXCEPT ![n] = "open"]
        /\ loc' = [loc EXCEPT ![Main].fd = f, ![Main].client = n]
        /\ Goto(Main, "add")
        /\ UNCHANGED <<ready, inbox, waiting, sent, list, freed, mutex, logged, age,
                       queue, walk, rounds, historyVars>>

Accept(f) ==
    LET n == conns + 1
    IN  /\ Running(Main, "accept")
        /\ n \in Conn /\ sock[f] = 0
        /\ conns' = n
        /\ sock' = [sock EXCEPT ![f] = n]
        /\ fdOf' = [fdOf EXCEPT ![n] = f]
        /\ peer' = [peer EXCEPT ![n] = "open"]
        /\ loc' = [loc EXCEPT ![Main].fd = f, ![Main].client = n]
        /\ Goto(Main, "add")
        /\ UNCHANGED <<watched, ready, inbox, waiting, sent, list, freed, mutex, logged,
                       age, queue, walk, rounds, historyVars>>

Add ==
    /\ Running(Main, "add")
    /\ list' = Append(list, loc[Main].client)
    /\ Goto(Main, "watch")
    /\ UNCHANGED <<kernelVars, peerVars, conns, fdOf, freed, mutex, logged, age,
                   queue, loc, walk, rounds, historyVars>>

(* epoll_ctl ADD reports what has arrived already.  It fails if the socket *)
(* was closed in the meantime.                                             *)
Watch ==
    LET n == loc[Main].client
        open == {n} \cap {sock[loc[Main].fd]}
    IN  /\ Running(Main, "watch")
        /\ watched' = watched \cup open
        /\ ready' = ready \cup {m \in open : inbox[m] # << >> \/ peer[m] = "closed"}
        /\ loc' = [loc EXCEPT ![Main] = NoLocals]
        /\ Goto(Main, "accept")
        /\ UNCHANGED <<sock, inbox, peerVars, clientVars, queue, walk, rounds, historyVars>>

-----------------------------------------------------------------------------
(* serv_epoll.                                                             *)

HasInput(n) == n # 0 /\ inbox[n] # << >>

(* epoll_wait reports an edge while there is something to read.  It may    *)
(* report several at once; each is handled by socket number, later.        *)
Wait ==
    /\ Running(Epoll, "wait")
    /\ \E f \in Fds :
        /\ sock[f] \in ready
        /\ HasInput(sock[f]) \/ peer[sock[f]] = "closed"
        /\ loc' = [loc EXCEPT ![Epoll].fd = f]
        /\ ready' = ready \ {sock[f]}
    /\ Goto(Epoll, "lookup")
    /\ UNCHANGED <<sock, watched, inbox, peerVars, clientVars, queue, walk, rounds, historyVars>>

Lookup ==
    /\ Running(Epoll, "lookup")
    /\ \E n \in Conn :
        /\ Found(loc[Epoll].fd, n)
        /\ loc' = [loc EXCEPT ![Epoll].client = n]
    /\ Goto(Epoll, "recv")
    /\ UNCHANGED <<kernelVars, peerVars, clientVars, queue, walk, rounds, historyVars>>

LookupFails ==
    /\ Running(Epoll, "lookup")
    /\ NotFound(loc[Epoll].fd)
    /\ Goto(Epoll, "closeUnknown")
    /\ UNCHANGED <<kernelVars, peerVars, clientVars, queue, loc, walk, rounds, historyVars>>

CloseUnknown ==
    /\ Running(Epoll, "closeUnknown")
    /\ Close(loc[Epoll].fd)
    /\ unknown' = TRUE
    /\ loc' = [loc EXCEPT ![Epoll] = NoLocals]
    /\ Goto(Epoll, "wait")
    /\ UNCHANGED <<peer, sent, clientVars, queue, walk, rounds, broken, misrouted>>

Recv ==
    LET n == sock[loc[Epoll].fd]
    IN  /\ Running(Epoll, "recv")
        /\ HasInput(n)
        /\ inbox' = [inbox EXCEPT ![n] = Tail(@)]
        /\ loc' = [loc EXCEPT ![Epoll].cmd = Head(inbox[n]), ![Epoll].from = n]
        /\ Goto(Epoll, "newTask")
        /\ UNCHANGED <<sock, watched, ready, peerVars, clientVars, queue, walk, rounds,
                       broken, unknown, misrouted>>

(* The end of the stream, nothing to read, or the socket is not open.      *)
RecvFails ==
    /\ Running(Epoll, "recv")
    /\ ~HasInput(sock[loc[Epoll].fd])
    /\ Goto(Epoll, "callClose")
    /\ UNCHANGED <<kernelVars, peerVars, clientVars, queue, loc, walk, rounds, historyVars>>

(* Building and logging the task reads client->uid.                        *)
NewTask ==
    /\ Running(Epoll, "newTask")
    /\ loc[Epoll].client \notin freed
    /\ queue' = Append(queue, loc[Epoll])
    /\ loc' = [loc EXCEPT ![Epoll] = NoLocals]
    /\ Goto(Epoll, "wait")
    /\ UNCHANGED <<kernelVars, peerVars, clientVars, walk, rounds, historyVars>>

(* malloc returned NULL.                                                   *)
NewTaskFails ==
    /\ Running(Epoll, "newTask")
    /\ ~Benign
    /\ Goto(Epoll, "callClose")
    /\ UNCHANGED <<kernelVars, peerVars, clientVars, queue, loc, walk, rounds, historyVars>>

-----------------------------------------------------------------------------
(* close_client and close_client2.                                         *)

AfterClose(t) ==
    CASE t = Epoll -> "wait"
      [] t = Heart -> "walk"
      [] OTHER -> IF loc[t].cmd = "badBeat" THEN "unlock" ELSE "idle"

Return(t) ==
    /\ Goto(t, AfterClose(t))
    /\ loc' = [loc EXCEPT ![t] = IF AfterClose(t) = "unlock" THEN [@ EXCEPT !.node = 0]
                                                             ELSE NoLocals]

(* The arguments are read through the caller's client pointer.             *)
CallClose(t) ==
    /\ Running(t, "callClose")
    /\ loc[t].client \notin freed
    /\ Goto(t, "find")
    /\ UNCHANGED <<kernelVars, peerVars, clientVars, queue, loc, walk, rounds, historyVars>>

Find(t) ==
    /\ Running(t, "find")
    /\ \E n \in Conn :
        /\ Found(loc[t].fd, n)
        /\ loc' = [loc EXCEPT ![t].node = n]
    /\ Goto(t, "unlockNode")
    /\ UNCHANGED <<kernelVars, peerVars, clientVars, queue, walk, rounds, historyVars>>

FindFails(t) ==
    /\ Running(t, "find")
    /\ NotFound(loc[t].fd)
    /\ Return(t)
    /\ UNCHANGED <<kernelVars, peerVars, clientVars, queue, walk, rounds, historyVars>>

NodeIsUsable(t) == Listed(loc[t].node) /\ loc[t].node \notin freed

(* pthread_mutex_unlock, whoever locked it.                                *)
UnlockNode(t) ==
    /\ Running(t, "unlockNode")
    /\ NodeIsUsable(t)
    /\ mutex' = [mutex EXCEPT ![loc[t].node] = None]
    /\ Goto(t, "free")
    /\ UNCHANGED <<kernelVars, peerVars, conns, fdOf, list, freed, logged, age,
                   queue, loc, walk, rounds, historyVars>>

FreeClient_ClosesToo(t) ==
    LET n == loc[t].node
    IN  /\ Running(t, "free")
        /\ NodeIsUsable(t)
        /\ freed' = freed \cup {n}
        /\ logged' = logged \ {n}
        /\ mutex' = [mutex EXCEPT ![n] = None]
        /\ Close(loc[t].fd)
        /\ Goto(t, "delete")
        /\ UNCHANGED <<peer, sent, conns, fdOf, list, age, queue, loc, walk,
                       rounds, historyVars>>

(* The fields are gone, its lock included.                                 *)
FreeClient(t) ==
    LET n == loc[t].node
    IN  /\ Running(t, "free")
        /\ NodeIsUsable(t)
        /\ freed' = freed \cup {n}
        /\ logged' = logged \ {n}
        /\ mutex' = [mutex EXCEPT ![n] = None]
        /\ Goto(t, "delete")
        /\ UNCHANGED <<kernelVars, peerVars, conns, fdOf, list, age, queue, loc, walk,
                       rounds, historyVars>>

Delete_KeepsNode(t) ==
    /\ Running(t, "delete")
    /\ Goto(t, "close")
    /\ UNCHANGED <<kernelVars, peerVars, clientVars, queue, loc, walk, rounds, historyVars>>

Delete(t) ==
    /\ Running(t, "delete")
    /\ \E i \in 1 .. Len(list) :
        /\ list[i] = loc[t].node
        /\ list' = RemoveAt(list, i)
    /\ Goto(t, "close")
    /\ UNCHANGED <<kernelVars, peerVars, conns, fdOf, freed, mutex, logged, age,
                   queue, loc, walk, rounds, historyVars>>

CloseFd_Forgotten(t) ==
    /\ Running(t, "close")
    /\ Return(t)
    /\ UNCHANGED <<kernelVars, peerVars, clientVars, queue, walk, rounds, historyVars>>

CloseFd(t) ==
    /\ Running(t, "close")
    /\ Close(loc[t].fd)
    /\ Return(t)
    /\ UNCHANGED <<peer, sent, clientVars, queue, walk, rounds, historyVars>>

CloseStep(t) ==
    \/ CallClose(t) \/ Find(t) \/ FindFails(t) \/ UnlockNode(t)
    \/ FreeClient(t) \/ Delete(t) \/ CloseFd(t)

-----------------------------------------------------------------------------
(* serv_heartbeat.                                                         *)

(* A round begins: 40 seconds have passed.  With polite peers no request   *)
(* or hang-up takes so long that its client times out meanwhile.           *)
Tick ==
    /\ Running(Heart, "sleep")
    /\ rounds < MaxRounds /\ rounds' = rounds + 1
    /\ Benign => \A n \in Conn :
                    IsOpen(n) /\ age[n] = Timeout => Settled(n) /\ peer[n] = "open"
    /\ age' = [n \in Conn |-> IF IsOpen(n) /\ age[n] <= Timeout THEN age[n] + 1 ELSE age[n]]
    /\ walk' = IF list = << >> THEN 0 ELSE list[1]
    /\ Goto(Heart, "walk")
    /\ UNCHANGED <<kernelVars, peerVars, conns, fdOf, list, freed, mutex, logged,
                   queue, loc, broken, unknown, misrouted>>

Following(n) ==
    CHOOSE m \in Conn \cup {0} :
        \E i \in 1 .. Len(list) :
            list[i] = n /\ m = IF i < Len(list) THEN list[i + 1] ELSE 0

(* close_client2 has the node already and does not unlock its mutex.       *)
Visit ==
    /\ Running(Heart, "walk")
    /\ Listed(walk) /\ walk \notin freed
    /\ walk' = Following(walk)
    /\ IF age[walk] > Timeout
       THEN /\ loc' = [loc EXCEPT ![Heart].node = walk, ![Heart].fd = fdOf[walk]]
            /\ Goto(Heart, "free")
       ELSE UNCHANGED <<loc, pc>>
    /\ UNCHANGED <<kernelVars, peerVars, clientVars, queue, rounds, historyVars>>

WalkEnds ==
    /\ Running(Heart, "walk")
    /\ walk = 0
    /\ Goto(Heart, "sleep")
    /\ UNCHANGED <<kernelVars, peerVars, clientVars, queue, loc, walk, rounds, historyVars>>

-----------------------------------------------------------------------------
(* readtask and the handlers.                                              *)

Take(w) ==
    /\ Running(w, "idle")
    /\ queue # << >>
    /\ loc' = [loc EXCEPT ![w] = Head(queue)]
    /\ queue' = Tail(queue)
    /\ Goto(w, "lock")
    /\ UNCHANGED <<kernelVars, peerVars, clientVars, walk, rounds, historyVars>>

Mine(w) == loc[w].client

LockClient_Unguarded(w) ==
    /\ Running(w, "lock")
    /\ Mine(w) \notin freed
    /\ mutex' = [mutex EXCEPT ![Mine(w)] = w]
    /\ Goto(w, "handle")
    /\ UNCHANGED <<kernelVars, peerVars, conns, fdOf, list, freed, logged, age,
                   queue, loc, walk, rounds, historyVars>>

LockClient(w) ==
    /\ Running(w, "lock")
    /\ Mine(w) \notin freed /\ mutex[Mine(w)] = None
    /\ mutex' = [mutex EXCEPT ![Mine(w)] = w]
    /\ Goto(w, "handle")
    /\ UNCHANGED <<kernelVars, peerVars, conns, fdOf, list, freed, logged, age,
                   queue, loc, walk, rounds, historyVars>>

Handling(w, cmd) ==
    /\ Running(w, "handle")
    /\ Mine(w) \notin freed
    /\ loc[w].cmd = cmd

(* handle_login: mod_login sets the uid.                                   *)
HandleLogin(w) ==
    /\ Handling(w, "login")
    /\ logged' = logged \cup {Mine(w)}
    /\ Goto(w, "reply")
    /\ UNCHANGED <<kernelVars, peerVars, conns, fdOf, list, freed, mutex, age,
                   queue, loc, walk, rounds, historyVars>>

(* handle_heartbeat sets keepalivetime; no other handler does.             *)
HandleHeartbeat(w) ==
    /\ Handling(w, "beat")
    /\ age' = [age EXCEPT ![Mine(w)] = 0]
    /\ Goto(w, "reply")
    /\ UNCHANGED <<kernelVars, peerVars, conns, fdOf, list, freed, mutex, logged,
                   queue, loc, walk, rounds, historyVars>>

(* The handlers that change nothing here: where each one goes next.        *)
HandleElse(w) ==
    /\ \E next \in {<<"friends", "reply">>, <<"chat", "seek">>, <<"unknown", "unlock">>,
                    <<"badBeat", "callClose">>, <<"logout", "callClose">>} :
        Handling(w, next[1]) /\ Goto(w, next[2])
    /\ UNCHANGED <<kernelVars, peerVars, clientVars, queue, loc, walk, rounds, historyVars>>

(* findClientByUid reads the client of each node up to the recipient's.    *)
Seen(r) ==
    {list[i] : i \in {j \in 1 .. Len(list) :
        \A k \in 1 .. j - 1 : ~(list[k] = r /\ r \in logged)}}

Seek(w, r) ==
    /\ Running(w, "seek")
    /\ list # << >> /\ Seen(r) \cap freed = {}
    /\ IF Listed(r) /\ r \in logged
       THEN Goto(w, "deliver") /\ loc' = [loc EXCEPT ![w].node = r]
       ELSE Goto(w, "reply") /\ UNCHANGED loc
    /\ UNCHANGED <<kernelVars, peerVars, clientVars, queue, walk, rounds, historyVars>>

(* The message is sent to recv_client->fd.                                 *)
Deliver(w) ==
    /\ Running(w, "deliver")
    /\ loc[w].node \notin freed
    /\ loc' = [loc EXCEPT ![w].node = 0]
    /\ Goto(w, "reply")
    /\ UNCHANGED <<kernelVars, peerVars, clientVars, queue, walk, rounds, historyVars>>

Reply_EventFd(w) ==
    LET to == sock[IF loc[Epoll].fd = 0 THEN loc[w].fd ELSE loc[Epoll].fd]
    IN  /\ Running(w, "reply")
        /\ Mine(w) \notin freed
        /\ misrouted' = (misrouted \/ to \notin {0, loc[w].from})
        /\ waiting' = waiting \ {to}
        /\ Goto(w, "unlock")
        /\ UNCHANGED <<kernelVars, peer, sent, clientVars, queue, loc, walk, rounds,
                       broken, unknown>>

(* handle_send to task->fd, whatever that socket is by now.                *)
Reply(w) ==
    LET to == sock[loc[w].fd]
    IN  /\ Running(w, "reply")
        /\ Mine(w) \notin freed
        /\ misrouted' = (misrouted \/ to \notin {0, loc[w].from})
        /\ waiting' = waiting \ {to}
        /\ Goto(w, "unlock")
        /\ UNCHANGED <<kernelVars, peer, sent, clientVars, queue, loc, walk, rounds,
                       broken, unknown>>

Unlock_Forgotten(w) ==
    /\ Running(w, "unlock")
    /\ Mine(w) \notin freed
    /\ loc' = [loc EXCEPT ![w] = NoLocals]
    /\ Goto(w, "idle")
    /\ UNCHANGED <<kernelVars, peerVars, clientVars, queue, walk, rounds, historyVars>>

(* readtask unlocks when handle_data returned 1.                           *)
Unlock(w) ==
    /\ Running(w, "unlock")
    /\ Mine(w) \notin freed
    /\ mutex' = [mutex EXCEPT ![Mine(w)] = None]
    /\ loc' = [loc EXCEPT ![w] = NoLocals]
    /\ Goto(w, "idle")
    /\ UNCHANGED <<kernelVars, peerVars, conns, fdOf, list, freed, logged, age,
                   queue, walk, rounds, historyVars>>

-----------------------------------------------------------------------------
(* What is undefined: each step that reads a freed client or node.         *)

Break(kind) ==
    /\ broken' = kind
    /\ UNCHANGED <<kernelVars, peerVars, clientVars, threadVars, unknown, misrouted>>

(* Through task->client or the epoll thread's c, or through the node that  *)
(* close_client found.                                                     *)
OwnUseAfterFree(t) ==
    /\ broken = "no"
    /\ \/ /\ pc[t] \in {"newTask", "callClose", "lock", "handle", "reply", "unlock"}
          /\ loc[t].client \in freed
       \/ pc[t] \in {"unlockNode", "free"} /\ ~NodeIsUsable(t)
       \/ pc[t] = "delete" /\ ~Listed(loc[t].node)
    /\ Break("own")

(* A walk that meets somebody else's.  The empty list's node has no client.*)
OtherUseAfterFree(t) ==
    /\ broken = "no"
    /\ \/ t = Heart /\ pc[t] = "walk" /\ walk # 0 /\ ~(Listed(walk) /\ walk \notin freed)
       \/ /\ pc[t] = "seek"
          /\ list = << >> \/ \E r \in Conn : Seen(r) \cap freed # {}
       \/ pc[t] = "deliver" /\ loc[t].node \in freed
    /\ Break("other")

-----------------------------------------------------------------------------
PeerStep == \E n \in Conn : HangUp(n) \/ \E cmd \in Cmds : Send(n, cmd)

MainStep == (\E f \in Fds : Accept(f)) \/ Add \/ Watch

EpollStep ==
    \/ Wait \/ Lookup \/ LookupFails \/ CloseUnknown
    \/ Recv \/ RecvFails \/ NewTask \/ NewTaskFails
    \/ CloseStep(Epoll)

HeartStep == Tick \/ Visit \/ WalkEnds \/ CloseStep(Heart)

WorkerStep(w) ==
    \/ Take(w) \/ LockClient(w)
    \/ HandleLogin(w) \/ HandleHeartbeat(w) \/ HandleElse(w)
    \/ (\E r \in Conn : Seek(w, r)) \/ Deliver(w) \/ Reply(w) \/ Unlock(w)
    \/ CloseStep(w)

Undefined == \E t \in Threads : OwnUseAfterFree(t) \/ OtherUseAfterFree(t)

Next ==
    \/ PeerStep \/ MainStep \/ EpollStep \/ HeartStep
    \/ \E w \in Workers : WorkerStep(w)
    \/ Undefined

Spec == Init /\ [][Next]_vars

(* Every thread that can take a step takes one: the code blocks only where *)
(* the model does.  A thread about to use a freed client uses it.  Nothing *)
(* is assumed of the peers.                                                *)
FairSpec ==
    /\ Spec
    /\ WF_vars(Add \/ Watch)
    /\ WF_vars(EpollStep)
    /\ WF_vars(HeartStep)
    /\ \A w \in Workers : WF_vars(WorkerStep(w))
    /\ WF_vars(Undefined)

-----------------------------------------------------------------------------
(* Properties of the server whatever its peers do, up to the first use     *)
(* after free.                                                             *)

Labels == {"accept", "add", "watch", "wait", "lookup", "closeUnknown", "recv", "newTask",
           "callClose", "find", "unlockNode", "free", "delete", "close", "sleep", "walk",
           "idle", "lock", "handle", "seek", "deliver", "reply", "unlock"}
Locals == [fd : Fds \cup {0}, client : Conn \cup {0}, node : Conn \cup {0},
           cmd : Cmds \cup {"none"}, from : Conn \cup {0}]

Tasks == [fd : Fds, client : Conn, node : {0}, cmd : Cmds, from : Conn]

TypeOK ==
    /\ sock \in [Fds -> Conn \cup {0}]
    /\ watched \subseteq Conn /\ ready \subseteq watched
    /\ inbox \in [Conn -> Seq(Cmds)]
    /\ peer \in [Conn -> {"none", "open", "closed"}]
    /\ waiting \subseteq Conn
    /\ sent \in 0 .. MaxPackets /\ conns \in 0 .. MaxConn
    /\ fdOf \in [Conn -> Fds \cup {0}]
    /\ list \in Seq(Conn)
    /\ freed \subseteq Conn /\ logged \subseteq Conn
    /\ mutex \in [Conn -> Threads \cup {None}]
    /\ age \in [Conn -> 0 .. Timeout + 1]
    /\ queue \in Seq(Tasks)
    /\ pc \in [Threads -> Labels]
    /\ loc \in [Threads -> Locals]
    /\ walk \in Conn \cup {0} /\ rounds \in 0 .. MaxRounds
    /\ broken \in {"no", "own", "other"}
    /\ unknown \in BOOLEAN /\ misrouted \in BOOLEAN

(* client_mutex keeps two workers out of the handlers of one client        *)
(* (handle.c:23), except a client that somebody is closing or has closed:  *)
(* close_client unlocks the mutex whoever holds it                         *)
(* (spider_function.c:207) before it frees the client.                     *)
InHandler(w) == pc[w] \in {"handle", "seek", "deliver", "reply"}
HandlersExclusive ==
    \A v, w \in Workers :
        v # w /\ InHandler(v) /\ InHandler(w) /\ Mine(v) = Mine(w) =>
            Mine(v) \in freed \/ \E t \in Threads : pc[t] = "free" /\ loc[t].node = Mine(v)

(* The registry and the kernel's socket table disagree for one reason      *)
(* only: the epoll thread closed a socket it did not find in the list      *)
(* (spider_tcp_server.c:152-156).                                          *)
ListTellsTruth ==
    ~unknown => \A i \in 1 .. Len(list) : sock[fdOf[list[i]]] = list[i]

(* No client and no socket leaks, in any interleaving: a client is listed  *)
(* until it is freed and its node outlives it by one step, and a socket    *)
(* stays open only while its connection is listed or somebody is about to  *)
(* list it or to close it (spider_tcp_server.c:98-116,                     *)
(* spider_function.c:192-226).                                             *)
NothingLeaks ==
    broken = "no" =>
        /\ \A n \in 1 .. conns :
            Listed(n) <=> \/ n \notin freed /\ ~(pc[Main] = "add" /\ loc[Main].client = n)
                          \/ \E t \in Threads : pc[t] = "delete" /\ loc[t].node = n
        /\ \A f \in Fds :
            \/ sock[f] = 0
            \/ Listed(sock[f])
            \/ pc[Main] = "add" /\ loc[Main].fd = f
            \/ \E t \in Threads : pc[t] = "close" /\ loc[t].fd = f

-----------------------------------------------------------------------------
(* Properties of the server when its peers are polite.                     *)

(* A thread that works for a connection never uses a freed client or node  *)
(* for it: clients are only closed when no task, no event and no other     *)
(* closer still points to them (handle.c:23-25, spider_tcp_server.c:       *)
(* 151-209, spider_function.c:192-226).                                    *)
OwnNeverStale == broken # "own"

(* The epoll thread finds every socket it has an event for: main lists a   *)
(* client before it watches it, and every closer closes the socket after   *)
(* it deleted the node (spider_tcp_server.c:113-116,152).                  *)
EventsAreKnown == pc[Epoll] # "closeUnknown"

(* An answer goes to the connection that asked, though sockets are closed  *)
(* and their numbers come back (handle.c:68,88,111,136).                   *)
RepliesReachSender == ~misrouted

(* Neither a peer that awaits an answer nor one that has hung up is        *)
(* forgotten: the answer comes, or the connection is closed on the         *)
(* server's side (handle.c:24-29, spider_tcp_server.c:160-167,254-259).    *)
Owed(n) == n \in waiting \/ (peer[n] = "closed" /\ IsOpen(n))
NoPeerForgotten == \A n \in Conn : Owed(n) ~> (~Owed(n) \/ broken # "no")

-----------------------------------------------------------------------------
(* The inductive invariant, whatever the peers do.                         *)

Resting == {"accept", "wait", "sleep", "walk", "idle"}
Closing == {"callClose", "find", "unlockNode", "free", "delete", "close"}
WithNode == {"unlockNode", "free", "delete", "close"}

(* Each thread runs its own code.                                          *)
LabelsOf(t) ==
    CASE t = Main -> {"accept", "add", "watch"}
      [] t = Epoll -> {"wait", "lookup", "closeUnknown", "recv", "newTask"} \cup Closing
      [] t = Heart -> {"sleep", "walk", "free", "delete", "close"}
      [] OTHER -> {"idle", "lock", "handle", "seek", "deliver", "reply", "unlock"} \cup Closing
OwnLabels == \A t \in Threads : pc[t] \in LabelsOf(t)

(* A pointer and a socket number that are used together once belonged      *)
(* together: fdOf never changes once a client is made.                     *)
Points(f, n) == n \in 1 .. conns /\ fdOf[n] = f

(* What the locals r of thread t are good for at a label.                  *)
Fits(t, label, r) ==
    /\ label \in Resting => r = NoLocals
    /\ label \notin Resting => r.fd \in Fds
    /\ label \notin Resting \cup {"lookup", "closeUnknown"} /\ t # Heart =>
        Points(r.fd, r.client)
    /\ label \in WithNode => Points(r.fd, r.node)
    /\ label = "newTask" \/ (t \in Workers /\ label # "idle") =>
        r.cmd \in Cmds /\ r.from \in Conn
    /\ label \in {"lookup", "recv", "newTask"} => r.node = 0
LocalsByPc == \A t \in Threads : Fits(t, pc[t], loc[t])

QueuedPoint == \A i \in 1 .. Len(queue) : Points(queue[i].fd, queue[i].client)

(* What is not accepted yet is in no table.                                *)
OnlyAccepted ==
    /\ \A n \in 1 .. conns : fdOf[n] \in Fds
    /\ \A i \in 1 .. Len(list) : list[i] \in 1 .. conns
    /\ freed \subseteq 1 .. conns /\ watched \subseteq 1 .. conns
    /\ \A f \in Fds : sock[f] # 0 => Points(f, sock[f])
    /\ \A n \in Conn : n > conns => age[n] = 0

ListedOnce == \A i, j \in 1 .. Len(list) : list[i] = list[j] => i = j

(* main is the only one that knows a client before it is in the list.      *)
NotListedYet ==
    pc[Main] = "add" =>
        /\ loc[Main].client \notin freed \cup watched
        /\ sock[loc[Main].fd] \in {0, loc[Main].client}

(* A client is freed before its node is deleted, and by one thread.        *)
OneFrees ==
    \A t, u \in Threads :
        pc[t] \in {"delete", "close"} =>
            /\ loc[t].node \in freed
            /\ pc[u] \in {"delete", "close"} /\ loc[u].node = loc[t].node => u = t

(* Where no socket was closed behind a client's back, who is about to list *)
(* a client or to close one still has its socket.                          *)
OwnSocket ==
    ~unknown =>
        /\ pc[Main] = "add" => sock[loc[Main].fd] = loc[Main].client
        /\ \A t \in Threads : pc[t] = "close" => sock[loc[t].fd] = loc[t].node

(* A worker past the lock holds the mutex, until somebody frees the client.*)
LockHeld ==
    \A w \in Workers :
        \/ pc[w] \in {"idle", "lock"}
        \/ mutex[Mine(w)] = w \/ Mine(w) \in freed
        \/ \E t \in Threads : pc[t] = "free" /\ loc[t].node = Mine(w)

ListedOrFreed ==
    \A n \in 1 .. conns :
        Listed(n) <=> \/ n \notin freed /\ ~(pc[Main] = "add" /\ loc[Main].client = n)
                      \/ \E t \in Threads : pc[t] = "delete" /\ loc[t].node = n
SocketsAccounted ==
    \A f \in Fds :
        \/ sock[f] = 0
        \/ Listed(sock[f])
        \/ pc[Main] = "add" /\ loc[Main].fd = f
        \/ \E t \in Threads : pc[t] = "close" /\ loc[t].fd = f

ServerInv ==
    /\ TypeOK /\ OwnLabels /\ LocalsByPc /\ QueuedPoint
    /\ OnlyAccepted /\ ListedOnce /\ NotListedYet
    /\ OneFrees /\ OwnSocket /\ LockHeld
    /\ ListTellsTruth /\ ListedOrFreed /\ SocketsAccounted

-----------------------------------------------------------------------------
(* What is added to it when the peers are polite.                          *)

Queued(n) == \E i \in 1 .. Len(queue) : queue[i].client = n
HeldBy(t, n) ==
    \/ t = Epoll /\ pc[t] = "newTask" /\ loc[t].client = n
    \/ t \in Workers /\ pc[t] # "unlock" /\ loc[t].client = n

(* A peer that waits has one request, and it is in one place.              *)
OneRequest ==
    \A n \in Conn :
        /\ inbox[n] # << >> \/ Queued(n) \/ (\E t \in Threads : HeldBy(t, n)) => n \in waiting
        /\ Len(inbox[n]) <= 1
        /\ inbox[n] # << >> => ~Queued(n)
        /\ inbox[n] # << >> \/ Queued(n) => \A t \in Threads : ~HeldBy(t, n)
        /\ \A t, u \in Threads : HeldBy(t, n) /\ HeldBy(u, n) => t = u
QueuedOnce ==
    \A i, j \in 1 .. Len(queue) : queue[i].client = queue[j].client => i = j

(* Two workers have tasks of one client only while the first has answered  *)
(* and the second has not locked.                                          *)
TakeTurns ==
    \A v, w \in Workers :
        v # w /\ pc[v] # "idle" /\ pc[w] # "idle" /\ Mine(v) = Mine(w) =>
            pc[v] = "lock" \/ pc[w] = "lock"

WellFormed(cmd) == cmd \notin {"badBeat", "unknown"}
WellFormedOnly ==
    /\ \A n \in Conn : inbox[n] # << >> => WellFormed(inbox[n][1])
    /\ \A i \in 1 .. Len(queue) : WellFormed(queue[i].cmd)
    /\ \A t \in Threads : WellFormed(loc[t].cmd)

(* Whoever works for a connection, but for the thread that has just        *)
(* deleted its node, finds its socket open.                                *)
Works(t, n) == t \in Workers /\ pc[t] # "idle" /\ loc[t].client = n
Connected ==
    /\ \A i \in 1 .. Len(queue) :
        sock[queue[i].fd] = queue[i].client /\ queue[i].from = queue[i].client
    /\ \A w \in Workers : pc[w] # "idle" =>
        sock[loc[w].fd] = Mine(w) /\ loc[w].from = Mine(w)
    /\ pc[Epoll] \in {"recv", "newTask"} \cup Closing => sock[loc[Epoll].fd] = loc[Epoll].client
    /\ pc[Epoll] = "newTask" => loc[Epoll].from = loc[Epoll].client

(* An event was for a listed connection with something to read.            *)
EventIsMeant ==
    pc[Epoll] \in {"lookup", "recv"} =>
        LET n == sock[loc[Epoll].fd]
        IN  /\ n # 0
            /\ inbox[n] # << >> \/ peer[n] = "closed"
            /\ ~(pc[Main] = "add" /\ loc[Main].client = n)

(* A peer hangs up when nothing is under way.                              *)
HungUpIdle ==
    \A n \in Conn : peer[n] = "closed" => n \notin waiting /\ \A t \in Threads : ~Works(t, n)
(* A connection times out when nothing is under way.                       *)
TimedOutIdle ==
    \A n \in Conn : IsOpen(n) /\ age[n] > Timeout => peer[n] = "open" /\ Settled(n)

(* Each thread closes for its own reason.                                  *)
OwnReason ==
    /\ pc[Epoll] \in Closing => peer[loc[Epoll].client] = "closed"
    /\ pc[Heart] \in Closing => sock[loc[Heart].fd] = loc[Heart].node /\ age[loc[Heart].node] > Timeout
    /\ \A t \in Threads : pc[t] \in WithNode =>
        /\ t # Heart => loc[t].node = loc[t].client
        /\ ~(pc[Main] = "add" /\ loc[Main].client = loc[t].node)

PoliteInv ==
    /\ ~unknown /\ OwnNeverStale /\ EventsAreKnown /\ RepliesReachSender
    /\ OneRequest /\ QueuedOnce /\ TakeTurns /\ WellFormedOnly /\ Connected
    /\ EventIsMeant /\ HungUpIdle /\ TimedOutIdle /\ OwnReason

=============================================================================
