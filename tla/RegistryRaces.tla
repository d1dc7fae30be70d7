---------------------------- MODULE RegistryRaces ----------------------------
(***************************************************************************)
(* The list of connected clients again, now as the threads really use it:  *)
(* no lock guards fd2clients, so main's add_fd2client, the searches and    *)
(* both close functions interleave between any two accesses to a node      *)
(* (spider_function.c:80-226, spider_tcp_server.c:151-164,246-265).        *)
(* ClientRegistry takes each of these operations as one step; here a step  *)
(* reads or writes one field, through fd2clients or through a pointer the  *)
(* thread holds.  The field tail is left out: it is written and copied,    *)
(* but nothing depends on it.                                              *)
(*                                                                         *)
(* Connection n is the n-th one accepted; n is also its socket and its     *)
(* spider_client.  Addresses and sockets do not come back here             *)
(* (ClientRegistry and ChatServer have that), so a pointer to a freed node *)
(* or client is known for what it is.  The first use of one, or of NULL,   *)
(* is recorded in `broken', and the model stops there.                     *)
(*                                                                         *)
(* A definition A_Variant is a wrong form of A, defined to test that a     *)
(* property can tell it from the code; no specification uses it.           *)
(***************************************************************************)
EXTENDS Integers, SequencesExt

CONSTANTS
    Callers,     \* the epoll thread and the workers
    Heart, Main, \* the heartbeat thread and main
    MaxConn,     \* bound: connections accepted in all
    Null

Conn == 1 .. MaxConn
Nodes == 1 .. MaxConn  \* in the order in which malloc returns them
Closers == Callers \cup {Heart}
Threads == Closers \cup {Main}

ASSUME RacesAssumption ==
    /\ MaxConn \in Nat \ {0}
    /\ Null \notin 0 .. MaxConn
    /\ Heart \notin Callers /\ Main \notin Closers

VARIABLES
    head,     \* fd2clients
    node,     \* the nodes that malloc has returned, with their fields
    freed,    \* nodes that were freed
    gone,     \* clients that were freed
    pc,       \* where each thread is
    loc,      \* its locals
    conns,    \* connections accepted so far
    watched,  \* connections in the epoll set
    \* history
    order,    \* the nodes in use, in order; changed as a call ends
    replaced, \* fd2clients has been moved to another node
    misled,   \* what is_exists_fd returned that it must not
    broken    \* who used what it must not: <<thread, "node" or "client", which>>

connVars == <<conns, watched>>
historyVars == <<order, replaced, misled, broken>>
vars == <<head, node, freed, gone, pc, loc, connVars, historyVars>>

Empty == [fd |-> 0, client |-> Null, next |-> Null, prev |-> Null]
NoLocals == [call |-> "none", conn |-> 0, node |-> Null, ptr |-> Null, walk |-> Null,
             during |-> {}]
Idle(t) == CASE t = Main -> "accept" [] t = Heart -> "sleep" [] OTHER -> "idle"

(* init_fd2client has run.                                                 *)
Init ==
    /\ head = 1 /\ node = <<Empty>> /\ freed = {} /\ gone = {}
    /\ pc = [t \in Threads |-> Idle(t)]
    /\ loc = [t \in Threads |-> NoLocals]
    /\ conns = 0 /\ watched = {}
    /\ order = << >> /\ replaced = FALSE
    /\ misled = "no" /\ broken = << >>

Listed == {order[i] : i \in 1 .. Len(order)}
Mine(t) == loc[t].node
Alive(n) == n \in DOMAIN node /\ n \notin freed

-----------------------------------------------------------------------------
(* One step of a thread: what it is about to access, and its end.          *)

ViaHead == {"addPrev", "addFd", "fillFd", "fillClient", "fillNext", "fillPrev",
            "headNext", "moveHead", "selfPrev"}
ViaPtr == {"backLink", "freeHead"}
ViaNothing == {"accept", "idle", "sleep", "start", "addHead", "delHead", "close"}
ViaPrev == {"bridge", "cutLast"}
Client == {"uid", "freeClient", "age"}
Loops == {"match", "uid", "beat"}

Adding == {"addPrev", "addFd", "fillFd", "fillClient", "fillNext", "fillPrev",
           "addHead", "addTest", "addNext", "addNew", "addLink"}
Deleting == {"delPrev", "delHead", "headNext", "moveHead", "selfPrev", "freeHead",
             "zeroFd", "zeroClient", "zeroPrev", "zeroNext", "delNext", "bridge",
             "following", "backLink", "cutLast", "freeNode"}

(* The nodes through which thread t goes next.                             *)
Via(t) ==
    CASE pc[t] \in ViaHead -> {head}
      [] pc[t] \in ViaPtr -> {loc[t].ptr}
      [] pc[t] \in ViaNothing -> {}
      [] pc[t] \in Loops /\ Mine(t) = Null -> {}  \* while( tmp != NULL )
      [] pc[t] \in ViaPrev /\ Alive(Mine(t)) -> {node[Mine(t)].prev}
      [] OTHER -> {Mine(t)}

BadNodes(t) == {n \in Via(t) : ~Alive(n)}
BadClients(t) ==
    IF pc[t] \notin Client \/ BadNodes(t) # {} THEN {}
    ELSE {n \in Via(t) : node[n].client \notin Conn \ gone}

(* Two calls change neighbouring nodes: both delete, or one appends behind *)
(* the node, or fills the node, that the other deletes.                    *)
Neighbours(m, n) ==
    \E i, j \in 1 .. Len(order) :
        order[i] = m /\ order[j] = n /\ i - j \in {-1, 0, 1}
Clash ==
    \E t \in Threads : pc[t] \in Deleting /\ \E u \in Threads \ {t} :
        \/ pc[u] \in Deleting /\ Neighbours(Mine(t), Mine(u))
        \/ pc[u] \in Adding /\ (order # << >> => Mine(t) = order[Len(order)])

(* The threads are followed up to the first of these four events; what     *)
(* comes after it is undefined, or works on a list out of order.           *)
Sound == broken = << >> /\ misled = "no" /\ Alive(head) /\ ~Clash

At(t, label) == pc[t] = label /\ Sound /\ BadNodes(t) = {} /\ BadClients(t) = {}
Goto(t, label) == pc' = [pc EXCEPT ![t] = label]
Stay(t, label) == Goto(t, label) /\ UNCHANGED loc
Hold(t, label, field, n) == Goto(t, label) /\ loc' = [loc EXCEPT ![t][field] = n]
Return(t) == Goto(t, Idle(t)) /\ loc' = [loc EXCEPT ![t] = NoLocals]

Call(t, call, n) ==
    /\ Goto(t, IF t = Main THEN "addPrev" ELSE "start")
    /\ loc' = [loc EXCEPT ![t] = [NoLocals EXCEPT !.call = call, !.conn = n]]
    /\ UNCHANGED <<head, node, freed, gone, watched, order, replaced, misled, broken>>

Reads == UNCHANGED <<head, node, freed, gone, connVars, historyVars>>

(* Every call under way lives through the freeing, emptying or filling of  *)
(* node n.                                                                 *)
StayNoting(t, label, n) ==
    /\ Goto(t, label)
    /\ loc' = [u \in Threads |-> IF pc[u] = Idle(u) THEN loc[u]
                                 ELSE [loc[u] EXCEPT !.during = @ \cup {n}]]

Sets(n, field, value) ==
    /\ node' = [node EXCEPT ![n][field] = value]
    /\ UNCHANGED <<head, freed, gone, replaced, misled, broken>>

-----------------------------------------------------------------------------
(* add_fd2client, called by main for each connection it accepts.           *)

Accept ==
    /\ At(Main, "accept")
    /\ conns < MaxConn /\ conns' = conns + 1
    /\ Call(Main, "add", conns + 1)

AddPrev ==
    /\ At(Main, "addPrev")
    /\ Stay(Main, IF node[head].prev = Null THEN "addFd" ELSE "addHead")
    /\ Reads

AddFd ==
    /\ At(Main, "addFd")
    /\ Stay(Main, IF node[head].fd = 0 THEN "fillFd" ELSE "addHead")
    /\ Reads

(* The head is empty and is filled, field by field.                        *)
FillFd ==
    /\ At(Main, "fillFd")
    /\ Sets(head, "fd", loc[Main].conn)
    /\ StayNoting(Main, "fillClient", head)
    /\ UNCHANGED <<connVars, order>>

Fill ==
    \E step \in {<<"fillClient", "client", loc[Main].conn, "fillNext">>,
                 <<"fillNext", "next", Null, "fillPrev">>} :
        /\ At(Main, step[1])
        /\ Sets(head, step[2], step[3])
        /\ Stay(Main, step[4])
        /\ UNCHANGED <<connVars, order>>

(* add_fd2client is over; main has the socket watched.                     *)
Added(n) ==
    /\ order' = Append(order, n)
    /\ watched' = watched \cup {loc[Main].conn}
    /\ Return(Main)
    /\ UNCHANGED conns

FillPrev ==
    /\ At(Main, "fillPrev")
    /\ Sets(head, "prev", Null)
    /\ Added(head)

(* Otherwise main walks to the last node; the loop reads tmp->next twice.  *)
AddHead ==
    /\ At(Main, "addHead")
    /\ Hold(Main, "addTest", "node", head)
    /\ Reads

AddTest ==
    /\ At(Main, "addTest")
    /\ Stay(Main, IF node[Mine(Main)].next = Null THEN "addNew" ELSE "addNext")
    /\ Reads

AddNext ==
    /\ At(Main, "addNext")
    /\ Hold(Main, "addTest", "node", node[Mine(Main)].next)
    /\ Reads

AddNew_NoClientYet ==
    /\ At(Main, "addNew")
    /\ node' = Append(node, [fd |-> loc[Main].conn, client |-> Null,
                             next |-> Null, prev |-> Mine(Main)])
    /\ Hold(Main, "addLink", "ptr", Len(node) + 1)
    /\ UNCHANGED <<head, freed, gone, connVars, historyVars>>

(* The new node is complete before it is linked.                           *)
AddNew ==
    /\ At(Main, "addNew")
    /\ node' = Append(node, [fd |-> loc[Main].conn, client |-> loc[Main].conn,
                             next |-> Null, prev |-> Mine(Main)])
    /\ Hold(Main, "addLink", "ptr", Len(node) + 1)
    /\ UNCHANGED <<head, freed, gone, connVars, historyVars>>

AddLink ==
    /\ At(Main, "addLink")
    /\ Sets(Mine(Main), "next", loc[Main].ptr)
    /\ Added(loc[Main].ptr)

MainStep ==
    \/ Accept \/ AddPrev \/ AddFd \/ FillFd \/ Fill \/ FillPrev
    \/ AddHead \/ AddTest \/ AddNext \/ AddNew \/ AddLink

-----------------------------------------------------------------------------
(* The walks: is_exists_fd ("exists"), findClientByUid ("uid"),            *)
(* find_fd2client, with which close_client begins ("close"), and           *)
(* serv_heartbeat ("beat").                                                *)

(* A caller has an event or a task of a connection, or a message for it.   *)
Search(t) ==
    /\ At(t, "idle")
    /\ \E n \in watched, call \in {"exists", "uid", "close"} : Call(t, call, n)
    /\ UNCHANGED conns

Wake ==
    /\ At(Heart, "sleep")
    /\ UNCHANGED conns
    /\ Call(Heart, "beat", 0)

Loop(t) == IF loc[t].call \in {"uid", "beat"} THEN loc[t].call ELSE "match"

Start(t) ==
    /\ At(t, "start")
    /\ Hold(t, Loop(t), "node", head)
    /\ Reads

Step_StopsBeforeLast(t) ==
    LET n == node[Mine(t)].next
    IN  /\ At(t, "step")
        /\ Hold(t, Loop(t), "node", IF n # Null /\ Alive(n) /\ node[n].next = Null THEN Null ELSE n)
        /\ Reads

Step(t) ==
    /\ At(t, "step")
    /\ Hold(t, Loop(t), "node", node[Mine(t)].next)
    /\ Reads

Match(t) ==
    /\ At(t, "match") /\ Mine(t) # Null
    /\ Stay(t, IF node[Mine(t)].fd # loc[t].conn THEN "step"
               ELSE IF loc[t].call = "exists" THEN "client" ELSE "freeClient")
    /\ Reads

(* The node is in the list and nobody closes its client.                   *)
Settled(n) ==
    n \in Listed /\ \A t \in Closers :
        pc[t] \in Deleting \cup {"freeClient"} => Mine(t) # n

(* is_exists_fd returns c; serv_epoll closes a socket that has none.       *)
Answer(t, c) ==
    /\ misled' = CASE c \in Conn \ {loc[t].conn} ->
                        IF Mine(t) \in loc[t].during THEN "refilled" ELSE "other"
                   [] c = Null /\ \E n \in Nodes : Settled(n) /\ node[n].fd = loc[t].conn -> "lost"
                   [] OTHER -> misled
    /\ watched' = IF c = Null THEN watched \ {loc[t].conn} ELSE watched
    /\ Return(t)
    /\ UNCHANGED <<head, node, freed, gone, conns, order, replaced, broken>>

Found(t) == At(t, "client") /\ Answer(t, node[Mine(t)].client)

NotFound(t) ==
    /\ At(t, "match") /\ Mine(t) = Null
    /\ IF loc[t].call = "exists" THEN Answer(t, Null) ELSE Return(t) /\ Reads

(* findClientByUid reads client->uid; serv_heartbeat client->keepalivetime *)
(* if the fd is not 0, and finds it old or not.                            *)
Uid(t) ==
    /\ At(t, "uid")
    /\ IF Mine(t) = Null \/ node[Mine(t)].client = loc[t].conn THEN Return(t) ELSE Stay(t, "step")
    /\ Reads

Beat ==
    /\ At(Heart, "beat")
    /\ IF Mine(Heart) = Null \/ node[Mine(Heart)].fd = 0 THEN Return(Heart) ELSE Stay(Heart, "age")
    /\ Reads

Age ==
    /\ At(Heart, "age")
    /\ Stay(Heart, "step")
    /\ Reads

(* temp moves on before close_client2 is called with its node.             *)
Expired ==
    LET n == Mine(Heart)
    IN  /\ At(Heart, "age")
        /\ loc' = [loc EXCEPT ![Heart].walk = node[n].next, ![Heart].conn = node[n].fd]
        /\ Goto(Heart, "freeClient")
        /\ Reads

WalkStep(t) == Start(t) \/ Step(t) \/ Match(t) \/ Found(t) \/ NotFound(t) \/ Uid(t)
HeartStep == Wake \/ Beat \/ Age \/ Expired

-----------------------------------------------------------------------------
(* close_client and close_client2: the client is freed, then the node is   *)
(* deleted (del_fd2client), then the socket closed.                        *)

FreeClient(t) ==
    /\ At(t, "freeClient")
    /\ gone' = gone \cup {node[Mine(t)].client}
    /\ Stay(t, "delPrev")
    /\ UNCHANGED <<head, node, freed, connVars, historyVars>>

DelPrev(t) ==
    /\ At(t, "delPrev")
    /\ Stay(t, IF node[Mine(t)].prev = Null THEN "delHead" ELSE "delNext")
    /\ Reads

(* The first of several nodes: fd2clients moves to the next one.           *)
DelHead(t) == At(t, "delHead") /\ Hold(t, "headNext", "ptr", head) /\ Reads

HeadNext(t) ==
    /\ At(t, "headNext")
    /\ Stay(t, IF node[head].next = Null THEN "zeroFd" ELSE "moveHead")
    /\ Reads

MoveHead(t) ==
    /\ At(t, "moveHead")
    /\ head' = node[head].next
    /\ replaced' = TRUE
    /\ Stay(t, "selfPrev")
    /\ UNCHANGED <<node, freed, gone, connVars, order, misled, broken>>

SelfPrev(t) ==
    /\ At(t, "selfPrev")
    /\ Sets(head, "prev", head)
    /\ Stay(t, "freeHead")
    /\ UNCHANGED <<connVars, order>>

(* The only node: it is emptied, field by field.                           *)
ZeroFd(t) ==
    /\ At(t, "zeroFd")
    /\ Sets(Mine(t), "fd", 0)
    /\ StayNoting(t, "zeroClient", Mine(t))
    /\ UNCHANGED <<connVars, order>>

Zero(t) ==
    \E step \in {<<"zeroClient", "client", Null, "zeroPrev">>,
                 <<"zeroPrev", "prev", Null, "zeroNext">>} :
        /\ At(t, step[1])
        /\ Sets(Mine(t), step[2], step[3])
        /\ Stay(t, step[4])
        /\ UNCHANGED <<connVars, order>>

(* del_fd2client is over.                                                  *)
Deleted(t) ==
    /\ \E i \in 1 .. Len(order) : order[i] = Mine(t) /\ order' = RemoveAt(order, i)
    /\ UNCHANGED connVars

ZeroNext(t) ==
    /\ At(t, "zeroNext")
    /\ Sets(Mine(t), "next", Null)
    /\ Stay(t, "close")
    /\ Deleted(t)

(* A middle node, or the last one.                                         *)
DelNext(t) ==
    LET after == node[Mine(t)].next
    IN  /\ At(t, "delNext")
        /\ Hold(t, IF after = Null THEN "cutLast" ELSE "bridge", "ptr", after)
        /\ Reads

Bridge(t) ==
    /\ At(t, "bridge")
    /\ Sets(node[Mine(t)].prev, "next", loc[t].ptr)
    /\ Stay(t, "following")
    /\ UNCHANGED <<connVars, order>>

Following(t) ==
    /\ At(t, "following")
    /\ Hold(t, "backLink", "ptr", node[Mine(t)].next)
    /\ Reads

BackLink_Forgotten(t) ==
    /\ At(t, "backLink")
    /\ Stay(t, "freeNode")
    /\ Reads

BackLink(t) ==
    /\ At(t, "backLink")
    /\ Sets(loc[t].ptr, "prev", node[Mine(t)].prev)
    /\ Stay(t, "freeNode")
    /\ UNCHANGED <<connVars, order>>

CutLast_Forgotten(t) ==
    /\ At(t, "cutLast")
    /\ Stay(t, "freeNode")
    /\ Reads

CutLast(t) ==
    /\ At(t, "cutLast")
    /\ Sets(node[Mine(t)].prev, "next", Null)
    /\ Stay(t, "freeNode")
    /\ UNCHANGED <<connVars, order>>

FreeNode(t) ==
    /\ At(t, "freeHead") \/ At(t, "freeNode")
    /\ freed' = freed \cup Via(t)
    /\ \A n \in Via(t) : StayNoting(t, "close", n)
    /\ Deleted(t)
    /\ UNCHANGED <<head, node, gone, replaced, misled, broken>>

(* serv_heartbeat goes on with the node it had moved to.                   *)
CloseFd(t) ==
    /\ At(t, "close")
    /\ watched' = watched \ {loc[t].conn}
    /\ IF t = Heart
       THEN /\ Goto(t, "beat")
            /\ loc' = [loc EXCEPT ![t].node = loc[t].walk, ![t].walk = Null, ![t].ptr = Null]
       ELSE Return(t)
    /\ UNCHANGED <<head, node, freed, gone, conns, historyVars>>

CloseStep(t) ==
    \/ FreeClient(t) \/ DelPrev(t) \/ DelHead(t) \/ HeadNext(t)
    \/ MoveHead(t) \/ SelfPrev(t) \/ ZeroFd(t) \/ Zero(t) \/ ZeroNext(t) \/ DelNext(t)
    \/ Bridge(t) \/ Following(t) \/ BackLink(t) \/ CutLast(t) \/ FreeNode(t) \/ CloseFd(t)

-----------------------------------------------------------------------------
(* What is undefined.                                                      *)
Undefined(t) ==
    /\ Sound
    /\ broken' \in {<<t, "node", n>> : n \in BadNodes(t)}
                \cup {<<t, "client", n>> : n \in BadClients(t)}
    /\ UNCHANGED <<head, node, freed, gone, pc, loc, connVars, order, replaced, misled>>

Next ==
    \/ MainStep
    \/ HeartStep
    \/ \E t \in Callers : Search(t)
    \/ \E t \in Closers : WalkStep(t) \/ CloseStep(t)
    \/ \E t \in Threads : Undefined(t)

Spec == Init /\ [][Next]_vars

-----------------------------------------------------------------------------
(* Properties.                                                             *)

(* A walk from fd2clients along next does not leave S: the least such set  *)
(* has the nodes that it comes to, so they are those in all of them.       *)
Closed(S) == head \in S /\ \A n \in S : node[n].next \in S \cup {Null}

(* Without a lock the list still survives every interleaving in which no   *)
(* two calls change neighbouring nodes at once: next leads only to nodes   *)
(* that are alive, and to every node that is in use and whose client       *)
(* nobody closes (spider_function.c:80-139).  fd2clients itself may dangle *)
(* once it has been moved, as in ClientRegistry.                           *)
ListSurvives ==
    ~Clash =>
        /\ Alive(head) \/ replaced
        /\ Alive(head) =>
            LET live == {n \in Nodes : Alive(n)}
                settled == {n \in Listed : Settled(n)}
            IN  /\ Closed(live)
                /\ \A S \in SUBSET live : Closed(S) => settled \subseteq S

(* A thread never finds a freed node, it only keeps one: the node was      *)
(* freed after the thread's own call began (spider_function.c:90-93,       *)
(* 144-182, spider_tcp_server.c:252-262).  A freed client it meets only    *)
(* in the node of a client that another thread is closing                  *)
(* (spider_function.c:209-210,223-224).                                    *)
StaleOnlyIfHeld ==
    broken # << >> =>
        LET t == broken[1]
            n == broken[3]
        IN  /\ n # Null
            /\ broken[2] = "node" => n \in loc[t].during
            /\ broken[2] = "client" /\ node[n].client # Null =>
                \E u \in Closers \ {t} : Mine(u) = n /\ pc[u] \in Deleting

(* A node without a client is met at the head only, and there for two      *)
(* reasons: the list is empty, which findClientByUid does not ask          *)
(* (spider_function.c:176), or the one node is being filled or emptied, or *)
(* was during the call (spider_function.c:84-88,121-125).                  *)
NullOnlyAtHead ==
    broken # << >> /\ broken[2] = "client" /\ node[broken[3]].client = Null =>
        LET t == broken[1]
        IN  /\ broken[3] = head
            /\ \/ head \in loc[t].during
               \/ pc[Main] = "fillClient"
               \/ \E u \in Closers \ {t} : Mine(u) = head /\ pc[u] \in {"zeroPrev", "zeroNext"}
               \/ order = << >> /\ loc[t].call = "uid"

(* is_exists_fd finds every socket whose client is listed and not being    *)
(* closed, and returns the client of another one only if its node was      *)
(* emptied and filled again between the two reads (spider_function.c:      *)
(* 147-148).                                                               *)
NeverMisled == misled \in {"no", "refilled"}

=============================================================================
