--------------------------- MODULE ClientRegistry ---------------------------
(***************************************************************************)
(* The list of connected clients, fd2clients (spider_function.c:65-226,    *)
(* spider_tcp_server.c:94-122,278-283): a doubly linked list of malloc'ed  *)
(* nodes from socket to client, whose first node is never freed while the  *)
(* list is empty but kept with fd 0.                                       *)
(*                                                                         *)
(* Here each call of add_fd2client and del_fd2client is one step, as if    *)
(* the threads that call them took turns; the code has no lock that makes  *)
(* them do so.  What this module shows wrong needs no race.                *)
(*                                                                         *)
(* `order', `connected', `unlisted' and `replaced' are history variables:  *)
(* the code has the pointers and the kernel's open sockets.  A loop that   *)
(* follows next from fd2clients visits order[1], order[2], ...             *)
(* (PointersSpellOrder), so a walk is a quantifier over order.  Once       *)
(* fd2clients points to a freed node every further call is undefined, and  *)
(* the model stops.                                                        *)
(*                                                                         *)
(* A definition A_Variant is a wrong form of A, defined to test that a     *)
(* property can tell it from the code; no specification uses it.           *)
(***************************************************************************)
EXTENDS Integers, Sequences

CONSTANTS
    Nodes,    \* addresses malloc may return for an fd2client
    Fds,      \* socket numbers accept may return
    Clients,  \* addresses malloc may return for a spider_client
    Null

ASSUME RegistryAssumption ==
    /\ Nodes # {}
    /\ Null \notin Nodes \cup Clients
    /\ 0 \notin Fds

VARIABLES
    head,       \* fd2clients
    live,       \* the nodes that are allocated
    fd,         \* the fields of the nodes
    client,
    next,
    prev,
    tail,
    main,       \* main: in its accept loop, in destory, or exited
    connected,  \* history: connected[f] is the spider_client made for f
    unlisted,   \* history: sockets whose add_fd2client returned FAIL
    order,      \* history: the nodes in use, first to last
    replaced    \* history: fd2clients has been moved to another node

fieldVars == <<fd, client, next, prev, tail>>
listVars == <<head, live, fieldVars, order, replaced>>
vars == <<listVars, main, connected, unlisted>>

Dangling == head \notin live

(* init_fd2client has run.                                                 *)
Init ==
    /\ head \in Nodes
    /\ live = {head}
    /\ fd = [n \in Nodes |-> 0]
    /\ client = [n \in Nodes |-> Null]
    /\ next = [n \in Nodes |-> Null]
    /\ prev = [n \in Nodes |-> Null]
    /\ tail = [n \in Nodes |-> Null]
    /\ main = "accept"
    /\ connected = [f \in Fds |-> Null]
    /\ unlisted = {}
    /\ order = << >>
    /\ replaced = FALSE

-----------------------------------------------------------------------------
(* add_fd2client.                                                          *)

HeadIsEmpty == prev[head] = Null /\ fd[head] = 0

FillHead(f, c) ==
    /\ HeadIsEmpty
    /\ fd' = [fd EXCEPT ![head] = f]
    /\ client' = [client EXCEPT ![head] = c]
    /\ next' = [next EXCEPT ![head] = Null]
    /\ prev' = [prev EXCEPT ![head] = Null]
    /\ tail' = [tail EXCEPT ![head] = head]
    /\ order' = <<head>>
    /\ UNCHANGED <<head, live, replaced>>

(* The walk to the node whose next is NULL ends at the last of order.      *)
AppendNode(f, c) ==
    /\ ~HeadIsEmpty
    /\ \E n \in Nodes \ live :
        LET last == order[Len(order)]
        IN  /\ live' = live \cup {n}
            /\ fd' = [fd EXCEPT ![n] = f]
            /\ client' = [client EXCEPT ![n] = c]
            /\ next' = [next EXCEPT ![n] = Null, ![last] = n]
            /\ prev' = [prev EXCEPT ![n] = last]
            /\ tail' = [tail EXCEPT ![n] = tail[last]]
            /\ order' = Append(order, n)
    /\ UNCHANGED <<head, replaced>>

NewClient(f, c) ==
    /\ main = "accept"
    /\ ~Dangling
    /\ connected[f] = Null
    /\ \A g \in Fds : connected[g] # c
    /\ connected' = [connected EXCEPT ![f] = c]
    /\ UNCHANGED main

Accept(f, c) ==
    /\ NewClient(f, c)
    /\ FillHead(f, c) \/ AppendNode(f, c)
    /\ UNCHANGED unlisted

(* malloc fails in add_fd2client; main ignores the FAIL and goes on.       *)
AcceptUnlisted(f, c) ==
    /\ NewClient(f, c)
    /\ ~HeadIsEmpty
    /\ unlisted' = unlisted \cup {f}
    /\ UNCHANGED listVars

(* The epoll thread does not find the socket of an event and closes it.    *)
CloseUnknown(f) ==
    /\ main = "accept"
    /\ ~Dangling
    /\ connected[f] # Null
    /\ \A i \in 1 .. Len(order) : fd[order[i]] # f
    /\ connected' = [connected EXCEPT ![f] = Null]
    /\ unlisted' = unlisted \ {f}
    /\ UNCHANGED <<listVars, main>>

-----------------------------------------------------------------------------
(* del_fd2client of the i-th node, one action for each branch.             *)

Without(i) ==
    [j \in 1 .. Len(order) - 1 |-> IF j < i THEN order[j] ELSE order[j + 1]]

ResetHead_Frees(i) ==
    LET n == order[i]
    IN  /\ prev[n] = Null
        /\ next[head] = Null
        /\ fd' = [fd EXCEPT ![n] = 0]
        /\ client' = [client EXCEPT ![n] = Null]
        /\ prev' = [prev EXCEPT ![n] = Null]
        /\ next' = [next EXCEPT ![n] = Null]
        /\ tail' = [tail EXCEPT ![n] = Null]
        /\ live' = live \ {n}
        /\ UNCHANGED <<head, replaced>>

ResetHead(i) ==
    LET n == order[i]
    IN  /\ prev[n] = Null
        /\ next[head] = Null
        /\ fd' = [fd EXCEPT ![n] = 0]
        /\ client' = [client EXCEPT ![n] = Null]
        /\ prev' = [prev EXCEPT ![n] = Null]
        /\ next' = [next EXCEPT ![n] = Null]
        /\ tail' = [tail EXCEPT ![n] = Null]
        /\ UNCHANGED <<head, live, replaced>>

(* The old head is freed; the new head's prev is itself.                   *)
MoveHead(i) ==
    LET n == order[i]
    IN  /\ prev[n] = Null
        /\ next[head] # Null
        /\ head' = next[head]
        /\ tail' = [tail EXCEPT ![head'] = head']
        /\ prev' = [prev EXCEPT ![head'] = head']
        /\ live' = live \ {head}
        /\ replaced' = TRUE
        /\ UNCHANGED <<fd, client, next>>

UnlinkMiddle_KeepsPrev(i) ==
    LET n == order[i]
    IN  /\ prev[n] # Null
        /\ next[n] # Null
        /\ next' = [next EXCEPT ![prev[n]] = next[n]]
        /\ live' = live \ {n}
        /\ UNCHANGED <<head, fd, client, prev, tail, replaced>>

UnlinkMiddle(i) ==
    LET n == order[i]
    IN  /\ prev[n] # Null
        /\ next[n] # Null
        /\ next' = [next EXCEPT ![prev[n]] = next[n]]
        /\ prev' = [prev EXCEPT ![next[n]] = prev[n]]
        /\ live' = live \ {n}
        /\ UNCHANGED <<head, fd, client, tail, replaced>>

UnlinkLast(i) ==
    LET n == order[i]
    IN  /\ prev[n] # Null
        /\ next[n] = Null
        /\ next' = [next EXCEPT ![prev[n]] = Null]
        /\ live' = live \ {n}
        /\ UNCHANGED <<head, fd, client, prev, tail, replaced>>

Delete(i) ==
    /\ ResetHead(i) \/ MoveHead(i) \/ UnlinkMiddle(i) \/ UnlinkLast(i)
    /\ order' = Without(i)

-----------------------------------------------------------------------------
(* The callers of del_fd2client.                                           *)

FreeAndDelete(i) ==
    /\ ~Dangling
    /\ Delete(i)
    /\ connected' = [connected EXCEPT ![fd[order[i]]] = Null]
    /\ UNCHANGED <<main, unlisted>>

(* close_client: find_fd2client stops at the first node with the socket.   *)
CloseClient(f) ==
    /\ main = "accept"
    /\ \E i \in 1 .. Len(order) :
        /\ fd[order[i]] = f
        /\ \A j \in 1 .. i - 1 : fd[order[j]] # f
        /\ FreeAndDelete(i)

(* close_client2, called by the heartbeat thread with the node itself.     *)
CloseClient2(i) ==
    /\ main = "accept"
    /\ i \in 1 .. Len(order)
    /\ FreeAndDelete(i)

(* accept returned 0 or less: main leaves its loop and calls destory.      *)
LeaveAccept ==
    /\ main = "accept"
    /\ main' = "destory"
    /\ UNCHANGED <<listVars, connected, unlisted>>

(* One turn of the loop of destory: it deletes the first node.             *)
DestoryLink ==
    /\ main = "destory"
    /\ ~Dangling
    /\ fd[head] # 0
    /\ Delete(1)
    /\ connected' = [connected EXCEPT ![fd[head]] = Null]
    /\ UNCHANGED <<main, unlisted>>

Exit ==
    /\ main = "destory"
    /\ ~Dangling
    /\ fd[head] = 0
    /\ main' = "exit"
    /\ UNCHANGED <<listVars, connected, unlisted>>

(* Exited, or about to follow a pointer to a freed node.                   *)
Stopped == (Dangling \/ main = "exit") /\ UNCHANGED vars

Next ==
    \/ \E f \in Fds, c \in Clients : Accept(f, c) \/ AcceptUnlisted(f, c)
    \/ \E f \in Fds : CloseUnknown(f) \/ CloseClient(f)
    \/ \E i \in 1 .. Len(order) : CloseClient2(i)
    \/ LeaveAccept
    \/ DestoryLink
    \/ Exit
    \/ Stopped

Spec == Init /\ [][Next]_vars

-----------------------------------------------------------------------------
(* Properties.                                                             *)

TypeOK ==
    /\ head \in Nodes
    /\ live \in SUBSET Nodes
    /\ fd \in [Nodes -> Fds \cup {0}]
    /\ client \in [Nodes -> Clients \cup {Null}]
    /\ next \in [Nodes -> Nodes \cup {Null}]
    /\ prev \in [Nodes -> Nodes \cup {Null}]
    /\ tail \in [Nodes -> Nodes \cup {Null}]
    /\ main \in {"accept", "destory", "exit"}
    /\ connected \in [Fds -> Clients \cup {Null}]
    /\ unlisted \in SUBSET Fds
    /\ order \in Seq(Nodes)
    /\ replaced \in BOOLEAN

(* Until fd2clients dangles, the pointers spell the list in both           *)
(* directions: next leads from fd2clients through every node in use to     *)
(* NULL, and prev leads back (spider_function.c:80-139), except that the   *)
(* first node's prev is NULL or the node itself.                           *)
PointersSpellOrder ==
    ~Dangling =>
        /\ order # << >> => head = order[1]
        /\ \A i \in 1 .. Len(order) :
            /\ next[order[i]] = IF i < Len(order) THEN order[i + 1] ELSE Null
            /\ i > 1 => prev[order[i]] = order[i - 1]
        /\ prev[head] \in {Null, head}

(* No node is leaked, freed while it is linked, or linked twice.           *)
NodesAccounted ==
    ~Dangling =>
        /\ live = {order[i] : i \in 1 .. Len(order)} \cup {head}
        /\ \A i, j \in 1 .. Len(order) : order[i] = order[j] => i = j

(* Until fd2clients dangles, the list maps every open socket that          *)
(* add_fd2client accepted to its own client, and nothing else.             *)
ListMatchesSockets ==
    ~Dangling =>
        /\ \A f \in Fds :
            connected[f] # Null /\ f \notin unlisted =>
                \E i \in 1 .. Len(order) :
                    fd[order[i]] = f /\ client[order[i]] = connected[f]
        /\ \A i, j \in 1 .. Len(order) : fd[order[i]] = fd[order[j]] => i = j
        /\ \A i \in 1 .. Len(order) :
            /\ fd[order[i]] \in Fds \ unlisted
            /\ client[order[i]] = connected[fd[order[i]]]
            /\ client[order[i]] # Null

(* The list breaks in one way only: fd2clients is moved to a second node   *)
(* (spider_function.c:115), whose prev is then itself, and that node is    *)
(* deleted.  While the first client outlives all others nothing dangles.   *)
BreaksOnlyAfterReplacement == Dangling => replaced

(* The node fd2clients was moved to is the one that is freed under it, and *)
(* it had been given its own address as prev (spider_function.c:117).      *)
FreedUnderHead == [][~Dangling /\ Dangling' => head' = head /\ prev[head] = head]_vars

(* destory exits only when no listed client is left (spider_tcp_server.c:  *)
(* 279); with two clients or more its loop does not get there.             *)
ExitLeavesNoClient ==
    main = "exit" => \A f \in Fds : connected[f] # Null => f \in unlisted

(* What the comments say of the code.                                      *)

(* spider_function.c:141 "查找sock是否存在" (find whether the socket       *)
(* exists) and :197 "删除fd2client" (delete the fd2client): after any      *)
(* sequence of closes the list still finds every socket that is open.      *)
FindsEverySocket ==
    \A f \in Fds :
        connected[f] # Null /\ f \notin unlisted =>
            /\ ~Dangling
            /\ \E i \in 1 .. Len(order) : fd[order[i]] = f

-----------------------------------------------------------------------------
(* The inductive invariant behind these properties.                        *)

EmptyIsZero ==
    ~Dangling => (order = << >> => fd[head] = 0 /\ prev[head] = Null /\ next[head] = Null)

HeadUnmoved ==
    ~replaced => ~Dangling /\ prev[head] = Null

UnlistedConnected ==
    \A f \in unlisted : connected[f] # Null

RegistryInv ==
    /\ TypeOK
    /\ UnlistedConnected
    /\ PointersSpellOrder
    /\ NodesAccounted
    /\ ListMatchesSockets
    /\ EmptyIsZero
    /\ HeadUnmoved
    /\ ExitLeavesNoClient
    /\ main = "exit" => ~Dangling

=============================================================================
