---------------------------- MODULE PacketReader ----------------------------
(***************************************************************************)
(* How serv_epoll turns the byte stream of one connection into tasks       *)
(* (spider_tcp_server.c:141-206, spider_function.c:242-330).               *)
(*                                                                         *)
(* A packet is a header of seven fixed fields and a body, each fetched by  *)
(* one recv on a non-blocking socket that is watched edge-triggered.  An   *)
(* event makes the thread read at most one packet; a recv that returns too *)
(* little, or a field with a wrong value, makes it drop what it has read   *)
(* and go back to epoll_wait, wherever in the stream that leaves it.       *)
(*                                                                         *)
(* The peer sends well-formed packets, all with a body of Body bytes; the  *)
(* bytes of a packet other than its flag never spell the flag "BY".  The   *)
(* stream is then known by position: byte p is byte p % Size of packet     *)
(* p \div Size, and the state needs only how many bytes have arrived and   *)
(* how many were read.  The network may deliver the stream in pieces of    *)
(* any size, at any time, also between two recv calls.  The socket, its    *)
(* peer and epoll are external.  malloc does not fail here (see            *)
(* ChatServer), and a peer that hangs up does not reset the connection.    *)
(*                                                                         *)
(* A definition A_Variant is a wrong form of A, defined to test that a     *)
(* property can tell it from the code; no specification uses it.           *)
(***************************************************************************)
EXTENDS Integers, Sequences

CONSTANTS
    Body,        \* the length of every body
    Base,        \* values of a byte: 256 in the code
    MaxLen,      \* PACKET_MAX_LEN
    BadGameId,   \* the packets (from 0) whose gameid is below 1000
    MaxPackets   \* bound: packets the peer sends

(* The fields of packet_head in the order they are read.                   *)
Offset == [length |-> 0, flag |-> 4, version |-> 6, cmd |-> 8, gameid |-> 12, code |-> 14]
Width == [length |-> 4, flag |-> 2, version |-> 2, cmd |-> 4, gameid |-> 2, code |-> 1]
After_NoCode ==
    [flag |-> "version", version |-> "cmd", cmd |-> "gameid", gameid |-> "body", code |-> "body"]
After ==
    [flag |-> "version", version |-> "cmd", cmd |-> "gameid", gameid |-> "code", code |-> "body"]

HeadSize == 15
Size == HeadSize + Body
Stream == MaxPackets * Size

ASSUME ReaderAssumption ==
    /\ Body \in Nat /\ MaxLen \in Nat /\ Base \in Nat /\ MaxPackets \in Nat
    /\ 0 < Body /\ Body <= MaxLen
    /\ Base > 1 /\ Body < Base * Base
    /\ BadGameId \subseteq 0 .. MaxPackets - 1

VARIABLES
    arrived,    \* bytes that have reached the socket
    pos,        \* bytes that recv has returned
    edge,       \* epoll has an edge it has not reported
    peerOpen,   \* the peer has not hung up
    pc,         \* waiting, or the field to recv next, or the socket is closed
    length,     \* head->length
    heads,      \* header blocks allocated and not freed
    tasks,      \* the bodies made into tasks: where each starts, how long it is
    split,      \* history: a recv returned less than the field
    refused,    \* history: a whole field had a wrong value
    short,      \* history: a length was accepted from less than 4 bytes
    coalesced   \* history: an event found more than one packet

socketVars == <<arrived, edge, peerOpen>>
historyVars == <<split, refused, short, coalesced>>
vars == <<socketVars, pos, pc, length, heads, tasks, historyVars>>

Init ==
    /\ arrived = 0 /\ pos = 0
    /\ edge = FALSE /\ peerOpen = TRUE
    /\ pc = "wait"
    /\ length = 0 /\ heads = 0
    /\ tasks = << >>
    /\ split = FALSE /\ refused = FALSE /\ short = FALSE /\ coalesced = FALSE

-----------------------------------------------------------------------------
(* The peer and the network.  Whatever reaches the socket raises an edge.  *)

Arrive ==
    /\ peerOpen /\ pc # "closed"
    /\ \E n \in 1 .. Stream - arrived : arrived' = arrived + n
    /\ edge' = TRUE
    /\ UNCHANGED <<peerOpen, pos, pc, length, heads, tasks, historyVars>>

HangUp ==
    /\ peerOpen /\ pc # "closed"
    /\ peerOpen' = FALSE
    /\ edge' = TRUE
    /\ UNCHANGED <<arrived, pos, pc, length, heads, tasks, historyVars>>

Unread == arrived - pos
Got(want) == IF Unread < want THEN Unread ELSE want

-----------------------------------------------------------------------------
(* epoll_wait reports an edge once, and only while there is something to   *)
(* read: bytes, or the end of the stream.  read_head allocates a header.   *)
Wait ==
    /\ pc = "wait"
    /\ edge /\ (Unread > 0 \/ ~peerOpen)
    /\ edge' = FALSE
    /\ pc' = "length"
    /\ length' = 0
    /\ heads' = heads + 1
    /\ coalesced' = (coalesced \/ Unread > Size)
    /\ UNCHANGED <<arrived, peerOpen, pos, tasks, split, refused, short>>

(* The length that n bytes of the stream at p stand for.  The field is     *)
(* little-endian in a zeroed int.  Bytes that belong to other fields stand *)
(* for any length, right or wrong.                                         *)
Digit(i) == IF i = 0 THEN Body % Base ELSE IF i = 1 THEN Body \div Base ELSE 0
LengthsAt(p, n) ==
    LET at == p % Size
    IN  IF at + n <= Width["length"]
        THEN {Digit(at) + (IF n > 1 THEN Base * Digit(at + 1) ELSE 0)}
        ELSE 0 .. MaxLen + 1

(* Back to epoll_wait: the header is freed, what was read is gone.         *)
Reject ==
    /\ pc' = "wait"
    /\ heads' = heads - 1
    /\ UNCHANGED <<socketVars, length, tasks, short, coalesced>>

(* Any number of bytes from 1 to 4 is taken for the length.                *)
RecvLength ==
    LET n == Got(Width["length"])
    IN  /\ pc = "length"
        /\ Unread > 0
        /\ pos' = pos + n
        /\ split' = (split \/ n < Width["length"])
        /\ \E v \in LengthsAt(pos, n) :
            \/ /\ v \in 1 .. MaxLen
               /\ pc' = "flag"
               /\ length' = v
               /\ short' = (short \/ n < Width["length"])
               /\ UNCHANGED <<socketVars, heads, tasks, refused, coalesced>>
            \/ /\ v \notin 1 .. MaxLen
               /\ refused' = TRUE
               /\ Reject

RecvNothing_Keeps ==
    /\ pc = "length"
    /\ Unread = 0
    /\ pc' = "wait"
    /\ heads' = IF peerOpen THEN heads - 1 ELSE heads
    /\ UNCHANGED <<socketVars, pos, length, tasks, historyVars>>

(* recv returned 0, or -1 with EAGAIN: serv_epoll closes the client.  At   *)
(* the end of the stream (-9) read_head does not free the header.          *)
RecvNothing ==
    /\ pc = "length"
    /\ Unread = 0
    /\ pc' = "closed"
    /\ heads' = IF peerOpen THEN heads - 1 ELSE heads
    /\ UNCHANGED <<socketVars, pos, length, tasks, historyVars>>

Aligned(f) == pos % Size = Offset[f]
Correct(f) == Aligned(f) /\ ~(f = "gameid" /\ pos \div Size \in BadGameId)

RecvField_NoFree(f) ==
    LET n == Got(Width[f])
    IN  /\ pc = f
        /\ pos' = pos + n
        /\ split' = (split \/ n < Width[f])
        /\ IF n = Width[f] /\ Correct(f)
           THEN /\ pc' = After[f]
                /\ UNCHANGED <<socketVars, length, heads, tasks, refused, short, coalesced>>
           ELSE /\ refused' = (refused \/ n = Width[f])
                /\ pc' = "wait"
                /\ UNCHANGED <<socketVars, length, heads, tasks, short, coalesced>>

(* The fields after the length: all their bytes at once, with the right    *)
(* value (the version and the command are not looked at).  A field that    *)
(* follows a correct flag is aligned.                                      *)
RecvField(f) ==
    LET n == Got(Width[f])
    IN  /\ pc = f
        /\ pos' = pos + n
        /\ split' = (split \/ n < Width[f])
        /\ IF n = Width[f] /\ Correct(f)
           THEN /\ pc' = After[f]
                /\ UNCHANGED <<socketVars, length, heads, tasks, refused, short, coalesced>>
           ELSE /\ refused' = (refused \/ n = Width[f])
                /\ Reject

RecvBody_Partial ==
    LET n == Got(length)
    IN  /\ pc = "body"
        /\ pos' = pos + n
        /\ split' = (split \/ n < length)
        /\ pc' = "wait"
        /\ heads' = heads - 1
        /\ tasks' = Append(tasks, [from |-> pos, size |-> n])
        /\ UNCHANGED <<socketVars, length, refused, short, coalesced>>

(* A whole body becomes a task, a partial one is dropped.                  *)
RecvBody ==
    LET n == Got(length)
    IN  /\ pc = "body"
        /\ pos' = pos + n
        /\ split' = (split \/ n < length)
        /\ pc' = "wait"
        /\ heads' = heads - 1
        /\ tasks' = IF n = length THEN Append(tasks, [from |-> pos, size |-> n]) ELSE tasks
        /\ UNCHANGED <<socketVars, length, refused, short, coalesced>>

-----------------------------------------------------------------------------
EpollStep ==
    \/ Wait
    \/ RecvLength \/ RecvNothing
    \/ \E f \in {"flag", "version", "cmd", "gameid", "code"} : RecvField(f)
    \/ RecvBody

Next == Arrive \/ HangUp \/ EpollStep

Spec == Init /\ [][Next]_vars

(* The epoll thread never blocks but in epoll_wait.  Nothing is assumed of *)
(* the peer.                                                               *)
FairSpec == Spec /\ WF_vars(EpollStep)

-----------------------------------------------------------------------------
(* Properties.                                                             *)

TypeOK ==
    /\ arrived \in 0 .. Stream /\ pos \in 0 .. arrived
    /\ edge \in BOOLEAN /\ peerOpen \in BOOLEAN
    /\ pc \in {"wait", "length", "flag", "version", "cmd", "gameid", "code", "body", "closed"}
    /\ length \in 0 .. MaxLen
    /\ heads \in {0, 1}
    /\ tasks \in Seq([from : 0 .. Stream, size : 1 .. MaxLen])
    /\ split \in BOOLEAN /\ refused \in BOOLEAN
    /\ short \in BOOLEAN /\ coalesced \in BOOLEAN

(* The header that read_head allocates on each event is freed on each way  *)
(* back to epoll_wait: its returns, the task that was made, the body that  *)
(* came short (spider_function.c:244-328).  One leaks at most once per     *)
(* connection, when the peer has hung up (spider_function.c:270).          *)
HeadsFreed ==
    heads = CASE pc = "wait" -> 0
              [] pc = "closed" -> IF peerOpen THEN 0 ELSE 1
              [] OTHER -> 1

(* Every task is the whole body of one packet, and no packet becomes two   *)
(* tasks, however the stream was cut and wherever the thread resumed in    *)
(* it - unless a length was put together from less than four bytes         *)
(* (spider_function.c:256,275).                                            *)
TasksAreWhole ==
    /\ \A i \in 1 .. Len(tasks) :
        /\ tasks[i].from % Size = HeadSize
        /\ short \/ tasks[i].size = Body
    /\ \A i, j \in 1 .. Len(tasks) : i < j => tasks[i].from < tasks[j].from

(* The thread stays in step with the stream, and makes one task of each    *)
(* packet it passes, as long as no recv came back with too little and no   *)
(* field was wrong: a packet that is refused at its gameid is the only     *)
(* well-cut one that is lost (spider_function.c:309).                      *)
StaysInStep ==
    pc = "wait" /\ ~split /\ ~refused => pos = Size * Len(tasks)

(* Bytes wait in the socket with no event to announce them only if an      *)
(* event found more than one packet, or the thread lost its step: the      *)
(* event reads one packet (spider_tcp_server.c:160-185), and the edge is   *)
(* spent.                                                                  *)
StallsOnlyBehindAnother ==
    pc = "wait" /\ ~edge /\ Unread > 0 => coalesced \/ split \/ refused

(* A hang-up that finds the socket read to the end closes the client.      *)
HangUpNoticed == (~peerOpen /\ edge /\ Unread = 0) ~> pc = "closed"

-----------------------------------------------------------------------------
(* The inductive invariant behind the safety properties.                   *)

Fields == {"flag", "version", "cmd", "gameid", "code", "body"}

(* What each place in the code knows by itself.  A flag that is right is   *)
(* proof that the length before it was read where a length is.             *)
FieldKnown ==
    /\ pc \in Fields => length \in 1 .. MaxLen
    /\ ~short =>
        /\ pc = "flag" /\ Aligned("flag") => length = Body
        /\ pc \in Fields \ {"flag"} => length = Body
    /\ pc = "body" => pos % Size = HeadSize
    /\ short => split

(* Tasks lie behind the reader.                                            *)
TasksBehind == \A i \in 1 .. Len(tasks) : tasks[i].from < pos

(* How far the reader is in its packet if nothing went wrong so far.       *)
ReadSoFar ==
    CASE pc \in {"wait", "length", "closed"} -> 0
      [] pc = "body" -> HeadSize
      [] OTHER -> Offset[pc]
InStep ==
    ~split /\ ~refused =>
        /\ pos = Size * Len(tasks) + ReadSoFar
        /\ pc \in Fields => length = Body

(* What came without an edge belongs to the packet that is being read.     *)
EdgeCovers ==
    ~split /\ ~refused /\ ~coalesced /\ ~edge =>
        /\ pc = "wait" => Unread = 0
        /\ pc \in Fields \cup {"length"} => arrived <= Size * Len(tasks) + Size

ReaderInv ==
    TypeOK /\ HeadsFreed /\ FieldKnown /\ TasksAreWhole /\ TasksBehind /\ InStep /\ EdgeCovers

=============================================================================
