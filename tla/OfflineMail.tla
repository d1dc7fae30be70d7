----------------------------- MODULE OfflineMail -----------------------------
(***************************************************************************)
(* Chat messages and the offline message tables (mod_chat.c, mod_login.c,  *)
(* handle.c:63-77,132-138, spider_function.c:173-182,409-414).             *)
(*                                                                         *)
(* A worker that handles a chat request looks for a client that is logged  *)
(* in as the recipient.  It sends the message to that client, or else      *)
(* writes a row to an offline_msg table.  A worker that handles a login    *)
(* sets the client's uid, selects the rows for that uid, and sends and     *)
(* deletes them one by one.  Two workers do this at the same time, with    *)
(* nothing between a lookup and what is done about it.                     *)
(*                                                                         *)
(* Session n is the n-th connection, so the lookup finds the lowest one.   *)
(* client_mutex lets one worker handle a session at a time, and a session  *)
(* that is being handled is not closed: ChatServer has what happens when   *)
(* it is.  A session found as a recipient may be closed before the message *)
(* is sent; the send is then taken to fail.  Each query runs on a          *)
(* connection of its own (DbPool).  Requests that do not parse change      *)
(* nothing and are left out.  The peers and the database are external.     *)
(*                                                                         *)
(* A definition A_Variant is a wrong form of A, defined to test that a     *)
(* property can tell it from the code; no specification uses it.           *)
(***************************************************************************)
EXTENDS Integers, FiniteSets

CONSTANTS
    Workers,
    Sessions,     \* bound: the connections, numbered as they were accepted
    Uids,         \* the uids people log in with
    MaxMessages,  \* bound: chat requests in all
    MaxLogins,    \* bound: login requests in all
    DbFails       \* whether a query, or getConnect, may fail

Message == 1 .. MaxMessages
AnyUid == Uids \cup {0}

ASSUME MailAssumption ==
    /\ Sessions \subseteq Nat \ {0}
    /\ Uids \subseteq Nat \ {0}
    /\ MaxMessages \in Nat /\ MaxLogins \in Nat
    /\ DbFails \in BOOLEAN

VARIABLES
    state,      \* each session: open, its peer gone, or closed
    uidOf,      \* client->uid of each session: 0 until it logs in
    logins,     \* the login requests so far
    sent,       \* the chat requests so far
    from, to,   \* sender and recipient of each message
    store,      \* the messages that are a row of an offline_msg table
    pc,         \* where each worker is
    session,    \* the session each worker works for, or 0
    msg,        \* the message each worker has in hand, or 0
    target,     \* recv_client: the session it is for, or 0
    rows,       \* the result set a draining worker has still to go through
    received,   \* how often each message reached a peer
    \* history of each message
    lost,       \* its insert failed, or it was sent to a peer that was gone
    kept,       \* its row was sent, and the delete failed
    twice,      \* two drains had selected it at the same time
    raced,      \* it was stored when its recipient had a session already
    undrained   \* sessions whose login could not read its rows

sessionVars == <<state, uidOf, logins>>
mailVars == <<sent, from, to>>
fateVars == <<lost, kept, twice, raced, undrained>>
localVars == <<session, msg, target, rows>>
vars == <<sessionVars, mailVars, store, pc, localVars, received, fateVars>>

(* GET_TABLE of level 0.                                                   *)
Table(uid) == uid % 10

Init ==
    /\ state = [s \in Sessions |-> "open"]
    /\ uidOf = [s \in Sessions |-> 0]
    /\ logins = 0 /\ sent = 0
    /\ from = [m \in Message |-> 0] /\ to = [m \in Message |-> 0]
    /\ store = {}
    /\ pc = [w \in Workers |-> "idle"]
    /\ session = [w \in Workers |-> 0]
    /\ msg = [w \in Workers |-> 0]
    /\ target = [w \in Workers |-> 0]
    /\ rows = [w \in Workers |-> {}]
    /\ received = [m \in Message |-> 0]
    /\ lost = {} /\ kept = {} /\ twice = {} /\ raced = {}
    /\ undrained = {}

-----------------------------------------------------------------------------
Handled(s) == \E w \in Workers : session[w] = s
Online(uid) == {s \in Sessions : state[s] # "closed" /\ uidOf[s] = uid}

(* The process has not crashed.                                            *)
Alive == \A w \in Workers : pc[w] # "crashed"
Running(w, label) == Alive /\ pc[w] = label
Goto(w, label) == pc' = [pc EXCEPT ![w] = label]

(* The request is done: the worker unlocks client_mutex.                   *)
Return(w) ==
    /\ Goto(w, "idle")
    /\ session' = [session EXCEPT ![w] = 0]
    /\ msg' = [msg EXCEPT ![w] = 0]
    /\ target' = [target EXCEPT ![w] = 0]
    /\ rows' = [rows EXCEPT ![w] = {}]

(* handle_send of message m to session s.                                  *)
SendTo(s, m) ==
    IF state[s] = "open"
    THEN received' = [received EXCEPT ![m] = @ + 1] /\ UNCHANGED lost
    ELSE lost' = lost \cup {m} /\ UNCHANGED received

-----------------------------------------------------------------------------
(* The peers, and close_client.                                            *)

HangUp(s) ==
    /\ Alive
    /\ state[s] = "open"
    /\ state' = [state EXCEPT ![s] = "gone"]
    /\ UNCHANGED <<uidOf, logins, mailVars, store, pc, localVars, received, fateVars>>

(* A logout, a silent client, or a peer that is gone.                      *)
Close(s) ==
    /\ Alive
    /\ state[s] # "closed" /\ ~Handled(s)
    /\ state' = [state EXCEPT ![s] = "closed"]
    /\ uidOf' = [uidOf EXCEPT ![s] = 0]
    /\ UNCHANGED <<logins, mailVars, store, pc, localVars, received, fateVars>>

-----------------------------------------------------------------------------
(* handle_send_message.                                                    *)

StartChat(w, s, uid) ==
    /\ Running(w, "idle")
    /\ state[s] # "closed" /\ ~Handled(s)
    /\ sent < MaxMessages
    /\ sent' = sent + 1
    /\ from' = [from EXCEPT ![sent'] = uidOf[s]]
    /\ to' = [to EXCEPT ![sent'] = uid]
    /\ session' = [session EXCEPT ![w] = s]
    /\ msg' = [msg EXCEPT ![w] = sent']
    /\ Goto(w, "find")
    /\ UNCHANGED <<sessionVars, store, target, rows, received, fateVars>>

(* findClientByUid: the first client in the list with that uid.            *)
Find(w) ==
    /\ Running(w, "find")
    /\ \E s \in Online(to[msg[w]]) :
        /\ \A r \in Online(to[msg[w]]) : s <= r
        /\ target' = [target EXCEPT ![w] = s]
    /\ Goto(w, "deliver")
    /\ UNCHANGED <<sessionVars, mailVars, store, session, msg, rows, received, fateVars>>

FindsNobody(w) ==
    /\ Running(w, "find")
    /\ Online(to[msg[w]]) = {}
    /\ Goto(w, "insert")
    /\ UNCHANGED <<sessionVars, mailVars, store, localVars, received, fateVars>>

Deliver(w) ==
    /\ Running(w, "deliver")
    /\ SendTo(target[w], msg[w])
    /\ Return(w)
    /\ UNCHANGED <<sessionVars, mailVars, store, kept, twice, raced, undrained>>

(* The row goes to a table chosen by the sender's uid.                     *)
Insert(w) ==
    /\ Running(w, "insert")
    /\ store' = store \cup {msg[w]}
    /\ raced' = raced \cup {m \in {msg[w]} : Online(to[m]) # {}}
    /\ Return(w)
    /\ UNCHANGED <<sessionVars, mailVars, received, lost, kept, twice, undrained>>

(* getConnect returned NULL, and the handler an error code.  It is passed  *)
(* to strncpy as the size of the reply, where a negative int is a size_t   *)
(* beyond all memory: the zeros it pads with end the process.              *)
InsertRefused(w) ==
    /\ Running(w, "insert") /\ DbFails
    /\ Goto(w, "crashed")
    /\ UNCHANGED <<sessionVars, mailVars, store, localVars, received, fateVars>>

(* The query failed: that is logged, and the handler returns success.      *)
InsertFails(w) ==
    /\ Running(w, "insert") /\ DbFails
    /\ lost' = lost \cup {msg[w]}
    /\ Return(w)
    /\ UNCHANGED <<sessionVars, mailVars, store, received, kept, twice, raced, undrained>>

-----------------------------------------------------------------------------
(* handle_login.                                                           *)

(* mod_login sets the uid; a client may log in again with another.         *)
StartLogin(w, s, uid) ==
    /\ Running(w, "idle")
    /\ state[s] # "closed" /\ ~Handled(s)
    /\ logins < MaxLogins /\ logins' = logins + 1
    /\ uidOf' = [uidOf EXCEPT ![s] = uid]
    /\ session' = [session EXCEPT ![w] = s]
    /\ undrained' = undrained \ {s}
    /\ Goto(w, "select")
    /\ UNCHANGED <<state, mailVars, store, msg, target, rows, received,
                   lost, kept, twice, raced>>

(* The rows other drains have read and not deleted yet.                    *)
InOtherDrains(w) == UNION {rows[v] \cup {msg[v]} : v \in Workers \ {w}}

(* mod_chat_send_offline_msg reads the table chosen by the client's uid.   *)
Select(w) ==
    LET uid == uidOf[session[w]]
        found == {m \in store : to[m] = uid /\ Table(from[m]) = Table(uid)}
    IN  /\ Running(w, "select")
        /\ rows' = [rows EXCEPT ![w] = found]
        /\ twice' = twice \cup (found \cap InOtherDrains(w))
        /\ Goto(w, "fetch")
        /\ UNCHANGED <<sessionVars, mailVars, store, session, msg, target, received,
                       lost, kept, raced, undrained>>

(* getConnect returned NULL, or the query failed: the login is done.       *)
SelectFails(w) ==
    /\ Running(w, "select") /\ DbFails
    /\ undrained' = undrained \cup {session[w]}
    /\ Return(w)
    /\ UNCHANGED <<sessionVars, mailVars, store, received, lost, kept, twice, raced>>

SendRow(w) ==
    /\ Running(w, "fetch")
    /\ \E m \in rows[w] :
        /\ rows' = [rows EXCEPT ![w] = @ \ {m}]
        /\ msg' = [msg EXCEPT ![w] = m]
        /\ SendTo(session[w], m)
    /\ Goto(w, "delete")
    /\ UNCHANGED <<sessionVars, mailVars, store, session, target,
                   kept, twice, raced, undrained>>

Fetch(w) ==
    /\ Goto(w, "fetch")
    /\ msg' = [msg EXCEPT ![w] = 0]
    /\ UNCHANGED <<sessionVars, mailVars, session, target, rows, received,
                   lost, twice, raced, undrained>>

DeleteRow_AllOfUid(w) ==
    /\ Running(w, "delete")
    /\ store' = {m \in store : to[m] # to[msg[w]]}
    /\ Fetch(w)
    /\ UNCHANGED kept

DeleteRow_Skipped(w) ==
    /\ Running(w, "delete")
    /\ Fetch(w)
    /\ UNCHANGED <<store, kept>>

(* The row goes, whether its message was received or not.                  *)
DeleteRow(w) ==
    /\ Running(w, "delete")
    /\ store' = store \ {msg[w]}
    /\ Fetch(w)
    /\ UNCHANGED kept

(* The result of the delete is not looked at.                              *)
DeleteFails(w) ==
    /\ Running(w, "delete") /\ DbFails
    /\ kept' = kept \cup {msg[w]}
    /\ Fetch(w)
    /\ UNCHANGED store

DrainEnds_Early(w) ==
    /\ Running(w, "fetch")
    /\ Cardinality(rows[w]) <= 1
    /\ Return(w)
    /\ UNCHANGED <<sessionVars, mailVars, store, received, fateVars>>

DrainEnds(w) ==
    /\ Running(w, "fetch")
    /\ rows[w] = {}
    /\ Return(w)
    /\ UNCHANGED <<sessionVars, mailVars, store, received, fateVars>>

-----------------------------------------------------------------------------
WorkerStep(w) ==
    \/ Find(w) \/ FindsNobody(w) \/ Deliver(w)
    \/ Insert(w) \/ InsertRefused(w) \/ InsertFails(w)
    \/ Select(w) \/ SelectFails(w) \/ SendRow(w)
    \/ DeleteRow(w) \/ DeleteFails(w) \/ DrainEnds(w)

Next ==
    \/ \E s \in Sessions :
        \/ HangUp(s) \/ Close(s)
        \/ \E w \in Workers, uid \in Uids : StartChat(w, s, uid) \/ StartLogin(w, s, uid)
    \/ \E w \in Workers : WorkerStep(w)

Spec == Init /\ [][Next]_vars

-----------------------------------------------------------------------------
(* Properties.                                                             *)

TypeOK ==
    /\ state \in [Sessions -> {"open", "gone", "closed"}]
    /\ uidOf \in [Sessions -> AnyUid]
    /\ \A s \in Sessions : state[s] = "closed" => uidOf[s] = 0
    /\ sent \in 0 .. MaxMessages /\ logins \in 0 .. MaxLogins
    /\ from \in [Message -> AnyUid] /\ to \in [Message -> AnyUid]
    /\ store \subseteq Message
    /\ pc \in [Workers -> {"idle", "find", "deliver", "insert", "select", "fetch", "delete",
                           "crashed"}]
    /\ session \in [Workers -> Sessions \cup {0}]
    /\ msg \in [Workers -> Message \cup {0}]
    /\ target \in [Workers -> Sessions \cup {0}]
    /\ rows \in [Workers -> SUBSET Message]
    /\ received \in [Message -> Nat]
    /\ lost \subseteq Message /\ kept \subseteq Message
    /\ twice \subseteq Message /\ raced \subseteq Message
    /\ undrained \subseteq Sessions

(* Where each message is: a row of a table, in the hands of the worker     *)
(* that handles the request, or away.                                      *)
Chatting == {"find", "deliver", "insert", "crashed"}
InHand(m) == \E w \in Workers : msg[w] = m /\ pc[w] \in Chatting
Place(m) ==
    CASE m > sent -> "unwritten"
      [] m \in store -> "stored"
      [] m \notin store /\ InHand(m) -> "hand"
      [] OTHER -> "away"
Tried == {m \in Message : received[m] > 0} \cup lost

Box == INSTANCE Mailbox WITH place <- [m \in Message |-> Place(m)], tried <- Tried

(* The workers, who interleave, implement the mailbox: no message is lost  *)
(* that was not sent or refused by the database, and a drain deletes only  *)
(* rows that have been sent, though others are inserted meanwhile and two  *)
(* drains may have read the same ones (mod_chat.c:42-60,79-88).            *)
ImplementsMailbox == Box!MailboxSpec

(* A message is received twice only if a delete failed, or two sessions    *)
(* logged in with one uid were drained at the same time                    *)
(* (mod_chat.c:73-87): select, send and delete are not a transaction.      *)
AtMostOnce == \A m \in Message : received[m] > 1 => m \in kept \cup twice

(* The sender's and the recipient's uid choose different tables.           *)
Stranded(m) == Table(from[m]) # Table(to[m])

(* When nobody is working for a recipient that is logged in, a message     *)
(* still lies in a table for one of these reasons: it is where no login    *)
(* looks (mod_chat.c:40,72); it was inserted when the recipient was logged *)
(* in already, after a lookup that had found nobody (mod_chat.c:34-48); or *)
(* a query failed.                                                         *)
LeftBehind(m) ==
    m \in store /\ \E s \in Online(to[m]) : ~Handled(s) /\ s \notin undrained
LeftBehindOnlyByRace ==
    \A m \in 1 .. sent : LeftBehind(m) => Stranded(m) \/ m \in raced \cup kept

(* What the comments say of the code: handle.c:70 and mod_chat.c:67        *)
(* "发送离线消息" (send the offline messages).  When a login is done, the  *)
(* messages that were stored for it by people who had logged in have been  *)
(* sent to the client.                                                     *)
LoginSendsOfflineMessages ==
    \A m \in 1 .. sent : LeftBehind(m) => from[m] = 0 \/ m \in raced \cup kept

-----------------------------------------------------------------------------
(* The inductive invariant behind the safety properties and the mailbox.   *)

Written == 1 .. sent
Draining == {"select", "fetch", "delete"}

(* What a worker holds at each place in the code.                          *)
HoldsByPc ==
    \A w \in Workers :
        /\ pc[w] # "idle" => session[w] \in Sessions
        /\ pc[w] \in Chatting \cup {"delete"} <=> msg[w] # 0
        /\ msg[w] # 0 => msg[w] \in Written
        /\ pc[w] = "deliver" => target[w] \in Sessions
        /\ rows[w] \subseteq Written
        /\ rows[w] # {} => pc[w] \in {"fetch", "delete"}

(* A message that is in hand is nowhere else, and nobody got it yet.       *)
InHandIsNew ==
    \A w \in Workers :
        pc[w] \in Chatting => msg[w] \notin store /\ received[msg[w]] = 0

(* Two workers have the same message only if both drains selected it.      *)
Has(w, m) == m \in rows[w] \/ msg[w] = m
SharedOnlyByDrains ==
    \A m \in Written : \A v, w \in Workers :
        v # w /\ Has(v, m) /\ Has(w, m) =>
            m \in twice /\ pc[v] \in Draining /\ pc[w] \in Draining

(* A message that was received, and that nothing went wrong with, will not *)
(* be sent again: its row is gone, or its drain is about to delete it.     *)
Settled(m) ==
    /\ \A w \in Workers : m \notin rows[w]
    /\ m \in store => \E w \in Workers : pc[w] = "delete" /\ msg[w] = m
ReceivedIsSettled ==
    /\ \A m \in Message \ Written : received[m] = 0
    /\ \A m \in Written \ (kept \cup twice) :
        received[m] # 0 => received[m] = 1 /\ Settled(m)
    /\ \A w \in Workers : msg[w] \notin rows[w]

(* What is neither stored nor in hand was sent or refused, and what a      *)
(* drain deletes was sent.                                                 *)
AwayIsTried ==
    /\ \A m \in Written : m \in store \/ InHand(m) \/ m \in Tried
    /\ \A w \in Workers : pc[w] = "delete" => msg[w] \in Tried

(* While a row waits for a session that is logged in, somebody drains it.  *)
Drains(w, s, m) ==
    /\ session[w] = s
    /\ pc[w] = "select" \/ m \in rows[w] \/ (pc[w] = "delete" /\ msg[w] = m)
RowsAreDrained ==
    \A m \in store \ (raced \cup kept) : \A s \in Online(to[m]) \ undrained :
        Stranded(m) \/ \E w \in Workers : Drains(w, s, m)

MailInv ==
    /\ TypeOK /\ store \subseteq Written
    /\ HoldsByPc /\ InHandIsNew /\ SharedOnlyByDrains /\ ReceivedIsSettled
    /\ AwayIsTried /\ RowsAreDrained

=============================================================================
