# spider chat server: a TLA+ verification project

The program is a TCP chat server in C: five threads, a list of connected
clients, a list of tasks, a pool of MySQL connections, and offline messages in
MySQL tables. Hardly any of it has a test. Its difficult part is not what a
function computes but who does what at the same time: raw pointers travel from
the epoll thread to the workers while three other kinds of thread free what
they point to. The modules here describe that part, TLC checks it on small
instances, and the TLA+ proof system (TLAPS) proves most of their safety for
every size.

## 1. Inventory

### Threads and how they meet

| thread | code | reads | writes |
| --- | --- | --- | --- |
| `main` | spider_tcp_server.c:20-123 | the listening socket | client list (append), epoll set |
| `serv_epoll` | spider_tcp_server.c:130-239 | epoll events, sockets, client list | task list (append), closes sockets at end of stream |
| `readtask` (two) | handle.c:8-138 | task list, client list, MySQL | task list (take), sockets (answers), clients' uid and keepalivetime, closes at logout and at a wrong heartbeat |
| `serv_heartbeat` | spider_tcp_server.c:246-265 | client list every 40 s | closes clients silent for 600 s |

They meet in the client list (no lock), the task list (`t_mutex`, `t_cond`), the
`client_mutex` of each client (workers only), the connection pool (two mutexes),
the kernel's socket numbers (reused at once), and the structure `gmtime` returns.

### Components

**Connection pool** (db.c). State: a fixed list of connections with an `is_use`
flag, `conn_sum`, a count of all connections, two mutexes. Operations:
`initMysql`, `getConnect`, `destoryConnect`. Hard: initMysql can fail part-way
and main goes on; an extra connection is closed outside the mutex that guards
the count; the friend-list handler never gives its connection back. Correct if:
one thread per connection, the counters agree with the lists, the limit holds,
every path unlocks.

**Task list** (spider_tcp_server.c:188-218, handle.c:8-32). State: `task_head`,
`task_last`, the tasks, mutex and condition variable. Operations: enqueue,
wait and dequeue, finish. Hard: lost and spurious wakeups, a stale `task_last`,
memory that is reused. Correct if: it is a FIFO that loses nothing, and no
worker sleeps for ever beside a task.

**Client list** (spider_function.c:65-226). State: `fd2clients`, doubly linked
nodes with a copy of the head in `tail`; a head with fd 0 is the empty list.
Operations: `init_fd2client`, `add_fd2client`, `is_exists_fd`, `find_fd2client`,
`findClientByUid`, `del_fd2client`, `close_client`, `close_client2`, destory's
loop. Hard: four ways to delete a node, and four threads with no lock: main fills
a node field by field, serv_heartbeat keeps a pointer while it closes. Correct if:
the pointers spell the open connections, in both directions, and a walk ends at
the client it looked for.

**Connections across the threads** (main, serv_epoll, serv_heartbeat, readtask
and its handlers). State: where each thread is and which client and socket
number it holds. Hard: everything between "a pointer was copied" and "it was
used"; an epoll event for a number that has a new owner; a mutex that is
unlocked, destroyed and freed while others wait for it. Correct if: nobody uses
a freed client, an answer goes to who asked, nothing leaks, everyone is answered.

**Packet reader** (spider_function.c:242-330, spider_tcp_server.c:141-206).
State: the position in the byte stream, the header read so far. Hard: TCP cuts
the stream anywhere, the socket is edge-triggered, a recv that returns too
little drops what was read. Correct if: each task is the body of one packet,
nobody is closed who is still there, no event is missed.

**Chat, login, offline messages** (mod_chat.c, mod_login.c). State: the uid of
each client and the rows of ten tables. Operations: chat (look up, then send or
insert), login (set uid, select, then send and delete row by row). Hard: two
workers with nothing between lookup and use; queries that fail half-way.
Correct if: a message is neither lost nor duplicated and is delivered at login.

**Logging** (log.c). State: the directories and gmtime's structure. Operations:
`log_write`, `dir_exists`. Hard: test-then-create, and shared static memory.

**JSON parser** (json.c, a bundled library with changes: mod_login and mod_chat
follow `_reserved.next_alloc` from value to value). State: position and flags of
the loop over the characters, the tree of values, the chain in which they were
allocated. Operations: `json_parse`, which goes over the text twice (count, then
fill), and `json_value_free`. Hard: the second pass trusts what the first one
counted; malloc can fail at any value; a chain pointer shares its memory with
`object_mem`; the callers find names by adding up lengths. Correct if: it accepts
what the grammar says and returns what the text says, it writes only into what
it counted, and all memory comes back.

**Friend list** (mod_friend.c), **start-up and shutdown** (main, destory),
**configuration** (strkv, config; no caller), **sample client** (spider_client.c,
an older protocol), **redis** (empty files).

The hazards of each, at their lines, are in `PROJECT.json`.

## 2. Modules

Each module names the functions it models in its header; `map` in `PROJECT.json`
has the lines of every definition.

| module | models | its actions, by function |
| --- | --- | --- |
| `DbPool` | db.c, mod_friend.c's leak | LinkConnect, LinkFails: initMysql. CallGetConnect, LockNormal, Scan, ScanFallsOff, Mark, Drained, LockCurrent, OpenExtra, OpenReturnsNull: getConnect. CallDestoryConnect, GiveBack, CloseExtra, Uncount: destoryConnect. FriendListReturns: the caller that leaks |
| `ConnLease` | what the pool promises | Grant, Return, Drop |
| `TaskQueue` | the task list | NewTask, NewTaskFails, Enqueue: serv_epoll. Lock, Wait, SpuriousWake, Dequeue, Finish: readtask |
| `RequestFifo` | what the task list promises | Submit, Take, Complete |
| `ClientRegistry` | the client list, on pointers | Accept, AcceptUnlisted, LeaveAccept: main. CloseUnknown: serv_epoll. CloseClient, CloseClient2: both close functions, each with one of ResetHead, MoveHead, UnlinkMiddle, UnlinkLast of del_fd2client. DestoryLink, Exit: destory |
| `RegistryRaces` | the client list, one access to a field a step | Accept to AddLink: add_fd2client. Search, Start, Match, Step, Found, NotFound, Uid: the three searches. Wake, Beat, Age, Expired: serv_heartbeat. FreeClient, DelPrev to FreeNode, CloseFd: the two close functions with del_fd2client |
| `ChatServer` | the five threads, their clients and sockets | Accept, Add, Watch: main. Wait to NewTask: serv_epoll. Tick, Visit, WalkEnds: serv_heartbeat. Take to Unlock: readtask. Find to CloseFd: close_client and close_client2, shared by all. Send, HangUp: the peers |
| `PacketReader` | read_head and the body, on a byte stream | Arrive, HangUp: the peer and the network. Wait, RecvLength, RecvField, RecvBody, RecvNothing: serv_epoll |
| `OfflineMail` | chat, login, offline tables | StartChat, Find, FindsNobody, Deliver, Insert and its two failures: a chat. StartLogin, Select, SendRow, DeleteRow, DrainEnds and the failures: a login |
| `Mailbox` | what the server promises of a message | Post, Store, Dispose, Try, Remove |
| `JsonParser` | json_parse, json_value_free, how mod_login and mod_chat read the result | one action per branch of the loop: StringChar to NumberEnds; Finish: the end of a pass; AllocFails, Fails; FreeChain to FreeTreeEnds: the two ways memory is freed |
| `JsonGrammar` | what a JSON text is and stands for, without a parser | none: sets of texts, built from shorter ones |
| `LogDir` | log.c | Begin, SetYear, SetMonth, Access, Mkdir, MkdirFails, NameNext, NameFile, Open, Write; AskTime: other callers of gmtime |
| `...Proofs` | the theorems about `DbPool`, `TaskQueue`, `ClientRegistry`, `ChatServer`, `PacketReader`, `OfflineMail`, `LogDir`, `RegistryRaces` | |
| `MC...` | TLC instances | symmetry; request bodies for the parser |

A step is what a thread does between two points where another thread can see
it. Where the code has a lock, that is a critical section; where it has none
(clients, sockets, log directories), every access to shared state is a step.
The parser runs in one thread; its step is one turn of the loop.

How the modules fit together: `ChatServer` takes the task list as a sequence,
which is what `TaskQueue` shows and `QueueImplementsFifo` proves of it; a list
operation as one step on an intact list, which `ClientRegistry` justifies only
until `fd2clients` dangles (finding 1), and `RegistryRaces` only while no two
calls change neighbouring nodes; a packet as read whole or not at all, which
`PacketReader` examines. `OfflineMail` takes a query as holding a connection of
its own, which is `LeaseExclusive`, and a request as one that was understood,
which is what `JsonParser` is about.

**The client list twice.** `ClientRegistry` takes an operation as one step and
has everything that comes back: addresses, sockets, the final destory. It answers
whether the algorithm is right, and is small enough to be proved. `RegistryRaces`
takes an access as one step and gives every node and client an address of its
own. It answers what is left of the algorithm without a lock. The threads
are followed to the first of four events (`Sound`): a use of freed memory or of NULL,
a wrong answer, a dangling `fd2clients`, or two calls at neighbouring nodes, which
may lose or relink a node. The properties say what cannot happen before that, and
which of these events needs what.

**Undefined behaviour.** In `ChatServer`, "client n" is the struct made for the
n-th connection, so that a use after free is seen even if malloc returns the
address again. Such a use sets `broken` and ends the behaviour: "own" if the
thread was working for that client, "other" if it met it while walking the list
for another. The properties claim what holds up to there, and
`OwnNeverStale` claims that, with polite peers, the first kind is never reached.
In `ClientRegistry` the behaviour ends when `fd2clients` dangles, in `DbPool`
when NULL is dereferenced, in `OfflineMail` and `LogDir` when the process
crashes, in `JsonParser` at `pc = "undefined"`.

**Polite peers.** Without locks around clients, hardly anything holds for
arbitrary peers: a peer that sends two requests and hangs up can make a worker
use a freed client. `Benign = TRUE` restricts the peers, not the server: they
await the answer to a request before they send another or hang up, and are
never silent up to the limit of the heartbeat; malloc succeeds. What still
holds for all others is checked with `Benign = FALSE`.

## 3. What is checked

`PROJECT.json` lists the runs, and for every property a mutant: a plausible bug
(a dropped unlock, a swapped order, an off-by-one) under which TLC reports that
property violated. The mutants are the definitions named `A_Variant` next to `A`.

| run | bounds | why they are enough | shows |
| --- | --- | --- | --- |
| `pool` | 3 threads, 2 normal connections, limit 3, 2 addresses for extras | one thread more than normal connections, one address more than extras allowed: exhaustion, reuse and the limit all occur | exclusive use, counters, limit, unlocking, a lease |
| `queue` | 2 workers (as in the code), 3 addresses, 4 packets | the list gets 3 long, addresses are reused, malloc can fail | FIFO, nothing lost or freed twice, no lost wakeup |
| `registry` | 3 nodes, sockets and clients | first, middle and last node are three different ones; memory is reused | the list is right until it dangles, and dangles in one way only |
| `registry_races` | main, the heartbeat and one thread that searches and closes, 4 connections | two threads that delete and one that appends, and a list of up to four nodes: pairs of calls at equal, neighbouring and distant nodes, and a refill of the head | the list survives, and each misuse has one of the causes named |
| `server_polite` | 2 connections on 2 sockets, 2 packets of login, chat, logout, limit of 1 round, 2 rounds, no symmetry | a socket number is reused or two connections live side by side; both endings of a request; both are timed out | own clients never stale, events known, answers reach who asked, no peer forgotten |
| `server_impolite` | 2 connections that share 1 socket number, 2 packets of logout, right and wrong heartbeat, limit of 0 rounds | the second connection always has the first one's number | client_mutex excludes, the list agrees with the kernel, nothing leaks |
| `reader` | 3 packets of 18 bytes, the second refused, pieces of every size at every moment; bytes of base 2 | a third packet shows whether the reader finds its step again after a loss | when tasks are whole, which headers are freed, when the reader loses its step or stalls |
| `mail` | 2 workers, 2 sessions, 2 messages, 3 logins, uids 1 and 11 | 1 and 11 share a table; sessions can log in again as each other | the workers implement the mailbox, and the causes of each duplicate and leftover |
| `log` | 2 threads and one other caller of gmtime, 3 months of a two-month year, 3 calls | the end of a month and of a year; a thread that failed calls again | one line lost per directory at most, and the only cause of a misfiled line |
| `json` | every text of up to 6 symbols (of 16, 7 inside strings), and 951 bodies of one, two or four entries | every branch of the loop is taken but those section 6 names, as is an object with an entry (`{"":1}`), an array in an array, an array of two; the bodies have each entry right or of another type, and the names right, one of them wrong, or the first ones joined to one name by NULs | language and values of the grammar, buffers as counted, memory back, handlers read their own entries |

Two more runs each refute one sentence of the repository (section 5):
`registry_finds_sockets` and `mail_login_drains`.

Ten properties have a theorem and no run, because a checked property says as
much on the small instance: `WithinLimit` and `ExhaustedForGood` of the pool,
`InOrder` and `NothingLost` of the task list (`ImplementsFifo` contains both),
`ExitLeavesNoClient`, `FreedUnderHead` and `NodesAccounted` of the client list,
and the three modules' `TypeOK`. The inductive invariants of the other modules
(`ServerInv`, `PoliteInv`, `ReaderInv`, `MailInv`, `LogInv`, `RacesInv`) were
checked by TLC before they were proved (`RacesInv` on the first 3.5 million states
of two callers and three connections, the others on the instances of the runs),
but are not listed there: they say how the properties come about. So does the
`TypeOK` of each module (that of `RegistryRaces` is in `RegistryRacesProofs`).

`CHECK_DEADLOCK FALSE` appears where a behaviour may rightly end: the peers have
nothing more to say and the threads wait (`ChatServer`, `PacketReader`), or
the requests are used up (`OfflineMail`, `LogDir`), the text is parsed
(`JsonParser`), or the threads are no longer followed (`RegistryRaces`). `DbPool`,
`TaskQueue` and `ClientRegistry` are checked for deadlock; a crash or an exit
there is a step that changes nothing.

### Fairness

* `TaskQueue`: weak fairness of each worker's steps and of the enqueue, not of
  reading another packet or of spurious wakeups. The scheduler runs every thread
  that can run; a mutex is held for a few instructions only.
* `DbPool`: weak fairness of each thread. No critical section blocks, apart from
  mysql_real_connect, which returns or fails.
* `ChatServer`: weak fairness of the epoll thread, the heartbeat thread, each
  worker, and of main between accept and epoll_ctl. None of them waits for
  anything but what its guard says. Nothing is assumed of the peers.
  A thread that is about to use a freed client does it (so that liveness cannot
  fail by waiting for ever at that point).
* `PacketReader`: weak fairness of the epoll thread: every recv is non-blocking.
* `JsonParser`: weak fairness of the one thread there is.

## 4. What is proved

Forty-seven theorems, for any number of threads, connections, packets, addresses,
messages and months, from no hypothesis but the constants' assumptions, which TLC
evaluates in the runs. They are theorems about the modules, with what section 2 says
each takes for granted: above all, `ChatServer` has a list operation as one step
on an intact list. Finding 1 breaks the list with three connections; with two, an
append that races with the head's reset can lose a node (spider_function.c:105,
:124). The theorems of `ChatServerProofs` say nothing of the program after that;
`RegistryRaces` has what the code does without a lock.

The assumptions say that bounds are numbers and that threads are distinct; that
the log has threads at all; and of the packet reader that a header's length field
can hold the length of a body. `Benign`, where a theorem assumes it, is a
constant: its peers are polite for ever.

* **`DbPoolProofs`.** `PoolInv` is inductive: types, mutexes match program
  counters, a thread's pointer matches its program counter, connections in use
  are exclusive and accounted for, counters agree. The counters are cardinalities,
  so the steps that change one cite the library's facts about finite sets.
  `CountersAgree` alone is not inductive: that Mark may subtract one needs that
  the connection found is still unused, which follows from `LocksMatch`.
  From it: `TypeCorrect`, `LeaseExclusive`, `NothingLeaksElsewhere`,
  `CountersCorrect`, `LimitRespected`, `NullNeedsPartialInit`,
  `ExhaustionIsFinal`, and `PoolImplementsLease` step by step.
* **`TaskQueueProofs`.** `QueueInv` is inductive: `QueueIsList` needs `OneOwner`
  (a new task's address is not in the list), `NoLostWakeup` needs `MutexMatches`
  (nobody enqueues between a worker's test and its wait), `InOrder` needs
  `NewestLast`. From it: seven theorems, the last being `QueueImplementsFifo`.
* **`ClientRegistryProofs`.** `RegistryInv` is inductive; most of its parts are
  conditional on `fd2clients` not dangling. The deletions share `WithoutFacts` and
  `DeleteKeepsOthers` on the shortened list, and each of the four branches of
  del_fd2client has a lemma. From it: seven theorems, among them that the list
  can only break after the head was replaced (`OnlyReplacementBreaks`) and how
  (`BreaksBySelfPrev`, an action property).

* **`ChatServerProofs`, whatever the peers do,** on an intact list. `ServerInv` is inductive. Its
  first half says what a thread's locals are good for at each place in the code
  (`Fits`): a pointer and a socket number that are used together once belonged
  together, though neither need be alive. `HandlersExclusive` needs `LockHeld`, which
  has the same exception. `NothingLeaks` needs that each client is freed by one
  thread (`OneFrees`) and listed once, and that main's new client is nobody
  else's (`NotListedYet`); `ListTellsTruth` needs that a closer's socket is still
  its client's (`OwnSocket`). The other steps share `CalmStep`: most of them leave
  the list, the sockets and the freed clients alone.
* **`ChatServerProofs`, polite peers,** on an intact list. `PoliteInv` is inductive together with
  `ServerInv`, if `Benign`. The three properties are about pointers, but what
  makes them true is about requests: a client has one request, and it is in one
  place (`OneRequest`), so whoever closes the client is the only one that has to
  do with it (`CloserAlone`). It was found by asking which thread could be in the
  way of which closer: the epoll thread closes a connection whose peer hung up
  when nothing was under way (`HungUpIdle`), the heartbeat one that timed out
  when nothing was (`TimedOutIdle`), a worker the one whose request it holds. From
  there `OwnNeverStale` takes `OpenAndFreed` (an open socket of a freed client has
  a closer), `EventsAreKnown` takes `EventIsMeant`, and `RepliesReachSender` takes
  `Connected`. `TakeTurns` is there for the short time in which the first worker
  has answered but not unlocked and the second has the client's next task.
* **`PacketReaderProofs`.** `ReaderInv` is inductive, for bodies and numbers of any
  size. Most of it is arithmetic on the position in the stream. While no recv
  was cut and no field refused, the reader is where its tasks say (`InStep`);
  after that, a right flag shows that the length before it was read where a
  length is (`FieldKnown`), which is why `TasksAreWhole` still holds of the tasks
  made then. `StallsOnlyBehindAnother` is the
  accounting of edges (`EdgeCovers`).
* **`OfflineMailProofs`.** `MailInv` is inductive: what a worker holds, that a
  message in a chat's hands is nowhere else, that two workers share a message only
  if both drain (`SharedOnlyByDrains`), and that a message received without mishap
  will not be sent again (`ReceivedIsSettled`). `AtMostOnce` and
  `LeftBehindOnlyByRace` follow; `MailImplementsMailbox` shows, step by step, that
  the handlers do with each message only what `Mailbox` allows.
* **`LogDirProofs`.** `LogInv` is inductive: how much of its path a thread has
  named, that directories come after their parents, and for each directory a count
  of those who lost the race to make it or will (`OneMakesIt`), with the library's
  facts about finite sets. The second half, `OnOwnWay`, is claimed only of threads
  whose date nobody overwrote.

* **`RegistryRacesProofs`.** `RacesInv` is inductive, for any number of callers and
  connections. `order` is the list as it is without the calls under way. The
  fields spell it (`NextChain`, `PrevChain`, `Contents`, `HeadFirst`) but for those
  next to a node that some thread is deleting, and how these differ follows from
  the deleter's label alone (`Bridged`, `Unlinked`, `SelfLinked`, `PassedOver`).
  Two differences could only meet at neighbouring nodes, which `~Clash` excludes:
  that is why calls at distant nodes do no harm without a lock. A deleter has taken
  the branches of del_fd2client that its node's place calls for (`RightBranch`),
  and the place stays what it was, because nobody else changes the nodes beside
  it. What threads that only walk may
  rely on is `Held` (their node is alive or was freed during their call), `Looked`
  (what they read of it still holds or it was emptied during their call),
  `NotPassed` (is_exists_fd has not gone past the node it looks for) and `Unseen`
  (nobody comes to a node before main links it). There is a lemma for each action
  and, below it, steps for each part. `ListSurvives` says of the least set closed
  under `next` that it holds every settled node: `UpTo` gives the induction along
  `order`, for the interval of its indices, from the library's pigeonhole
  principle. The attempt showed that `Match` had been written as a CASE with
  guards that can both hold, which is a choice TLC makes and the language leaves
  open; it is a nested IF now, in the order of the code's tests. From the
  invariant: `RacesInvariant`, `WalksStayInUse`, `StaleNodesWereHeld`,
  `NoClientButAtHead`, `AnswersAreTrue`.

Only model-checked: all liveness (`MutexReleased`, `EveryTaskHandled`,
`NoPeerForgotten`, `HangUpNoticed`, `ParserEnds`), which is out of the prover's
reach, as are `ENABLED` and fairness; and `JsonParser`: `BuffersFit`,
`MemoryAccounted` and `HandlersReadTheirEntries` compare what the two passes do
with the same text, and `ParsesTheGrammar` defines the values of a text by
recursion over it. An induction along an interval can be had as above, but not
what a recursive definition computes for every text.

## 5. Where the code and its comments disagree

1. `FindsEverySocket`: del_fd2client gives a new head its own address as prev
   (spider_function.c:117). Close the first of three clients, then the second:
   `fd2clients` points to freed memory and the third cannot be found.
2. `LoginSendsOfflineMessages`: handle.c:70 sends the offline messages after a
   login, but the row went to the table of the sender's uid and is looked for in
   that of the recipient's.

Seen while modelling, without a run of their own:

* spider_tcp_server.c:161 shuts a client down that closed, but a client whose last
  bytes arrive with its hang-up is not noticed: the one edge of the edge-triggered
  socket is spent on the bytes. `HangUpNoticed` therefore asks for an edge and
  nothing unread. The heartbeat gets such a client after 600 seconds. (The model
  has no reset connections, which give another event.)
* spider_function.c:270: at the end of a stream read_head returns without freeing
  its header; `HeadsFreed` says that this is the only leak of one.
* spider_tcp_server.c:98: an accept that fails, for whatever reason, ends the loop
  and with it the server.
* handle.c:23: two workers take two packets of one client in order, but may lock
  its mutex in the other order (`ChatServer` allows it, no property excludes it).
* `RegistryRaces`: while the head's node is filled or emptied (spider_function.c:84,
  :121) others see its fd without its client (`NullOnlyAtHead`), and is_exists_fd
  may match one connection's number and return the next one's client
  (`NeverMisled` names that "refilled"). serv_heartbeat keeps the next node's
  address while it closes one; another thread may free it (`StaleOnlyIfHeld`).
* json.c:409: a text that starts with `]` reads `top->type` through a NULL `top`
  (`StartsWithBracket`).
* json.c:121-137 and :808-816: if malloc fails in the second pass, the child of the
  root that is being built stays behind with what it has, and if it fails for the
  root's own buffer the children are looked for in that missing buffer
  (`MemoryAccounted` states both exactly).
* json.c accepts a comma before a closing bracket and a lone minus
  (`JsonGrammar` names both liberties).
* mod_chat.c:18-28 and mod_login.c:20-47 compare names with strcmp, which stops at
  a NUL, and a name with a `\u0000` in it has one (json.c:316-320). `key` then goes
  on inside the same name, which may spell the next one as well, while the value is
  the next entry's, whatever that is called: `{"recv_id\u0000msg":5,"x":"hello"}` is
  a chat. `HandlersReadTheirEntries` says that the values stay the next entries'
  own, and that `key` is at their names just when no name before has a NUL.
* mod_chat.c:18-28 does not ask how many entries the body has: with none or one it
  reads a name or a value that is not there.
* spider_tcp_server.h:140 calls a node's tail the head pointer; it is the head of
  when the node was added. Nothing follows it.
* spider_tcp_server.c:187 says that reading a packet modifies the heartbeat time;
  only the heartbeat command does (HandleHeartbeat is the only action that
  resets `age`).
* spider_tcp_server.h:107 gives a length four bytes; RecvLength accepts fewer, as
  read_head does, and TasksAreWhole says what then becomes of the body.
* log.c:3 says that dir_exists creates a missing directory; of two threads that do
  so at once, one fails and drops its line (`FewDropped` says how many).

## 6. What is not modelled

* Cancellation of the threads at shutdown (a cancelled worker keeps its mutexes);
  several reported events in one epoll_wait (`ChatServer` takes one at a time).
* strkv and config: pure, and nothing calls them.
* In json.c: the value of a double, the byte order mark, the settings json_parse
  leaves at 0 (a memory limit, other allocators), error texts, the limits near 2^32.
  Of the `\u` escapes, those for one byte other than `\u0000` are taken as any other
  escaped character, which also leaves one byte.
* Texts: requests and replies, SQL, the friend list's JSON, log lines.
* spider_client.c, which speaks another protocol; socket set-up; redis.c (empty).

## 7. Plan

Done, in this order: `DbPool`, `TaskQueue`, `ClientRegistry` with their proofs;
`ChatServer`; `PacketReader`; `OfflineMail`; `LogDir`; `RegistryRaces`;
`JsonParser` against `JsonGrammar`; `Mailbox` as what `OfflineMail` implements.

Then the proofs about `PacketReader`, `LogDir`, `OfflineMail` and `ChatServer`,
and last that of `RegistryRaces`.

Next, to extend the model:

1. `Shutdown`: destory and pthread_cancel at each cancellation point, with the
   mutexes that a cancelled thread keeps.
2. `Config`: strkv and config as recursive functions against a reference
   definition (config erases the caller's key after the first line that does
   not match, spider_function.c:399), once something calls them.
3. Several connections in one epoll_wait, with the packet reader's cuts.
