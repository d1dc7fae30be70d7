----------------------------- MODULE TaskQueue -----------------------------
(***************************************************************************)
(* The task list between the epoll thread and the two workers              *)
(* (spider_tcp_server.c:188-218, handle.c:8-32): a singly linked list of   *)
(* malloc'ed nodes with a head and a last pointer, one mutex, one          *)
(* condition variable.                                                     *)
(*                                                                         *)
(* Nodes live in a heap whose addresses are reused after free.  A step is  *)
(* the code between two points another thread can observe: taking the      *)
(* mutex, a critical section up to its unlock or to the wait that releases *)
(* it, and the work between two critical sections.  `fifo' and `taken'     *)
(* are history variables: the code has only the pointers.                  *)
(*                                                                         *)
(* A definition A_Variant is a wrong form of action A, defined to test     *)
(* that a property can tell it from the code; no specification uses it.    *)
(***************************************************************************)
EXTENDS Integers, Sequences

CONSTANTS
    Workers,      \* the threads that run readtask
    Epoll,        \* the thread that runs serv_epoll
    Addrs,        \* addresses malloc may return for a task
    MaxRequests,  \* bound: how many packets the epoll thread reads
    Null          \* NULL, and the owner of a free mutex

Threads == Workers \cup {Epoll}
Request == 1 .. MaxRequests

ASSUME QueueAssumption ==
    /\ Workers # {}
    /\ Epoll \notin Workers
    /\ MaxRequests \in Nat
    /\ Null \notin Threads
    /\ Null \notin Addrs

VARIABLES
    live,      \* the addresses that are allocated
    request,   \* request[a]: which packet the task at a carries
    next,      \* next[a]: its next field
    taskHead,  \* task_head
    taskLast,  \* task_last
    tMutex,    \* the owner of t_mutex
    pc,        \* where each thread is
    temp,      \* each thread's local: new_task of epoll, temp of a worker
    received,  \* packets read so far; packet n carries number n
    dropped,   \* packets given up because malloc returned NULL
    fifo,      \* history: the addresses in the list, oldest first
    taken      \* history: the packets taken off the list, in that order

heapVars == <<live, request, next>>
listVars == <<taskHead, taskLast, fifo, taken>>
readVars == <<received, dropped>>
vars == <<heapVars, listVars, readVars, tMutex, pc, temp>>

Locked == {"link", "test"}
EpollLabels == {"read", "lockLink", "link"}
WorkerLabels == {"lock", "test", "wait", "relock", "work"}

Goto(t, label) == pc' = [pc EXCEPT ![t] = label]

-----------------------------------------------------------------------------
Init ==
    /\ live = {}
    /\ request \in [Addrs -> {0}]
    /\ next = [a \in Addrs |-> Null]
    /\ taskHead = Null
    /\ taskLast = Null
    /\ tMutex = Null
    /\ pc = [t \in Threads |-> IF t = Epoll THEN "read" ELSE "lock"]
    /\ temp = [t \in Threads |-> Null]
    /\ received = 0
    /\ dropped = {}
    /\ fifo = << >>
    /\ taken = << >>

(* pthread_mutex_lock, and the relock inside pthread_cond_wait.            *)
Lock(t, from, to) ==
    /\ pc[t] = from
    /\ tMutex = Null
    /\ tMutex' = t
    /\ Goto(t, to)
    /\ UNCHANGED <<heapVars, listVars, readVars, temp>>

-----------------------------------------------------------------------------
(* The epoll thread.                                                       *)

(* A whole packet was read: build its task.                                *)
NewTask ==
    /\ pc[Epoll] = "read"
    /\ received < MaxRequests
    /\ received' = received + 1
    /\ \E a \in Addrs \ live :
        /\ live' = live \cup {a}
        /\ request' = [request EXCEPT ![a] = received']
        /\ next' = [next EXCEPT ![a] = Null]
        /\ temp' = [temp EXCEPT ![Epoll] = a]
    /\ Goto(Epoll, "lockLink")
    /\ UNCHANGED <<listVars, dropped, tMutex>>

(* malloc returned NULL: the packet is dropped and its client closed.      *)
NewTaskFails ==
    /\ pc[Epoll] = "read"
    /\ received < MaxRequests
    /\ received' = received + 1
    /\ dropped' = dropped \cup {received'}
    /\ UNCHANGED <<heapVars, listVars, tMutex, pc, temp>>

Waiting == {w \in Workers : pc[w] = "wait"}

(* pthread_cond_signal wakes a waiting worker if there is one; the epoll   *)
(* thread unlocks and reads on.                                            *)
SignalAndUnlock ==
    /\ tMutex' = Null
    /\ temp' = [temp EXCEPT ![Epoll] = Null]
    /\ \/ /\ Waiting = {}
          /\ Goto(Epoll, "read")
       \/ \E w \in Waiting :
            pc' = [pc EXCEPT ![Epoll] = "read", ![w] = "relock"]

UnlockOnly ==
    /\ tMutex' = Null
    /\ temp' = [temp EXCEPT ![Epoll] = Null]
    /\ Goto(Epoll, "read")

Enqueue_NoSignal ==
    /\ pc[Epoll] = "link"
    /\ IF taskHead = Null
       THEN taskHead' = temp[Epoll] /\ next' = next
       ELSE next' = [next EXCEPT ![taskLast] = temp[Epoll]] /\ taskHead' = taskHead
    /\ taskLast' = temp[Epoll]
    /\ fifo' = Append(fifo, temp[Epoll])
    /\ UnlockOnly
    /\ UNCHANGED <<live, request, taken, readVars>>

Enqueue_TestsLast ==
    /\ pc[Epoll] = "link"
    /\ IF taskLast = Null
       THEN taskHead' = temp[Epoll] /\ next' = next
       ELSE next' = [next EXCEPT ![taskLast] = temp[Epoll]] /\ taskHead' = taskHead
    /\ taskLast' = temp[Epoll]
    /\ fifo' = Append(fifo, temp[Epoll])
    /\ SignalAndUnlock
    /\ UNCHANGED <<live, request, taken, readVars>>

Enqueue_InFront ==
    /\ pc[Epoll] = "link"
    /\ next' = [next EXCEPT ![temp[Epoll]] = taskHead]
    /\ taskHead' = temp[Epoll]
    /\ taskLast' = IF taskHead = Null THEN temp[Epoll] ELSE taskLast
    /\ fifo' = <<temp[Epoll]>> \o fifo
    /\ SignalAndUnlock
    /\ UNCHANGED <<live, request, taken, readVars>>

(* task_last is followed only when task_head says the list is not empty.   *)
Enqueue ==
    /\ pc[Epoll] = "link"
    /\ IF taskHead = Null
       THEN taskHead' = temp[Epoll] /\ next' = next
       ELSE next' = [next EXCEPT ![taskLast] = temp[Epoll]] /\ taskHead' = taskHead
    /\ taskLast' = temp[Epoll]
    /\ fifo' = Append(fifo, temp[Epoll])
    /\ SignalAndUnlock
    /\ UNCHANGED <<live, request, taken, readVars>>

-----------------------------------------------------------------------------
(* A worker.                                                               *)

(* pthread_cond_wait: release the mutex and block, in one step.            *)
Wait(w) ==
    /\ pc[w] = "test"
    /\ taskHead = Null
    /\ tMutex' = Null
    /\ Goto(w, "wait")
    /\ UNCHANGED <<heapVars, listVars, readVars, temp>>

(* pthread_cond_wait may return with no signal; the loop tests again.      *)
SpuriousWake(w) ==
    /\ pc[w] = "wait"
    /\ Goto(w, "relock")
    /\ UNCHANGED <<heapVars, listVars, readVars, tMutex, temp>>

(* task_last is left as it is, even when the list becomes empty.           *)
Dequeue(w) ==
    /\ pc[w] = "test"
    /\ taskHead # Null
    /\ temp' = [temp EXCEPT ![w] = taskHead]
    /\ taskHead' = next[taskHead]
    /\ fifo' = Tail(fifo)
    /\ taken' = Append(taken, request[taskHead])
    /\ tMutex' = Null
    /\ Goto(w, "work")
    /\ UNCHANGED <<heapVars, taskLast, readVars>>

Finish_NoFree(w) ==
    /\ pc[w] = "work"
    /\ temp' = [temp EXCEPT ![w] = Null]
    /\ Goto(w, "lock")
    /\ UNCHANGED <<heapVars, listVars, readVars, tMutex>>

(* The handler has run: free the task and start over.                      *)
Finish(w) ==
    /\ pc[w] = "work"
    /\ live' = live \ {temp[w]}
    /\ temp' = [temp EXCEPT ![w] = Null]
    /\ Goto(w, "lock")
    /\ UNCHANGED <<request, next, listVars, readVars, tMutex>>

-----------------------------------------------------------------------------
EpollStep ==
    \/ NewTask
    \/ NewTaskFails
    \/ Lock(Epoll, "lockLink", "link")
    \/ Enqueue

WorkerStep(w) ==
    \/ Lock(w, "lock", "test")
    \/ Lock(w, "relock", "test")
    \/ Wait(w)
    \/ Dequeue(w)
    \/ Finish(w)

Next == EpollStep \/ \E w \in Workers : WorkerStep(w) \/ SpuriousWake(w)

Spec == Init /\ [][Next]_vars

(* Every worker that can run is run, every handler returns, and the epoll  *)
(* thread leaves its critical section.  Nothing is assumed of packets      *)
(* arriving, of spurious wakeups, or of which thread gets a contended      *)
(* mutex.                                                                  *)
FairSpec ==
    /\ Spec
    /\ \A w \in Workers : WF_vars(WorkerStep(w))
    /\ WF_vars(Enqueue)

-----------------------------------------------------------------------------
(* Properties.                                                             *)

TypeOK ==
    /\ live \in SUBSET Addrs
    /\ request \in [Addrs -> Request \cup {0}]
    /\ next \in [Addrs -> Addrs \cup {Null}]
    /\ taskHead \in Addrs \cup {Null}
    /\ taskLast \in Addrs \cup {Null}
    /\ tMutex \in Threads \cup {Null}
    /\ pc \in [Threads -> EpollLabels \cup WorkerLabels]
    /\ temp \in [Threads -> Addrs \cup {Null}]
    /\ received \in 0 .. MaxRequests
    /\ dropped \in SUBSET Request
    /\ fifo \in Seq(Addrs)
    /\ taken \in Seq(Request)

(* The pointers always spell the queue: following next from task_head      *)
(* visits exactly the tasks not yet taken, and task_last is the last of    *)
(* them whenever the code follows it (spider_tcp_server.c:214).  A stale   *)
(* task_last left by an emptied list (handle.c:19) is never written        *)
(* through.                                                                *)
QueueIsList ==
    /\ taskHead = IF fifo = << >> THEN Null ELSE fifo[1]
    /\ fifo # << >> => taskLast = fifo[Len(fifo)]
    /\ \A i \in 1 .. Len(fifo) :
         next[fifo[i]] = IF i = Len(fifo) THEN Null ELSE fifo[i + 1]

(* No task is used after it was freed, and none leaks: an allocated task   *)
(* is in the list, at one place, or in the hands of exactly one thread     *)
(* (handle.c:18-28).                                                       *)
Queued == {fifo[i] : i \in 1 .. Len(fifo)}
InHand == {temp[t] : t \in Threads} \ {Null}
OneOwner ==
    /\ live = Queued \cup InHand
    /\ Queued \cap InHand = {}
    /\ \A i, j \in 1 .. Len(fifo) : fifo[i] = fifo[j] => i = j
    /\ \A t, u \in Threads : t # u /\ temp[t] = temp[u] => temp[t] = Null

(* Packets are taken in the order in which they were read, whichever       *)
(* worker takes them.                                                      *)
InOrder ==
    /\ \A i, j \in 1 .. Len(taken) : i < j => taken[i] < taken[j]
    /\ \A i, j \in 1 .. Len(fifo) : i < j => request[fifo[i]] < request[fifo[j]]
    /\ \A i \in 1 .. Len(taken), j \in 1 .. Len(fifo) : taken[i] < request[fifo[j]]

(* A packet that was read is queued or taken, still in the epoll thread's  *)
(* hands, or was dropped because malloc failed: no interleaving loses one. *)
NothingLost ==
    \A r \in 1 .. received :
        \/ r \in dropped
        \/ \E i \in 1 .. Len(taken) : taken[i] = r
        \/ \E a \in Queued \cup ({temp[Epoll]} \ {Null}) : request[a] = r

(* There is no lost wakeup: the workers are not all asleep in              *)
(* pthread_cond_wait (handle.c:15) while a task is in the list.            *)
NoLostWakeup == fifo # << >> => Waiting # Workers

(* Every packet that is linked into the list is handled to the end.        *)
Busy(r) == \E w \in Workers : temp[w] # Null /\ request[temp[w]] = r
IsQueued(r) == \E a \in Queued : request[a] = r
Handled(r) == ~Busy(r) /\ \E i \in 1 .. Len(taken) : taken[i] = r
EveryTaskHandled == \A r \in Request : IsQueued(r) ~> Handled(r)

(* The list with its mutex and condition variable is a queue.              *)
LastSubmitted ==
    IF fifo # << >> THEN request[fifo[Len(fifo)]]
    ELSE IF taken # << >> THEN taken[Len(taken)] ELSE 0
Fifo == INSTANCE RequestFifo WITH
    Idle <- 0,
    last <- LastSubmitted,
    queue <- [i \in 1 .. Len(fifo) |-> request[fifo[i]]],
    working <- [w \in Workers |-> IF temp[w] = Null THEN 0 ELSE request[temp[w]]]
ImplementsFifo == Fifo!FifoSpec

-----------------------------------------------------------------------------
(* The inductive invariant behind these properties.                        *)

MutexMatches ==
    \A t \in Threads : tMutex = t <=> pc[t] \in Locked

(* A thread's local pointer is set exactly where its code uses it.         *)
TempMatchesPc ==
    /\ pc[Epoll] \in EpollLabels
    /\ temp[Epoll] # Null <=> pc[Epoll] # "read"
    /\ temp[Epoll] # Null =>
         /\ received \in Request
         /\ request[temp[Epoll]] = received
         /\ next[temp[Epoll]] = Null
    /\ \A w \in Workers :
        /\ pc[w] \in WorkerLabels
        /\ temp[w] # Null <=> pc[w] = "work"
        /\ temp[w] # Null => request[temp[w]] \in Request

(* The epoll thread's packet is younger than everything queued or taken.   *)
NewestLast ==
    LET newest == IF temp[Epoll] = Null THEN received + 1 ELSE received
    IN  /\ \A i \in 1 .. Len(taken) : taken[i] < newest
        /\ \A i \in 1 .. Len(fifo) : request[fifo[i]] \in 1 .. newest - 1

QueueInv ==
    /\ TypeOK
    /\ MutexMatches
    /\ TempMatchesPc
    /\ QueueIsList
    /\ OneOwner
    /\ InOrder
    /\ NewestLast
    /\ NothingLost
    /\ NoLostWakeup

=============================================================================
