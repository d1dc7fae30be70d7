-------------------------- MODULE TaskQueueProofs --------------------------
(***************************************************************************)
(* Proofs about the task list for any number of workers, of addresses and  *)
(* of packets.  QueueInv is inductive; the properties follow from it.      *)
(***************************************************************************)
EXTENDS TaskQueue, SequenceTheorems, TLAPS

LEMMA InitQueue == Init => QueueInv
<1> SUFFICES ASSUME Init PROVE QueueInv
  OBVIOUS
<1> USE QueueAssumption DEF Init
<1>1. TypeOK
  <2>1. pc \in [Threads -> EpollLabels \cup WorkerLabels]
    BY DEF EpollLabels, WorkerLabels
  <2>2. /\ temp \in [Threads -> Addrs \cup {Null}]
        /\ next \in [Addrs -> Addrs \cup {Null}]
        /\ request \in [Addrs -> Request \cup {0}]
    OBVIOUS
  <2>3. fifo \in Seq(Addrs) /\ taken \in Seq(Request)
    OBVIOUS
  <2> QED
    BY <2>1, <2>2, <2>3 DEF TypeOK
<1>2. MutexMatches
  BY DEF MutexMatches, Locked, Threads
<1>3. TempMatchesPc
  BY DEF TempMatchesPc, Threads, EpollLabels, WorkerLabels
<1>4. QueueIsList /\ InOrder /\ NewestLast /\ NothingLost /\ NoLostWakeup
  BY DEF QueueIsList, InOrder, NewestLast, NothingLost, NoLostWakeup
<1>5. OneOwner
  BY DEF OneOwner, Queued, InHand
<1> QED
  BY <1>1, <1>2, <1>3, <1>4, <1>5 DEF QueueInv

-----------------------------------------------------------------------------
(* One lemma per step.                                                     *)

(* Steps that move a program counter or the mutex leave the list alone.    *)
LEMMA SameQueue ==
  ASSUME QueueInv, UNCHANGED <<heapVars, listVars, readVars, temp>>
  PROVE  QueueIsList' /\ OneOwner' /\ InOrder' /\ NewestLast' /\ NothingLost'
<1> USE DEF QueueInv, heapVars, listVars, readVars
<1>1. Queued' = Queued /\ InHand' = InHand
  BY DEF Queued, InHand
<1>2. QueueIsList'
  BY DEF QueueIsList
<1>3. OneOwner'
  BY <1>1 DEF OneOwner
<1>4. InOrder'
  BY DEF InOrder
<1>5. NewestLast'
  BY DEF NewestLast
<1>6. NothingLost'
  BY <1>1 DEF NothingLost
<1> QED
  BY <1>2, <1>3, <1>4, <1>5, <1>6

LEMMA StepLock ==
  ASSUME QueueInv,
         \/ Lock(Epoll, "lockLink", "link")
         \/ \E w \in Workers : Lock(w, "lock", "test") \/ Lock(w, "relock", "test")
  PROVE  QueueInv'
<1> USE QueueAssumption DEF QueueInv, Lock, Goto, heapVars, listVars, readVars
<1>1. TypeOK'
  BY DEF TypeOK, Threads, EpollLabels, WorkerLabels
<1>2. MutexMatches'
  BY DEF MutexMatches, TypeOK, Locked, Threads
<1>3. TempMatchesPc'
  BY DEF TempMatchesPc, TypeOK, Threads, EpollLabels, WorkerLabels
<1>4. QueueIsList' /\ OneOwner' /\ InOrder' /\ NewestLast' /\ NothingLost'
  BY SameQueue
<1>5. NoLostWakeup'
  BY DEF NoLostWakeup, Waiting, TypeOK, Threads
<1> QED
  BY <1>1, <1>2, <1>3, <1>4, <1>5

LEMMA StepNewTask ==
  ASSUME QueueInv, NewTask
  PROVE  QueueInv'
<1> USE QueueAssumption DEF QueueInv, NewTask, Goto, listVars
<1>1. PICK a \in Addrs \ live :
         /\ live' = live \cup {a}
         /\ request' = [request EXCEPT ![a] = received']
         /\ next' = [next EXCEPT ![a] = Null]
         /\ temp' = [temp EXCEPT ![Epoll] = a]
  OBVIOUS
<1>2. temp[Epoll] = Null /\ a # Null /\ Epoll \in Threads
  BY DEF TempMatchesPc, Threads
<1>3. /\ a \notin Queued /\ a \notin InHand
      /\ \A i \in 1 .. Len(fifo) : fifo[i] # a /\ fifo[i] \in Addrs
      /\ \A t \in Threads : temp[t] # a
  BY <1>2 DEF OneOwner, Queued, InHand, TypeOK
<1>4. TypeOK'
  <2>1. received' \in Request /\ received' \in 0 .. MaxRequests
    BY DEF TypeOK, Request
  <2>2. request' \in [Addrs -> Request \cup {0}] /\ next' \in [Addrs -> Addrs \cup {Null}]
    BY <1>1, <2>1 DEF TypeOK
  <2>3. pc' \in [Threads -> EpollLabels \cup WorkerLabels]
    BY DEF TypeOK, EpollLabels
  <2>4. temp' \in [Threads -> Addrs \cup {Null}]
    BY <1>1 DEF TypeOK
  <2> QED
    BY <1>1, <2>1, <2>2, <2>3, <2>4 DEF TypeOK
<1>5. MutexMatches'
  BY DEF MutexMatches, TypeOK, Locked, Threads
<1>6. TempMatchesPc'
  <2>1. received' \in Request
    BY DEF TypeOK, Request
  <2> QED
    BY <1>1, <1>2, <1>3, <2>1 DEF TempMatchesPc, TypeOK, Threads, EpollLabels
<1>7. QueueIsList'
  BY <1>1, <1>3 DEF QueueIsList, TypeOK
<1>8. OneOwner'
  <2>1. Queued' = Queued
    BY DEF Queued
  <2>2. InHand' = InHand \cup {a}
    BY <1>1, <1>2, <1>3 DEF InHand, TypeOK
  <2>3. \A t, u \in Threads : t # u /\ temp'[t] = temp'[u] => temp'[t] = Null
    BY <1>1, <1>3 DEF OneOwner, TypeOK
  <2> QED
    BY <1>1, <1>3, <2>1, <2>2, <2>3 DEF OneOwner
<1>9. /\ \A i \in 1 .. Len(fifo) : request'[fifo[i]] = request[fifo[i]]
      /\ received \in Nat
  BY <1>1, <1>3 DEF TypeOK
<1>10. InOrder'
  BY <1>9 DEF InOrder
<1>11. NewestLast'
  <2>1. temp'[Epoll] # Null /\ temp[Epoll] = Null
    BY <1>1, <1>2 DEF TypeOK
  <2> QED
    BY <1>9, <2>1 DEF NewestLast
<1>12. NothingLost'
  <2>1. ASSUME NEW r \in 1 .. received'
        PROVE  \/ r \in dropped
               \/ \E i \in 1 .. Len(taken) : taken[i] = r
               \/ \E b \in Queued \cup {a} : request'[b] = r
    <3>1. CASE r = received'
      BY <1>1, <3>1 DEF TypeOK
    <3>2. CASE r # received'
      <4>1. r \in 1 .. received
        BY <1>9, <3>2
      <4>2. \A b \in Queued : request'[b] = request[b]
        BY <1>9 DEF Queued
      <4> QED
        BY <1>2, <4>1, <4>2 DEF NothingLost
    <3> QED
      BY <3>1, <3>2
  <2>2. Queued' = Queued /\ temp'[Epoll] = a
    BY <1>1, <1>2 DEF Queued, TypeOK
  <2> QED
    BY <1>2, <2>1, <2>2 DEF NothingLost
<1>13. NoLostWakeup'
  BY DEF NoLostWakeup, Waiting, TypeOK, Threads
<1> QED
  BY <1>4, <1>5, <1>6, <1>7, <1>8, <1>10, <1>11, <1>12, <1>13

LEMMA StepNewTaskFails ==
  ASSUME QueueInv, NewTaskFails
  PROVE  QueueInv'
<1> USE QueueAssumption DEF QueueInv, NewTaskFails, heapVars, listVars
<1>1. temp[Epoll] = Null
  BY DEF TempMatchesPc
<1>2. TypeOK'
  BY DEF TypeOK, Request
<1>3. MutexMatches' /\ QueueIsList' /\ InOrder' /\ NoLostWakeup'
  BY DEF MutexMatches, QueueIsList, InOrder, NoLostWakeup, Waiting
<1>7. OneOwner'
  <2>1. Queued' = Queued /\ InHand' = InHand
    BY DEF Queued, InHand
  <2> QED
    BY <2>1 DEF OneOwner
<1>4. TempMatchesPc'
  BY <1>1 DEF TempMatchesPc
<1>5. NewestLast'
  <2>1. /\ \A i \in 1 .. Len(taken) : taken[i] < received + 1
        /\ \A i \in 1 .. Len(fifo) : request[fifo[i]] \in 1 .. (received + 1) - 1
    BY <1>1, Zenon DEF NewestLast
  <2>2. /\ \A i \in 1 .. Len(taken) : taken[i] \in Int
        /\ received \in Int /\ temp'[Epoll] = Null
    BY <1>1 DEF TypeOK, Request
  <2>3. \A i \in 1 .. Len(taken) : taken[i] < received + 1 + 1
    BY <2>1, <2>2
  <2>4. \A i \in 1 .. Len(fifo) : request[fifo[i]] \in 1 .. received + 1 + 1 - 1
    BY <2>1, <2>2
  <2> QED
    BY <2>2, <2>3, <2>4 DEF NewestLast
<1>6. NothingLost'
  <2>1. ASSUME NEW r \in 1 .. received', r \notin dropped'
        PROVE  r \in 1 .. received /\ r \notin dropped
    BY <2>1 DEF TypeOK
  <2> QED
    BY <2>1 DEF NothingLost, Queued
<1> QED
  BY <1>2, <1>3, <1>4, <1>5, <1>6, <1>7

LEMMA StepWait ==
  ASSUME QueueInv, NEW w \in Workers, Wait(w)
  PROVE  QueueInv'
<1> USE QueueAssumption DEF QueueInv, Wait, Goto, heapVars, listVars, readVars
<1>1. TypeOK'
  BY DEF TypeOK, WorkerLabels
<1>2. MutexMatches'
  BY DEF MutexMatches, TypeOK, Locked, Threads
<1>3. TempMatchesPc'
  BY DEF TempMatchesPc, TypeOK, Threads, WorkerLabels
<1>4. QueueIsList' /\ OneOwner' /\ InOrder' /\ NewestLast' /\ NothingLost'
  BY SameQueue
<1>5. fifo = << >>
  BY DEF QueueIsList, TypeOK
<1> QED
  BY <1>1, <1>2, <1>3, <1>4, <1>5 DEF NoLostWakeup

LEMMA StepSpuriousWake ==
  ASSUME QueueInv, NEW w \in Workers, SpuriousWake(w)
  PROVE  QueueInv'
<1> USE QueueAssumption DEF QueueInv, SpuriousWake, Goto, heapVars, listVars, readVars
<1>1. TypeOK'
  BY DEF TypeOK, WorkerLabels
<1>2. MutexMatches'
  BY DEF MutexMatches, TypeOK, Locked, Threads
<1>3. TempMatchesPc'
  BY DEF TempMatchesPc, TypeOK, Threads, WorkerLabels
<1>4. QueueIsList' /\ OneOwner' /\ InOrder' /\ NewestLast' /\ NothingLost'
  BY SameQueue
<1>5. NoLostWakeup'
  BY DEF NoLostWakeup, Waiting, TypeOK, Threads
<1> QED
  BY <1>1, <1>2, <1>3, <1>4, <1>5

LEMMA StepFinish ==
  ASSUME QueueInv, NEW w \in Workers, Finish(w)
  PROVE  QueueInv'
<1> USE QueueAssumption DEF QueueInv, Finish, Goto, listVars, readVars
<1>1. TypeOK'
  BY DEF TypeOK, WorkerLabels
<1>2. MutexMatches'
  BY DEF MutexMatches, TypeOK, Locked, Threads
<1>3. TempMatchesPc'
  BY DEF TempMatchesPc, TypeOK, Threads, WorkerLabels
<1>4. QueueIsList' /\ InOrder'
  BY DEF QueueIsList, InOrder
<1>5. OneOwner'
  <2>1. Queued' = Queued
    BY DEF Queued
  <2>2. temp[w] # Null /\ temp[w] \in InHand /\ w \in Threads
    BY DEF TempMatchesPc, InHand, Threads
  <2>3. InHand' = InHand \ {temp[w]}
    BY <2>2 DEF InHand, TypeOK, OneOwner
  <2>4. live' = Queued' \cup InHand'
    BY <2>1, <2>2, <2>3 DEF OneOwner
  <2>5. \A t, u \in Threads : t # u /\ temp'[t] = temp'[u] => temp'[t] = Null
    BY DEF OneOwner, TypeOK
  <2> QED
    BY <2>1, <2>3, <2>4, <2>5 DEF OneOwner
<1>6. temp'[Epoll] = temp[Epoll]
  BY DEF TypeOK, Threads
<1>7. NewestLast' /\ NothingLost'
  BY <1>6 DEF NewestLast, NothingLost, Queued
<1>8. NoLostWakeup'
  BY DEF NoLostWakeup, Waiting, TypeOK, Threads
<1> QED
  BY <1>1, <1>2, <1>3, <1>4, <1>5, <1>7, <1>8

(* Taking the head: the rest of the list moves up by one place.            *)
LEMMA StepDequeue ==
  ASSUME QueueInv, NEW w \in Workers, Dequeue(w)
  PROVE  QueueInv'
<1> USE QueueAssumption DEF QueueInv, Dequeue, Goto, heapVars, readVars
<1>1. /\ fifo \in Seq(Addrs) /\ fifo # << >> /\ taskHead = fifo[1]
      /\ taskHead \in Addrs /\ taskHead # Null /\ Len(fifo) \in Nat /\ Len(fifo) >= 1
  BY DEF QueueIsList, TypeOK
<1>2. /\ fifo' \in Seq(Addrs) /\ Len(fifo') = Len(fifo) - 1
      /\ \A i \in 1 .. Len(fifo') : fifo'[i] = fifo[i + 1]
  BY <1>1
<1>3. /\ taken' \in Seq(Request) /\ Len(taken') = Len(taken) + 1
      /\ taken'[Len(taken) + 1] = request[taskHead]
      /\ \A i \in 1 .. Len(taken) : taken'[i] = taken[i]
      /\ Len(taken) \in Nat /\ request[taskHead] \in Request
  <2>1. received \in 0 .. MaxRequests /\ taken \in Seq(Request)
    BY DEF TypeOK
  <2>2. request[taskHead] \in 1 .. (IF temp[Epoll] = Null THEN received + 1 ELSE received) - 1
    BY <1>1 DEF NewestLast
  <2>3. request[taskHead] \in Request
    BY <2>1, <2>2 DEF Request
  <2> QED
    BY <2>1, <2>3
<1>4. w \in Threads /\ temp[w] = Null /\ tMutex = w /\ w # Epoll /\ temp'[Epoll] = temp[Epoll]
  BY DEF TempMatchesPc, MutexMatches, Threads, Locked, TypeOK
<1>5. TypeOK'
  <2>1. pc' \in [Threads -> EpollLabels \cup WorkerLabels]
    BY DEF TypeOK, WorkerLabels
  <2>2. temp' \in [Threads -> Addrs \cup {Null}] /\ taskHead' \in Addrs \cup {Null}
    BY <1>1 DEF TypeOK
  <2> QED
    BY <1>2, <1>3, <2>1, <2>2 DEF TypeOK
<1>6. MutexMatches'
  BY DEF MutexMatches, TypeOK, Locked, Threads
<1>7. TempMatchesPc'
  <2>1. /\ pc'[w] = "work" /\ temp'[w] = taskHead
        /\ \A t \in Threads : t # w => pc'[t] = pc[t] /\ temp'[t] = temp[t]
    BY <1>4 DEF TypeOK
  <2>2. /\ request' = request /\ next' = next /\ received' = received
        /\ TempMatchesPc
    OBVIOUS
  <2> HIDE DEF QueueInv, Dequeue
  <2> QED
    BY <1>1, <1>3, <1>4, <2>1, <2>2 DEF TempMatchesPc, Threads, WorkerLabels
<1>8. QueueIsList'
  <2>0. /\ taskHead' = next[taskHead] /\ next' = next /\ taskLast' = taskLast
        /\ QueueIsList
    OBVIOUS
  <2> HIDE DEF Dequeue, QueueInv
  <2>4. /\ fifo' = << >> <=> Len(fifo') = 0
        /\ next[taskHead] = IF 1 = Len(fifo) THEN Null ELSE fifo[2]
        /\ taskLast = fifo[Len(fifo)]
        /\ \A i \in 1 .. Len(fifo) :
             next[fifo[i]] = IF i = Len(fifo) THEN Null ELSE fifo[i + 1]
    BY <1>1, <1>2, <2>0 DEF QueueIsList
  <2>1. taskHead' = IF fifo' = << >> THEN Null ELSE fifo'[1]
    BY <1>1, <1>2, <2>0, <2>4
  <2>2. fifo' # << >> => taskLast' = fifo'[Len(fifo')]
    BY <1>1, <1>2, <2>0, <2>4
  <2>3. \A i \in 1 .. Len(fifo') :
          next'[fifo'[i]] = IF i = Len(fifo') THEN Null ELSE fifo'[i + 1]
    <3>1. ASSUME NEW i \in 1 .. Len(fifo')
          PROVE  /\ i + 1 \in 1 .. Len(fifo) /\ fifo'[i] = fifo[i + 1]
                 /\ i # Len(fifo') => fifo'[i + 1] = fifo[(i + 1) + 1]
                 /\ i = Len(fifo') <=> i + 1 = Len(fifo)
      BY <1>1, <1>2
    <3> QED
      BY <2>0, <2>4, <3>1
  <2> QED
    BY <2>1, <2>2, <2>3 DEF QueueIsList
<1>9. Queued = Queued' \cup {taskHead} /\ taskHead \notin Queued'
  <2>1. ASSUME NEW i \in 1 .. Len(fifo'), fifo'[i] = taskHead
        PROVE  FALSE
    BY <1>1, <1>2, <2>1 DEF OneOwner
  <2>2. ASSUME NEW a \in Queued, a # taskHead
        PROVE  a \in Queued'
    <3>1. PICK i \in 1 .. Len(fifo) : a = fifo[i]
      BY DEF Queued
    <3>2. i - 1 \in 1 .. Len(fifo') /\ fifo'[i - 1] = a
      BY <1>1, <1>2, <2>2, <3>1
    <3> QED
      BY <3>2 DEF Queued
  <2>3. Queued' \subseteq Queued
    BY <1>1, <1>2 DEF Queued
  <2>4. taskHead \in Queued
    BY <1>1 DEF Queued
  <2>5. taskHead \notin Queued'
    BY <2>1 DEF Queued
  <2> QED
    BY <2>2, <2>3, <2>4, <2>5
<1>10. OneOwner'
  <2>1. InHand' = InHand \cup {taskHead}
    BY <1>1, <1>4 DEF InHand, TypeOK
  <2>2. taskHead \notin InHand
    BY <1>9 DEF OneOwner
  <2>3. \A t, u \in Threads : t # u /\ temp'[t] = temp'[u] => temp'[t] = Null
    BY <1>1, <2>2 DEF OneOwner, TypeOK, InHand
  <2>4. \A i, j \in 1 .. Len(fifo') : fifo'[i] = fifo'[j] => i = j
    BY <1>1, <1>2 DEF OneOwner
  <2>5. live' = Queued' \cup InHand' /\ Queued' \cap InHand' = {}
    BY <1>9, <2>1 DEF OneOwner
  <2> QED
    BY <2>3, <2>4, <2>5 DEF OneOwner
<1>11. InOrder'
  <2>1. \A i \in 1 .. Len(taken) : taken[i] < request[taskHead]
    BY <1>1 DEF InOrder
  <2>2. \A i, j \in 1 .. Len(taken') : i < j => taken'[i] < taken'[j]
    BY <1>3, <2>1 DEF InOrder
  <2>3. \A i, j \in 1 .. Len(fifo') : i < j => request'[fifo'[i]] < request'[fifo'[j]]
    BY <1>1, <1>2 DEF InOrder
  <2>4. \A j \in 1 .. Len(fifo') : request[taskHead] < request[fifo'[j]]
    BY <1>1, <1>2 DEF InOrder
  <2>5. \A i \in 1 .. Len(taken), j \in 1 .. Len(fifo') : taken[i] < request[fifo'[j]]
    BY <1>1, <1>2 DEF InOrder
  <2>6. \A i \in 1 .. Len(taken'), j \in 1 .. Len(fifo') : taken'[i] < request'[fifo'[j]]
    BY <1>3, <2>4, <2>5
  <2> QED
    BY <2>2, <2>3, <2>6 DEF InOrder
<1>12. NewestLast'
  <2> DEFINE n == IF temp[Epoll] = Null THEN received + 1 ELSE received
  <2>1. /\ \A i \in 1 .. Len(taken) : taken[i] < n
        /\ \A i \in 1 .. Len(fifo) : request[fifo[i]] \in 1 .. n - 1
    BY DEF NewestLast
  <2>2. n \in Int
    BY DEF TypeOK
  <2>3. (IF temp'[Epoll] = Null THEN received' + 1 ELSE received') = n
    BY <1>4
  <2> HIDE DEF n
  <2>4. \A i \in 1 .. Len(taken') : taken'[i] < n
    BY <1>1, <1>3, <2>1, <2>2
  <2>5. \A i \in 1 .. Len(fifo') : request'[fifo'[i]] \in 1 .. n - 1
    BY <1>1, <1>2, <2>1, <2>2
  <2> QED
    BY <2>3, <2>4, <2>5 DEF NewestLast
<1>13. NothingLost'
  <2>1. ASSUME NEW r \in 1 .. received
        PROVE  \/ r \in dropped
               \/ \E i \in 1 .. Len(taken') : taken'[i] = r
               \/ \E a \in Queued' \cup ({temp[Epoll]} \ {Null}) : request[a] = r
    <3>1. CASE \E i \in 1 .. Len(taken) : taken[i] = r
      BY <1>3, <3>1
    <3>2. CASE request[taskHead] = r
      BY <1>3, <3>2
    <3> QED
      BY <1>9, <3>1, <3>2 DEF NothingLost
  <2> QED
    BY <1>4, <2>1 DEF NothingLost
<1>14. NoLostWakeup'
  BY <1>4 DEF NoLostWakeup, Waiting, TypeOK, Threads
<1> QED
  BY <1>5, <1>6, <1>7, <1>8, <1>10, <1>11, <1>12, <1>13, <1>14

-----------------------------------------------------------------------------
(* Linking a new task behind the last one, and waking a worker.            *)

LEMMA SignalFacts ==
  ASSUME QueueInv, pc[Epoll] = "link", SignalAndUnlock
  PROVE  /\ pc' \in [Threads -> EpollLabels \cup WorkerLabels]
         /\ pc'[Epoll] = "read" /\ tMutex' = Null
         /\ \A v \in Workers : pc'[v] = pc[v] \/ (pc[v] = "wait" /\ pc'[v] = "relock")
         /\ Waiting' # Workers
<1> USE QueueAssumption DEF SignalAndUnlock, Goto
<1>1. pc \in [Threads -> EpollLabels \cup WorkerLabels] /\ Epoll \in Threads
  BY DEF QueueInv, TypeOK, Threads
<1>2. CASE Waiting = {} /\ Goto(Epoll, "read")
  BY <1>1, <1>2 DEF Waiting, Threads, EpollLabels
<1>3. ASSUME NEW w \in Waiting,
             pc' = [pc EXCEPT ![Epoll] = "read", ![w] = "relock"]
      PROVE  /\ pc' \in [Threads -> EpollLabels \cup WorkerLabels]
             /\ pc'[Epoll] = "read"
             /\ \A v \in Workers : pc'[v] = pc[v] \/ (pc[v] = "wait" /\ pc'[v] = "relock")
             /\ w \notin Waiting' /\ w \in Workers
  BY <1>1, <1>3 DEF Waiting, Threads, EpollLabels, WorkerLabels
<1> QED
  BY <1>2, <1>3

LEMMA StepEnqueue ==
  ASSUME QueueInv, Enqueue
  PROVE  QueueInv'
<1> USE QueueAssumption DEF QueueInv, readVars
<1> DEFINE a == temp[Epoll]
           n == Len(fifo)
<1>1. /\ a \in Addrs /\ a # Null /\ Epoll \in Threads /\ a \in InHand
      /\ request[a] = received /\ next[a] = Null /\ pc[Epoll] = "link"
  BY DEF Enqueue, TempMatchesPc, TypeOK, Threads, InHand
<1>2. /\ fifo \in Seq(Addrs) /\ n \in Nat
      /\ fifo' = Append(fifo, a) /\ fifo' \in Seq(Addrs)
      /\ Len(fifo') = n + 1 /\ fifo'[n + 1] = a
      /\ \A i \in 1 .. n : fifo'[i] = fifo[i] /\ fifo[i] \in Addrs
  BY <1>1 DEF Enqueue, TypeOK
<1>3. /\ UNCHANGED <<live, request, taken, received, dropped>>
      /\ taskLast' = a /\ tMutex' = Null /\ temp' = [temp EXCEPT ![Epoll] = Null]
  BY DEF Enqueue, SignalAndUnlock
<1>4. /\ fifo = << >> => taskHead' = a /\ next' = next
      /\ fifo # << >> => /\ taskHead' = fifo[1] /\ taskHead = fifo[1]
                         /\ next' = [next EXCEPT ![fifo[n]] = a]
  BY <1>2 DEF Enqueue, QueueIsList
<1>5. /\ pc' \in [Threads -> EpollLabels \cup WorkerLabels]
      /\ pc'[Epoll] = "read" /\ tMutex' = Null
      /\ \A v \in Workers : pc'[v] = pc[v] \/ (pc[v] = "wait" /\ pc'[v] = "relock")
      /\ Waiting' # Workers
  BY SignalFacts DEF Enqueue
<1>6. /\ \A i \in 1 .. n : fifo[i] # a
      /\ a \notin Queued
  BY <1>1 DEF OneOwner, Queued
<1>7. temp'[Epoll] = Null /\ \A t \in Workers : temp'[t] = temp[t]
  BY <1>1, <1>3 DEF TypeOK, Threads
<1>8. TypeOK'
  <2>1. next' \in [Addrs -> Addrs \cup {Null}] /\ taskHead' \in Addrs \cup {Null}
    BY <1>1, <1>2, <1>4 DEF TypeOK
  <2>2. temp' \in [Threads -> Addrs \cup {Null}]
    BY <1>3 DEF TypeOK
  <2> QED
    BY <1>1, <1>2, <1>3, <1>5, <2>1, <2>2 DEF TypeOK
<1>9. MutexMatches'
  <2>1. \A v \in Workers : pc[v] \notin Locked
    BY <1>1 DEF MutexMatches, Threads, Locked
  <2>2. \A t \in Threads : pc'[t] \notin Locked
    BY <1>5, <2>1 DEF Threads, Locked
  <2> QED
    BY <1>5, <2>2 DEF MutexMatches
<1>10. TempMatchesPc'
  BY <1>3, <1>5, <1>7 DEF TempMatchesPc, EpollLabels, WorkerLabels
<1>11. QueueIsList'
  <2>1. CASE fifo = << >>
    BY <1>1, <1>2, <1>3, <1>4, <2>1 DEF QueueIsList
  <2>2. CASE fifo # << >>
    <3>1. n >= 1 /\ fifo'[1] = fifo[1] /\ fifo[n] \in Addrs /\ fifo[n] # a
      BY <1>2, <1>6, <2>2
    <3>2. next'[a] = Null /\ next'[fifo[n]] = a
      BY <1>1, <1>4, <2>2, <3>1 DEF TypeOK
    <3>3. ASSUME NEW i \in 1 .. n, i # n
          PROVE  next'[fifo'[i]] = fifo'[i + 1]
      <4>1. fifo[i] # fifo[n]
        BY <1>2, <3>3 DEF OneOwner
      <4>2. next'[fifo[i]] = next[fifo[i]]
        BY <1>2, <1>4, <2>2, <4>1 DEF TypeOK
      <4> QED
        BY <1>2, <3>3, <4>2 DEF QueueIsList
    <3>4. \A i \in 1 .. n + 1 : next'[fifo'[i]] = IF i = n + 1 THEN Null ELSE fifo'[i + 1]
      BY <1>2, <3>1, <3>2, <3>3
    <3> QED
      BY <1>2, <1>3, <1>4, <2>2, <3>1, <3>4 DEF QueueIsList
  <2> QED
    BY <2>1, <2>2
<1>12. Queued' = Queued \cup {a}
  <2>1. Queued' \subseteq Queued \cup {a}
    BY <1>2 DEF Queued
  <2>2. \A i \in 1 .. n : fifo[i] = fifo'[i] /\ i \in 1 .. Len(fifo')
    BY <1>2
  <2>3. a = fifo'[n + 1] /\ n + 1 \in 1 .. Len(fifo')
    BY <1>2
  <2>4. Queued \subseteq Queued'
    BY <2>2 DEF Queued
  <2>5. a \in Queued'
    BY <2>3 DEF Queued
  <2> QED
    BY <2>1, <2>4, <2>5
<1>13. OneOwner'
  <2>1. InHand' = InHand \ {a}
    BY <1>1, <1>3, <1>7 DEF InHand, OneOwner, Threads, TypeOK
  <2>2. \A t, u \in Threads : t # u /\ temp'[t] = temp'[u] => temp'[t] = Null
    BY <1>7 DEF OneOwner, Threads
  <2>3. \A i, j \in 1 .. Len(fifo') : fifo'[i] = fifo'[j] => i = j
    BY <1>2, <1>6 DEF OneOwner
  <2>4. live' = Queued' \cup InHand' /\ Queued' \cap InHand' = {}
    BY <1>1, <1>3, <1>12, <2>1 DEF OneOwner
  <2> QED
    BY <2>2, <2>3, <2>4 DEF OneOwner
<1>14. /\ received \in Nat
       /\ \A i \in 1 .. Len(taken) : taken[i] < received /\ taken[i] \in Nat
       /\ \A i \in 1 .. n : request[fifo[i]] \in 1 .. received - 1
  BY <1>1 DEF NewestLast, TypeOK, Request
<1>15. InOrder'
  <2>1. \A i, j \in 1 .. Len(fifo') : i < j => request[fifo'[i]] < request[fifo'[j]]
    BY <1>1, <1>2, <1>14 DEF InOrder
  <2>2. \A i \in 1 .. Len(taken), j \in 1 .. Len(fifo') : taken[i] < request[fifo'[j]]
    BY <1>1, <1>2, <1>14 DEF InOrder
  <2> QED
    BY <1>3, <2>1, <2>2 DEF InOrder
<1>16. NewestLast'
  <2>0. received \in 1 .. received
    BY <1>1 DEF TempMatchesPc, Request
  <2>1. \A i \in 1 .. Len(taken) : taken[i] < received + 1
    BY <1>14
  <2>2. \A i \in 1 .. Len(fifo') : request[fifo'[i]] \in 1 .. (received + 1) - 1
    BY <1>1, <1>2, <1>14, <2>0
  <2> QED
    BY <1>3, <1>7, <2>1, <2>2 DEF NewestLast
<1>17. NothingLost'
  <2>1. ASSUME NEW r \in 1 .. received
        PROVE  \/ r \in dropped
               \/ \E i \in 1 .. Len(taken) : taken[i] = r
               \/ \E b \in Queued' : request[b] = r
    BY <1>12 DEF NothingLost
  <2> QED
    BY <1>3, <2>1 DEF NothingLost
<1>18. NoLostWakeup'
  BY <1>5 DEF NoLostWakeup
<1> QED
  BY <1>8, <1>9, <1>10, <1>11, <1>13, <1>15, <1>16, <1>17, <1>18

-----------------------------------------------------------------------------
(* QueueInv is inductive.                                                  *)

LEMMA QueueStep ==
  ASSUME QueueInv, [Next]_vars
  PROVE  QueueInv'
<1>1. CASE UNCHANGED vars
  <2>1. /\ UNCHANGED <<heapVars, listVars, readVars, temp>>
        /\ tMutex' = tMutex /\ pc' = pc
    BY <1>1 DEF vars
  <2>2. QueueIsList' /\ OneOwner' /\ InOrder' /\ NewestLast' /\ NothingLost'
    BY <2>1, SameQueue
  <2>3. TypeOK' /\ MutexMatches' /\ TempMatchesPc' /\ NoLostWakeup'
    BY <2>1 DEF QueueInv, TypeOK, MutexMatches, TempMatchesPc, NoLostWakeup,
       Waiting, heapVars, listVars, readVars
  <2> QED
    BY <2>2, <2>3 DEF QueueInv
<1>2. CASE EpollStep
  BY <1>2, StepNewTask, StepNewTaskFails, StepLock, StepEnqueue DEF EpollStep
<1>3. ASSUME NEW w \in Workers, WorkerStep(w) \/ SpuriousWake(w)
      PROVE  QueueInv'
  BY <1>3, StepLock, StepWait, StepSpuriousWake, StepDequeue, StepFinish DEF WorkerStep
<1> QED
  BY <1>1, <1>2, <1>3 DEF Next

LEMMA QueueInvariant == Spec => []QueueInv
BY InitQueue, QueueStep, PTL DEF Spec

(* Every variable keeps its type, whatever the interleaving.               *)
THEOREM TypeCorrect == Spec => []TypeOK
<1>1. QueueInv => TypeOK
  BY DEF QueueInv
<1> QED
  BY <1>1, QueueInvariant, PTL

(* The head and next pointers always spell the queue, and task_last is its *)
(* last task whenever spider_tcp_server.c:214 writes through it.           *)
THEOREM PointersSpellTheQueue == Spec => []QueueIsList
<1>1. QueueInv => QueueIsList
  BY DEF QueueInv
<1> QED
  BY <1>1, QueueInvariant, PTL

(* No task is freed twice, used after free, leaked or held by two threads. *)
THEOREM TasksHaveOneOwner == Spec => []OneOwner
<1>1. QueueInv => OneOwner
  BY DEF QueueInv
<1> QED
  BY <1>1, QueueInvariant, PTL

(* Packets leave the list in the order in which they were read.            *)
THEOREM TakenInOrder == Spec => []InOrder
<1>1. QueueInv => InOrder
  BY DEF QueueInv
<1> QED
  BY <1>1, QueueInvariant, PTL

(* No packet is lost between recv and the worker that handles it.          *)
THEOREM NoPacketLost == Spec => []NothingLost
<1>1. QueueInv => NothingLost
  BY DEF QueueInv
<1> QED
  BY <1>1, QueueInvariant, PTL

(* The workers never all sleep on a list that is not empty.                *)
THEOREM WakeupsNotLost == Spec => []NoLostWakeup
<1>1. QueueInv => NoLostWakeup
  BY DEF QueueInv
<1> QED
  BY <1>1, QueueInvariant, PTL

-----------------------------------------------------------------------------
(* The task list implements the queue of RequestFifo.                      *)

queueBar == [i \in 1 .. Len(fifo) |-> request[fifo[i]]]
workingBar == [w \in Workers |-> IF temp[w] = Null THEN 0 ELSE request[temp[w]]]

LEMMA BarUnchanged ==
  ASSUME QueueInv, UNCHANGED <<fifo, taken>>,
         \A w \in Workers : temp'[w] = temp[w],
         \A b \in live : request'[b] = request[b]
  PROVE  /\ LastSubmitted' = LastSubmitted
         /\ queueBar' = queueBar
         /\ workingBar' = workingBar
<1> USE DEF QueueInv
<1>1. \A i \in 1 .. Len(fifo) : request'[fifo[i]] = request[fifo[i]]
  BY DEF OneOwner, Queued
<1>2. \A w \in Workers : temp[w] # Null => request'[temp[w]] = request[temp[w]]
  BY DEF OneOwner, InHand, Threads
<1>3. LastSubmitted' = LastSubmitted
  BY <1>1 DEF LastSubmitted, TypeOK
<1>4. queueBar' = queueBar
  BY <1>1 DEF queueBar
<1>5. workingBar' = workingBar
  BY <1>2 DEF workingBar
<1> QED
  BY <1>3, <1>4, <1>5

LEMMA EnqueueSubmits ==
  ASSUME QueueInv, QueueInv', Enqueue
  PROVE  /\ LastSubmitted' \in Nat /\ LastSubmitted' > LastSubmitted
         /\ queueBar' = Append(queueBar, LastSubmitted')
         /\ workingBar' = workingBar
<1> USE QueueAssumption DEF QueueInv
<1> DEFINE a == temp[Epoll]
           n == Len(fifo)
<1>1. /\ a \in Addrs /\ a # Null /\ Epoll \in Threads
      /\ request[a] = received /\ received \in Request
      /\ request' = request /\ taken' = taken
      /\ temp' = [temp EXCEPT ![Epoll] = Null]
  BY DEF Enqueue, SignalAndUnlock, TempMatchesPc, TypeOK, Threads
<1>2. /\ fifo \in Seq(Addrs) /\ n \in Nat
      /\ fifo' \in Seq(Addrs) /\ Len(fifo') = n + 1 /\ fifo'[n + 1] = a
      /\ \A i \in 1 .. n : fifo'[i] = fifo[i]
  BY <1>1 DEF Enqueue, TypeOK
<1>3. LastSubmitted' = received
  BY <1>1, <1>2 DEF LastSubmitted
<1>4. LastSubmitted < received
  <2>1. /\ \A i \in 1 .. Len(taken) : taken[i] < received
        /\ \A i \in 1 .. n : request[fifo[i]] \in 1 .. received - 1
    BY <1>1 DEF NewestLast
  <2>2. received \in Nat /\ received > 0
    BY <1>1 DEF Request
  <2>3. CASE fifo # << >>
    BY <1>2, <2>1, <2>2, <2>3 DEF LastSubmitted
  <2>4. CASE fifo = << >> /\ taken # << >>
    BY <2>1, <2>2, <2>4 DEF LastSubmitted, TypeOK
  <2>5. CASE fifo = << >> /\ taken = << >>
    BY <2>2, <2>5 DEF LastSubmitted
  <2> QED
    BY <2>3, <2>4, <2>5
<1>5. queueBar' = Append(queueBar, received)
  <2>1. queueBar \in Seq(Request \cup {0}) /\ Len(queueBar) = n
    BY <1>2 DEF queueBar, TypeOK
  <2>2. /\ queueBar' \in Seq(Request \cup {0}) /\ Len(queueBar') = n + 1
        /\ \A i \in 1 .. n + 1 : queueBar'[i] = request[fifo'[i]]
    BY <1>1, <1>2 DEF queueBar, TypeOK
  <2>3. /\ Append(queueBar, received) \in Seq(Request \cup {0})
        /\ Len(Append(queueBar, received)) = n + 1
        /\ \A i \in 1 .. n : Append(queueBar, received)[i] = queueBar[i]
        /\ Append(queueBar, received)[n + 1] = received
    BY <1>1, <1>2, <2>1
  <2>4. /\ \A i \in 1 .. n : request[fifo'[i]] = queueBar[i]
        /\ request[fifo'[n + 1]] = received
    BY <1>1, <1>2 DEF queueBar
  <2>5. \A i \in 1 .. Len(queueBar') : queueBar'[i] = Append(queueBar, received)[i]
    BY <1>2, <2>2, <2>3, <2>4
  <2> HIDE DEF queueBar
  <2> QED
    BY <2>2, <2>3, <2>5, SeqEqual
<1>6. workingBar' = workingBar
  BY <1>1 DEF workingBar, Threads, TypeOK
<1>7. received \in Nat
  BY <1>1 DEF Request
<1> QED
  BY <1>3, <1>4, <1>5, <1>6, <1>7

LEMMA DequeueTakes ==
  ASSUME QueueInv, QueueInv', NEW w \in Workers, Dequeue(w)
  PROVE  /\ queueBar # << >> /\ workingBar[w] = 0
         /\ workingBar' = [workingBar EXCEPT ![w] = Head(queueBar)]
         /\ queueBar' = Tail(queueBar)
         /\ LastSubmitted' = LastSubmitted
<1> USE QueueAssumption DEF QueueInv
<1>1. /\ fifo \in Seq(Addrs) /\ fifo # << >> /\ taskHead = fifo[1]
      /\ taskHead # Null /\ Len(fifo) \in Nat /\ Len(fifo) >= 1
      /\ request' = request /\ temp' = [temp EXCEPT ![w] = taskHead]
      /\ w \in Threads /\ temp[w] = Null /\ fifo' = Tail(fifo)
      /\ taken' = Append(taken, request[taskHead])
  BY DEF Dequeue, QueueIsList, TypeOK, heapVars, Threads, TempMatchesPc
<1>2. /\ fifo' \in Seq(Addrs) /\ Len(fifo') = Len(fifo) - 1
      /\ \A i \in 1 .. Len(fifo') : fifo'[i] = fifo[i + 1]
  BY <1>1
<1>3. /\ queueBar \in Seq(Request \cup {0}) /\ Len(queueBar) = Len(fifo)
      /\ \A i \in 1 .. Len(fifo) : queueBar[i] = request[fifo[i]]
  BY <1>1 DEF queueBar, TypeOK
<1>4. queueBar' = Tail(queueBar)
  <2>1. queueBar' = [i \in 1 .. Len(fifo) - 1 |-> request[fifo[i + 1]]]
    BY <1>1, <1>2 DEF queueBar
  <2>2. /\ Tail(queueBar) \in Seq(Request \cup {0})
        /\ Len(Tail(queueBar)) = Len(fifo) - 1
        /\ \A i \in 1 .. Len(fifo) - 1 : Tail(queueBar)[i] = queueBar[i + 1]
    BY <1>1, <1>3
  <2>3. \A i \in 1 .. Len(fifo) - 1 : queueBar[i + 1] = request[fifo[i + 1]]
    BY <1>1, <1>3
  <2>4. /\ queueBar' \in Seq(Request \cup {0}) /\ Len(queueBar') = Len(fifo) - 1
        /\ \A i \in 1 .. Len(fifo) - 1 : queueBar'[i] = request[fifo[i + 1]]
    BY <1>1, <1>2, <2>1 DEF TypeOK
  <2>5. \A i \in 1 .. Len(queueBar') : queueBar'[i] = Tail(queueBar)[i]
    BY <2>2, <2>3, <2>4
  <2> HIDE DEF queueBar
  <2> QED
    BY <2>2, <2>4, <2>5, SeqEqual
<1>5. Head(queueBar) = request[taskHead] /\ queueBar # << >>
  BY <1>1, <1>3
<1>6. workingBar' = [workingBar EXCEPT ![w] = request[taskHead]] /\ workingBar[w] = 0
  BY <1>1 DEF workingBar, Threads, TypeOK
<1>7. LastSubmitted' = LastSubmitted
  <2>1. CASE Len(fifo) = 1
    <3>1. fifo' = << >> /\ taken' # << >> /\ taken'[Len(taken')] = request[taskHead]
      <4>1. request[taskHead] \in Request /\ taken \in Seq(Request)
        <5>1. taken' \in Seq(Request) /\ taken \in Seq(Request)
          BY DEF TypeOK
        <5>2. taken' # << >>
          BY <1>1, <5>1
        <5>3. request[taskHead] = taken'[Len(taken')]
          BY <1>1, <5>1
        <5> QED
          BY <5>1, <5>2, <5>3
      <4> QED
        BY <1>1, <1>2, <2>1, <4>1
    <3> QED
      BY <1>1, <2>1, <3>1 DEF LastSubmitted
  <2>2. CASE Len(fifo) # 1
    <3>1. fifo' # << >> /\ fifo'[Len(fifo')] = fifo[Len(fifo)]
      BY <1>1, <1>2, <2>2
    <3> QED
      BY <1>1, <3>1 DEF LastSubmitted
  <2> QED
    BY <2>1, <2>2
<1> QED
  BY <1>4, <1>5, <1>6, <1>7

LEMMA FinishCompletes ==
  ASSUME QueueInv, NEW w \in Workers, Finish(w)
  PROVE  /\ workingBar[w] # 0
         /\ workingBar' = [workingBar EXCEPT ![w] = 0]
         /\ queueBar' = queueBar /\ LastSubmitted' = LastSubmitted
<1> USE QueueAssumption DEF QueueInv
<1>1. /\ temp[w] # Null /\ w \in Threads
      /\ request' = request /\ fifo' = fifo /\ taken' = taken
      /\ temp' = [temp EXCEPT ![w] = Null]
  BY DEF Finish, TempMatchesPc, listVars, Threads
<1>2. request[temp[w]] # 0
  BY <1>1 DEF TempMatchesPc, Request
<1>3. workingBar[w] # 0 /\ workingBar' = [workingBar EXCEPT ![w] = 0]
  BY <1>1, <1>2 DEF workingBar, Threads, TypeOK
<1> QED
  BY <1>1, <1>3 DEF queueBar, LastSubmitted

LEMMA StepImplements ==
  ASSUME QueueInv, QueueInv', [Next]_vars
  PROVE  [Fifo!FifoNext]_<<LastSubmitted, queueBar, workingBar>>
<1>1. CASE UNCHANGED vars
  BY <1>1, BarUnchanged DEF vars, heapVars, listVars
<1>2. CASE EpollStep
  <2>1. CASE NewTaskFails \/ Lock(Epoll, "lockLink", "link")
    BY <2>1, BarUnchanged DEF NewTaskFails, Lock, heapVars, listVars
  <2>2. CASE NewTask
    <3>1. /\ UNCHANGED <<fifo, taken>>
          /\ \A w \in Workers : temp'[w] = temp[w]
          /\ \A b \in live : request'[b] = request[b]
      BY <2>2, QueueAssumption DEF NewTask, listVars, QueueInv, TypeOK, Threads
    <3> QED
      BY <3>1, BarUnchanged
  <2>3. CASE Enqueue
    <3>1. Fifo!Submit
      BY <2>3, EnqueueSubmits DEF Fifo!Submit, queueBar, workingBar
    <3> QED
      BY <3>1 DEF Fifo!FifoNext
  <2> QED
    BY <1>2, <2>1, <2>2, <2>3 DEF EpollStep
<1>3. ASSUME NEW w \in Workers, WorkerStep(w) \/ SpuriousWake(w)
      PROVE  [Fifo!FifoNext]_<<LastSubmitted, queueBar, workingBar>>
  <2>1. CASE \/ Lock(w, "lock", "test") \/ Lock(w, "relock", "test")
             \/ Wait(w) \/ SpuriousWake(w)
    BY <2>1, BarUnchanged DEF Lock, Wait, SpuriousWake, heapVars, listVars
  <2>2. CASE Dequeue(w)
    <3>1. Fifo!Take(w)
      BY <2>2, DequeueTakes DEF Fifo!Take, queueBar, workingBar
    <3> QED
      BY <3>1 DEF Fifo!FifoNext
  <2>3. CASE Finish(w)
    <3>1. Fifo!Complete(w)
      BY <2>3, FinishCompletes DEF Fifo!Complete, queueBar, workingBar
    <3> QED
      BY <3>1 DEF Fifo!FifoNext
  <2> QED
    BY <1>3, <2>1, <2>2, <2>3 DEF WorkerStep
<1> QED
  BY <1>1, <1>2, <1>3 DEF Next

LEMMA InitImplements == Init => Fifo!FifoInit
<1> SUFFICES ASSUME Init PROVE Fifo!FifoInit
  OBVIOUS
<1>1. LastSubmitted = 0 /\ queueBar = << >>
  BY DEF Init, LastSubmitted, queueBar
<1>2. workingBar = [w \in Workers |-> 0]
  BY DEF Init, workingBar, Threads
<1> QED
  BY <1>1, <1>2 DEF Fifo!FifoInit, queueBar, workingBar

(* The list, its mutex and its condition variable together are a first-in  *)
(* first-out queue: every step submits, takes or completes one request, or *)
(* changes nothing a user of the queue can see.                            *)
THEOREM QueueImplementsFifo == Spec => ImplementsFifo
<1>1. QueueInv /\ QueueInv' /\ [Next]_vars => [Fifo!FifoNext]_(Fifo!fifoVars)
  BY StepImplements DEF Fifo!fifoVars, queueBar, workingBar
<1> QED
  BY <1>1, InitImplements, QueueInvariant, PTL
     DEF Spec, ImplementsFifo, Fifo!FifoSpec

=============================================================================
