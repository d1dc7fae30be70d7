------------------------- MODULE PacketReaderProofs -------------------------
(***************************************************************************)
(* Proofs about the packet reader for any length of body, any number of    *)
(* packets and any way the network cuts the stream.  ReaderInv is          *)
(* inductive; the properties follow from it.                               *)
(***************************************************************************)
EXTENDS PacketReader, SequenceTheorems, TLAPS

-----------------------------------------------------------------------------
(* Positions in the stream.                                                *)

LEMMA SizeFacts ==
  /\ Size \in Nat \ {0} /\ Size = 15 + Body /\ 15 < Size /\ HeadSize = 15 /\ Body > 0
  /\ Stream \in Nat
<1>1. Size \in Nat /\ Size = 15 + Body /\ HeadSize = 15 /\ Body > 0
  BY ReaderAssumption DEF Size, HeadSize
<1> QED
  BY <1>1, ReaderAssumption DEF Stream

(* Within a packet the offset grows with the position.                     *)
LEMMA OffsetAdds ==
  ASSUME NEW p \in Nat, NEW n \in Nat \ {0}, NEW d \in Nat, (p % n) + d < n
  PROVE  (p + d) % n = (p % n) + d
<1> DEFINE k == p \div n
           r == p % n
<1>1. k \in Nat /\ r + d \in 0 .. n - 1 /\ p + d = n * k + (r + d)
  OBVIOUS
<1> HIDE DEF k, r
<1> DEFINE e == r + d
<1>2. e \in 0 .. n - 1 /\ p + d = n * k + e /\ k \in Nat
  BY <1>1
<1> HIDE DEF e
<1>3. (n * k + e) % n = e
  BY <1>2, SMTT(30)
<1> QED
  BY <1>2, <1>3 DEF e, r

LEMMA OffsetBefore ==
  ASSUME NEW p \in Nat, NEW n \in Nat \ {0}, NEW d \in Nat, (p + d) % n = d
  PROVE  p % n = 0
OBVIOUS

LEMMA OffsetAtStart ==
  ASSUME NEW n \in Nat \ {0}, NEW k \in Nat
  PROVE  (n * k) % n = 0
OBVIOUS

(* A length of four bytes, read at the start of a packet, is the body's.   *)
LEMMA WholeLength ==
  ASSUME NEW p \in Nat, p % Size = 0
  PROVE  LengthsAt(p, 4) = {Body}
<1>1. LengthsAt(p, 4) = {Digit(0) + Base * Digit(1)}
  BY DEF LengthsAt, Width
<1>2. Digit(0) = Body % Base /\ Digit(1) = Body \div Base
  BY DEF Digit
<1>3. (Body % Base) + Base * (Body \div Base) = Body
  BY ReaderAssumption
<1> QED
  BY <1>1, <1>2, <1>3

(* What recv returns.                                                      *)
LEMMA GotFacts ==
  ASSUME TypeOK, NEW want \in Nat
  PROVE  /\ Got(want) \in 0 .. want
         /\ pos + Got(want) \in pos .. arrived
         /\ pos \in Nat /\ arrived \in Nat
         /\ Got(want) <= Unread
BY SizeFacts DEF Got, Unread, TypeOK

(* What a task records.                                                    *)
LEMMA TaskFacts ==
  ASSUME TypeOK
  PROVE  /\ Len(tasks) \in Nat
         /\ \A i \in 1 .. Len(tasks) : tasks[i].from \in Nat /\ tasks[i].size \in Nat
<1>1. tasks \in Seq([from : 0 .. Stream, size : 1 .. MaxLen]) /\ Len(tasks) \in Nat
  BY DEF TypeOK
<1>2. \A i \in 1 .. Len(tasks) : tasks[i] \in [from : 0 .. Stream, size : 1 .. MaxLen]
  BY <1>1, ElementOfSeq
<1> QED
  BY <1>1, <1>2, SizeFacts

(* A task that lay behind the reader does so when the reader has moved on. *)
LEMMA BehindStays ==
  ASSUME TypeOK, TasksBehind, tasks' = tasks, pos' \in Nat, pos \in Nat, pos' >= pos
  PROVE  TasksBehind'
<1> SUFFICES ASSUME NEW i \in 1 .. Len(tasks)
             PROVE  tasks[i].from < pos'
  BY DEF TasksBehind
<1>1. tasks[i].from \in Nat
  BY TaskFacts
<1>2. tasks[i].from < pos
  BY DEF TasksBehind
<1> QED
  BY <1>1, <1>2

-----------------------------------------------------------------------------
LEMMA InitReader == Init => ReaderInv
<1> SUFFICES ASSUME Init PROVE ReaderInv
  OBVIOUS
<1> USE SizeFacts, ReaderAssumption DEF Init
<1>1. TypeOK
  <2>1. arrived \in 0 .. Stream /\ pos \in 0 .. arrived /\ length \in 0 .. MaxLen
    OBVIOUS
  <2>2. tasks \in Seq([from : 0 .. Stream, size : 1 .. MaxLen])
    OBVIOUS
  <2> QED
    BY <2>1, <2>2 DEF TypeOK
<1>2. HeadsFreed /\ FieldKnown /\ TasksAreWhole /\ TasksBehind
  BY DEF HeadsFreed, FieldKnown, Fields, TasksAreWhole, TasksBehind
<1>3. InStep /\ EdgeCovers
  BY DEF InStep, EdgeCovers, ReadSoFar, Fields, Unread
<1> QED
  BY <1>1, <1>2, <1>3 DEF ReaderInv

-----------------------------------------------------------------------------
(* One lemma per step.                                                     *)

LEMMA StepArrive ==
  ASSUME ReaderInv, Arrive
  PROVE  ReaderInv'
<1> USE SizeFacts DEF ReaderInv, Arrive, historyVars
<1>1. PICK n \in 1 .. Stream - arrived : arrived' = arrived + n
  OBVIOUS
<1>2. TypeOK'
  BY <1>1 DEF TypeOK
<1>3. HeadsFreed' /\ FieldKnown' /\ TasksAreWhole' /\ TasksBehind'
  BY DEF HeadsFreed, FieldKnown, Aligned, TasksAreWhole, TasksBehind
<1>4. InStep' /\ EdgeCovers'
  BY DEF InStep, ReadSoFar, EdgeCovers
<1> QED
  BY <1>2, <1>3, <1>4

LEMMA StepHangUp ==
  ASSUME ReaderInv, HangUp
  PROVE  ReaderInv'
<1> USE SizeFacts DEF ReaderInv, HangUp, historyVars
<1>1. TypeOK'
  BY DEF TypeOK
<1>2. HeadsFreed' /\ FieldKnown' /\ TasksAreWhole' /\ TasksBehind'
  BY DEF HeadsFreed, FieldKnown, Aligned, TasksAreWhole, TasksBehind
<1>3. InStep' /\ EdgeCovers'
  BY DEF InStep, ReadSoFar, EdgeCovers
<1> QED
  BY <1>1, <1>2, <1>3

LEMMA StepWait ==
  ASSUME ReaderInv, Wait
  PROVE  ReaderInv'
<1> USE SizeFacts DEF ReaderInv, Wait
<1>1. TypeOK'
  <2>1. heads' \in {0, 1} /\ 0 \in 0 .. MaxLen
    BY ReaderAssumption DEF HeadsFreed
  <2> QED
    BY <2>1 DEF TypeOK
<1>2. HeadsFreed' /\ FieldKnown' /\ TasksAreWhole' /\ TasksBehind'
  BY DEF HeadsFreed, FieldKnown, Fields, TasksAreWhole, TasksBehind
<1>3. InStep'
  BY DEF InStep, ReadSoFar, Fields
<1>4. EdgeCovers'
  <2> SUFFICES ASSUME ~split, ~refused, ~coalesced'
               PROVE  arrived <= Size * Len(tasks) + Size
    BY DEF EdgeCovers
  <2>1. pos \in Nat /\ arrived \in Nat /\ Len(tasks) \in Nat
    BY DEF TypeOK
  <2>2. pos = Size * Len(tasks) + 0
    BY DEF InStep, ReadSoFar
  <2>3. ~(Unread > Size)
    OBVIOUS
  <2> DEFINE start == Size * Len(tasks)
  <2>4. start \in Nat
    BY <2>1
  <2> HIDE DEF start
  <2>5. arrived <= start + Size
    BY <2>1, <2>2, <2>3, <2>4, SMTT(30) DEF Unread, start
  <2> QED
    BY <2>5 DEF start
<1> QED
  BY <1>1, <1>2, <1>3, <1>4

(* Going back to epoll_wait with less than a packet: what was read is the  *)
(* prefix of something that was cut or wrong.                              *)
LEMMA StepReject ==
  ASSUME ReaderInv, pc \in Fields \cup {"length"}, Reject,
         NEW n \in Nat, pos + n <= arrived, pos' = pos + n,
         refused' \in BOOLEAN, split' \in BOOLEAN, refused' \/ split', split => split'
  PROVE  ReaderInv'
<1> USE SizeFacts DEF ReaderInv, Reject, socketVars, Fields
<1>1. pos' \in Nat /\ pos \in Nat /\ arrived \in Nat /\ pos' >= pos
  BY DEF TypeOK
<1>2. TypeOK'
  <2>1. heads' \in {0, 1}
    BY DEF HeadsFreed
  <2>2. pos' \in 0 .. arrived'
    BY <1>1
  <2> QED
    BY <2>1, <2>2 DEF TypeOK
<1>3. HeadsFreed' /\ FieldKnown' /\ TasksAreWhole'
  BY DEF HeadsFreed, FieldKnown, TasksAreWhole
<1>4. TasksBehind'
  BY <1>1, BehindStays
<1>5. InStep' /\ EdgeCovers'
  BY DEF InStep, EdgeCovers
<1> QED
  BY <1>2, <1>3, <1>4, <1>5

LEMMA StepRecvLength ==
  ASSUME ReaderInv, RecvLength
  PROVE  ReaderInv'
<1> USE SizeFacts DEF ReaderInv
<1> DEFINE n == Got(4)
<1>1. Width["length"] = 4
  BY DEF Width
<1>2. /\ pc = "length" /\ pos' = pos + n
      /\ split' = (split \/ n < 4)
  BY <1>1 DEF RecvLength
<1>3. /\ n \in 0 .. 4 /\ pos \in Nat /\ arrived \in Nat /\ pos + n \in pos .. arrived
  BY GotFacts DEF ReaderInv
<1>4. PICK v \in LengthsAt(pos, n) :
        \/ /\ v \in 1 .. MaxLen
           /\ pc' = "flag"
           /\ length' = v
           /\ short' = (short \/ n < 4)
           /\ UNCHANGED <<socketVars, heads, tasks, refused, coalesced>>
        \/ refused' = TRUE /\ Reject
  BY <1>1 DEF RecvLength
<1> HIDE DEF n
<1>5. CASE refused' = TRUE /\ Reject
  <2>1. split' \in BOOLEAN /\ (split => split') /\ refused' \in BOOLEAN
    BY <1>2, <1>5
  <2>2. n \in Nat /\ pos + n <= arrived
    BY <1>3
  <2> QED
    BY <1>2, <1>5, <2>1, <2>2, StepReject
<1>6. CASE /\ v \in 1 .. MaxLen
           /\ pc' = "flag"
           /\ length' = v
           /\ short' = (short \/ n < 4)
           /\ UNCHANGED <<socketVars, heads, tasks, refused, coalesced>>
  <2> USE <1>2, <1>3, <1>6 DEF socketVars
  <2>1. TypeOK'
    BY DEF TypeOK
  <2>2. ASSUME n = 4, pos % Size = 0
        PROVE  length' = Body
    BY <1>4, <2>2, WholeLength
  <2>3. FieldKnown'
    <3>1. ASSUME ~short', Aligned("flag")'
          PROVE  length' = Body
      <4>0. ~(n < 4)
        BY <3>1
      <4>1. n = 4 /\ pos' % Size = 4
        BY <3>1, <4>0 DEF Aligned, Offset
      <4>2. pos % Size = 0
        BY <4>1, OffsetBefore
      <4> QED
        BY <4>1, <4>2, <2>2
    <3>2. short' => split'
      BY DEF FieldKnown
    <3> QED
      BY <3>1, <3>2 DEF FieldKnown, Fields
  <2>4. HeadsFreed' /\ TasksAreWhole'
    BY DEF HeadsFreed, TasksAreWhole
  <2>5. TasksBehind'
    <3>1. pos' \in Nat /\ pos' >= pos
      OBVIOUS
    <3> QED
      BY <3>1, BehindStays
  <2>6. InStep'
    <3> SUFFICES ASSUME ~split', ~refused'
                 PROVE  pos' = Size * Len(tasks) + 4 /\ length' = Body
      BY DEF InStep, ReadSoFar, Offset
    <3>0. ~(n < 4) /\ ~split /\ ~refused
      OBVIOUS
    <3>1. n = 4 /\ Len(tasks) \in Nat
      BY <3>0, TaskFacts
    <3> DEFINE start == Size * Len(tasks)
    <3>2. start \in Nat /\ pos = start + 0
      BY <3>0, <3>1 DEF InStep, ReadSoFar
    <3>3. start % Size = 0
      BY <3>1, OffsetAtStart
    <3> HIDE DEF start
    <3>4. pos = start /\ pos' = start + 4
      BY <3>1, <3>2
    <3> QED
      BY <3>1, <3>3, <3>4, <2>2 DEF start
  <2>7. EdgeCovers'
    BY DEF EdgeCovers, Fields
  <2> QED
    BY <2>1, <2>3, <2>4, <2>5, <2>6, <2>7
<1> QED
  BY <1>4, <1>5, <1>6

LEMMA StepRecvNothing ==
  ASSUME ReaderInv, RecvNothing
  PROVE  ReaderInv'
<1> USE SizeFacts DEF ReaderInv, RecvNothing, socketVars, historyVars
<1>1. TypeOK' /\ HeadsFreed'
  BY DEF TypeOK, HeadsFreed
<1>2. FieldKnown' /\ TasksAreWhole' /\ TasksBehind'
  BY DEF FieldKnown, Fields, TasksAreWhole, TasksBehind
<1>3. InStep' /\ EdgeCovers'
  BY DEF InStep, ReadSoFar, EdgeCovers, Fields
<1> QED
  BY <1>1, <1>2, <1>3

LEMMA StepRecvField ==
  ASSUME ReaderInv, NEW f \in {"flag", "version", "cmd", "gameid", "code"}, RecvField(f)
  PROVE  ReaderInv'
<1> USE SizeFacts DEF ReaderInv
<1> DEFINE w == Width[f]
           n == Got(w)
<1>1. w \in 1 .. 4 /\ w \in Nat
  BY DEF Width
<1>2. n \in 0 .. w /\ pos \in Nat /\ arrived \in Nat /\ pos + n \in pos .. arrived
  BY <1>1, GotFacts
<1>3. pc = f /\ pos' = pos + n /\ split' = (split \/ n < w)
  BY DEF RecvField
<1>4. \/ /\ n = w /\ Correct(f) /\ pc' = After[f]
         /\ UNCHANGED <<socketVars, length, heads, tasks, refused, short, coalesced>>
      \/ ~(n = w /\ Correct(f)) /\ refused' = (refused \/ n = w) /\ Reject
  BY DEF RecvField
<1> HIDE DEF n, w
<1>5. CASE ~(n = w /\ Correct(f)) /\ refused' = (refused \/ n = w) /\ Reject
  <2>1. split' \in BOOLEAN /\ (split => split') /\ refused' \in BOOLEAN
    BY <1>3, <1>5
  <2>2. n = w \/ n < w
    BY <1>1, <1>2
  <2>3. refused' \/ split'
    BY <1>3, <1>5, <2>2
  <2>4. n \in Nat /\ pos + n <= arrived
    BY <1>1, <1>2
  <2> QED
    BY <1>3, <1>5, <2>1, <2>3, <2>4, StepReject DEF Fields
<1>6. CASE /\ n = w /\ Correct(f) /\ pc' = After[f]
           /\ UNCHANGED <<socketVars, length, heads, tasks, refused, short, coalesced>>
  <2> USE <1>1, <1>2, <1>3, <1>6 DEF socketVars
  <2>1. split' = split
    <3>1. ~(n < w)
      OBVIOUS
    <3>2. split \in BOOLEAN
      BY DEF TypeOK
    <3> QED
      BY <3>1, <3>2
  <2>2. pc' \in Fields /\ pc' # "flag" /\ pc \in Fields
    BY DEF After, Fields
  <2>3. pos' \in 0 .. arrived /\ pos' \in Nat /\ pos' >= pos
    OBVIOUS
  <2>4. TypeOK'
    BY <2>1, <2>2, <2>3 DEF TypeOK, Fields
  <2>5. pos % Size = Offset[f]
    BY DEF Correct, Aligned
  <2>6. FieldKnown'
    <3>1. ASSUME ~short PROVE length' = Body
      BY <3>1, <2>2 DEF FieldKnown, Correct, Fields
    <3>2. length' \in 1 .. MaxLen
      BY <2>2 DEF FieldKnown
    <3>3. ASSUME pc' = "body" PROVE pos' % Size = HeadSize
      <4>1. Offset[f] + w = 15 /\ Offset[f] \in Nat
        BY <3>3 DEF After, Offset, Width, w
      <4>2. (pos % Size) + w < Size
        <5>1. (pos % Size) + w = 15
          BY <2>5, <4>1
        <5> QED
          BY <5>1
      <4>3. (pos + w) % Size = (pos % Size) + w
        BY <4>2, OffsetAdds
      <4> QED
        BY <2>5, <4>1, <4>3
    <3>4. short => split
      BY DEF FieldKnown
    <3> QED
      BY <2>1, <2>2, <3>1, <3>2, <3>3, <3>4 DEF FieldKnown
  <2>7. HeadsFreed'
    BY <2>2 DEF HeadsFreed, Fields
  <2>8. TasksAreWhole'
    BY DEF TasksAreWhole
  <2>9. TasksBehind'
    BY <2>3, BehindStays
  <2>10. InStep'
    <3> SUFFICES ASSUME ~split, ~refused
                 PROVE  (pos = Size * Len(tasks) + ReadSoFar /\ length = Body)'
      BY <2>1 DEF InStep
    <3> DEFINE start == Size * Len(tasks)
    <3>1. start \in Nat
      BY TaskFacts
    <3>2. pos = start + Offset[f] /\ length = Body
      BY <2>2 DEF InStep, ReadSoFar
    <3>3. ReadSoFar' = Offset[f] + w
      BY DEF ReadSoFar, After, Offset, Width, w
    <3>4. Offset[f] \in Nat
      BY DEF Offset
    <3> HIDE DEF start
    <3>5. pos' = start + ReadSoFar'
      BY <3>1, <3>2, <3>3, <3>4
    <3> QED
      BY <3>2, <3>5 DEF start
  <2>11. EdgeCovers'
    BY <2>1, <2>2 DEF EdgeCovers, Fields
  <2> QED
    BY <2>4, <2>6, <2>7, <2>8, <2>9, <2>10, <2>11
<1> QED
  BY <1>4, <1>5, <1>6

LEMMA StepRecvBody ==
  ASSUME ReaderInv, RecvBody
  PROVE  ReaderInv'
<1> USE SizeFacts DEF ReaderInv
<1> DEFINE n == Got(length)
           task == [from |-> pos, size |-> n]
<1>1. length \in 1 .. MaxLen /\ MaxLen \in Nat
  BY ReaderAssumption DEF RecvBody, FieldKnown, Fields
<1>2. n \in 0 .. length /\ pos \in Nat /\ arrived \in Nat /\ pos + n \in pos .. arrived
  BY <1>1, GotFacts
<1>3. /\ pc = "body" /\ pos' = pos + n /\ split' = (split \/ n < length)
      /\ pc' = "wait" /\ heads' = heads - 1
      /\ tasks' = IF n = length THEN Append(tasks, task) ELSE tasks
      /\ UNCHANGED <<socketVars, length, refused, short, coalesced>>
  BY DEF RecvBody
<1> HIDE DEF n
<1> USE <1>1, <1>2, <1>3 DEF socketVars
<1>4. pos' \in 0 .. arrived /\ pos' \in Nat /\ pos' >= pos
  OBVIOUS
<1>5. heads' = 0 /\ HeadsFreed'
  BY DEF HeadsFreed
<1>6. FieldKnown'
  <2>1. short => split
    BY DEF FieldKnown
  <2> QED
    BY <2>1 DEF FieldKnown, Fields
<1>7. CASE n < length
  <2>1. tasks' = tasks /\ split' = TRUE
    <3>1. n # length
      BY <1>7
    <3>2. tasks' = tasks
      BY <3>1
    <3>3. split' = TRUE
      BY <1>7
    <3> QED
      BY <3>2, <3>3
  <2>2. TypeOK'
    BY <1>4, <1>5, <2>1 DEF TypeOK
  <2>3. TasksAreWhole' /\ TasksBehind'
    BY <1>4, <2>1, BehindStays DEF TasksAreWhole
  <2> QED
    BY <1>5, <1>6, <2>1, <2>2, <2>3 DEF InStep, EdgeCovers
<1>8. CASE n = length
  <2>1. tasks' = Append(tasks, task)
    BY <1>8
  <2>2. split' = split
    <3>1. ~(n < length) /\ split \in BOOLEAN
      BY <1>8 DEF TypeOK
    <3> QED
      BY <3>1
  <2>3. task \in [from : 0 .. Stream, size : 1 .. MaxLen]
    BY <1>8 DEF TypeOK
  <2>4. tasks \in Seq([from : 0 .. Stream, size : 1 .. MaxLen])
    BY DEF TypeOK
  <2>5. /\ tasks' \in Seq([from : 0 .. Stream, size : 1 .. MaxLen])
        /\ Len(tasks') = Len(tasks) + 1 /\ Len(tasks) \in Nat
        /\ \A i \in 1 .. Len(tasks) : tasks'[i] = tasks[i]
        /\ tasks'[Len(tasks) + 1] = task
    <3> DEFINE T == [from : 0 .. Stream, size : 1 .. MaxLen]
    <3>1. tasks \in Seq(T) /\ task \in T
      BY <2>3, <2>4
    <3> HIDE DEF task, T
    <3>2. Append(tasks, task) \in Seq(T) /\ Len(tasks) \in Nat
      BY <3>1, AppendProperties
    <3>3. /\ Len(Append(tasks, task)) = Len(tasks) + 1
          /\ \A i \in 1 .. Len(tasks) : Append(tasks, task)[i] = tasks[i]
          /\ Append(tasks, task)[Len(tasks) + 1] = task
      BY <3>1, AppendProperties
    <3> QED
      BY <2>1, <3>2, <3>3 DEF T
  <2>6. TypeOK'
    BY <1>4, <1>5, <2>2, <2>5 DEF TypeOK
  <2>7. TasksBehind'
    <3> SUFFICES ASSUME NEW i \in 1 .. Len(tasks')
                 PROVE  tasks'[i].from < pos'
      BY DEF TasksBehind
    <3>1. CASE i \in 1 .. Len(tasks)
      <4>1. tasks[i].from < pos /\ tasks[i].from \in Nat
        BY <3>1, TaskFacts DEF TasksBehind
      <4> QED
        BY <1>4, <2>5, <3>1, <4>1
    <3>2. CASE i = Len(tasks) + 1
      <4>1. pos < pos'
        BY <1>8
      <4> QED
        BY <2>5, <3>2, <4>1
    <3> QED
      BY <2>5, <3>1, <3>2, SMTT(30)
  <2>8. TasksAreWhole'
    <3>1. ASSUME NEW i \in 1 .. Len(tasks')
          PROVE  tasks'[i].from % Size = HeadSize /\ (short' \/ tasks'[i].size = Body)
      <4>1. CASE i \in 1 .. Len(tasks)
        BY <2>5, <4>1 DEF TasksAreWhole
      <4>2. CASE i = Len(tasks) + 1
        <5>1. pos % Size = HeadSize /\ (short \/ length = Body)
          BY DEF FieldKnown, Fields
        <5> QED
          BY <1>8, <2>5, <4>2, <5>1, SMTT(30)
      <4> QED
        BY <2>5, <4>1, <4>2, SMTT(30)
    <3>2. ASSUME NEW i \in 1 .. Len(tasks'), NEW j \in 1 .. Len(tasks'), i < j
          PROVE  tasks'[i].from < tasks'[j].from
      <4>0. Len(tasks') = Len(tasks) + 1 /\ Len(tasks) \in Nat
        BY <2>5
      <4>1. i \in 1 .. Len(tasks) /\ (j \in 1 .. Len(tasks) \/ j = Len(tasks) + 1)
        <5> DEFINE k == Len(tasks)
                   m == Len(tasks')
        <5>1. k \in Nat /\ m = k + 1 /\ i \in 1 .. m /\ j \in 1 .. m
          BY <3>2, <4>0
        <5> HIDE DEF k, m
        <5>2. i \in 1 .. k /\ (j \in 1 .. k \/ j = k + 1)
          BY <3>2, <5>1
        <5> QED
          BY <5>2 DEF k
      <4>2. CASE j \in 1 .. Len(tasks)
        <5>1. tasks[i].from < tasks[j].from
          BY <3>2, <4>1, <4>2 DEF TasksAreWhole
        <5> QED
          BY <2>5, <4>1, <4>2, <5>1
      <4>3. CASE j = Len(tasks) + 1
        <5>1. tasks[i].from < pos
          BY <4>1 DEF TasksBehind
        <5>2. tasks'[i] = tasks[i] /\ tasks'[j] = task /\ task.from = pos
          BY <2>5, <4>1, <4>3
        <5> QED
          BY <5>1, <5>2
      <4> QED
        BY <4>1, <4>2, <4>3
    <3> QED
      BY <3>1, <3>2 DEF TasksAreWhole
  <2> DEFINE k == Len(tasks)
             start == Size * k
             next == Size * (k + 1)
  <2>9. start \in Nat /\ next = start + Size
    <3>1. k \in Nat
      BY <2>5
    <3> HIDE DEF k
    <3> QED
      BY <3>1
  <2>10. InStep'
    <3> SUFFICES ASSUME ~split, ~refused
                 PROVE  pos' = Size * Len(tasks') + 0
      BY <2>2 DEF InStep, ReadSoFar, Fields
    <3>1. pos = start + 15 /\ length = Body
      BY DEF InStep, ReadSoFar, Fields
    <3> HIDE DEF start, next
    <3>2. pos' = next + 0
      BY <1>8, <2>9, <3>1
    <3> QED
      BY <2>5, <3>2 DEF next
  <2>11. EdgeCovers'
    <3> SUFFICES ASSUME ~split, ~refused, ~coalesced, ~edge
                 PROVE  Unread' = 0
      BY <2>2 DEF EdgeCovers, Fields
    <3>1. pos = start + 15 /\ length = Body
      BY DEF InStep, ReadSoFar, Fields
    <3>2. arrived <= start + Size
      BY DEF EdgeCovers, Fields
    <3> HIDE DEF start
    <3>3. arrived' = arrived /\ arrived = pos'
      BY <1>8, <2>9, <3>1, <3>2
    <3> QED
      BY <1>4, <3>3 DEF Unread
  <2> QED
    BY <1>5, <1>6, <2>6, <2>7, <2>8, <2>10, <2>11
<1> QED
  BY <1>7, <1>8

LEMMA Stutter ==
  ASSUME ReaderInv, UNCHANGED vars
  PROVE  ReaderInv'
BY DEF ReaderInv, vars, socketVars, historyVars, TypeOK, HeadsFreed, FieldKnown, Aligned,
       TasksAreWhole, TasksBehind, InStep, ReadSoFar, EdgeCovers, Unread

-----------------------------------------------------------------------------
(* The invariant holds in every reachable state.                           *)
THEOREM ReaderInvariant == Spec => []ReaderInv
<1>1. ASSUME ReaderInv, [Next]_vars
      PROVE  ReaderInv'
  <2>1. CASE Arrive
    BY <1>1, <2>1, StepArrive
  <2>2. CASE HangUp
    BY <1>1, <2>2, StepHangUp
  <2>3. CASE EpollStep
    BY <1>1, <2>3, StepWait, StepRecvLength, StepRecvNothing, StepRecvField, StepRecvBody
       DEF EpollStep
  <2>4. CASE UNCHANGED vars
    BY <1>1, <2>4, Stutter
  <2> QED
    BY <1>1, <2>1, <2>2, <2>3, <2>4 DEF Next
<1> QED
  BY InitReader, <1>1, PTL DEF Spec

(* The reader's counters keep their ranges: in particular a recv is never  *)
(* asked for more than PACKET_MAX_LEN bytes (spider_function.c:281,317).   *)
THEOREM TypeCorrect == Spec => []TypeOK
<1>1. ReaderInv => TypeOK
  BY DEF ReaderInv
<1> QED
  BY ReaderInvariant, <1>1, PTL

(* However the stream is cut, a header block lives exactly while a packet  *)
(* is being read, and the one that leaks is the last of its connection     *)
(* (spider_function.c:244-328).                                            *)
THEOREM HeadersFreed == Spec => []HeadsFreed
<1>1. ReaderInv => HeadsFreed
  BY DEF ReaderInv
<1> QED
  BY ReaderInvariant, <1>1, PTL

(* For any length of body and any cut of the stream, what becomes a task   *)
(* is the whole body of one packet, each packet at most once, unless a     *)
(* length was accepted from less than four bytes (spider_function.c:256).  *)
THEOREM TasksWhole == Spec => []TasksAreWhole
<1>1. ReaderInv => TasksAreWhole
  BY DEF ReaderInv
<1> QED
  BY ReaderInvariant, <1>1, PTL

(* Back in epoll_wait the reader stands at the start of a packet, with one *)
(* task made of each packet behind it, as long as no recv came short and   *)
(* no field was refused (spider_function.c:242-330).                       *)
THEOREM ReaderInStep == Spec => []StaysInStep
<1>1. ReaderInv => StaysInStep
  <2> SUFFICES ASSUME ReaderInv, pc = "wait", ~split, ~refused
               PROVE  pos = Size * Len(tasks)
    BY DEF StaysInStep
  <2> DEFINE start == Size * Len(tasks)
  <2>1. start \in Nat
    BY SizeFacts, TaskFacts DEF ReaderInv
  <2>2. pos = start + 0
    BY DEF ReaderInv, InStep, ReadSoFar
  <2> HIDE DEF start
  <2>3. pos = start
    BY <2>1, <2>2
  <2> QED
    BY <2>3 DEF start
<1> QED
  BY ReaderInvariant, <1>1, PTL

(* Bytes that wait without an event to announce them came behind another   *)
(* packet of the same event, or the reader had lost its step               *)
(* (spider_tcp_server.c:160-185).                                          *)
THEOREM StallsExplained == Spec => []StallsOnlyBehindAnother
<1>1. ReaderInv => StallsOnlyBehindAnother
  <2> SUFFICES ASSUME ReaderInv, pc = "wait", ~edge, Unread > 0
               PROVE  coalesced \/ split \/ refused
    BY DEF StallsOnlyBehindAnother
  <2>1. ~(Unread = 0)
    OBVIOUS
  <2> QED
    BY <2>1 DEF ReaderInv, EdgeCovers
<1> QED
  BY ReaderInvariant, <1>1, PTL

=============================================================================
