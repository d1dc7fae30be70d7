---------------------------- MODULE LogDirProofs ----------------------------
(***************************************************************************)
(* Proofs about the log directories for any number of threads that log or  *)
(* ask for the time, any levels and any stretch of months.  LogInv is      *)
(* inductive; the properties follow from it.                               *)
(***************************************************************************)
EXTENDS LogDir, FiniteSetTheorems, SequenceTheorems, TLAPS

-----------------------------------------------------------------------------
(* Short sequences.                                                        *)

LEMMA AppendToOne ==
  ASSUME NEW a, NEW y
  PROVE  Append(<<a>>, y) = <<a, y>>
<1> DEFINE S == {a, y}
<1>1. <<a>> \in Seq(S) /\ y \in S /\ <<a, y>> \in Seq(S)
  OBVIOUS
<1>2. /\ Append(<<a>>, y) \in Seq(S) /\ Len(Append(<<a>>, y)) = 2
      /\ Append(<<a>>, y)[1] = a /\ Append(<<a>>, y)[2] = y
  <2> HIDE DEF S
  <2> QED
    BY <1>1, AppendProperties
<1> HIDE DEF S
<1>3. \A i \in 1 .. 2 : Append(<<a>>, y)[i] = <<a, y>>[i]
  BY <1>2
<1> QED
  BY <1>1, <1>2, <1>3, SeqEqual

LEMMA AppendToTwo ==
  ASSUME NEW a, NEW y, NEW b
  PROVE  Append(<<a, b>>, y) = <<a, b, y>>
<1> DEFINE S == {a, b, y}
<1>1. <<a, b>> \in Seq(S) /\ y \in S /\ <<a, b, y>> \in Seq(S)
  OBVIOUS
<1>2. /\ Append(<<a, b>>, y) \in Seq(S) /\ Len(Append(<<a, b>>, y)) = 3
      /\ Append(<<a, b>>, y)[1] = a /\ Append(<<a, b>>, y)[2] = b
      /\ Append(<<a, b>>, y)[3] = y
  <2> HIDE DEF S
  <2> QED
    BY <1>1, AppendProperties
<1> HIDE DEF S
<1>3. \A i \in 1 .. 3 : Append(<<a, b>>, y)[i] = <<a, b, y>>[i]
  BY <1>2
<1> QED
  BY <1>1, <1>2, <1>3, SeqEqual

LEMMA FirstOfTwo ==
  ASSUME NEW a, NEW y
  PROVE  SubSeq(<<a, y>>, 1, 1) = <<a>>
<1> DEFINE S == {a}
           s == SubSeq(<<a, y>>, 1, 1)
<1>1. /\ s \in Seq(S) /\ Len(s) = 1 /\ s[1] = a
  <2>1. \A i \in 1 .. 1 : <<a, y>>[i] \in S
    OBVIOUS
  <2> HIDE DEF S
  <2>2. \A i \in 1 .. 1-1+1 : s[i] = <<a, y>>[1+i-1]
    BY <2>1, SubSeqProperties
  <2> QED
    BY <2>1, <2>2, SubSeqProperties
<1>2. <<a>> \in Seq(S)
  OBVIOUS
<1> HIDE DEF s, S
<1>3. s = <<a>>
  BY <1>1, <1>2, SeqEqual
<1> QED
  BY <1>3 DEF s

LEMMA TwoOfThree ==
  ASSUME NEW a, NEW y, NEW b
  PROVE  SubSeq(<<a, b, y>>, 1, 2) = <<a, b>>
<1> DEFINE S == {a, b}
           s == SubSeq(<<a, b, y>>, 1, 2)
<1>1. /\ s \in Seq(S) /\ Len(s) = 2 /\ s[1] = a /\ s[2] = b
  <2>1. \A i \in 1 .. 2 : <<a, b, y>>[i] \in S
    OBVIOUS
  <2> HIDE DEF S
  <2>2. \A i \in 1 .. 2-1+1 : s[i] = <<a, b, y>>[1+i-1]
    BY <2>1, SubSeqProperties
  <2> QED
    BY <2>1, <2>2, SubSeqProperties
<1>2. <<a, b>> \in Seq(S)
  OBVIOUS
<1> HIDE DEF s, S
<1>3. \A i \in 1 .. 2 : s[i] = <<a, b>>[i]
  BY <1>1
<1>4. s = <<a, b>>
  BY <1>1, <1>2, <1>3, SeqEqual
<1> QED
  BY <1>4 DEF s

-----------------------------------------------------------------------------
(* Dates and paths.                                                        *)

LEMMA DateInRange ==
  ASSUME NEW m \in 0 .. MaxMonth
  PROVE  /\ Year(m) \in Years /\ Month(m) \in 0 .. Months - 1
         /\ Date(m) \in [year : Years, month : 0 .. Months - 1]
<1>1. Months \in Nat \ {0} /\ MaxMonth \in Nat
  BY LogAssumption
<1>2. m % Months \in 0 .. Months - 1
  BY <1>1
<1>3. m \div Months \in 0 .. MaxMonth \div Months
  BY <1>1
<1> QED
  BY <1>2, <1>3 DEF Year, Month, Years, Date

LEMMA PathParts ==
  ASSUME NEW p \in Paths
  PROVE  /\ Len(p) \in 1 .. 3
         /\ p[1] \in Levels
         /\ Len(p) = 1 => p = <<p[1]>> /\ Parent(p) = << >>
         /\ Len(p) = 2 => p = <<p[1], p[2]>> /\ p[2] \in Years /\ Parent(p) = <<p[1]>>
         /\ Len(p) = 3 => p = <<p[1], p[2], p[3]>> /\ Parent(p) = <<p[1], p[2]>>
<1>1. CASE p \in {<<l>> : l \in Levels}
  <2>1. PICK l \in Levels : p = <<l>>
    BY <1>1
  <2>2. Len(p) = 1 /\ p[1] = l
    BY <2>1
  <2>3. Parent(p) = << >>
    BY <2>1 DEF Parent
  <2> QED
    BY <2>1, <2>2, <2>3
<1>2. CASE p \in Levels \X Years
  <2>1. PICK l \in Levels, y \in Years : p = <<l, y>>
    BY <1>2
  <2>2. Len(p) = 2 /\ p[1] = l /\ p[2] = y
    BY <2>1
  <2>3. Parent(p) = <<l>>
    BY <2>1, <2>2, FirstOfTwo DEF Parent
  <2> QED
    BY <2>1, <2>2, <2>3
<1>3. CASE p \in Levels \X Years \X (0 .. Months - 1)
  <2>1. PICK l \in Levels, y \in Years, m \in 0 .. Months - 1 : p = <<l, y, m>>
    BY <1>3
  <2>2. Len(p) = 3 /\ p[1] = l /\ p[2] = y /\ p[3] = m
    BY <2>1
  <2>3. Parent(p) = <<l, y>>
    BY <2>1, <2>2, TwoOfThree DEF Parent
  <2> QED
    BY <2>1, <2>2, <2>3
<1> QED
  BY <1>1, <1>2, <1>3 DEF Paths

LEMMA LevelPath ==
  ASSUME NEW l \in Levels
  PROVE  <<l>> \in Paths /\ Len(<<l>>) = 1 /\ <<l>>[1] = l
BY DEF Paths

LEMMA YearAdded ==
  ASSUME NEW p \in Paths, Len(p) = 1, NEW y \in Years
  PROVE  /\ Append(p, y) = <<p[1], y>> /\ <<p[1], y>> \in Paths
         /\ Len(Append(p, y)) = 2 /\ Append(p, y)[1] = p[1] /\ Parent(Append(p, y)) = p
<1>1. p = <<p[1]>> /\ p[1] \in Levels
  BY PathParts
<1>2. Append(p, y) = <<p[1], y>>
  BY <1>1, AppendToOne
<1>3. <<p[1], y>> \in Paths
  BY <1>1 DEF Paths
<1>4. Len(<<p[1], y>>) = 2 /\ <<p[1], y>>[1] = p[1]
  OBVIOUS
<1>5. Parent(<<p[1], y>>) = <<p[1]>>
  BY <1>4, FirstOfTwo DEF Parent
<1> QED
  BY <1>1, <1>2, <1>3, <1>4, <1>5

LEMMA MonthAdded ==
  ASSUME NEW p \in Paths, Len(p) = 2, NEW m \in 0 .. Months - 1
  PROVE  /\ Append(p, m) = <<p[1], p[2], m>> /\ <<p[1], p[2], m>> \in Paths
         /\ Len(Append(p, m)) = 3 /\ Append(p, m)[1] = p[1] /\ Parent(Append(p, m)) = p
<1>1. p = <<p[1], p[2]>> /\ p[1] \in Levels /\ p[2] \in Years
  BY PathParts
<1>2. Append(p, m) = <<p[1], p[2], m>>
  BY <1>1, AppendToTwo
<1>3. <<p[1], p[2], m>> \in Paths
  BY <1>1 DEF Paths
<1>4. Len(<<p[1], p[2], m>>) = 3 /\ <<p[1], p[2], m>>[1] = p[1]
  OBVIOUS
<1>5. Parent(<<p[1], p[2], m>>) = <<p[1], p[2]>>
  BY <1>4, TwoOfThree DEF Parent
<1> QED
  BY <1>1, <1>2, <1>3, <1>4, <1>5

(* Of the three paths on the own way of a thread, each length has one.     *)
LEMMA OwnLengths ==
  ASSUME NEW l, NEW m
  PROVE  Len(<<l>>) = 1 /\ Len(<<l, Year(m)>>) = 2 /\ Len(DirOf(l, m)) = 3
BY DEF DirOf

-----------------------------------------------------------------------------
LEMMA InitLog == Init => LogInv
<1> SUFFICES ASSUME Init PROVE LogInv
  OBVIOUS
<1> USE DEF Init
<1>1. Typed
  <2>1. 0 \in 0 .. MaxMonth /\ now \in 0 .. MaxMonth
    BY LogAssumption
  <2>2. tm \in [year : Years, month : 0 .. Months - 1]
    BY <2>1, DateInRange
  <2>3. pc \in [Writers -> Labels] /\ \A c \in Clocks : pc[c] = "idle"
    BY DEF Labels, Writers
  <2>4. drops \in [Paths -> Nat] /\ path \in [Threads -> Paths \cup {<< >>}]
    OBVIOUS
  <2> QED
    BY <2>1, <2>2, <2>3, <2>4 DEF Typed
<1>2. PathGrows
  BY DEF PathGrows, Named, Writers
<1>3. ParentsFirst
  BY DEF ParentsFirst, Writers
<1>4. OneMakesIt
  <2>1. ASSUME NEW p \in Paths PROVE p \notin dirs
    <3>1. Len(p) \in 1 .. 3
      BY PathParts
    <3>2. p # << >>
      BY <3>1, SMTT(30)
    <3> QED
      BY <3>2
  <2> QED
    BY <2>1 DEF OneMakesIt
<1>5. \A w \in Threads \ mixed : OnOwnWay(w)
  BY DEF OnOwnWay, Reading, Writers
<1> QED
  BY <1>1, <1>2, <1>3, <1>4, <1>5 DEF LogInv

-----------------------------------------------------------------------------
(* Who makes a directory changes only at the mkdir label.                  *)
LEMMA MakersSame ==
  ASSUME Typed, NEW w \in Threads, NEW label \in Labels,
         pc[w] # "mkdir", label # "mkdir",
         pc' = [pc EXCEPT ![w] = label],
         \A u \in Threads \ {w} : path'[u] = path[u]
  PROVE  \A p \in Paths : Makers(p)' = Makers(p)
<1>1. \A u \in Threads : u \in Writers
  BY DEF Writers
<1>2. ASSUME NEW u \in Threads
      PROVE  pc'[u] = "mkdir" <=> pc[u] = "mkdir"
  BY <1>1 DEF Typed
<1>3. ASSUME NEW p, NEW u \in Threads
      PROVE  pc'[u] = "mkdir" /\ path'[u] = p <=> pc[u] = "mkdir" /\ path[u] = p
  BY <1>2
<1> QED
  BY <1>3 DEF Makers

LEMMA MakersFinite ==
  ASSUME NEW p \in Paths
  PROVE  /\ IsFiniteSet(Makers(p)) /\ Cardinality(Makers(p)) \in Nat
         /\ Cardinality(Threads) \in Nat /\ Cardinality(Threads) > 0
<1>1. Makers(p) \in SUBSET Threads
  BY DEF Makers
<1>2. IsFiniteSet(Makers(p)) /\ IsFiniteSet(Threads)
  BY <1>1, LogAssumption, FS_Subset, Zenon
<1>3. Cardinality(Threads) # 0
  BY <1>2, LogAssumption, FS_EmptySet
<1> QED
  BY <1>2, <1>3, FS_CardinalityType

(* One lemma per step.                                                     *)

LEMMA StepMonthEnds ==
  ASSUME LogInv, MonthEnds
  PROVE  LogInv'
<1> USE DEF LogInv, MonthEnds
<1>1. Typed'
  BY LogAssumption DEF Typed
<1>2. PathGrows' /\ ParentsFirst' /\ OneMakesIt'
  BY DEF PathGrows, Named, ParentsFirst, OneMakesIt, Makers
<1>3. (\A w \in Threads \ mixed : OnOwnWay(w))'
  BY DEF OnOwnWay, OwnDir
<1> QED
  BY <1>1, <1>2, <1>3

LEMMA StepBegin ==
  ASSUME LogInv, NEW w \in Threads, NEW level \in Levels, Begin(w, level)
  PROVE  LogInv'
<1> USE DEF LogInv, Begin, Goto, Running
<1>1. w \in Writers /\ \A u \in Threads : u \in Writers
  BY DEF Writers
<1>2. <<level>> \in Paths /\ Len(<<level>>) = 1
  BY LevelPath
<1>3. w \notin Clocks
  BY LogAssumption
<1>4. Typed'
  <2>1. pc' \in [Writers -> Labels] /\ t' \in [Writers -> 0 .. MaxMonth]
    BY <1>1 DEF Typed, Labels
  <2>2. path' \in [Threads -> Paths \cup {<< >>}]
    BY <1>2 DEF Typed
  <2>3. \A c \in Clocks : pc'[c] \in {"idle", "year2", "month2"}
    BY <1>3 DEF Typed, Writers
  <2> QED
    BY <2>1, <2>2, <2>3 DEF Typed
<1>5. pc'[w] = "year1" /\ path'[w] = <<level>>
  BY <1>1 DEF Typed
<1>6. ASSUME NEW u \in Threads, u # w
      PROVE  pc'[u] = pc[u] /\ path'[u] = path[u] /\ t'[u] = t[u]
  BY <1>1, <1>6 DEF Typed
<1>7. PathGrows'
  BY <1>2, <1>5, <1>6 DEF PathGrows, Named
<1>8. ParentsFirst'
  BY <1>5, <1>6 DEF ParentsFirst
<1>9. OneMakesIt'
  <2>1. \A p \in Paths : Makers(p)' = Makers(p)
    BY <1>6, MakersSame DEF Labels
  <2> QED
    BY <2>1 DEF OneMakesIt
<1>10. ASSUME NEW u \in Threads \ mixed' PROVE OnOwnWay(u)'
  <2>1. CASE u = w
    BY <1>5, <2>1 DEF OnOwnWay, Reading
  <2>2. CASE u # w
    <3>1. u \in Threads \ mixed
      BY <2>2
    <3> QED
      BY <1>6, <2>2, <3>1 DEF OnOwnWay, OwnDir
  <2> QED
    BY <2>1, <2>2
<1> QED
  BY <1>4, <1>7, <1>8, <1>9, <1>10

LEMMA StepAskTime ==
  ASSUME LogInv, NEW c \in Clocks, AskTime(c)
  PROVE  LogInv'
<1> USE DEF LogInv, AskTime, Goto, Running
<1>1. c \in Writers /\ \A u \in Threads : u \in Writers /\ u # c
  BY LogAssumption DEF Writers
<1>2. Typed'
  <2>1. pc' \in [Writers -> Labels] /\ t' \in [Writers -> 0 .. MaxMonth]
    BY <1>1 DEF Typed, Labels
  <2>2. \A d \in Clocks : pc'[d] \in {"idle", "year2", "month2"}
    BY DEF Typed, Writers
  <2> QED
    BY <2>1, <2>2 DEF Typed
<1>3. \A u \in Threads : pc'[u] = pc[u] /\ t'[u] = t[u]
  BY <1>1 DEF Typed
<1>4. PathGrows' /\ ParentsFirst'
  BY <1>3 DEF PathGrows, Named, ParentsFirst
<1>5. OneMakesIt'
  BY <1>3 DEF OneMakesIt, Makers
<1>6. (\A u \in Threads \ mixed : OnOwnWay(u))'
  BY <1>3 DEF OnOwnWay, OwnDir
<1> QED
  BY <1>2, <1>4, <1>5, <1>6

(* gmtime fills in a field; who still reads another date is noted.         *)
LEMMA FieldSet ==
  ASSUME LogInv, NEW w \in Writers, NEW label \in Labels,
         pc[w] \in {"year1", "month1", "year2", "month2"},
         w \in Threads => label \in {"month1", "year2", "month2", "access"},
         w \in Clocks => label \in {"month2", "idle"},
         pc' = [pc EXCEPT ![w] = label],
         tm' \in [year : Years, month : 0 .. Months - 1],
         Overwrites, UNCHANGED <<now, dirs, calls, t, path, drops>>
  PROVE  LogInv'
<1> USE DEF LogInv
<1>1. \A u \in Threads : u \in Writers
  BY DEF Writers
<1>2. Typed'
  <2>1. pc' \in [Writers -> Labels]
    BY DEF Typed
  <2>2. \A c \in Clocks : pc'[c] \in {"idle", "year2", "month2"}
    BY DEF Typed, Writers
  <2> QED
    BY <2>1, <2>2 DEF Typed
<1>3. ASSUME NEW u \in Threads, u # w
      PROVE  pc'[u] = pc[u]
  BY <1>1, <1>3 DEF Typed
<1>4. pc'[w] = label
  BY DEF Typed
<1>5. w \in Threads => Len(path[w]) = 1 /\ path[w] \in Paths
  <2>1. ASSUME w \in Threads PROVE Len(path[w]) = 1
    BY <2>1 DEF PathGrows, Named
  <2>2. ASSUME w \in Threads, path[w] = << >> PROVE FALSE
    BY <2>1, <2>2
  <2> QED
    BY <2>1, <2>2 DEF Typed
<1>6. PathGrows'
  <2> SUFFICES ASSUME NEW u \in Threads
               PROVE  Len(path[u]) \in Named(u)'
    BY DEF PathGrows
  <2>1. CASE u = w
    <3>1. pc'[w] \in {"month1", "year2", "month2", "access"} /\ Len(path[w]) = 1
      BY <1>4, <1>5, <2>1
    <3>2. 1 \in Named(w)'
      BY <3>1 DEF Named
    <3> QED
      BY <2>1, <3>1, <3>2
  <2>2. CASE u # w
    BY <1>3, <2>2 DEF PathGrows, Named
  <2> QED
    BY <2>1, <2>2
<1>7. ParentsFirst'
  <2> SUFFICES ASSUME NEW u \in Threads
               PROVE  /\ pc'[u] \in {"access", "mkdir"} => Parent(path[u]) \in dirs \cup {<< >>}
                      /\ pc'[u] = "name" => path[u] \in dirs
    BY DEF ParentsFirst
  <2>1. CASE u = w
    <3>1. Parent(path[w]) = << >>
      BY <1>5, <2>1, PathParts
    <3> QED
      BY <1>4, <2>1, <3>1
  <2>2. CASE u # w
    BY <1>3, <2>2 DEF ParentsFirst
  <2> QED
    BY <2>1, <2>2
<1>8. OneMakesIt'
  <2>1. ASSUME NEW u \in Threads
        PROVE  pc'[u] = "mkdir" <=> pc[u] = "mkdir"
    BY <1>3, <1>4
  <2> QED
    BY <2>1 DEF OneMakesIt, Makers
<1>9. ASSUME NEW u \in Threads \ mixed' PROVE OnOwnWay(u)'
  <2>1. u \in Threads \ mixed /\ (pc'[u] \in Reading => tm' = Date(t[u]))
    BY DEF Overwrites
  <2>2. CASE u = w
    <3>1. path[u] = <<path[u][1]>>
      BY <1>5, <2>2, PathParts
    <3> QED
      BY <1>4, <2>1, <2>2, <3>1 DEF OnOwnWay
  <2>3. CASE u # w
    BY <1>3, <2>1, <2>3 DEF OnOwnWay, OwnDir
  <2> QED
    BY <2>2, <2>3
<1> QED
  BY <1>2, <1>6, <1>7, <1>8, <1>9

LEMMA StepSetYear ==
  ASSUME LogInv, NEW w \in Writers, SetYear(w)
  PROVE  LogInv'
<1>1. PICK after \in {<<"year1", "month1">>, <<"year2", "month2">>} :
        /\ pc[w] = after[1] /\ pc' = [pc EXCEPT ![w] = after[2]]
        /\ tm' = [tm EXCEPT !.year = Year(t[w])]
        /\ Overwrites /\ UNCHANGED <<now, dirs, calls, t, path, drops>>
  BY DEF SetYear, Running, Goto
<1>2. Year(t[w]) \in Years
  BY DateInRange DEF LogInv, Typed
<1>3. tm' \in [year : Years, month : 0 .. Months - 1]
  BY <1>1, <1>2 DEF LogInv, Typed
<1>4. pc[w] \in {"year1", "year2"} /\ after[2] \in {"month1", "month2"}
  BY <1>1
<1>5. w \in Clocks => after[2] = "month2"
  <2>1. w \in Clocks => pc[w] # "year1"
    BY DEF LogInv, Typed
  <2> QED
    BY <1>1, <2>1
<1>6. after[2] \in Labels
  BY <1>4 DEF Labels
<1> QED
  BY <1>1, <1>3, <1>4, <1>5, <1>6, FieldSet

LEMMA StepSetMonth ==
  ASSUME LogInv, NEW w \in Writers, SetMonth(w)
  PROVE  LogInv'
<1>1. PICK after \in {<<"month1", "year2">>,
                      <<"month2", IF w \in Clocks THEN "idle" ELSE "access">>} :
        /\ pc[w] = after[1] /\ pc' = [pc EXCEPT ![w] = after[2]]
        /\ tm' = [tm EXCEPT !.month = Month(t[w])]
        /\ Overwrites /\ UNCHANGED <<now, dirs, calls, t, path, drops>>
  BY DEF SetMonth, Running, Goto
<1>2. Month(t[w]) \in 0 .. Months - 1
  BY DateInRange DEF LogInv, Typed
<1>3. tm' \in [year : Years, month : 0 .. Months - 1]
  BY <1>1, <1>2 DEF LogInv, Typed
<1>4. pc[w] \in {"month1", "month2"} /\ after[2] \in {"year2", "idle", "access"}
  BY <1>1
<1>5. w \in Clocks => after[2] = "idle"
  <2>1. w \in Clocks => pc[w] # "month1"
    BY DEF LogInv, Typed
  <2> QED
    BY <1>1, <2>1
<1>6. w \in Threads => after[2] \in {"year2", "access"}
  <2>1. w \in Threads => w \notin Clocks
    BY LogAssumption
  <2> QED
    BY <1>1, <2>1
<1>7. after[2] \in Labels
  BY <1>4 DEF Labels
<1> QED
  BY <1>1, <1>3, <1>4, <1>5, <1>6, <1>7, FieldSet

(* A thread moves on without changing a path.                              *)
LEMMA ThreadMoves ==
  ASSUME LogInv, NEW w \in Threads, NEW label \in Labels,
         pc[w] # "mkdir", pc' = [pc EXCEPT ![w] = label],
         Len(path[w]) \in Named(w)',
         label = "name" => path[w] \in dirs,
         label # "access",
         label = "mkdir" => path[w] \notin dirs /\ pc[w] = "access",
         w \notin mixed => OnOwnWay(w)',
         UNCHANGED <<now, tm, dirs, calls, t, path, mixed, drops>>
  PROVE  LogInv'
<1> USE DEF LogInv
<1>1. w \in Writers /\ \A u \in Threads : u \in Writers
  BY DEF Writers
<1>2. w \notin Clocks
  BY LogAssumption
<1>3. Typed'
  <2>1. pc' \in [Writers -> Labels]
    BY DEF Typed
  <2>2. \A c \in Clocks : pc'[c] \in {"idle", "year2", "month2"}
    BY <1>2 DEF Typed, Writers
  <2> QED
    BY <2>1, <2>2 DEF Typed
<1>4. ASSUME NEW u \in Threads, u # w
      PROVE  pc'[u] = pc[u]
  BY <1>1, <1>4 DEF Typed
<1>5. pc'[w] = label
  BY <1>1 DEF Typed
<1>6. PathGrows'
  BY <1>4 DEF PathGrows, Named
<1>7. ParentsFirst'
  BY <1>4, <1>5 DEF ParentsFirst
<1>8. OneMakesIt'
  <2>1. CASE label = "mkdir"
    <3>1. ASSUME NEW p \in dirs, NEW u \in Threads
          PROVE  pc'[u] = "mkdir" /\ path[u] = p <=> pc[u] = "mkdir" /\ path[u] = p
      BY <1>4, <1>5, <2>1
    <3>2. ASSUME NEW p \in dirs PROVE Makers(p)' = Makers(p)
      BY <3>1 DEF Makers
    <3> QED
      BY <3>2 DEF OneMakesIt
  <2>2. CASE label # "mkdir"
    <3>1. \A p \in Paths : Makers(p)' = Makers(p)
      BY <2>2, MakersSame
    <3> QED
      BY <3>1 DEF OneMakesIt
  <2> QED
    BY <2>1, <2>2
<1>9. ASSUME NEW u \in Threads \ mixed' PROVE OnOwnWay(u)'
  BY <1>4 DEF OnOwnWay, OwnDir
<1> QED
  BY <1>3, <1>6, <1>7, <1>8, <1>9

(* Where the path of a running thread stands.                              *)
LEMMA PathNow ==
  ASSUME LogInv, NEW w \in Threads, pc[w] \in Reading \cup {"write"}
  PROVE  /\ path[w] \in Paths /\ Len(path[w]) \in 1 .. 3
         /\ pc[w] = "name" => Len(path[w]) \in 1 .. 2
         /\ pc[w] = "open" => Len(path[w]) = 2
         /\ pc[w] \in {"fileYear", "write"} => Len(path[w]) = 3
<1>1. Len(path[w]) \in Named(w)
  BY DEF LogInv, PathGrows
<1>2. Named(w) \in SUBSET (1 .. 3)
  BY DEF Named, Reading
<1>3. path[w] # << >>
  BY <1>1, <1>2
<1>4. path[w] \in Paths
  BY <1>3 DEF LogInv, Typed
<1>5. /\ pc[w] = "name" => Named(w) = 1 .. 2
      /\ pc[w] = "open" => Named(w) = {2}
      /\ pc[w] \in {"fileYear", "write"} => Named(w) = {3}
  BY DEF Named
<1> QED
  BY <1>1, <1>2, <1>4, <1>5

(* A thread on its own way whose path is whole has named its directory.    *)
LEMMA OwnPathWhole ==
  ASSUME NEW w \in Threads, OnOwnWay(w), pc[w] \in Reading \cup {"write"}
  PROVE  /\ Len(path[w]) = 1 => path[w] = <<path[w][1]>>
         /\ Len(path[w]) = 2 => path[w] = <<path[w][1], Year(t[w])>>
         /\ Len(path[w]) = 3 => path[w] = OwnDir(w)
<1>1. /\ Len(<<path[w][1]>>) = 1 /\ Len(<<path[w][1], Year(t[w])>>) = 2
      /\ Len(OwnDir(w)) = 3
  BY OwnLengths DEF OwnDir
<1>2. path[w] \in {<<path[w][1]>>, <<path[w][1], Year(t[w])>>, OwnDir(w)}
  BY DEF OnOwnWay
<1> HIDE DEF OwnDir
<1> QED
  BY <1>1, <1>2

LEMMA StepAccess ==
  ASSUME LogInv, NEW w \in Threads, Access(w)
  PROVE  LogInv'
<1> DEFINE label == IF path[w] \in dirs THEN NextLabel(w) ELSE "mkdir"
<1>1. /\ pc[w] = "access" /\ pc' = [pc EXCEPT ![w] = label]
      /\ UNCHANGED <<now, tm, dirs, calls, t, path, mixed, drops>>
  BY DEF Access, Running, Goto
<1>2. path[w] \in Paths /\ Len(path[w]) \in 1 .. 3
  BY <1>1, PathNow DEF Reading
<1>3. \/ label = "mkdir" /\ path[w] \notin dirs
      \/ label = "name" /\ path[w] \in dirs /\ Len(path[w]) \in 1 .. 2
      \/ label = "fileYear" /\ path[w] \in dirs /\ Len(path[w]) = 3
  BY <1>2 DEF NextLabel
<1> HIDE DEF label
<1>4. label \in Labels
  BY <1>3 DEF Labels
<1>5. pc'[w] = label
  BY <1>1 DEF LogInv, Typed, Writers
<1>6. Len(path[w]) \in Named(w)'
  BY <1>1, <1>2, <1>3, <1>5 DEF Named
<1>7. ASSUME w \notin mixed PROVE OnOwnWay(w)'
  <2>1. OnOwnWay(w)
    BY <1>7 DEF LogInv
  <2>2. label = "fileYear" => path[w] = OwnDir(w)
    BY <1>1, <1>3, <2>1, OwnPathWhole DEF Reading
  <2>3. label \in {"mkdir", "name", "fileYear"} /\ label # "open"
    BY <1>3
  <2>4. label = "fileYear" => OwnDir(w) \in dirs
    BY <1>3, <2>2
  <2> QED
    BY <1>1, <1>5, <2>1, <2>3, <2>4 DEF OnOwnWay, Reading, OwnDir
<1> QED
  BY <1>1, <1>3, <1>4, <1>6, <1>7, ThreadMoves

LEMMA StepWrite ==
  ASSUME LogInv, NEW w \in Threads, Write(w)
  PROVE  LogInv'
<1>1. /\ pc[w] = "write" /\ pc' = [pc EXCEPT ![w] = "idle"]
      /\ UNCHANGED <<now, tm, dirs, calls, t, path, mixed, drops>>
  BY DEF Write, Running, Goto
<1>2. Len(path[w]) = 3
  BY <1>1, PathNow
<1>3. pc'[w] = "idle"
  BY <1>1 DEF LogInv, Typed, Writers
<1>4. Len(path[w]) \in Named(w)'
  BY <1>1, <1>2, <1>3 DEF Named
<1>5. OnOwnWay(w)'
  BY <1>3 DEF OnOwnWay, Reading
<1>6. "idle" \in Labels
  BY DEF Labels
<1> QED
  BY <1>1, <1>4, <1>5, <1>6, ThreadMoves

(* A thread names a path and moves on.                                     *)
LEMMA PathNamed ==
  ASSUME LogInv, NEW w \in Threads, NEW p \in Paths,
         NEW label \in {"access", "open", "write", "crashed"},
         pc[w] \in {"name", "fileYear", "open"},
         pc' = [pc EXCEPT ![w] = label], path' = [path EXCEPT ![w] = p],
         Len(p) \in Named(w)',
         label = "access" => Parent(p) \in dirs,
         w \notin mixed => OnOwnWay(w)',
         UNCHANGED <<now, tm, dirs, calls, t, mixed, drops>>
  PROVE  LogInv'
<1> USE DEF LogInv
<1>1. w \in Writers /\ \A u \in Threads : u \in Writers
  BY DEF Writers
<1>2. w \notin Clocks /\ label \in Labels
  BY LogAssumption DEF Labels
<1>3. Typed'
  <2>1. pc' \in [Writers -> Labels]
    BY <1>2 DEF Typed
  <2>2. \A c \in Clocks : pc'[c] \in {"idle", "year2", "month2"}
    BY <1>2 DEF Typed, Writers
  <2>3. path' \in [Threads -> Paths \cup {<< >>}]
    BY DEF Typed
  <2> QED
    BY <2>1, <2>2, <2>3 DEF Typed
<1>4. ASSUME NEW u \in Threads, u # w
      PROVE  pc'[u] = pc[u] /\ path'[u] = path[u]
  BY <1>1, <1>4 DEF Typed
<1>5. pc'[w] = label /\ path'[w] = p
  BY <1>1 DEF Typed
<1>6. PathGrows'
  BY <1>4, <1>5 DEF PathGrows, Named
<1>7. ParentsFirst'
  BY <1>4, <1>5 DEF ParentsFirst
<1>8. OneMakesIt'
  <2>1. \A q \in Paths : Makers(q)' = Makers(q)
    BY <1>2, <1>4, MakersSame
  <2> QED
    BY <2>1 DEF OneMakesIt
<1>9. ASSUME NEW u \in Threads \ mixed' PROVE OnOwnWay(u)'
  <2>1. CASE u # w
    BY <1>4, <2>1 DEF OnOwnWay, OwnDir
  <2> QED
    BY <2>1
<1> QED
  BY <1>3, <1>6, <1>7, <1>8, <1>9

LEMMA StepNameNext ==
  ASSUME LogInv, NEW w \in Threads, NameNext(w)
  PROVE  LogInv'
<1> DEFINE old == path[w]
           field == IF Len(old) = 1 THEN tm.year ELSE tm.month
           p == Append(old, field)
<1>1. /\ pc[w] = "name" /\ pc' = [pc EXCEPT ![w] = "access"]
      /\ path' = [path EXCEPT ![w] = p]
      /\ UNCHANGED <<now, tm, dirs, calls, t, mixed, drops>>
  BY DEF NameNext, Running, Goto, LogInv, Typed
<1>2. old \in Paths /\ Len(old) \in 1 .. 2
  BY <1>1, PathNow DEF Reading
<1>3. tm.year \in Years /\ tm.month \in 0 .. Months - 1
  BY DEF LogInv, Typed
<1>0. /\ Len(old) = 1 => field = tm.year
      /\ Len(old) = 2 => field = tm.month
  OBVIOUS
<1> HIDE DEF field, old
<1>4. Len(old) = 1 =>
        /\ p = <<old[1], tm.year>> /\ p \in Paths
        /\ Len(p) = 2 /\ p[1] = old[1] /\ Parent(p) = old
  <2> SUFFICES ASSUME Len(old) = 1
               PROVE  /\ p = <<old[1], tm.year>> /\ p \in Paths
                      /\ Len(p) = 2 /\ p[1] = old[1] /\ Parent(p) = old
    OBVIOUS
  <2>1. p = Append(old, tm.year)
    BY <1>0
  <2> HIDE DEF p
  <2> QED
    BY <1>2, <1>3, <2>1, YearAdded
<1>5. Len(old) = 2 =>
        /\ p = <<old[1], old[2], tm.month>> /\ p \in Paths
        /\ Len(p) = 3 /\ p[1] = old[1] /\ Parent(p) = old
  <2> SUFFICES ASSUME Len(old) = 2
               PROVE  /\ p = <<old[1], old[2], tm.month>> /\ p \in Paths
                      /\ Len(p) = 3 /\ p[1] = old[1] /\ Parent(p) = old
    OBVIOUS
  <2>1. p = Append(old, tm.month)
    BY <1>0
  <2> HIDE DEF p
  <2> QED
    BY <1>2, <1>3, <2>1, MonthAdded
<1>6. p \in Paths /\ Parent(p) = old /\ Len(p) \in 1 .. 3 /\ p[1] = old[1]
  BY <1>2, <1>4, <1>5
<1>7. old \in dirs
  BY <1>1 DEF LogInv, ParentsFirst, old
<1>8. pc'[w] = "access" /\ path'[w] = p
  BY <1>1 DEF LogInv, Typed, Writers
<1>9. ASSUME w \notin mixed PROVE OnOwnWay(w)'
  <2>1. OnOwnWay(w) /\ tm = Date(t[w])
    BY <1>1, <1>9 DEF LogInv, OnOwnWay, Reading
  <2>2. tm.year = Year(t[w]) /\ tm.month = Month(t[w])
    BY <2>1 DEF Date
  <2>3. CASE Len(old) = 1
    BY <1>1, <1>4, <1>6, <1>8, <2>1, <2>2, <2>3 DEF OnOwnWay
  <2>4. CASE Len(old) = 2
    <3>1. old = <<old[1], Year(t[w])>>
      BY <1>1, <2>1, <2>4, OwnPathWhole DEF Reading, old
    <3>2. p = DirOf(p[1], t[w])
      BY <1>5, <1>6, <2>2, <2>4, <3>1 DEF DirOf
    <3> QED
      BY <1>1, <1>8, <2>1, <3>2 DEF OnOwnWay, OwnDir
  <2> QED
    BY <1>2, <2>3, <2>4
<1> HIDE DEF p
<1>10. Len(p) \in Named(w)'
  BY <1>6, <1>8 DEF Named
<1> QED
  BY <1>1, <1>6, <1>7, <1>9, <1>10, PathNamed

LEMMA StepNameFile ==
  ASSUME LogInv, NEW w \in Threads, NameFile(w)
  PROVE  LogInv'
<1> DEFINE old == path[w]
           p == <<old[1], tm.year>>
<1>1. /\ pc[w] = "fileYear" /\ pc' = [pc EXCEPT ![w] = "open"]
      /\ path' = [path EXCEPT ![w] = p]
      /\ UNCHANGED <<now, tm, dirs, calls, t, mixed, drops>>
  BY DEF NameFile, Running, Goto
<1>2. old \in Paths /\ Len(old) = 3
  BY <1>1, PathNow DEF Reading
<1>3. tm.year \in Years
  BY DEF LogInv, Typed
<1>4. p \in Paths /\ Len(p) = 2 /\ p[1] = old[1]
  BY <1>2, <1>3, PathParts DEF Paths
<1>5. pc'[w] = "open" /\ path'[w] = p
  BY <1>1 DEF LogInv, Typed, Writers
<1>6. ASSUME w \notin mixed PROVE OnOwnWay(w)'
  <2>1. OnOwnWay(w) /\ tm = Date(t[w]) /\ OwnDir(w) \in dirs
    BY <1>1, <1>6 DEF LogInv, OnOwnWay, Reading
  <2>2. p = <<p[1], Year(t[w])>>
    BY <1>4, <2>1 DEF Date
  <2> QED
    BY <1>1, <1>4, <1>5, <2>1, <2>2 DEF OnOwnWay, OwnDir
<1> HIDE DEF p, old
<1>7. Len(p) \in Named(w)'
  BY <1>4, <1>5 DEF Named
<1> QED
  BY <1>1, <1>4, <1>6, <1>7, PathNamed

LEMMA StepOpen ==
  ASSUME LogInv, NEW w \in Threads, Open(w)
  PROVE  LogInv'
<1> DEFINE old == path[w]
           p == Append(old, tm.month)
           label == IF p \in dirs THEN "write" ELSE "crashed"
<1>1. /\ pc[w] = "open" /\ pc' = [pc EXCEPT ![w] = label]
      /\ path' = [path EXCEPT ![w] = p]
      /\ UNCHANGED <<now, tm, dirs, calls, t, mixed, drops>>
  BY DEF Open, Running, Goto, LogInv, Typed
<1>2. old \in Paths /\ Len(old) = 2
  BY <1>1, PathNow DEF Reading
<1>3. tm.month \in 0 .. Months - 1
  BY DEF LogInv, Typed
<1>4. p = <<old[1], old[2], tm.month>> /\ p \in Paths /\ Len(p) = 3 /\ p[1] = old[1]
  BY <1>2, <1>3, MonthAdded
<1>5. pc'[w] = label /\ path'[w] = p
  BY <1>1 DEF LogInv, Typed, Writers
<1>6. ASSUME w \notin mixed PROVE OnOwnWay(w)'
  <2>1. OnOwnWay(w) /\ tm = Date(t[w]) /\ OwnDir(w) \in dirs
    BY <1>1, <1>6 DEF LogInv, OnOwnWay, Reading
  <2>2. old = <<old[1], Year(t[w])>>
    BY <1>1, <1>2, <2>1, OwnPathWhole DEF Reading
  <2>3. p = DirOf(old[1], t[w])
    BY <1>4, <2>1, <2>2 DEF DirOf, Date
  <2>4. pc'[w] = "write"
    BY <1>5, <2>1, <2>3 DEF OwnDir
  <2>5. path'[w] = OwnDir(w)'
    BY <1>1, <1>4, <1>5, <2>3 DEF OwnDir
  <2> QED
    BY <2>4, <2>5 DEF OnOwnWay, Reading
<1>7. label \in {"write", "crashed"}
  OBVIOUS
<1> HIDE DEF p, old, label
<1>8. Len(p) \in Named(w)'
  BY <1>4, <1>5, <1>7 DEF Named
<1> QED
  BY <1>1, <1>4, <1>6, <1>7, <1>8, PathNamed

(* A thread leaves mkdir.                                                  *)
LEMMA MakerLeaves ==
  ASSUME LogInv, NEW w \in Threads, NEW label \in Labels,
         pc[w] = "mkdir", label # "mkdir",
         pc' = [pc EXCEPT ![w] = label], path' = path
  PROVE  /\ \A q \in Paths \ {path[w]} : Makers(q)' = Makers(q)
         /\ \A q \in Paths : /\ Makers(q)' \in SUBSET (Threads \ {w})
                            /\ Makers(q)' = Makers(q) \ {w}
         /\ w \in Makers(path[w])
<1>1. w \in Writers /\ \A u \in Threads : u \in Writers
  BY DEF Writers
<1>2. \A u \in Threads : pc'[u] = IF u = w THEN label ELSE pc[u]
  BY <1>1 DEF LogInv, Typed
<1> QED
  BY <1>2 DEF Makers

LEMMA StepMkdir ==
  ASSUME LogInv, NEW w \in Threads, Mkdir(w)
  PROVE  LogInv'
<1> DEFINE p == path[w]
           label == NextLabel(w)
<1>1. /\ pc[w] = "mkdir" /\ pc' = [pc EXCEPT ![w] = label]
      /\ p \notin dirs /\ dirs' = dirs \cup {p}
      /\ UNCHANGED <<now, tm, calls, t, path, mixed, drops>>
  BY DEF Mkdir, CanMake, Running, Goto
<1>2. p \in Paths /\ Len(p) \in 1 .. 3
  BY <1>1, PathNow DEF Reading
<1>3. \/ label = "name" /\ Len(p) \in 1 .. 2
      \/ label = "fileYear" /\ Len(p) = 3
  BY <1>2 DEF NextLabel
<1> HIDE DEF label
<1>4. label \in Labels /\ label # "mkdir"
  BY <1>3 DEF Labels
<1>5. w \in Writers /\ w \notin Clocks /\ \A u \in Threads : u \in Writers
  BY LogAssumption DEF Writers
<1>6. pc'[w] = label
  BY <1>1, <1>5 DEF LogInv, Typed
<1>7. ASSUME NEW u \in Threads, u # w
      PROVE  pc'[u] = pc[u]
  BY <1>1, <1>5, <1>7 DEF LogInv, Typed
<1>8. Typed'
  <2>1. pc' \in [Writers -> Labels]
    BY <1>1, <1>4 DEF LogInv, Typed
  <2>2. \A c \in Clocks : pc'[c] \in {"idle", "year2", "month2"}
    BY <1>1, <1>5 DEF LogInv, Typed, Writers
  <2> QED
    BY <1>1, <2>1, <2>2 DEF LogInv, Typed
<1>9. PathGrows'
  <2>1. Len(p) \in Named(w)'
    BY <1>3, <1>6 DEF Named
  <2> QED
    BY <1>1, <1>7, <2>1 DEF LogInv, PathGrows, Named
<1>10. ParentsFirst'
  <2>1. p \in dirs' /\ dirs \in SUBSET dirs'
    BY <1>1
  <2> QED
    BY <1>1, <1>3, <1>6, <1>7, <2>1 DEF LogInv, ParentsFirst
<1>11. OneMakesIt'
  <2> SUFFICES ASSUME << >> \in dirs', NEW q \in Paths
               PROVE  IF q \in dirs' THEN drops[q] + Cardinality(Makers(q)') < Cardinality(Threads)
                      ELSE drops[q] = 0
    BY <1>1 DEF OneMakesIt
  <2>1. << >> \in dirs
    <3>1. p # << >>
      BY <1>2, SMTT(30)
    <3> QED
      BY <1>1, <3>1
  <2>2. CASE q = p
    <3>1. drops[q] = 0
      BY <1>1, <2>1, <2>2 DEF LogInv, OneMakesIt
    <3>2. Makers(q)' \in SUBSET (Threads \ {w})
      BY <1>1, <1>4, MakerLeaves
    <3>3. IsFiniteSet(Threads) /\ IsFiniteSet(Threads \ {w})
          /\ Cardinality(Threads \ {w}) = Cardinality(Threads) - 1
      BY LogAssumption, FS_RemoveElement
    <3>4. Cardinality(Makers(q)') <= Cardinality(Threads \ {w})
      BY <3>2, <3>3, FS_Subset, Zenon
    <3>5. Cardinality(Threads) \in Nat /\ Cardinality(Makers(q)') \in Nat
      BY <3>2, <3>3, FS_Subset, FS_CardinalityType
    <3>6. drops[q] + Cardinality(Makers(q)') < Cardinality(Threads)
      BY <3>1, <3>3, <3>4, <3>5
    <3> QED
      BY <1>1, <2>2, <3>6
  <2>3. CASE q # p
    <3>1. Makers(q)' = Makers(q)
      BY <1>1, <1>4, <2>3, MakerLeaves
    <3>2. q \in dirs' <=> q \in dirs
      BY <1>1, <2>3
    <3> QED
      BY <2>1, <3>1, <3>2 DEF LogInv, OneMakesIt
  <2> QED
    BY <2>2, <2>3
<1>12. ASSUME NEW u \in Threads \ mixed' PROVE OnOwnWay(u)'
  <2>1. OnOwnWay(u) /\ dirs \in SUBSET dirs'
    BY <1>1 DEF LogInv
  <2>2. CASE u # w
    BY <1>1, <1>7, <2>1, <2>2 DEF OnOwnWay, OwnDir
  <2>3. CASE u = w
    <3>1. Len(p) = 3 => p = OwnDir(w)
      BY <1>1, <2>1, <2>3, OwnPathWhole DEF Reading
    <3>2. pc'[w] = "fileYear" => OwnDir(w) \in dirs'
      BY <1>1, <1>3, <1>6, <3>1
    <3>3. pc'[w] \in {"name", "fileYear"}
      BY <1>3, <1>6
    <3> QED
      BY <1>1, <2>1, <2>3, <3>2, <3>3 DEF OnOwnWay, Reading, OwnDir
  <2> QED
    BY <2>2, <2>3
<1> QED
  BY <1>8, <1>9, <1>10, <1>11, <1>12 DEF LogInv

LEMMA StepMkdirFails ==
  ASSUME LogInv, NEW w \in Threads, MkdirFails(w)
  PROVE  LogInv'
<1> DEFINE p == path[w]
<1>1. /\ pc[w] = "mkdir" /\ pc' = [pc EXCEPT ![w] = "idle"]
      /\ p \in dirs \/ Parent(p) \notin dirs
      /\ drops' = [drops EXCEPT ![p] = @ + 1]
      /\ UNCHANGED <<now, tm, dirs, calls, t, path, mixed>>
  BY DEF MkdirFails, CanMake, Running, Goto
<1>2. p \in Paths /\ Len(p) \in 1 .. 3
  BY <1>1, PathNow DEF Reading
<1>3. w \in Writers /\ w \notin Clocks /\ \A u \in Threads : u \in Writers
  BY LogAssumption DEF Writers
<1>4. pc'[w] = "idle" /\ "idle" \in Labels
  BY <1>1, <1>3 DEF LogInv, Typed, Labels
<1>5. ASSUME NEW u \in Threads, u # w
      PROVE  pc'[u] = pc[u]
  BY <1>1, <1>3, <1>5 DEF LogInv, Typed
<1>6. Typed'
  <2>1. pc' \in [Writers -> Labels]
    BY <1>1, <1>4 DEF LogInv, Typed
  <2>2. \A c \in Clocks : pc'[c] \in {"idle", "year2", "month2"}
    BY <1>1, <1>3 DEF LogInv, Typed, Writers
  <2>3. drops' \in [Paths -> Nat]
    <3>1. drops \in [Paths -> Nat]
      BY DEF LogInv, Typed
    <3>2. drops[p] + 1 \in Nat
      BY <1>2, <3>1
    <3> HIDE DEF p
    <3> QED
      BY <1>1, <3>1, <3>2
  <2> QED
    BY <1>1, <2>1, <2>2, <2>3 DEF LogInv, Typed
<1>7. PathGrows'
  <2>1. Len(p) \in Named(w)'
    BY <1>2, <1>4 DEF Named
  <2> QED
    BY <1>1, <1>5, <2>1 DEF LogInv, PathGrows, Named
<1>8. ParentsFirst'
  BY <1>1, <1>4, <1>5 DEF LogInv, ParentsFirst
<1>9. OneMakesIt'
  <2> SUFFICES ASSUME << >> \in dirs, NEW q \in Paths
               PROVE  IF q \in dirs THEN drops'[q] + Cardinality(Makers(q)') < Cardinality(Threads)
                      ELSE drops'[q] = 0
    BY <1>1 DEF OneMakesIt
  <2>1. p \in dirs
    <3>1. Parent(p) \in dirs
      BY <1>1 DEF LogInv, ParentsFirst
    <3> QED
      BY <1>1, <3>1
  <2>2. CASE q = p
    <3>1. drops[q] + Cardinality(Makers(q)) < Cardinality(Threads)
      BY <2>1, <2>2 DEF LogInv, OneMakesIt
    <3>2. Makers(q)' = Makers(q) \ {w} /\ w \in Makers(q)
      BY <1>1, <1>4, <2>2, MakerLeaves
    <3>3. /\ IsFiniteSet(Makers(q)) /\ Cardinality(Makers(q)) \in Nat
          /\ Cardinality(Threads) \in Nat
      BY MakersFinite
    <3>4. Cardinality(Makers(q)') = Cardinality(Makers(q)) - 1
      BY <3>2, <3>3, FS_RemoveElement
    <3>5. drops'[q] = drops[q] + 1 /\ drops[q] \in Nat
      BY <1>1, <2>2 DEF LogInv, Typed
    <3>6. drops'[q] + Cardinality(Makers(q)') < Cardinality(Threads)
      BY <3>1, <3>3, <3>4, <3>5
    <3> QED
      BY <2>1, <2>2, <3>6
  <2>3. CASE q # p
    <3>1. Makers(q)' = Makers(q)
      BY <1>1, <1>4, <2>3, MakerLeaves
    <3>2. drops'[q] = drops[q]
      BY <1>1, <2>3 DEF LogInv, Typed
    <3> QED
      BY <3>1, <3>2 DEF LogInv, OneMakesIt
  <2> QED
    BY <2>2, <2>3
<1>10. ASSUME NEW u \in Threads \ mixed' PROVE OnOwnWay(u)'
  <2>1. OnOwnWay(u)
    BY <1>1 DEF LogInv
  <2>2. CASE u # w
    BY <1>1, <1>5, <2>1, <2>2 DEF OnOwnWay, OwnDir
  <2>3. CASE u = w
    BY <1>4, <2>3 DEF OnOwnWay, Reading
  <2> QED
    BY <2>2, <2>3
<1> QED
  BY <1>6, <1>7, <1>8, <1>9, <1>10 DEF LogInv

-----------------------------------------------------------------------------
(* The invariant holds in every reachable state.                           *)
THEOREM LogInvariant == Spec => []LogInv
<1>1. ASSUME LogInv, [Next]_vars
      PROVE  LogInv'
  <2>1. CASE MonthEnds
    BY <1>1, <2>1, StepMonthEnds
  <2>2. CASE \E c \in Clocks : AskTime(c)
    BY <1>1, <2>2, StepAskTime
  <2>3. CASE \E w \in Writers : SetYear(w) \/ SetMonth(w)
    BY <1>1, <2>3, StepSetYear, StepSetMonth
  <2>4. CASE \E w \in Threads : LogStep(w)
    <3>1. PICK w \in Threads : LogStep(w)
      BY <2>4
    <3>2. CASE \E level \in Levels : Begin(w, level)
      BY <1>1, <3>2, StepBegin
    <3>3. CASE Access(w) \/ Mkdir(w) \/ MkdirFails(w) \/ NameNext(w)
      BY <1>1, <3>3, StepAccess, StepMkdir, StepMkdirFails, StepNameNext
    <3>4. CASE NameFile(w) \/ Open(w) \/ Write(w)
      BY <1>1, <3>4, StepNameFile, StepOpen, StepWrite
    <3> QED
      BY <3>1, <3>2, <3>3, <3>4 DEF LogStep
  <2>5. CASE UNCHANGED vars
    <3> USE <2>5 DEF vars
    <3>1. Typed' /\ PathGrows' /\ ParentsFirst'
      BY <1>1 DEF LogInv, Typed, PathGrows, Named, ParentsFirst
    <3>2. OneMakesIt'
      BY <1>1 DEF LogInv, OneMakesIt, Makers
    <3>3. (\A w \in Threads \ mixed : OnOwnWay(w))'
      BY <1>1 DEF LogInv, OnOwnWay, OwnDir
    <3> QED
      BY <3>1, <3>2, <3>3 DEF LogInv
  <2> QED
    BY <1>1, <2>1, <2>2, <2>3, <2>4, <2>5 DEF Next
<1> QED
  BY InitLog, <1>1, PTL DEF Spec

(* Whatever the number of threads that log, each directory costs at most   *)
(* one line of each thread but one (log.c:12-31).                          *)
THEOREM EachDirectoryOnce == Spec => []FewDropped
<1>1. LogInv => FewDropped
  <2> SUFFICES ASSUME LogInv, << >> \in dirs, NEW p \in Paths
               PROVE  drops[p] < Cardinality(Threads)
    BY DEF FewDropped
  <2>1. /\ Cardinality(Makers(p)) \in Nat /\ Cardinality(Threads) \in Nat
        /\ Cardinality(Threads) > 0
    BY MakersFinite
  <2>2. drops[p] \in Nat
    BY DEF LogInv, Typed
  <2>3. \/ drops[p] + Cardinality(Makers(p)) < Cardinality(Threads)
        \/ drops[p] = 0
    BY DEF LogInv, OneMakesIt
  <2> QED
    BY <2>1, <2>2, <2>3
<1> QED
  BY LogInvariant, <1>1, PTL

(* Only a gmtime of another thread can misfile a line or make fopen fail:  *)
(* whoever is not interrupted by one finds the directory of its own month  *)
(* made, however many threads and years there are (log.c:33-70).           *)
THEOREM OwnDateKept == Spec => []OwnDateUnlessOverwritten
<1>1. LogInv => OwnDateUnlessOverwritten
  <2> SUFFICES ASSUME LogInv, NEW w \in Threads \ mixed
               PROVE  /\ pc[w] # "crashed"
                      /\ pc[w] = "write" => path[w] = DirOf(path[w][1], t[w])
    BY DEF OwnDateUnlessOverwritten
  <2>1. OnOwnWay(w)
    BY DEF LogInv
  <2>2. pc[w] = "write" => path[w] = OwnDir(w)
    BY <2>1, PathNow, OwnPathWhole
  <2> QED
    BY <2>1, <2>2 DEF OnOwnWay, OwnDir
<1> QED
  BY LogInvariant, <1>1, PTL

=============================================================================
