------------------------------- MODULE LogDir -------------------------------
(***************************************************************************)
(* log_write and dir_exists (log.c:5-70), called by every thread of the    *)
(* server with no lock: a line is written to ./logs/level/year/month/file, *)
(* and each directory on the way is tested for and then made.              *)
(*                                                                         *)
(* gmtime returns a pointer to one structure that all threads share.       *)
(* log_write and dir_exists read its fields long after they filled it in,  *)
(* and serv_epoll and serv_heartbeat fill it in too (spider_tcp_server.c:  *)
(* 143,250).  A field is read and written in a step of its own, the year   *)
(* before the month, as the C library does.  Time is counted in months,    *)
(* because the day is in the name of a file but not of a directory.        *)
(*                                                                         *)
(* The file system and gmtime are external.  Directories are only made by  *)
(* this code, and never removed.                                           *)
(*                                                                         *)
(* A definition A_Variant is a wrong form of A, defined to test that a     *)
(* property can tell it from the code; no specification uses it.           *)
(***************************************************************************)
EXTENDS Integers, Sequences, FiniteSets

CONSTANTS
    Threads,     \* the threads that log
    Clocks,      \* serv_epoll and serv_heartbeat, where they ask for the time
    Levels,      \* the names in log_level
    Months,      \* the months of a year: 12
    MaxMonth,    \* bound: the months that pass
    MaxCalls     \* bound: calls of log_write in all

ASSUME LogAssumption ==
    /\ IsFiniteSet(Threads) /\ Threads # {} /\ Clocks \cap Threads = {}
    /\ Months \in Nat \ {0} /\ MaxMonth \in Nat /\ MaxCalls \in Nat

VARIABLES
    now,       \* the month it is
    tm,        \* the structure gmtime returns
    dirs,      \* the directories there are; << >> is LOG_ROOT_DIR
    calls,     \* the calls so far
    pc,        \* where each thread is
    t,         \* what time() told each thread
    path,      \* interface_dir, year_dir, month_dir, then dir
    \* history
    mixed,     \* threads whose date was overwritten while they still read it
    drops      \* drops[p]: calls that returned LOG_FAIL as mkdir of p failed

vars == <<now, tm, dirs, calls, pc, t, path, mixed, drops>>

Writers == Threads \cup Clocks
Year(m) == m \div Months
Month(m) == m % Months
Date(m) == [year |-> Year(m), month |-> Month(m)]
DirOf(level, m) == <<level, Year(m), Month(m)>>

Years == 0 .. Year(MaxMonth)
Paths == {<<l>> : l \in Levels} \cup (Levels \X Years) \cup (Levels \X Years \X (0 .. Months - 1))

(* The operator may have forgotten to make ./logs.                         *)
Init ==
    /\ now = 0 /\ tm = Date(0)
    /\ dirs \in {{}, {<< >>}}
    /\ calls = 0
    /\ pc = [w \in Writers |-> "idle"]
    /\ t = [w \in Writers |-> 0]
    /\ path = [w \in Threads |-> << >>]
    /\ mixed = {}
    /\ drops = [p \in Paths |-> 0]

Crashed == \E w \in Threads : pc[w] = "crashed"
Running(w, label) == ~Crashed /\ pc[w] = label
Goto(w, label) == pc' = [pc EXCEPT ![w] = label]

-----------------------------------------------------------------------------
(* A month ends.                                                           *)
MonthEnds ==
    /\ ~Crashed /\ now < MaxMonth
    /\ now' = now + 1
    /\ UNCHANGED <<tm, dirs, calls, pc, t, path, mixed, drops>>

(* log_write asks for the time, and names interface_dir.                   *)
Begin(w, level) ==
    /\ Running(w, "idle")
    /\ calls < MaxCalls /\ calls' = calls + 1
    /\ t' = [t EXCEPT ![w] = now]
    /\ path' = [path EXCEPT ![w] = <<level>>]
    /\ mixed' = mixed \ {w}
    /\ Goto(w, "year1")
    /\ UNCHANGED <<now, tm, dirs, drops>>

(* serv_epoll asks for the time at every event, serv_heartbeat every 40    *)
(* seconds.                                                                *)
AskTime(c) ==
    /\ Running(c, "idle")
    /\ t' = [t EXCEPT ![c] = now]
    /\ Goto(c, "year2")
    /\ UNCHANGED <<now, tm, dirs, calls, path, mixed, drops>>

(* A thread has called gmtime for the last time and still reads what it    *)
(* returned.                                                               *)
Reading == {"access", "mkdir", "name", "fileYear", "open"}
Overwrites == mixed' = mixed \cup {w \in Threads : pc'[w] \in Reading /\ tm' # Date(t[w])}

(* gmtime, which log_write calls first and dir_exists again.               *)
SetYear(w) ==
    \E after \in {<<"year1", "month1">>, <<"year2", "month2">>} :
        /\ Running(w, after[1])
        /\ tm' = [tm EXCEPT !.year = Year(t[w])]
        /\ Goto(w, after[2])
        /\ Overwrites
        /\ UNCHANGED <<now, dirs, calls, t, path, drops>>

SetMonth(w) ==
    \E after \in {<<"month1", "year2">>, <<"month2", IF w \in Clocks THEN "idle" ELSE "access">>} :
        /\ Running(w, after[1])
        /\ tm' = [tm EXCEPT !.month = Month(t[w])]
        /\ Goto(w, after[2])
        /\ Overwrites
        /\ UNCHANGED <<now, dirs, calls, t, path, drops>>

-----------------------------------------------------------------------------
(* dir_exists, once for each of the three directories.                     *)

NextLabel(w) == IF Len(path[w]) = 3 THEN "fileYear" ELSE "name"

Access_Ignored(w) ==
    /\ Running(w, "access")
    /\ Goto(w, "mkdir")
    /\ UNCHANGED <<now, tm, dirs, calls, t, path, mixed, drops>>

Access(w) ==
    /\ Running(w, "access")
    /\ Goto(w, IF path[w] \in dirs THEN NextLabel(w) ELSE "mkdir")
    /\ UNCHANGED <<now, tm, dirs, calls, t, path, mixed, drops>>

Parent(p) == SubSeq(p, 1, Len(p) - 1)
CanMake(p) == p \notin dirs /\ Parent(p) \in dirs

Mkdir(w) ==
    /\ Running(w, "mkdir") /\ CanMake(path[w])
    /\ dirs' = dirs \cup {path[w]}
    /\ Goto(w, NextLabel(w))
    /\ UNCHANGED <<now, tm, calls, t, path, mixed, drops>>

(* EEXIST is an error like any other: the line is not written.             *)
MkdirFails(w) ==
    /\ Running(w, "mkdir") /\ ~CanMake(path[w])
    /\ drops' = [drops EXCEPT ![path[w]] = @ + 1]
    /\ Goto(w, "idle")
    /\ UNCHANGED <<now, tm, dirs, calls, t, path, mixed>>

(* year_dir and month_dir are named from what gmtime's structure holds now.*)
NameNext_SkipsMonth(w) ==
    /\ Running(w, "name")
    /\ path' = [path EXCEPT ![w] = Append(@, tm.year)]
    /\ Goto(w, IF Len(path[w]) = 1 THEN "access" ELSE "fileYear")
    /\ UNCHANGED <<now, tm, dirs, calls, t, mixed, drops>>

NameNext(w) ==
    /\ Running(w, "name")
    /\ path' = [path EXCEPT ![w] = Append(@, IF Len(@) = 1 THEN tm.year ELSE tm.month)]
    /\ Goto(w, "access")
    /\ UNCHANGED <<now, tm, dirs, calls, t, mixed, drops>>

-----------------------------------------------------------------------------
(* log_write names the file anew, and opens it.                            *)

NameFile(w) ==
    /\ Running(w, "fileYear")
    /\ path' = [path EXCEPT ![w] = <<path[w][1], tm.year>>]
    /\ Goto(w, "open")
    /\ UNCHANGED <<now, tm, dirs, calls, t, mixed, drops>>

(* fopen makes the file but no directory; its NULL goes to fwrite.         *)
Open(w) ==
    /\ Running(w, "open")
    /\ path' = [path EXCEPT ![w] = Append(@, tm.month)]
    /\ Goto(w, IF Append(path[w], tm.month) \in dirs THEN "write" ELSE "crashed")
    /\ UNCHANGED <<now, tm, dirs, calls, t, mixed, drops>>

Write(w) ==
    /\ Running(w, "write")
    /\ Goto(w, "idle")
    /\ UNCHANGED <<now, tm, dirs, calls, t, path, mixed, drops>>

-----------------------------------------------------------------------------
LogStep(w) ==
    \/ (\E level \in Levels : Begin(w, level))
    \/ Access(w) \/ Mkdir(w) \/ MkdirFails(w) \/ NameNext(w)
    \/ NameFile(w) \/ Open(w) \/ Write(w)

Next ==
    \/ MonthEnds
    \/ \E c \in Clocks : AskTime(c)
    \/ \E w \in Writers : SetYear(w) \/ SetMonth(w)
    \/ \E w \in Threads : LogStep(w)

Spec == Init /\ [][Next]_vars

-----------------------------------------------------------------------------
Labels == {"idle", "year1", "month1", "year2", "month2", "access", "mkdir", "name",
           "fileYear", "open", "write", "crashed"}

TypeOK ==
    /\ now \in 0 .. MaxMonth /\ calls \in 0 .. MaxCalls
    /\ tm \in [year : Years, month : 0 .. Months - 1]
    /\ dirs \subseteq Paths \cup {<< >>}
    /\ pc \in [Writers -> Labels]
    /\ t \in [Writers -> 0 .. MaxMonth]
    /\ path \in [Threads -> Paths \cup {<< >>}]
    /\ mixed \subseteq Threads
    /\ drops \in [Paths -> 0 .. MaxCalls]

(* Where ./logs exists, a directory that two threads make at once costs    *)
(* one line of each thread but one, and no more: who failed to make it     *)
(* finds it the next time (log.c:12-31).  log.c:3 promises that a missing  *)
(* directory is created; so much of it is true.                            *)
FewDropped == << >> \in dirs => \A p \in Paths : drops[p] < Cardinality(Threads)

(* A line goes to the file of the month in which it was stamped, whose     *)
(* directory is there, unless another thread's gmtime changed the date     *)
(* under log_write's eyes (log.c:47-54).  Only then can it be misfiled, or *)
(* fopen fail and fwrite end the process.                                  *)
OwnDateUnlessOverwritten ==
    \A w \in Threads \ mixed :
        /\ pc[w] # "crashed"
        /\ pc[w] = "write" => path[w] = DirOf(path[w][1], t[w])

-----------------------------------------------------------------------------
(* The inductive invariant behind both.                                    *)

Typed ==
    /\ now \in 0 .. MaxMonth
    /\ tm \in [year : Years, month : 0 .. Months - 1]
    /\ pc \in [Writers -> Labels]
    /\ \A c \in Clocks : pc[c] \in {"idle", "year2", "month2"}
    /\ t \in [Writers -> 0 .. MaxMonth]
    /\ path \in [Threads -> Paths \cup {<< >>}]
    /\ drops \in [Paths -> Nat]

(* How much of its path a thread has named.                                *)
Named(w) ==
    CASE pc[w] = "idle" -> 0 .. 3
      [] pc[w] \in {"year1", "month1", "year2", "month2"} -> {1}
      [] pc[w] \in {"access", "mkdir"} -> 1 .. 3
      [] pc[w] = "name" -> 1 .. 2
      [] pc[w] = "open" -> {2}
      [] OTHER -> {3}
PathGrows == \A w \in Threads : Len(path[w]) \in Named(w)

(* A thread asks for a directory only after the one that holds it, and     *)
(* goes on only when it is there.                                          *)
ParentsFirst ==
    \A w \in Threads :
        /\ pc[w] \in {"access", "mkdir"} => Parent(path[w]) \in dirs \cup {<< >>}
        /\ pc[w] = "name" => path[w] \in dirs

(* Who lost the race to make p, or will.                                   *)
Makers(p) == {w \in Threads : pc[w] = "mkdir" /\ path[w] = p}
OneMakesIt ==
    << >> \in dirs =>
        \A p \in Paths :
            IF p \in dirs THEN drops[p] + Cardinality(Makers(p)) < Cardinality(Threads)
            ELSE drops[p] = 0

(* A thread whose date nobody overwrote names the directories of its own   *)
(* month, one after the other.                                             *)
OwnDir(w) == DirOf(path[w][1], t[w])
OnOwnWay(w) ==
    /\ pc[w] # "crashed"
    /\ pc[w] \in Reading => tm = Date(t[w])
    /\ pc[w] \in Reading \cup {"write"} =>
        path[w] \in {<<path[w][1]>>, <<path[w][1], Year(t[w])>>, OwnDir(w)}
    /\ pc[w] \in {"fileYear", "open"} => OwnDir(w) \in dirs

LogInv ==
    /\ Typed /\ PathGrows /\ ParentsFirst /\ OneMakesIt
    /\ \A w \in Threads \ mixed : OnOwnWay(w)

=============================================================================
