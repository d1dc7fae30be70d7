---------------------------- MODULE RequestFifo ----------------------------
(***************************************************************************)
(* What the task list promises to the epoll thread and the workers: a      *)
(* first-in first-out queue of requests.  A request that is submitted is   *)
(* taken once, by one worker, after every request submitted before it.     *)
(***************************************************************************)
EXTENDS Integers, Sequences

CONSTANTS Workers, Idle

VARIABLES
    last,     \* the number of the last request submitted
    queue,    \* the requests submitted and not taken, oldest first
    working   \* working[w]: the request worker w is busy with, or Idle

fifoVars == <<last, queue, working>>

FifoInit ==
    /\ last = 0
    /\ queue = << >>
    /\ working = [w \in Workers |-> Idle]

(* Request numbers grow; a number that is skipped was refused.             *)
Submit ==
    /\ last' \in Nat
    /\ last' > last
    /\ queue' = Append(queue, last')
    /\ UNCHANGED working

Take(w) ==
    /\ queue # << >>
    /\ working[w] = Idle
    /\ working' = [working EXCEPT ![w] = Head(queue)]
    /\ queue' = Tail(queue)
    /\ UNCHANGED last

Complete(w) ==
    /\ working[w] # Idle
    /\ working' = [working EXCEPT ![w] = Idle]
    /\ UNCHANGED <<last, queue>>

FifoNext == Submit \/ \E w \in Workers : Take(w) \/ Complete(w)

FifoSpec == FifoInit /\ [][FifoNext]_fifoVars

=============================================================================
