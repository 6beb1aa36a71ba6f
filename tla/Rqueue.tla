------------------------------- MODULE Rqueue -------------------------------
(***************************************************************************)
(* The ready queue of the scheduler (Kernel_thread_scheduler, Scheduler.H  *)
(* and Scheduler.C): a linear array of MAX_THREADS pointers that is kept   *)
(* packed at cell 0.  "head" is set to 0 by the constructor and never      *)
(* changes, so it is written 0 here; only "tail" moves.                    *)
(*                                                                         *)
(* The cells modelled are the array and its two neighbours: dequeue really *)
(* stores into cell -1 and an overfull queue into cell MAX_THREADS.  A     *)
(* store beyond those is lost, a load from beyond them finds Junk.         *)
(***************************************************************************)
EXTENDS Integers

CONSTANT MAX_THREADS

ASSUME MaxThreadsAssumption == MAX_THREADS \in Nat \ {0}

NULL == 0     \* the null Thread pointer; threads are numbered from 1
Junk == -1    \* what memory holds that nobody has initialised

Slots == -1 .. MAX_THREADS

\* Rqueue::Rqueue() clears sizeof(Thread *) bytes of the array: one cell.
newRqueue == [queue |-> [i \in Slots |-> IF i = 0 THEN NULL ELSE Junk],
              tail  |-> 0]

cell(q, i) == IF i \in Slots THEN q.queue[i] ELSE Junk

\* The new thread goes to the front of the line.
MutantLIFO(q, thrd) ==
    [queue |-> [i \in Slots |-> CASE i = 0           -> thrd
                                  [] i \in 1 .. q.tail -> cell(q, i - 1)
                                  [] OTHER           -> q.queue[i]],
     tail  |-> q.tail + 1]

\* Both branches of the code store at index tail, as head = tail = 0 in one.
enqueue(q, thrd) == [queue |-> [q.queue EXCEPT ![q.tail] = thrd],
                     tail  |-> q.tail + 1]

\* The thread dequeue() returns.
first(q) == IF q.tail = 0 THEN NULL ELSE cell(q, 0)

\* What dequeue() leaves: every cell moves down by one, cell 0 into cell -1.
dequeue(q) ==
    IF q.tail = 0
      THEN q
      ELSE [queue |-> [i \in Slots |->
                         CASE i = q.tail - 1 -> NULL
                           [] i < q.tail - 1 -> cell(q, i + 1)
                           [] OTHER          -> q.queue[i]],
            tail  |-> q.tail - 1]

(***************************************************************************)
(* remove() leaves its search loop in the first iteration whatever it      *)
(* finds, so it takes the thread out only from cell 0.  With an empty      *)
(* queue the loop does not run at all and the code below it "removes"      *)
(* cell 0 of nothing: tail becomes -1.                                     *)
(***************************************************************************)
not_present(q, thrd) == q.tail > 0 /\ cell(q, 0) # thrd

take_out(q) ==
    [queue |-> [i \in Slots |->
                  CASE i = q.tail - 1                -> NULL
                    [] i \in 0 .. q.tail - 2         -> cell(q, i + 1)
                    [] i = 0 /\ q.tail <= 0          -> NULL
                    [] OTHER                         -> q.queue[i]],
     tail  |-> q.tail - 1]

remove(q, thrd) == IF not_present(q, thrd) THEN q ELSE take_out(q)

\* The indexes in use, and the threads they hold.
Window(q)  == 0 .. q.tail - 1
Waiting(q) == {q.queue[i] : i \in Window(q)}

\* The places of a thread in the queue.
Places(q, thrd) == {i \in Window(q) : q.queue[i] = thrd}

\* No pointer is in the queue twice.
Distinct(q) == \A i, j \in Window(q) : q.queue[i] = q.queue[j] => i = j

Queues(S) == [queue : [Slots -> S], tail : Int]
=============================================================================
