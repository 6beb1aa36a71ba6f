----------------------------- MODULE RoundRobin -----------------------------
(***************************************************************************)
(* What the scheduler promises, without queues, stacks, context frames or  *)
(* interrupts: a first-in first-out line of ready threads and one runner.  *)
(* A turn ends either with the runner at the end of the line or, for a     *)
(* thread whose function returns, with the runner gone for good.           *)
(***************************************************************************)
EXTENDS Integers, Sequences

CONSTANTS N,             \* number of threads
          Terminating    \* the threads whose function returns

Threads == 1 .. N
Nobody  == 0             \* the boot code has the CPU

VARIABLES ready, runner, done

vars == <<ready, runner, done>>

Init == /\ ready = <<>>
        /\ runner = Nobody
        /\ done = {}

\* Boot adds threads 2 .. N in order, then kicks off thread 1.
Add == /\ runner = Nobody
       /\ Len(ready) < N - 1
       /\ ready' = Append(ready, Len(ready) + 2)
       /\ UNCHANGED <<runner, done>>

KickOff == /\ runner = Nobody
           /\ Len(ready) = N - 1
           /\ runner' = 1
           /\ UNCHANGED <<ready, done>>

Rotate == /\ runner # Nobody
          /\ ready # <<>>
          /\ runner' = Head(ready)
          /\ ready' = Append(Tail(ready), runner)
          /\ UNCHANGED done

Finish == /\ runner \in Terminating
          /\ ready # <<>>
          /\ runner' = Head(ready)
          /\ ready' = Tail(ready)
          /\ done' = done \cup {runner}

Next == Add \/ KickOff \/ Rotate \/ Finish

\* A thread that is alone keeps the CPU: Next is then disabled, which is why
\* fairness is on Next and not on Rotate.
Fairness == WF_vars(Next)

Safe == Init /\ [][Next]_vars
Spec == Safe /\ Fairness
=============================================================================
