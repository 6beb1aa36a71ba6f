--------------------------- MODULE ThreadScheduler ---------------------------
(***************************************************************************)
(* The thread scheduler of Kernel_thread_scheduler: the ready queue, the   *)
(* context switch of threads_low.asm, thread start and shutdown, and the   *)
(* timer interrupt whose handler switches threads once per second.         *)
(*                                                                         *)
(* One processor executes one context: a stack, the position of its        *)
(* mainline code, the thread pointer it has dequeued and the interrupt     *)
(* flag.  threads_low_switch_to stores the context in the control block of *)
(* current_thread, which need not be the thread whose stack it is: between *)
(* the stores of current_thread and of esp the two disagree.               *)
(*                                                                         *)
(* The positions of the mainline, each the point before a step:            *)
(*   boot      main(), from enable_interrupts() to dispatch_to(thread1)    *)
(*   start     thread_start()                                              *)
(*   body      the thread function, in a burst                             *)
(*   shutdown  the thread function has returned into thread_shutdown()     *)
(*   yield     Scheduler::yield(), before the dequeue                      *)
(*   save      threads_low_switch_to(), before esp is saved                *)
(*   smashed   the same, after an interrupt has overwritten the return     *)
(*             address while it was being moved below the stack pointer    *)
(*   load      current_thread is stored, esp is not loaded yet             *)
(*   gone      the processor returned to an address that is no code        *)
(* An interrupt handler runs with interrupts off from its first instruction*)
(* to the iret, or to the switch to another thread, so it is one step.     *)
(***************************************************************************)
EXTENDS Rqueue, FiniteSets

CONSTANTS
    N,             \* threads that main() creates
    Terminating,   \* threads whose function returns after Bursts bursts
    PassOn,        \* threads that call pass_on_CPU after every burst
    Bursts,        \* bursts of a terminating function
    hz             \* timer interrupts per second

Threads == 1 .. N
Main    == 0       \* the boot stack; as a TCB it is NULL

Positions == {"boot", "start", "body", "shutdown", "yield", "save",
              "smashed", "load", "gone"}

\* Four threads and ten cells; the loops of fun3 and fun4 never end.
ASSUME CountAssumption == N \in Nat \ {0} /\ 2 * N <= MAX_THREADS
ASSUME RolesAssumption == /\ Terminating \subseteq Threads
                          /\ Terminating # Threads
                          /\ PassOn \subseteq Threads
                          /\ Bursts \in Nat
                          /\ hz \in Nat \ {0}

VARIABLES
    q,               \* Scheduler::q
    current_thread,  \* the global of thread.C
    cpu,             \* the context the processor executes
    frame,           \* per TCB, the context its esp points to
    ticks,           \* SimpleTimer::ticks
    next,            \* the thread main() adds next
    burst,           \* the loop counter of each terminating function
    finished,        \* threads whose function returned and that terminate()
                     \* has been called for
    struck           \* a history: where interrupts have hit the scheduler so
                     \* far, if anywhere

vars == <<q, current_thread, cpu, frame, ticks, next, burst, finished, struck>>

Context == [stack : Threads \cup {Main}, at : Positions,
            thr : Threads \cup {NULL, Junk}, ints : BOOLEAN]

Gone == [stack |-> Main, at |-> "gone", thr |-> NULL, ints |-> FALSE]

TypeOK ==
    /\ q \in Queues(Threads \cup {NULL, Junk})
    /\ current_thread \in Threads \cup {NULL, Junk}
    /\ cpu \in Context
    /\ frame \in [Threads -> Context]
    /\ ticks \in 0 .. hz - 1
    /\ next \in 2 .. N + 1
    /\ burst \in [Threads -> 0 .. Bursts]
    /\ finished \in SUBSET Threads
    /\ struck \in SUBSET {"passing", "fatal"}

-----------------------------------------------------------------------------
(* setup_context(): an exception frame with EFLAGS 0 and EIP thread_start. *)
setup_context(t) ==
    [stack |-> t, at |-> "start", thr |-> NULL, ints |-> FALSE]

(* main() up to the call of enable_interrupts(), and the threads' creation, *)
(* which only reserves their memory.                                        *)
Init ==
    /\ q = newRqueue
    /\ current_thread = NULL
    /\ cpu = [stack |-> Main, at |-> "boot", thr |-> NULL, ints |-> TRUE]
    /\ frame = [t \in Threads |-> setup_context(t)]
    /\ ticks = 0
    /\ next = 2
    /\ burst = [t \in Threads |-> 0]
    /\ finished = {}
    /\ struck = {}

(* Where the context the processor gets on a switch to thr comes from: the  *)
(* esp of a TCB, or whatever is at address 0.                               *)
esp(f, thr) == IF thr \in Threads THEN f[thr] ELSE Gone

-----------------------------------------------------------------------------
(* main(): add(thread2) ... add(thread4), then dispatch_to(thread1).        *)
add == /\ cpu.at = "boot"
       /\ next <= N
       /\ q' = enqueue(q, next)
       /\ next' = next + 1
       /\ UNCHANGED <<current_thread, cpu, frame, ticks, burst, finished,
                       struck>>

kick_off == /\ cpu.at = "boot"
            /\ next > N
            /\ cpu' = [cpu EXCEPT !.at = "save", !.thr = 1]
            /\ UNCHANGED <<q, current_thread, frame, ticks, next, burst,
                           finished, struck>>

MutantNotEnabled  == FALSE      \* thread_start() left empty
enable_interrupts == TRUE

(* thread_start() enables interrupts, which Machine::enable_interrupts()    *)
(* asserts to be off; a failed assert stops the machine.                    *)
thread_start ==
    /\ cpu.at = "start"
    /\ ~cpu.ints
    /\ cpu' = [cpu EXCEPT !.at = "body", !.ints = enable_interrupts]
    /\ UNCHANGED <<q, current_thread, frame, ticks, next, burst, finished, struck>>

(* A burst ends.  The loop of a terminating function is over when it has    *)
(* done its bursts; a loop without pass_on_CPU just continues.              *)
MoreBursts(s) == s \notin Terminating \/ burst[s] < Bursts

CountBurst(s) ==
    burst' = [burst EXCEPT ![s] = IF s \in Terminating THEN @ + 1 ELSE @]

pass_on_CPU ==
    /\ cpu.at = "body"
    /\ cpu.stack \in PassOn
    /\ MoreBursts(cpu.stack)
    /\ q' = enqueue(q, current_thread)
    /\ cpu' = [cpu EXCEPT !.at = "yield"]
    /\ CountBurst(cpu.stack)
    /\ UNCHANGED <<current_thread, frame, ticks, next, finished, struck>>

next_burst ==
    /\ cpu.at = "body"
    /\ cpu.stack \in Terminating \ PassOn
    /\ MoreBursts(cpu.stack)
    /\ CountBurst(cpu.stack)
    /\ UNCHANGED <<q, current_thread, cpu, frame, ticks, next, finished, struck>>

function_returns ==
    /\ cpu.at = "body"
    /\ ~MoreBursts(cpu.stack)
    /\ cpu' = [cpu EXCEPT !.at = "shutdown"]
    /\ UNCHANGED <<q, current_thread, frame, ticks, next, burst, finished, struck>>

MutantResume(thrd) == enqueue(q, thrd)   \* terminate() mistaken for resume()
terminate(thrd)    == remove(q, thrd)

(* thread_shutdown(): terminate(current_thread) and delete, which releases  *)
(* nothing, and then the call of yield().                                   *)
thread_shutdown ==
    /\ cpu.at = "shutdown"
    /\ q' = terminate(current_thread)
    /\ finished' = finished \cup {current_thread}
    /\ cpu' = [cpu EXCEPT !.at = "yield"]
    /\ UNCHANGED <<current_thread, frame, ticks, next, burst, struck>>

yield ==
    /\ cpu.at = "yield"
    /\ cpu' = [cpu EXCEPT !.at = "save", !.thr = first(q)]
    /\ q' = dequeue(q)
    /\ UNCHANGED <<current_thread, frame, ticks, next, burst, finished, struck>>

-----------------------------------------------------------------------------
(* threads_low_switch_to, in its two halves.  The context saved returns to  *)
(* the caller of dispatch_to: into the next burst, or, at the end of        *)
(* thread_shutdown, to the 0 that was pushed as the thread's argument.      *)
Resumption ==
    [cpu EXCEPT !.at  = IF cpu.at = "smashed" \/ cpu.stack \in finished
                          THEN "gone" ELSE "body",
                !.thr = NULL]

MutantNewThread == cpu.thr          \* esp is stored after current_thread
tcb             == current_thread

Saved(c) == IF tcb \in Threads THEN [frame EXCEPT ![tcb] = c] ELSE frame

save_context ==
    /\ cpu.at \in {"save", "smashed"}
    /\ frame' = Saved(Resumption)
    /\ current_thread' = cpu.thr
    /\ cpu' = [cpu EXCEPT !.at = "load"]
    /\ UNCHANGED <<q, ticks, next, burst, finished, struck>>

load_context ==
    /\ cpu.at = "load"
    /\ cpu' = esp(frame, cpu.thr)
    /\ UNCHANGED <<q, current_thread, frame, ticks, next, burst, finished, struck>>

-----------------------------------------------------------------------------
(* An interrupt that lands on the instructions of threads_low_switch_to     *)
(* that have moved the return address below esp overwrites it: the processor*)
(* pushes there.                                                            *)
Interrupted ==
    {cpu} \cup (IF cpu.at = "save" /\ current_thread # NULL
                  THEN {[cpu EXCEPT !.at = "smashed"]} ELSE {})

MutantSecondOver == ticks + 1 > hz
SecondOver       == ticks + 1 >= hz

(* What the history records.  A turn that ends while its thread is passing  *)
(* the processor on anyway, between resume() or terminate() and the store of *)
(* esp; and a hit that the code does not survive: a return address lost, a  *)
(* turn ending between the two loads of the switch, or in main(), which has *)
(* no control block.                                                        *)
Hit(c) == IF c.stack # Main /\ c.at \in {"yield", "save"} THEN "passing" ELSE "fatal"

(* SimpleTimer::handle_interrupt(): a tick within a second only counts.     *)
tick ==
    /\ cpu.ints
    /\ ~SecondOver
    /\ ticks' = ticks + 1
    /\ cpu' \in Interrupted
    /\ struck' = IF cpu'.at = "smashed" THEN struck \cup {"fatal"} ELSE struck
    /\ UNCHANGED <<q, current_thread, frame, next, burst, finished>>

MutantNotResumed == q               \* the handler yields without resume()
Resumed          == enqueue(q, current_thread)

(* The tick that ends a second calls resume(CurrentThread()) and yield().   *)
(* The interrupted context, with what is left to do of the handler, is      *)
(* saved in the TCB of current_thread.                                      *)
preempt ==
    /\ cpu.ints
    /\ SecondOver
    /\ ticks' = 0
    /\ q' = dequeue(Resumed)
    /\ current_thread' = first(Resumed)
    /\ \E c \in Interrupted :
         /\ frame' = Saved(c)
         /\ struck' = IF c.at \in {"body", "shutdown"} THEN struck
                      ELSE struck \cup {Hit(c)}
    /\ cpu' = esp(frame', first(Resumed))
    /\ UNCHANGED <<next, burst, finished>>

-----------------------------------------------------------------------------
Mainline == \/ add
            \/ kick_off
            \/ thread_start
            \/ pass_on_CPU
            \/ next_burst
            \/ function_returns
            \/ thread_shutdown
            \/ yield
            \/ save_context
            \/ load_context

Timer == tick \/ preempt

Next == Mainline \/ Timer

(* A turn lasts until the second ends, thousands of instructions after the  *)
(* interrupt that began it: a thread that gets turn after turn does its next*)
(* step in one of them.  The timer chip runs freely, and its interrupts     *)
(* reach a processor that keeps them enabled.                               *)
Fairness == /\ \A s \in Threads \cup {Main} : SF_vars(cpu.stack = s /\ Mainline)
            /\ WF_vars(Timer)

Safe == Init /\ [][Next]_vars
Spec == Safe /\ Fairness

-----------------------------------------------------------------------------
(* How far the interrupts have let the scheduler be.                        *)
Intact      == "fatal" \notin struck
Undisturbed == struck = {}

(* The context a thread is in or, while it does not run, will get back; for *)
(* main() that of a processor that runs main() or is between two stacks.    *)
Running(s) == cpu.stack = s /\ cpu.at # "load"
Between(s) == s = Main /\ cpu.at = "load"
ctx(s)     == IF Running(s) \/ Between(s) THEN cpu ELSE esp(frame, s)

\* The threads main() has made known to the scheduler.
Admitted == 2 .. next - 1 \cup (IF cpu.at = "boot" THEN {} ELSE {1})

(* The turns a thread is still to get: one if somebody else has the         *)
(* processor, and one it has asked for itself and not gone into yet.        *)
One(holds) == IF holds THEN 1 ELSE 0
Asking(t)  == ctx(t).at \in {"yield", "save"} /\ t \notin finished
Turns(t)   == IF t \notin Admitted \/ ctx(t).at = "gone" THEN 0
              ELSE One(~Running(t)) + One(Asking(t))

\* Who has dequeued t and not switched to it yet.
Holds(s, t) == ctx(s).at \in {"save", "load"} /\ ctx(s).thr = t
Holders(t)  == {s \in Threads \cup {Main} : Holds(s, t)}

(* Every thread is in the ready queue, or dequeued and about to run, once    *)
(* for every turn it is to get and not more often: none is lost, none gets   *)
(* the processor out of turn, and one that is dead only to end a turn that   *)
(* began before its death.  And the queue, which never overflows, holds      *)
(* nothing else: no NULL and no uninitialised cell.  At stake: the calls of  *)
(* enqueue, dequeue and remove by pass_on_CPU, thread_shutdown and the timer,*)
(* whose interrupt also comes between those calls.                           *)
ReadyExactlyOnce == Intact =>
    /\ q.tail \in 0 .. MAX_THREADS
    /\ Waiting(q) \subseteq Threads
    /\ \A t \in Threads : Cardinality(Places(q, t)) + Cardinality(Holders(t)) = Turns(t)

(* The esp in a thread's control block points into the thread's own stack,  *)
(* and the processor runs on the stack of current_thread except between the *)
(* two loads of threads_low_switch_to.                                      *)
OwnStack == Intact =>
    /\ \A t \in Threads : frame[t].stack = t
    /\ cpu.at # "load" => cpu.stack = current_thread

(* A thread that has terminated and lost the processor gets it again only in *)
(* order to pass it on, where a turn has ended before it had: otherwise it   *)
(* would return from thread_shutdown to address 0.                           *)
FinishedForGood ==
    [][Intact' => \A t \in finished : cpu.stack # t /\ cpu'.stack = t =>
                                       cpu'.at \in {"yield", "save"}]_vars

(* Every thread whose function loops for ever runs again and again, however *)
(* the others use or do not use pass_on_CPU, and every function that returns*)
(* is shut down: the timer goes on ending the turns of threads that do not. *)
Progress == []Intact =>
    /\ \A t \in Threads \ Terminating :
          []<>(cpu.stack = t /\ cpu.at = "body")
    /\ \A t \in Terminating : <>(t \in finished)

(* The strengthening under which the three invariants above are inductive.  *)
(* What is true whatever interrupts have hit: whoever runs was switched to   *)
(* as current_thread.                                                        *)
TypeSound ==
    /\ cpu.at \in {"start", "body", "shutdown"} => current_thread \in Threads
    /\ cpu.at = "boot" => current_thread = NULL
    /\ cpu.at = "load" => current_thread = cpu.thr
    /\ \A t \in Threads : /\ frame[t].at # "boot"
                          /\ frame[t].at = "load" => frame[t].thr = t

(* The contexts are the threads' own.  One in which a thread is dead passes  *)
(* the processor on or has done so, and interrupts are off only before its   *)
(* start.                                                                    *)
SoundContext(c, t) ==
    /\ c.stack = t
    /\ c.at \in {"start", "body", "shutdown", "yield", "save", "gone"}
    /\ c.ints = (c.at # "start")
    /\ c.at = "save" => c.thr \in Threads
    /\ c.at = "shutdown" => t \in Terminating
    /\ c.at = "gone" => t \in finished
    /\ t \in finished => c.at \in {"yield", "save", "gone"}

ContextsSound == \A t \in Threads : SoundContext(ctx(t), t) /\ frame[t].stack = t

CpuSound ==
    /\ cpu.ints = (cpu.at # "start")
    /\ cpu.at = "boot" => cpu.stack = Main
    /\ cpu.at = "load" => cpu.thr \in Threads
    /\ cpu.at # "load" =>
         /\ cpu.stack = current_thread /\ cpu.at # "gone"
         /\ cpu.stack = Main => cpu.at = "boot" \/ (cpu.at = "save" /\ cpu.thr = 1)

\* Only main() runs before the end of main(), and no thread but 1 without having been added.
MainlineSound ==
    /\ cpu.at = "boot" => \A t \in Threads : frame[t].at = "start"
    /\ cpu.at # "boot" => next = N + 1
    /\ finished \subseteq Terminating

IInv == /\ TypeOK /\ TypeSound
        /\ ReadyExactlyOnce
        /\ Intact => ContextsSound /\ CpuSound /\ MainlineSound

-----------------------------------------------------------------------------
(* The scheduler implements RoundRobin.  A turn passes at the dequeue; a    *)
(* thread that has put itself into the queue and not dequeued the next one  *)
(* yet is still the runner.                                                 *)
Yielding  == cpu.at = "yield" /\ cpu.stack \notin finished
Content   == [i \in 1 .. q.tail |-> cell(q, i - 1)]
absReady  == IF Yielding THEN [i \in 1 .. q.tail - 1 |-> Content[i]] ELSE Content
absRunner == IF cpu.at \in {"save", "smashed", "load"} THEN cpu.thr ELSE cpu.stack
absDone   == IF cpu.at = "yield" THEN finished \ {cpu.stack} ELSE finished

RR == INSTANCE RoundRobin WITH ready  <- absReady,
                               runner <- absRunner,
                               done   <- absDone

(* What the implementation relies on beyond IInv: main() adds the threads   *)
(* in the order of their numbers, whoever yields has put itself last, and   *)
(* nobody who waits is about to yield.                                      *)
LineSound == Undisturbed =>
    /\ cpu.at = "boot" => q.tail = next - 2
    /\ Yielding => q.tail >= 1 /\ cell(q, q.tail - 1) = cpu.stack
    /\ \A t \in Threads : frame[t].at \in {"start", "body", "shutdown", "gone"}

(* As long as no turn ends while its thread passes the processor on anyway, *)
(* which gives the thread another one, threads get the processor in the      *)
(* order of a first-in first-out line.                                       *)
RoundRobinOrder == RR!Init /\ [][Undisturbed' => RR!Next]_(RR!vars)

(* And every turn ends as long as another thread is ready.                  *)
EveryTurnEnds == []Undisturbed => RR!Fairness

-----------------------------------------------------------------------------
(* What the comments of the source say, and an interrupt at the wrong       *)
(* instruction breaks.                                                      *)

(* scheduler.H: terminate() removes the thread from the scheduler, in       *)
(* preparation for its destruction: it is not in the ready queue any more.  *)
DeadNotReady ==
    \A i \in Window(q) \cap Slots : q.queue[i] \notin finished
=============================================================================
