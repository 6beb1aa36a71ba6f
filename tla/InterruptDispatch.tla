-------------------------- MODULE InterruptDispatch --------------------------
(***************************************************************************)
(* How interrupts and exceptions reach their handlers in the four kernels  *)
(* of KernelStart: the two interrupt controllers, the stubs of irq_low.asm *)
(* and idt_low.asm, the dispatchers and the switches of threads inside and *)
(* outside of the timer's handler.                                         *)
(*   threads  the end-of-interrupt signal comes before the handler, which  *)
(*            may switch threads                                           *)
(*   disk     the signal comes last, threads start with interrupts off and *)
(*            switch only by themselves                                    *)
(*   paging   the signal comes last, main() is all there is, page faults   *)
(*            have a handler                                               *)
(*   frames   the same, but the handler of page faults does not return     *)
(*                                                                         *)
(* A stack is a sequence of activations, the interrupted below the         *)
(* interrupting one.  Which thread is next is ThreadScheduler's concern:   *)
(* here it is any, the running one included.                               *)
(***************************************************************************)
EXTENDS KernelStart

CONSTANTS
    Threads,      \* the threads of the kernels that have them
    Devices       \* the interrupt lines at which something is attached

Main == 0         \* the boot stack

ASSUME LinesAssumption == Devices \subseteq Lines /\ Timer \in Devices
ASSUME ThreadsAssumption == Threads \subseteq Nat \ {0}

VARIABLES
    irr, isr,     \* lines requested and lines in service
    run,          \* whose stack the processor uses
    stack,        \* per thread and for main(), its activations
    flag          \* per stack that is not running, its saved flag

vars  == <<setup, ints, irr, isr, run, stack, flag>>

Stacks == Threads \cup {Main}
NoLine == -1

(* An activation: what it does next, for which line or exception, and the   *)
(* flag its iret restores.                                                  *)
Activation == [at : {"start", "code", "dispatch", "handler", "return",
                     "exception", "halted"},
               no : Lines \cup Exceptions \cup {NoLine}, eflags : BOOLEAN]

(* What new has placed.                                                     *)
Area == [what : {"queue", "Bqueue", "b_queue", "stack", "Thread"}, at : Nat, size : Nat]

TypeOK ==
    /\ kernel \in Kernels /\ boot \in 0 .. Len(Order)
    /\ gdt \in [1 .. 3 -> gdt_entry] /\ segments \in {<<0, 0>>, <<8, 16>>}
    /\ idt \in [Vectors -> idt_entry] /\ remapped \in BOOLEAN
    /\ handlers \subseteq Lines /\ catchers \subseteq Exceptions
    /\ paging \in BOOLEAN /\ ints \in BOOLEAN
    /\ period \in Byte \X Byte
    /\ next_free_frame \in Nat /\ start_address \in Nat
    /\ areas \in Seq(Area)
    /\ irr \subseteq Devices /\ isr \subseteq Lines
    /\ run \in Stacks
    /\ \A s \in Stacks : stack[s] \in Seq(Activation) /\ stack[s] # <<>>
    /\ flag \in [Stacks -> BOOLEAN]

-----------------------------------------------------------------------------
Top     == Last(stack[run])
Code    == [at |-> "code", no |-> NoLine, eflags |-> FALSE]
Started == [at |-> "start", no |-> NoLine, eflags |-> FALSE]
Halted  == Top.at = "halted"

Goto(where)  == stack' = [stack EXCEPT ![run][Len(stack[run])].at = where]
Push(at, no) == stack' = [stack EXCEPT ![run] =
                            Append(@, [at |-> at, no |-> no, eflags |-> ints])]
Iret         == /\ stack' = [stack EXCEPT ![run] = Front(@)]
                /\ ints' = Top.eflags

Init ==
    /\ StartInit
    /\ irr = {} /\ isr = {}
    /\ run = Main
    /\ stack = [s \in Stacks |-> IF s = Main THEN <<Code>> ELSE <<Started>>]
    /\ flag = [s \in Stacks |-> FALSE]

\* main() up to the point where it has enabled interrupts.
SetUp == /\ run = Main /\ Top.at = "code"
         /\ Start
         /\ UNCHANGED <<irr, isr, run, stack, flag>>

-----------------------------------------------------------------------------
(* The controllers: lines 0 to 7 at the master, the others at the slave,    *)
(* whose signal is the master's line 2.  A line in service holds back the   *)
(* ones behind it.  The end-of-interrupt signal is for the first line in    *)
(* service at the controller it is sent to.                                 *)
slave(l)      == l > 7
master(l)     == IF slave(l) THEN 2 ELSE l
vector(l)     == IF remapped THEN 32 + l ELSE IF slave(l) THEN 104 + l ELSE 8 + l
Ahead(l, k)   == master(l) < master(k) \/ (master(l) = master(k) /\ l <= k)
Held(l)       == \E k \in isr : master(k) <= master(l)
First(S)      == {l \in S : \A k \in S : l <= k}
MutantEOI(S, l) == S \ First({k \in S : ~slave(k)})
EOI(S, l)     == S \ (First({k \in S : ~slave(k)}) \cup
                      (IF slave(l) THEN First({k \in S : slave(k)}) ELSE {}))

raise(l) == /\ l \in Devices \ irr
            /\ irr' = irr \cup {l}
            /\ UNCHANGED <<setup, isr, run, stack, ints, flag>>

(* The processor takes an interrupt: through its gate into the stub, which  *)
(* pushes its number, and the dispatcher.  Without a usable gate it stops.  *)
MutantTrapGate(v) == ints       \* flags 0x8F, and no cli in the stub
GateFlag(v)       == FlagAfter(v)

Enter(v) == /\ IF ~Enters(v)             THEN Push("halted", NoLine)
               ELSE IF idt[v].stub > 31  THEN Push("dispatch", idt[v].stub - 32)
                                         ELSE Push("exception", idt[v].stub)
            /\ ints' = GateFlag(v)

accept(l) ==
    /\ ints /\ ~Halted
    /\ l \in irr /\ ~Held(l)
    /\ \A k \in irr \ {l} : ~Held(k) => Ahead(l, k)
    /\ irr' = irr \ {l}
    /\ isr' = isr \cup {l, master(l)}
    /\ Enter(vector(l))
    /\ UNCHANGED <<setup, run, flag>>

-----------------------------------------------------------------------------
(* dispatch_interrupt(), first the version of the thread kernel, then that  *)
(* of the others; and a line nobody has registered for, which gets a        *)
(* message, and in the thread kernel no end-of-interrupt signal.            *)
MutantLate == FALSE
EOIFirst   == kernel = "threads"

dispatch_early ==
    /\ Top.at = "dispatch" /\ EOIFirst /\ Top.no \in handlers
    /\ isr' = EOI(isr, Top.no)
    /\ Goto("handler")
    /\ UNCHANGED <<setup, irr, run, ints, flag>>

dispatch_late ==
    /\ Top.at = "dispatch" /\ ~EOIFirst /\ Top.no \in handlers
    /\ Goto("handler")
    /\ UNCHANGED <<setup, irr, isr, run, ints, flag>>

no_handler ==
    /\ Top.at = "dispatch" /\ Top.no \notin handlers
    /\ Goto("return")
    /\ UNCHANGED <<setup, irr, isr, run, ints, flag>>

\* The timer's handler counts, or ends the second and with it the turn.
handle_interrupt ==
    /\ Top.at = "handler"
    /\ Goto("return")
    /\ UNCHANGED <<setup, irr, isr, run, ints, flag>>

signal_late == isr' = IF EOIFirst THEN isr ELSE EOI(isr, Top.no)

return_from_interrupt ==
    /\ Top.at = "return"
    /\ signal_late
    /\ Iret
    /\ UNCHANGED <<setup, irr, run, flag>>

-----------------------------------------------------------------------------
(* An instruction of the kernel's own code faults, with a missing page only *)
(* where there are pages.  The one page fault handler that returns is that  *)
(* of the paging kernel; the one of its predecessor faults itself until its *)
(* stack is used up (FrameManager), and the one for division by zero loops  *)
(* for ever, as abort() does for the others.                                *)
fault(e) == /\ Ready /\ Top.at = "code"
            /\ e = PageFault => paging
            /\ Enter(e)
            /\ UNCHANGED <<setup, irr, isr, run, flag>>

Returns(e) == e \in catchers /\ e = PageFault /\ kernel = "paging"

dispatch_exception ==
    /\ Top.at = "exception"
    /\ IF Returns(Top.no) THEN Iret
                          ELSE Goto("halted") /\ UNCHANGED ints
    /\ UNCHANGED <<setup, irr, isr, run, flag>>

-----------------------------------------------------------------------------
(* threads_low_switch_to: the flag goes onto the stack that is left, and the*)
(* iret gets the other one's.                                               *)
SwitchTo(t) == /\ t \in Threads
               /\ run' = t
               /\ flag' = [flag EXCEPT ![run] = ints]
               /\ ints' = flag'[t]
               /\ UNCHANGED <<setup, irr>>

kick_off(t) == /\ Ready /\ kernel \in {"threads", "disk"} /\ run = Main /\ Top.at = "code"
               /\ SwitchTo(t)
               /\ UNCHANGED <<isr, stack>>

(* A second ends, also in main(), once there are threads in the queue.     *)
end_turn(t) == /\ Top.at = "handler" /\ Top.no = Timer
               /\ kernel = "threads"
               /\ run = Main => Ready
               /\ Goto("return")
               /\ SwitchTo(t)
               /\ UNCHANGED isr

(* main() is no thread: when a second has ended in it, it is NULL that went *)
(* into the queue.  Whoever takes it out again, main() itself while nobody  *)
(* else is in the queue, loads its stack pointer from address 0: that is    *)
(* the end of this kernel.                                                  *)
dispatch_NULL == /\ kernel = "threads" /\ Len(stack[Main]) = 2
                 /\ \/ Top.at = "handler" /\ Top.no = Timer /\ Goto("halted")
                    \/ run # Main /\ Top.at = "code" /\ Push("halted", NoLine)
                 /\ ints' = FALSE
                 /\ UNCHANGED <<setup, irr, isr, run, flag>>

pass_on_CPU(t) == /\ run # Main /\ Top.at = "code"
                  /\ SwitchTo(t)
                  /\ UNCHANGED <<isr, stack>>

(* thread_start() of the thread kernel enables interrupts, which must be    *)
(* off; the one of the disk kernel does nothing.                            *)
thread_start == /\ Top.at = "start"
                /\ kernel = "threads" => ~interrupts_enabled
                /\ Goto("code")
                /\ ints' = (kernel = "threads")
                /\ UNCHANGED <<setup, irr, isr, run, flag>>

Proceed == \/ SetUp \/ thread_start
           \/ dispatch_early \/ dispatch_late \/ no_handler
           \/ handle_interrupt \/ return_from_interrupt
           \/ dispatch_exception \/ dispatch_NULL
           \/ \E t \in Threads : kick_off(t)

Next == \/ Proceed
        \/ \E t \in Threads : end_turn(t) \/ pass_on_CPU(t)
        \/ \E l \in Devices : raise(l) \/ accept(l)
        \/ \E e \in {0, 13, PageFault} : fault(e)

(* The timer goes on firing, the processor takes an interrupt that is       *)
(* possible again and again, and goes on executing.                         *)
Fairness == WF_vars(Proceed) /\ WF_vars(raise(Timer)) /\ SF_vars(accept(Timer))

Spec == Init /\ [][Next]_vars /\ Fairness

-----------------------------------------------------------------------------
(* kernel.C: a timer handler is installed before interrupts are enabled, as *)
(* there would be uncaptured ones otherwise.  No interrupt of the timer is  *)
(* taken that does not get to the timer's handler.                          *)
TimerCaptured ==
    [][(Timer \in irr \ irr') => Timer \in handlers /\ Top'.at = "dispatch"]_vars

(* The timer's interrupts come at the rate its handler counts with: the chip *)
(* counts what a tick of that rate takes, rounded down.                      *)
TicksAtRate == Timer \in handlers =>
    LET count == period[1] + 256 * period[2]
    IN  count * hz <= Clock /\ Clock < (count + 1) * hz

(* new is used when there is a pool, and never gives out memory twice, nor   *)
(* beyond the frames of the pool: stacks, control blocks and queues of the   *)
(* kernels with threads keep out of each other's way.                        *)
OwnMemory ==
    \A i \in DOMAIN areas :
        /\ FRAMES <= areas[i].at
        /\ areas[i].at + areas[i].size <= FRAMES + PoolSize * PAGE_SIZE
        /\ \A j \in 1 .. i - 1 : areas[j].at + areas[j].size <= areas[i].at

(* dequeue() and del() shift cell 0 of an array into the word in front of it.*)
(* For the ready queue this word is nobody's; for the queue of the disk it is*)
(* the last member of the queue itself, its tail (DiskKernel's del).         *)
CellInFront ==
    \A i \in DOMAIN areas :
        LET owner(word) == {j \in DOMAIN areas : areas[j].at <= word /\
                                                 word < areas[j].at + areas[j].size}
        IN  /\ areas[i].what = "queue" => owner(areas[i].at - 4) = {}
            /\ areas[i].what = "b_queue" =>
                  \E j \in owner(areas[i].at - 4) :
                     areas[j].what = "Bqueue" /\ areas[i].at - 4 = areas[j].at + 8

(* However interrupts and turns interleave, there is never more on a stack  *)
(* than a thread and one activation: it does not grow with the interrupts.  *)
OneActivation == \A s \in Stacks : Len(stack[s]) <= 2

Serving(s) == {a.no : a \in {b \in ToSet(stack[s]) :
                                b.at \in {"dispatch", "handler", "return"}}}

(* A line is in service only while somebody serves it; in the thread kernel *)
(* one that nobody has registered for stays in service for ever, and holds  *)
(* back the lines behind it, but no other does.                             *)
Acknowledged ==
    isr \ {2} \subseteq
      (UNION {Serving(s) : s \in Stacks}) \cup
      (IF kernel = "threads" THEN Devices \ handlers ELSE {})

(* What makes the last two and TimerCaptured inductive.  Interrupts are on,  *)
(* or will be when a stack is switched to, only where nothing is interrupted;*)
StacksSound ==
    /\ run \in Stacks /\ ints \in BOOLEAN /\ flag \in [Stacks -> BOOLEAN]
    /\ stack \in [Stacks -> Seq(Activation)]
    /\ \A s \in Stacks : LET n == Len(stack[s])
                         IN  /\ n = 1 \/ n = 2
                             /\ stack[s][1].at \in {"start", "code"}
                             /\ n = 2 => stack[s][2].at \notin {"start", "code"}
                             /\ flag[s] /\ s # run => n = 1
    /\ ints => Len(stack[run]) = 1

(* the tables are complete before they are on for the first time;           *)
TablesSound ==
    /\ kernel \in Kernels /\ boot \in 0 .. Len(Order)
    /\ idt \in [Vectors -> idt_entry] /\ \A v \in Vectors : idt[v].flags \in {0, 142}
    /\ boot >= 1 => gdt = SegmentTable /\ segments = <<8, 16>>
    /\ boot >= 3 => \A e \in Exceptions : idt[e] = interrupt_gate(e)
    /\ boot >= 4 => remapped
    /\ boot >= 5 => \A v \in IrqGates : idt[v] = interrupt_gate(v)
    /\ handlers = IF boot >= 10 THEN {Timer} ELSE {}
    /\ boot <= 10 => run = Main /\ Top = Code /\ ~ints /\ isr = {}

(* and a line in service is that of the one dispatcher or handler there is,  *)
(* or in the thread kernel one that nobody has registered for.              *)
Served == Top.at \in {"dispatch", "handler", "return"}

ServiceSound ==
    /\ isr \subseteq Lines /\ irr \subseteq Devices
    /\ kernel # "threads" =>
         /\ \A s \in Stacks \ {run} : Len(stack[s]) = 1
         /\ isr = IF Served THEN {Top.no, master(Top.no)} ELSE {}
    /\ kernel = "threads" =>
         /\ isr \ {2} \subseteq Devices
         /\ Timer \in isr /\ Timer \in handlers => Top.at = "dispatch" /\ Top.no = Timer

DispatchSound == StacksSound /\ TablesSound /\ ServiceSound

(* What makes TicksAtRate, OwnMemory and CellInFront inductive: the pool is  *)
(* there before anything is placed, nothing lies beyond where the next will  *)
(* be, and no step of main() places more than a stack and its thread.        *)
RateSound == boot >= 9 => period = divisor(Clock \div hz)

HasPool == kernel \in {"threads", "disk"}

Placed(placed, next) ==
    /\ placed \in Seq(Area) /\ next \in Nat
    /\ \A i \in 1 .. Len(placed) :
         /\ FRAMES <= placed[i].at /\ placed[i].at + placed[i].size <= next
         /\ \A j \in 1 .. i - 1 : placed[j].at + placed[j].size <= placed[i].at
         /\ placed[i].what = "queue" => placed[i].at = FRAMES
         /\ placed[i].what = "b_queue" =>
              /\ i > 1 /\ placed[i - 1].what = "Bqueue"
              /\ placed[i - 1].size = 12 /\ placed[i].at = placed[i - 1].at + 12

HeapSound ==
    /\ Placed(areas, start_address) /\ next_free_frame \in Nat
    /\ HasPool /\ boot = 7 => next_free_frame = FRAMES
    /\ boot <= 10 \/ ~HasPool => areas = <<>>
    /\ HasPool /\ boot \in 8 .. 10 => start_address = FRAMES
    /\ HasPool /\ boot >= 8 =>
         start_address \in FRAMES .. FRAMES + boot * (1024 + ThreadSize)

(* and for TypeOK, the tables main() only fills.                             *)
TablesTyped ==
    /\ gdt \in [1 .. 3 -> gdt_entry] /\ segments \in {<<0, 0>>, <<8, 16>>}
    /\ remapped \in BOOLEAN /\ paging \in BOOLEAN
    /\ catchers \subseteq Exceptions
    /\ period \in Byte \X Byte

StartSound == RateSound /\ HeapSound /\ TablesTyped

(* The timer ticks for ever, whichever other interrupts nobody handles,     *)
(* whoever is interrupted where and switches to whom, unless the kernel is  *)
(* halted by an exception or by the dispatch of NULL, or is the one whose   *)
(* threads turn interrupts off.                                             *)
TicksGoOn == []<>(Top.at = "handler" /\ Top.no = Timer) \/ <>Halted \/ kernel = "disk"
=============================================================================
