---------------------------- MODULE ContextSwitch ----------------------------
(***************************************************************************)
(* The assembly code between a thread and whoever takes the processor from *)
(* it, instruction by instruction and word by word: the context switch of  *)
(* threads_low.asm, the stack that setup_context() builds for it, and the  *)
(* stubs of irq_low.asm and idt_low.asm around the C dispatchers.          *)
(*                                                                         *)
(* The files are the same in the kernels, which differ in what happens     *)
(* around them:                                                            *)
(*   threads  interrupts are on in threads, the timer's handler may switch *)
(*   disk     threads run with interrupts off and switch by themselves     *)
(*   paging   main() is all there is; a page fault's handler returns, and  *)
(*            may fault itself before it does                              *)
(*                                                                         *)
(* A word is a pair: what kind of value it is, and which one.  A stack is  *)
(* the words pushed on it, the first one pushed having index 1; esp is the *)
(* stack and the index of its top, so that the word at [esp+4n] is n below *)
(* the top.  Words above the top stay in memory until something is pushed  *)
(* over them.                                                              *)
(***************************************************************************)
EXTENDS Integers, Sequences, FiniteSets, SequencesExt

CONSTANTS
    N,             \* threads
    Returning,     \* threads whose function may return
    Kernels,       \* which of the kernels
    Irqs,          \* vectors of the devices that interrupt
    Faults,        \* exceptions of instructions of C code
    Deepest,       \* bound: words of a stack
    Nested         \* bound: contexts saved on a stack

Threads == 1 .. N
NULL    == 0
Main    == 0
Stacks  == {Main} \cup Threads

ASSUME ThreadsAssumption == N \in Nat \ {0} /\ Returning \subseteq Threads
ASSUME BoundsAssumption  == /\ Deepest \in Nat /\ Nested \in Nat
                            /\ Irqs \subseteq 32 .. 47 /\ Faults \subseteq 0 .. 31
                            /\ Kernels \subseteq {"threads", "disk", "paging"}
\* A context and what C code pushes on it take twenty words at most.
ASSUME DepthAssumption == 20 * (Nested + 2) < Deepest

VARIABLES
    kernel,
    reg,               \* the registers but for esp, eip and the flag
    esp, eip, ints,
    mem,               \* the stacks
    tcb,               \* per thread, the esp in its control block
    current_thread,
    raised,            \* history: vector and error code of the interrupt that
                       \* is on its way to a dispatcher
    left,              \* history: per stack, what each context it holds was
                       \* like when the processor left it
    struck             \* history: something has happened that this code does
                       \* not survive (see Fatal)

cpu  == <<reg, esp, eip, ints>>
vars == <<kernel, reg, esp, eip, ints, mem, tcb, current_thread, raised, left, struck>>

-----------------------------------------------------------------------------
(* Registers, words and selectors.                                          *)
General   == <<"eax", "ecx", "edx", "ebx", "esp", "ebp", "esi", "edi">>
Segments  == <<"ds", "es", "fs", "gs">>
Registers == (ToSet(General) \ {"esp"}) \cup ToSet(Segments)

Zero      == <<"number", 0>>
KERNEL_CS == <<"selector", 8>>
KERNEL_DS == <<"selector", 16>>
Flags(i)  == <<"eflags", IF i THEN 512 ELSE 0>>
Thread(t) == <<"thread", t>>
At(p)     == <<"address", p.stack * Deepest + p.top>>

\* What the registers hold in code of a stack's own, the dispatcher's scratch.
Own(s) == [r \in Registers |-> IF r \in ToSet(Segments) THEN KERNEL_DS ELSE <<r, s>>]
Scratch == {"eax", "ecx", "edx"}
Nothing == <<0, Zero>>

-----------------------------------------------------------------------------
(* Instructions, and the code.  Some are named for what they do here:       *)
(*   save_esp         mov [_current_thread], esp (by way of eax)            *)
(*   make_current     mov [_current_thread], eax                            *)
(*   load_esp         mov esp, [eax]                                        *)
(*   kernel_segments  ds, es, fs and gs loaded with KERNEL_DS, eax with esp *)
Op(o)       == [op |-> o, r |-> "", n |-> 0]
Push(r)     == [op |-> "push", r |-> r, n |-> 0]
PushByte(n) == [op |-> "push", r |-> "", n |-> n]
Pop(r)      == [op |-> "pop", r |-> r, n |-> 0]
Load(r, n)  == [op |-> "load", r |-> r, n |-> n]       \* mov r, [esp+4n]
Store(n, r) == [op |-> "store", r |-> r, n |-> n]      \* mov [esp+4n], r
Add(n)      == [op |-> "add", r |-> "", n |-> n]       \* add esp, 4n

save_registers   == <<Op("pushad"), Push("ds"), Push("es"), Push("fs"), Push("gs")>>
MutantUncleaned  == <<Pop("gs"), Pop("fs"), Pop("es"), Pop("ds"), Op("popad"), Add(1)>>
restore_registers == <<Pop("gs"), Pop("fs"), Pop("es"), Pop("ds"), Op("popad"), Add(2)>>

INTERRUPT_STATE_SIZE == 17

\* The return address moves below the flags and the code segment, with eax
\* kept above it meanwhile.
MutantClobbered ==
    <<Push("eax"), Load("eax", 1), Store(-1, "eax"), Add(2), Op("pushfd"),
      Push("cs"), Add(-1), PushByte(0), PushByte(0)>>
frame_for_iret ==
    <<Push("eax"), Load("eax", 1), Store(-1, "eax"), Add(2), Op("pushfd"),
      Load("eax", -1), Push("cs"), Add(-1), PushByte(0), PushByte(0)>>

load_context == <<Op("make_current"), Op("load_esp")>>
                  \o restore_registers \o <<Op("iret")>>

full_switch == <<Op("je")>> \o frame_for_iret \o save_registers \o
               <<Op("save_esp"), Load("eax", INTERRUPT_STATE_SIZE)>>
               \o load_context

MutantNoCurrent       == <<Load("eax", 1), Op("load_esp")>>
                           \o restore_registers \o <<Op("iret")>>
context_load_only     == <<Load("eax", 1)>> \o load_context
threads_low_switch_to == full_switch \o context_load_only

(* The stubs.  The processor pushes an error code for some exceptions; the  *)
(* stubs of the others push a 0 in its place.                               *)
Jmp(label)    == [op |-> "jmp", r |-> label, n |-> 0]
HasCode       == {8} \cup 10 .. 14
MutantAllZero == {}
NoDummy       == {8} \cup 10 .. 14

irq(l) == <<Op("cli"), PushByte(0), PushByte(32 + l), Jmp("irq_common_stub")>>
isr(n) == IF n \in NoDummy
            THEN <<Op("nop"), Op("cli"), PushByte(n), Jmp("isr_common_stub")>>
            ELSE <<Op("cli"), PushByte(0), PushByte(n), Jmp("isr_common_stub")>>

\* The stubs one after the other, and the entries of the descriptor table.
irq_stubs == [i \in 1 .. 64  |-> irq((i - 1) \div 4)[((i - 1) % 4) + 1]]
isr_stubs == [i \in 1 .. 128 |-> isr((i - 1) \div 4)[((i - 1) % 4) + 1]]
exception_gate(v) == <<"isr", 4 * v + 1>>
irq_gate(v)       == <<"irq", 4 * (v - 32) + 1>>
Gate == [v \in 0 .. 47 |-> IF v < 32 THEN exception_gate(v) ELSE irq_gate(v)]

call_dispatcher  == save_registers \o <<Op("kernel_segments"), Push("esp"), Op("call")>>
common_stub      == call_dispatcher \o <<Pop("eax")>> \o restore_registers \o <<Op("iret")>>

code == [threads_low_switch_to |-> threads_low_switch_to,
         irq |-> irq_stubs, irq_common_stub |-> common_stub,
         isr |-> isr_stubs, isr_common_stub |-> common_stub]

\* What is written in C: one position per point at which a call returns.
InC == {<<"main", 1>>, <<"main", 2>>, <<"thread_start", 1>>, <<"function", 1>>, <<"function", 2>>,
        <<"thread_shutdown", 1>>, <<"thread_shutdown", 2>>, <<"dispatch", 1>>,
        <<"handler", 1>>, <<"handler", 2>>, <<"abort", 1>>}

-----------------------------------------------------------------------------
(* Thread(): the control block and the stack that setup_context() builds.   *)
MutantTwoArguments(t) ==
    <<Zero, Zero, <<"thread_shutdown", 1>>, <<"function", 1>>, Flags(FALSE), KERNEL_CS,
      <<"thread_start", 1>>, Zero, Zero>>
    \o [i \in 1 .. Len(General) |-> Zero]
    \o <<KERNEL_DS, KERNEL_DS, Zero, Zero>>
setup_context(t) ==
    <<Zero, <<"thread_shutdown", 1>>, <<"function", 1>>, Flags(FALSE), KERNEL_CS,
      <<"thread_start", 1>>, Zero, Zero>>
    \o [i \in 1 .. Len(General) |-> Zero]
    \o <<KERNEL_DS, KERNEL_DS, Zero, Zero>>

Init ==
    /\ kernel \in Kernels
    /\ mem = [s \in Stacks |-> IF s = Main THEN <<>> ELSE setup_context(s)]
    /\ tcb = [t \in Threads |-> [stack |-> t, top |-> Len(setup_context(t))]]
    /\ current_thread = 0
    /\ reg = Own(Main) /\ esp = [stack |-> Main, top |-> 0]
    /\ eip = <<"main", 1>> /\ ints = TRUE
    /\ raised = Nothing /\ struck = FALSE
    /\ left = [s \in Stacks |-> <<>>]

-----------------------------------------------------------------------------
(* The processor.                                                           *)
Below(n) == IF esp.top - n \in 1 .. Len(mem[esp.stack])
              THEN mem[esp.stack][esp.top - n] ELSE <<"outside", 0>>
Write(words, i, w) == IF i <= Len(words) THEN [words EXCEPT ![i] = w]
                                         ELSE Append(words, w)
Writes(words, i, ws) == SubSeq(words, 1, i - 1) \o ws
Down(n)  == [esp EXCEPT !.top = @ + n]
Next1    == <<eip[1], eip[2] + 1>>
Snapshot(at, top) == [reg |-> reg, ints |-> ints, eip |-> at, top |-> top]

Executes(o) == /\ eip[1] \in DOMAIN code
               /\ code[eip[1]][eip[2]].op = o
It          == code[eip[1]][eip[2]]
Same        == UNCHANGED <<kernel, struck>>

Word(r) == CASE r = ""    -> <<"number", It.n>>
             [] r = "cs"  -> KERNEL_CS
             [] r = "esp" -> At(esp)
             [] OTHER     -> reg[r]

push ==
    /\ Executes("push")
    /\ mem' = [mem EXCEPT ![esp.stack] = Write(@, esp.top + 1, Word(It.r))]
    /\ esp' = Down(1) /\ eip' = Next1
    /\ UNCHANGED <<reg, ints, tcb, current_thread, raised, left>> /\ Same

pop ==
    /\ Executes("pop")
    /\ reg' = [reg EXCEPT ![It.r] = Below(0)]
    /\ esp' = Down(-1) /\ eip' = Next1
    /\ UNCHANGED <<ints, mem, tcb, current_thread, raised, left>> /\ Same

\* pushad pushes the esp of before; popad leaves that word alone.
pushad ==
    /\ Executes("pushad")
    /\ mem' = [mem EXCEPT ![esp.stack] =
                 Writes(@, esp.top + 1, [i \in 1 .. Len(General) |-> Word(General[i])])]
    /\ esp' = Down(Len(General)) /\ eip' = Next1
    /\ UNCHANGED <<reg, ints, tcb, current_thread, raised, left>> /\ Same

popad ==
    /\ Executes("popad")
    /\ reg' = [r \in Registers |->
                 IF r \in ToSet(General)
                   THEN Below(Len(General) - CHOOSE i \in DOMAIN General : General[i] = r)
                   ELSE reg[r]]
    /\ esp' = Down(-Len(General)) /\ eip' = Next1
    /\ UNCHANGED <<ints, mem, tcb, current_thread, raised, left>> /\ Same

pushfd ==
    /\ Executes("pushfd")
    /\ mem' = [mem EXCEPT ![esp.stack] = Write(@, esp.top + 1, Flags(ints))]
    /\ esp' = Down(1) /\ eip' = Next1
    /\ UNCHANGED <<reg, ints, tcb, current_thread, raised, left>> /\ Same

move ==
    /\ Executes("load") \/ Executes("store") \/ Executes("add")
    /\ reg' = IF It.op = "load" THEN [reg EXCEPT ![It.r] = Below(It.n)] ELSE reg
    /\ mem' = IF It.op = "store"
                THEN [mem EXCEPT ![esp.stack] = Write(@, esp.top - It.n, reg[It.r])]
                ELSE mem
    /\ esp' = IF It.op = "add" THEN Down(-It.n) ELSE esp
    /\ eip' = Next1
    /\ UNCHANGED <<ints, tcb, current_thread, raised, left>> /\ Same

cli ==
    /\ Executes("cli")
    /\ ints' = FALSE /\ eip' = Next1
    /\ UNCHANGED <<reg, esp, mem, tcb, current_thread, raised, left>> /\ Same

kernel_segments ==
    /\ Executes("kernel_segments")
    /\ reg' = [r \in Registers |-> IF r \in ToSet(Segments) THEN KERNEL_DS
                                   ELSE IF r = "eax" THEN At(esp) ELSE reg[r]]
    /\ eip' = Next1
    /\ UNCHANGED <<esp, ints, mem, tcb, current_thread, raised, left>> /\ Same

jmp ==
    /\ Executes("jmp") \/ Executes("nop")
    /\ eip' = IF It.op = "jmp" THEN <<It.r, 1>> ELSE Next1
    /\ UNCHANGED <<reg, esp, ints, mem, tcb, current_thread, raised, left>> /\ Same

je ==
    /\ Executes("je")
    /\ eip' = IF current_thread = 0 THEN <<eip[1], Len(full_switch) + 1>> ELSE Next1
    /\ UNCHANGED <<reg, esp, ints, mem, tcb, current_thread, raised, left>> /\ Same

save_esp ==
    /\ Executes("save_esp")
    /\ tcb' = [tcb EXCEPT ![current_thread] = esp]
    /\ reg' = [reg EXCEPT !["eax"] = Thread(current_thread)]
    /\ eip' = Next1
    /\ UNCHANGED <<esp, ints, mem, current_thread, raised, left>> /\ Same

make_current ==
    /\ Executes("make_current")
    /\ reg["eax"] \in {Thread(t) : t \in Threads}
    /\ current_thread' = reg["eax"][2] /\ eip' = Next1
    /\ UNCHANGED <<reg, esp, ints, mem, tcb, raised, left>> /\ Same

\* When main()'s stack is left and no control block leads to it, it is forgotten.
Forgotten == ({Main} \cap {esp.stack}) \ {tcb[t].stack : t \in Threads}

load_esp ==
    /\ Executes("load_esp")
    /\ esp' = tcb[reg["eax"][2]] /\ eip' = Next1
    /\ mem'  = [s \in Stacks |-> IF s \in Forgotten THEN <<>> ELSE mem[s]]
    /\ left' = [s \in Stacks |-> IF s \in Forgotten THEN <<>> ELSE left[s]]
    /\ UNCHANGED <<reg, ints, tcb, current_thread, raised>> /\ Same

call ==
    /\ Executes("call")
    /\ mem' = [mem EXCEPT ![esp.stack] = Writes(@, esp.top + 1, <<Next1>>)]
    /\ esp' = Down(1) /\ eip' = <<"dispatch", 1>>
    /\ UNCHANGED <<reg, ints, tcb, current_thread, raised, left>> /\ Same

iret ==
    /\ Executes("iret")
    /\ eip' = Below(0) /\ ints' = (Below(2) = Flags(TRUE))
    /\ esp' = Down(-3)
    /\ left' = IF left[esp.stack] = <<>> THEN left   \* a thread that starts
               ELSE [left EXCEPT ![esp.stack] = Front(@)]
    /\ mem' = [mem EXCEPT ![esp.stack] = SubSeq(@, 1, esp.top - 3)]
    /\ UNCHANGED <<reg, tcb, current_thread, raised>> /\ Same

Step == \/ push \/ pop \/ pushad \/ popad \/ pushfd \/ move \/ cli \/ kernel_segments
        \/ je \/ jmp \/ save_esp \/ make_current \/ load_esp \/ call \/ iret

-----------------------------------------------------------------------------
(* The processor takes an interrupt, or an instruction of C code faults:    *)
(* through a gate that clears the flag.                                     *)

(* Nothing keeps an interrupt from coming before any instruction while the  *)
(* flag is set, but before these of threads_low_switch_to it destroys what  *)
(* is needed: the return address and eax beyond the top of the stack, or a  *)
(* control block, if the turn ends, once its stack pointer has been stored  *)
(* or current_thread is no longer the thread whose stack is in use.         *)
Fatal    == 5 .. 9 \cup 18 .. 20 \cup {30}
AtFatal  == eip[1] = "threads_low_switch_to" /\ eip[2] \in Fatal
enter(v, error) ==
    /\ Len(left[esp.stack]) < Nested
    /\ mem' = [mem EXCEPT ![esp.stack] =
                 Writes(@, esp.top + 1, <<Flags(ints), KERNEL_CS, eip>> \o
                                        (IF v \in HasCode THEN <<error>> ELSE <<>>))]
    /\ esp' = Down(IF v \in HasCode THEN 4 ELSE 3)
    /\ raised' = <<v, IF v \in HasCode THEN error ELSE Zero>>
    /\ left' = [left EXCEPT ![esp.stack] = Append(@, Snapshot(eip, esp.top))]
    /\ eip' = Gate[v] /\ ints' = FALSE
    /\ UNCHANGED <<reg, tcb, current_thread, kernel>>

interrupt(v) == /\ ints /\ eip \notin {<<"abort", 1>>}
                /\ struck' = (struck \/ AtFatal)
                /\ enter(v, Zero)

fault(v) == /\ eip \in {<<"main", 1>>, <<"function", 1>>, <<"handler", 1>>}
            /\ struck' = struck
            /\ enter(v, <<"code", 2>>)

-----------------------------------------------------------------------------
(* The C code around the assembly.                                          *)
At1(name, n) == eip = <<name, n>>

\* return, after the caller's arguments have been left in place
ret(n) == /\ eip' = Below(n) /\ esp' = Down(-(n + 1))
          /\ mem' = [mem EXCEPT ![esp.stack] = SubSeq(@, 1, esp.top - (n + 1))]

\* Thread::dispatch_to(u), which returns to where it was called.  There is
\* nothing at address NULL to switch to: the model goes no further than the
\* instruction that makes it the current thread.
dispatch_to(u, back) ==
    /\ struck' = (struck \/ u = NULL)
    /\ mem' = [mem EXCEPT ![esp.stack] =
                 Writes(@, esp.top + 1, <<Thread(u), back>>)]
    /\ esp' = Down(2) /\ eip' = <<"threads_low_switch_to", 1>>
    /\ UNCHANGED <<reg, ints, tcb, current_thread, raised, kernel>>

Leaves(back) == left' = [left EXCEPT ![esp.stack] = Append(@, Snapshot(back, esp.top + 1))]

kick_off(u) == /\ kernel # "paging" /\ At1("main", 1)
               /\ dispatch_to(u, <<"main", 2>>)
               /\ Leaves(<<"main", 2>>)

\* It returns into the thread function, which computes.
thread_start == /\ At1("thread_start", 1)
                /\ ints' = IF kernel = "threads" THEN TRUE ELSE ints
                /\ ret(0)
                /\ reg' = [r \in Registers |-> IF r \in ToSet(Segments) THEN reg[r]
                                               ELSE Own(current_thread)[r]]
                /\ UNCHANGED <<tcb, current_thread, raised, left>> /\ Same

\* To whichever thread the scheduler has first, the same one for instance.
pass_on_CPU(u) == /\ At1("function", 1)
                  /\ dispatch_to(u, <<"function", 2>>)
                  /\ Leaves(<<"function", 2>>)

dispatched_again ==
    /\ At1("function", 2)
    /\ esp' = Down(-1) /\ eip' = <<"function", 1>>
    /\ mem' = [mem EXCEPT ![esp.stack] = SubSeq(@, 1, esp.top - 1)]
    /\ UNCHANGED <<reg, ints, tcb, current_thread, raised, left>> /\ Same

function_returns == /\ At1("function", 1) /\ current_thread \in Returning
                    /\ ret(0)
                    /\ UNCHANGED <<reg, ints, tcb, current_thread, raised, left>> /\ Same

(* The thread kernel takes the thread from the scheduler's queue and goes   *)
(* on with the first one there.  A thread that is dispatched after that all *)
(* the same returns from here, to no address of code.                       *)
thread_shutdown(u) == /\ At1("thread_shutdown", 1) /\ kernel = "threads"
                      /\ dispatch_to(u, <<"thread_shutdown", 2>>)
                      /\ Leaves(<<"thread_shutdown", 2>>)

shutdown_returns == /\ At1("thread_shutdown", 2)
                    /\ struck' = TRUE
                    /\ ret(1)
                    /\ UNCHANGED <<reg, ints, tcb, current_thread, raised, left, kernel>>

(* Handlers of interrupts return, and so does the page fault's where there  *)
(* is one; the others abort(), as thread_shutdown() does in the disk kernel.*)
Returns(v) == v >= 32 \/ (v = 14 /\ kernel = "paging")

abort == /\ \/ At1("thread_shutdown", 1) /\ kernel = "disk"
            \/ At1("handler", 1) /\ ~Returns(reg["eax"][2])
         /\ eip' = <<"abort", 1>> /\ ints' = FALSE
         /\ UNCHANGED <<reg, esp, mem, tcb, current_thread, raised, left>> /\ Same

(* The dispatchers are called with a pointer to a REGS.                     *)
Offset(field) == CASE field = "gs" -> 0 [] field = "fs" -> 1 [] field = "es" -> 2
                   [] field = "ds" -> 3 [] field = "edi" -> 4 [] field = "esi" -> 5
                   [] field = "ebp" -> 6 [] field = "ebx" -> 8 [] field = "edx" -> 9
                   [] field = "ecx" -> 10 [] field = "eax" -> 11
                   [] field = "int_no" -> 12 [] field = "err_code" -> 13
                   [] field = "eip" -> 14 [] field = "cs" -> 15 [] field = "eflags" -> 16

REGS(field) ==
    LET pointer == Below(1)
        words   == mem[pointer[2] \div Deepest]
        i       == (pointer[2] % Deepest) - Offset(field)
    IN  IF pointer[1] = "address" /\ i \in DOMAIN words THEN words[i] ELSE <<"outside", 0>>

dispatch == /\ At1("dispatch", 1)
            /\ eip' = <<"handler", 1>>
            /\ reg' = [r \in Registers |->
                         IF r = "eax" THEN <<"vector", REGS("int_no")[2]>>
                         ELSE IF r \in Scratch THEN <<"scratch", 0>> ELSE reg[r]]
            /\ raised' = Nothing
            /\ UNCHANGED <<esp, ints, mem, tcb, current_thread, left>> /\ Same

handler_returns ==
    /\ At1("handler", 1) /\ Returns(reg["eax"][2])
    /\ ret(0)
    /\ UNCHANGED <<reg, ints, tcb, current_thread, raised, left>> /\ Same

\* The timer: the turn of the interrupted thread ends, or main()'s, whose
\* stack is then not saved.
end_turn(u) == /\ At1("handler", 1) /\ kernel = "threads"
               /\ reg["eax"][2] = 32
               /\ dispatch_to(u, <<"handler", 2>>)
               /\ Leaves(<<"handler", 2>>)

handler_resumed == /\ At1("handler", 2)
                   /\ ret(1)
                   /\ UNCHANGED <<reg, ints, tcb, current_thread, raised, left>> /\ Same

CCode ==
    \/ thread_start \/ dispatched_again
    \/ function_returns \/ shutdown_returns \/ abort
    \/ dispatch \/ handler_returns \/ handler_resumed

Next ==
    \/ Step \/ CCode
    \/ \E u \in Threads : kick_off(u)
    \/ \E u \in Threads \cup {NULL} : pass_on_CPU(u) \/ thread_shutdown(u) \/ end_turn(u)
    \/ \E v \in Irqs : interrupt(v)
    \/ \E v \in Faults : fault(v)

Spec == Init /\ [][Next]_vars

-----------------------------------------------------------------------------
(* The interrupts have kept clear of the fatal instructions, and whoever    *)
(* has been dispatched was a thread that is still alive.                    *)
Intact == ~struck

TypeOK ==
    /\ struck \in BOOLEAN
    /\ Intact => /\ kernel \in Kernels
                 /\ DOMAIN reg = Registers
                 /\ esp.stack \in Stacks /\ esp.top \in 0 .. Deepest - 1
                 /\ esp.top <= Len(mem[esp.stack])
                 /\ ints \in BOOLEAN
                 /\ \A t \in Threads : tcb[t].stack \in Stacks
                 /\ current_thread \in Threads \cup {0}

(* Whatever is pushed, moved and popped in whichever order, what the        *)
(* processor takes for an address of code is one: no return, of C code or   *)
(* of the assembly, takes another word of the stack for it.                 *)
NeverLost ==
    Intact =>
      /\ \/ eip \in InC
         \/ eip[1] \in DOMAIN code /\ eip[2] \in DOMAIN code[eip[1]]
      /\ Executes("make_current") => reg["eax"] \in {Thread(t) : t \in Threads}

(* C code runs on the stack of the thread that CurrentThread() says; the    *)
(* start-up code on its own while there is none.                            *)
OnOwnStack == Intact /\ eip \in InC => esp.stack = current_thread

(* "We'll return to the place where the thread was executing last": an iret *)
(* leaves every register, the interrupt flag and the depth of the stack as  *)
(* they were when that stack lost the processor, to whom and however often  *)
(* it was lost; a new thread starts as setup_context() has it.              *)
ReturnsAsLeft ==
    [][iret /\ Intact =>
         IF left[esp.stack] # <<>>
           THEN Snapshot(eip, esp.top)' = Last(left[esp.stack])
           ELSE /\ eip' = <<"thread_start", 1>> /\ ~ints' /\ esp'.top = 3
                /\ reg["ds"] = KERNEL_DS /\ reg["es"] = KERNEL_DS]_vars

(* The dispatchers' argument leads to the interrupt that has happened: its  *)
(* number, its error code, also where the processor pushes none, and the    *)
(* context it has interrupted, down to the flags.                           *)
DispatcherSees ==
    Intact /\ At1("dispatch", 1) =>
      LET before == Last(left[esp.stack])
      IN  /\ REGS("int_no")[2] = raised[1] /\ REGS("err_code") = raised[2]
          /\ REGS("eip") = before.eip /\ REGS("eflags") = Flags(before.ints)
          /\ \A r \in Registers : REGS(r) = before.reg[r]

(* A thread function that returns finds thread_shutdown() below it, and its *)
(* argument below that, with nothing of all the switches left in between.   *)
StackAtShutdown ==
    Intact /\ At1("thread_shutdown", 1) =>
      /\ esp = [stack |-> current_thread, top |-> 1]
      /\ mem[current_thread] = <<Zero>>

-----------------------------------------------------------------------------
(* For TLC, which need not tell states apart that differ only in what an    *)
(* old switch has left in the control block of the thread that runs: it is  *)
(* stored into by save_esp before anybody loads from it.  Not so where a    *)
(* switch has stored it already, to the thread itself perhaps.              *)
Stale(t) == /\ esp.stack = t /\ current_thread = t
            /\ ~(eip[1] = "threads_low_switch_to" /\ eip[2] \in 18 .. 20)
view     == <<kernel, reg, esp, eip, ints, mem, current_thread, raised, left, struck,
              [t \in Threads |-> IF Stale(t) THEN esp ELSE tcb[t]]>>
=============================================================================
