----------------------------- MODULE KernelStart -----------------------------
(***************************************************************************)
(* What main() does in each of the four kernels until it hands over to a   *)
(* thread, or to the memory test: segments, the interrupt descriptor table,*)
(* the interrupt controllers, the handlers, the timer's frequency, and the *)
(* heap of the kernels that have one, with what they place on it.          *)
(*   threads  Kernel_thread_scheduler                                      *)
(*   disk     blocking-disk                                                *)
(*   paging   Virtual_Memory_Management                                    *)
(*   frames   Frame_Manager/MP2_Sources                                    *)
(* Frames and pages of the last two are the concern of VirtualMemory and   *)
(* FrameManager: here it is only whether pages can be missing.  A stub is  *)
(* the number it pushes.                                                   *)
(***************************************************************************)
EXTENDS Integers, Sequences, SequencesExt

Lines      == 0 .. 15
Exceptions == 0 .. 31
Vectors    == 0 .. 47
Timer      == 0           \* the line of the timer
PageFault  == 14
DivByZero  == 0
Kernels    == {"threads", "disk", "paging", "frames"}

VARIABLES
    kernel,
    boot,         \* how many steps of main() have been taken
    gdt,          \* the segment descriptors
    segments,     \* the selectors of code and data in use, 0 for the loader's
    idt,          \* the gates
    remapped,     \* the controllers use vectors 32 .. 47
    handlers,     \* lines with an entry in InterruptHandler::handler_table
    catchers,     \* the same for ExceptionHandler::handler_table
    paging,       \* addresses are translated
    period,       \* what the timer counts down from, as its low and high byte
    next_free_frame,   \* the frame pool of the kernels with threads
    start_address,     \* MEMORY_POOL's, 0 before there is one
    areas,        \* history: what has been allocated, in this order
    ints          \* the processor's interrupt flag

tables == <<gdt, segments, idt, remapped>>
heap   == <<next_free_frame, start_address, areas>>
setup  == <<kernel, boot, tables, handlers, catchers, paging, period, heap>>

-----------------------------------------------------------------------------
(* GDT::set_gate() with base and limit of 32 bits, as two halves, and what  *)
(* the processor makes of an entry.                                         *)
Half == 0 .. 65535
Byte == 0 .. 255
gdt_entry == [limit_low : Half, base_low : Half, base_middle : Byte,
              access : Byte, granularity : Byte, base_high : Byte]

descriptor(base, limit, access, gran) ==
    [limit_low   |-> limit[2],
     base_low    |-> base[2],
     base_middle |-> base[1] % 256,
     access      |-> access,
     granularity |-> (limit[1] % 16) + gran - (gran % 16),
     base_high   |-> base[1] \div 256]

BaseOf(d)  == <<d.base_high * 256 + d.base_middle, d.base_low>>
LimitOf(d) == <<d.granularity % 16, d.limit_low>>
Present(d) == d.access >= 128
Kind(d)    == (d.access \div 8) % 4       \* 2 data, 3 code

\* All addresses: base 0, and 2^20 pages of 4 KB.
Flat(d) == /\ Present(d) /\ BaseOf(d) = <<0, 0>> /\ LimitOf(d) = <<15, 65535>>
           /\ d.granularity >= 128

None == <<0, 0>>
All  == <<65535, 65535>>
SegmentTable == <<descriptor(None, None, 0, 0), descriptor(None, All, 154, 207),
                  descriptor(None, All, 146, 207)>>

\* A selector is the offset of its entry.
Segment(sel) == gdt[sel \div 8 + 1]

idt_entry == [stub : Vectors \cup {-1}, sel : {0, 8}, flags : Byte]
NoGate    == [stub |-> -1, sel |-> 0, flags |-> 0]

\* IDT::set_gate(): present, ring 0, an interrupt gate.
MutantNextStub(v) == [stub |-> v + 1, sel |-> 8, flags |-> 142]
interrupt_gate(v) == [stub |-> v, sel |-> 8, flags |-> 142]

set_gates(S) == [v \in Vectors |-> IF v \in S THEN interrupt_gate(v) ELSE idt[v]]

\* The processor finds a present gate to a present code segment, and clears
\* the interrupt flag where the gate is an interrupt's.
Enters(v)    == /\ v \in Vectors /\ segments # <<0, 0>>
                /\ idt[v].flags >= 128
                /\ Flat(Segment(idt[v].sel)) /\ Kind(Segment(idt[v].sel)) = 3
FlagAfter(v) == ints /\ v \in Vectors /\ idt[v].flags % 2 = 1

-----------------------------------------------------------------------------
(* The orders of the four main()s.                                          *)
Common == <<"GDT", "IDT", "exceptions", "IRQ", "interrupts", "catch 0">>

MutantEarly == <<"frames", "pool", "rate", "scheduler", "enable", "timer",
                 "thread", "thread", "thread", "thread">>
ThreadsMain == <<"frames", "pool", "rate", "timer", "scheduler", "enable",
                 "thread", "thread", "thread", "thread">>
MutantNoPool    == <<"scheduler", "disk", "frames", "pool", "rate", "timer", "enable",
                     "thread", "thread", "thread", "thread">>
MutantDiskFirst == <<"frames", "pool", "disk", "scheduler", "rate", "timer", "enable",
                     "thread", "thread", "thread", "thread">>
DiskMain    == <<"frames", "pool", "rate", "timer", "scheduler", "disk", "enable",
                 "thread", "thread", "thread", "thread">>
PagingMain  == <<"paging", "catch 14", "rate", "timer", "enable">>
FramesMain  == <<"catch 14", "paging", "rate", "timer", "enable">>

Own   == CASE kernel = "threads" -> ThreadsMain
           [] kernel = "disk"    -> DiskMain
           [] kernel = "paging"  -> PagingMain
           [] kernel = "frames"  -> FramesMain
Order == Common \o Own

Ready   == boot = Len(Order)
Step(s) == ~Ready /\ Order[boot + 1] = s /\ boot' = boot + 1

StartInit ==
    /\ kernel \in Kernels /\ boot = 0
    /\ gdt = [i \in 1 .. 3 |-> descriptor(None, None, 0, 0)] /\ segments = <<0, 0>>
    /\ idt = [v \in Vectors |-> NoGate] /\ remapped = FALSE
    /\ handlers = {} /\ catchers = {} /\ paging = FALSE /\ ints = FALSE
    /\ period = <<0, 0>>
    /\ next_free_frame = 0 /\ start_address = 0 /\ areas = <<>>

GDT_init == /\ Step("GDT")
            /\ gdt' = SegmentTable
            /\ UNCHANGED <<kernel, idt, remapped, handlers, catchers, paging, period, heap, ints>>

gdt_flush == segments' = <<8, 16>>

IDT_init == /\ Step("IDT")
            /\ idt' = [v \in Vectors |-> NoGate]
            /\ UNCHANGED <<kernel, gdt, segments, remapped, handlers, catchers, paging,
                           period, heap, ints>>

init_exceptions == /\ Step("exceptions")
                   /\ idt' = set_gates(Exceptions)
                   /\ catchers' = {}
                   /\ UNCHANGED <<kernel, gdt, segments, remapped, handlers, paging,
                                  period, heap, ints>>

irq_remap == /\ Step("IRQ")
             /\ remapped' = TRUE
             /\ UNCHANGED <<kernel, gdt, segments, idt, handlers, catchers, paging,
                            period, heap, ints>>

IrqGates == 32 .. 47

init_interrupts == /\ Step("interrupts")
                   /\ idt' = set_gates(IrqGates)
                   /\ handlers' = {}
                   /\ UNCHANGED <<kernel, gdt, segments, remapped, catchers, paging,
                                  period, heap, ints>>

register_exception(e) ==
    /\ catchers' = catchers \cup {e}
    /\ UNCHANGED <<kernel, tables, handlers, paging, period, heap, ints>>

dbz_handler       == Step("catch 0")  /\ register_exception(DivByZero)
pagefault_handler == Step("catch 14") /\ register_exception(PageFault)

enable_paging == /\ Step("paging")
                 /\ paging' = TRUE
                 /\ UNCHANGED <<kernel, tables, handlers, catchers, period, heap, ints>>

-----------------------------------------------------------------------------
(* The timer: SimpleTimer() programs the chip, whose clock runs at 1.19 MHz,*)
(* with two bytes; then it is registered.                                   *)
Clock == 1193180
hz    == IF kernel = "threads" THEN 20 ELSE 100

MutantHighFirst(d) == <<(d \div 256) % 256, d % 256>>
divisor(d)         == <<d % 256, (d \div 256) % 256>>

set_frequency(_hz) == period' = divisor(Clock \div _hz)

SimpleTimer == /\ Step("rate")
               /\ set_frequency(hz)
               /\ UNCHANGED <<kernel, tables, handlers, catchers, paging, heap, ints>>

register_handler == /\ Step("timer")
                    /\ handlers' = handlers \cup {Timer}
                    /\ UNCHANGED <<kernel, tables, catchers, paging, period, heap, ints>>

interrupts_enabled == ints

\* With interrupts already on, enable_interrupts() would fail.
enable_interrupts == /\ Step("enable") /\ ~interrupts_enabled
                     /\ ints' = TRUE
                     /\ UNCHANGED <<kernel, tables, handlers, catchers, paging, period, heap>>

-----------------------------------------------------------------------------
(* The heap of the two kernels with threads: operator new moves a pointer   *)
(* up, through frames that have been taken in a row; nothing is given back. *)
FRAMES    == 2097152              \* 2 MB
PAGE_SIZE == 4096
PoolSize  == 256                  \* frames

\* What get_frame() leaves after it has been called n times; it never fails.
get_frames(n) == next_free_frame + n * PAGE_SIZE

FramePool == /\ Step("frames")
             /\ next_free_frame' = FRAMES
             /\ UNCHANGED <<kernel, tables, handlers, catchers, paging, period,
                            start_address, areas, ints>>

MemPool == /\ Step("pool")
           /\ start_address' = next_free_frame
           /\ next_free_frame' = get_frames(PoolSize)
           /\ UNCHANGED <<kernel, tables, handlers, catchers, paging, period, areas, ints>>

\* MemPool::allocate(): behind what has been allocated before.
End(placed)         == IF placed = <<>> THEN start_address
                                        ELSE Last(placed).at + Last(placed).size
allocate(placed, what, size) == Append(placed, [what |-> what, size |-> size, at |-> End(placed)])

new(placed) == /\ areas' = areas \o placed
               /\ start_address' = End(placed)
               /\ UNCHANGED <<kernel, tables, handlers, catchers, paging, period,
                              next_free_frame, ints>>

\* sizeof(Thread): six members of a word each.
ThreadSize == 24

Scheduler    == Step("scheduler") /\ new(allocate(<<>>, "queue", 40))
BlockingDisk == Step("disk") /\ new(allocate(allocate(<<>>, "Bqueue", 12), "b_queue", 40))
NewThread    == Step("thread") /\ new(allocate(allocate(<<>>, "stack", 1024), "Thread", ThreadSize))

Start == \/ GDT_init /\ gdt_flush
         \/ IDT_init \/ init_exceptions \/ irq_remap \/ init_interrupts
         \/ dbz_handler \/ pagefault_handler \/ enable_paging
         \/ SimpleTimer \/ register_handler \/ enable_interrupts
         \/ FramePool \/ MemPool \/ Scheduler \/ BlockingDisk \/ NewThread
=============================================================================
