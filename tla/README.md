# TLA+ specifications and proofs for OS-machine-problems

The repository holds small operating system kernels for a 32-bit PC with 32 MB of
memory, run in the Bochs emulator. Each directory is one kernel and grew out of
the one before it. This directory has TLA+ modules for the parts with a logic of
their own, TLC configurations that check them on small instances, and theorems
about the two schedulers, the interrupt dispatch, the file system, the virtual memory
pools and the console that the TLA+ proof system checks for every number of threads,
devices, files, regions and writers.

| directory under `src/` | kernel | short name here |
|---|---|---|
| `Kernel_thread_scheduler` | preemptive round-robin scheduler for kernel threads | thread kernel |
| `blocking-disk` | cooperative scheduler, a disk driver that gives up the processor, a file system | disk kernel |
| `Virtual_Memory_Management` | frame pools, page table with a recursive directory entry, virtual memory pools | paging kernel |
| `Frame_Manager/MP2_Sources` | earlier version of the paging kernel | frames kernel |

All four have their own copy of the start-up code, the descriptor tables, the
exception and interrupt dispatchers, the timer, the console and the utilities. The copies
are the same except where this file says otherwise; `PROJECT.json` maps the definitions
about them to one copy or another, so that together they name all four.

## 1. Inventory

### Components, their state and their operations

| component | source | state | operations | what makes it correct |
|---|---|---|---|---|
| ready queue | `Kernel_thread_scheduler/Scheduler.[HC]` (class `Rqueue`), same in `blocking-disk` | array `queue[MAX_THREADS]`, `tail` | `enqueue`, `dequeue`, `remove` | holds each waiting thread once, first in first out, never written outside |
| thread scheduler | `Scheduler.C`, `thread.C`, `threads_low.asm`, `kernel.C` | `q`, `current_thread`, a control block with the saved `esp` per thread | `add`, `resume`, `yield`, `terminate`, `dispatch_to`, `thread_start`, `thread_shutdown`, the switch | no thread lost, doubled, or run on another's stack; the dead stay dead; every live thread gets turns |
| timer | `simple_timer.C` | `ticks`, `seconds` | `handle_interrupt`, `current`, `wait`, `set_frequency` | ends each turn after a second |
| interrupt dispatch | `idt.C`, `irq.C`, `exceptions.C`, `interrupts.C`, `idt_low.asm`, `irq_low.asm` | gates, two handler tables, the two controllers' request and service bits | set-up, the stubs, the two dispatchers, `register_handler` | every interrupt reaches its handler once and is acknowledged; stacks stay bounded |
| processor control | `machine.C`, `machine_low.asm` | the interrupt flag | `enable_interrupts`, `disable_interrupts`, port I/O | asserts the flag is in the other state |
| scheduler with a blocking disk | `blocking-disk/scheduler.C`, `blocking_disk.C` | `q`, `bq`, `current_thread` | `read`, `write`, `yield`, `get_disk_thread`, `resume` | a blocked thread comes back; there is always somebody to run |
| disk driver | `simple_disk.C` | the drive's registers | `issue_operation`, `is_ready`, the transfer | a thread gets the block it asked for |
| file system | `file_system.[HC]` | superblock with file table, block chains, free chain, `File` handles | `Format`, `Mount`, the destructors, `CreateFile`, `LookupFile`, `DeleteFile`, `Read`, `Write`, `Reset`, `Rewrite`, `EoF` | no block leaked or shared; what is read is what was written |
| frame pool and page table | `Virtual_Memory_Management/frame_pool.C`, `page_table.C` | bitmap, directory, page tables | `get_frame`, `release_frame`, `mark_inaccessible`, `handle_fault`, `free_page` | a frame is behind one page only |
| virtual memory pools | `vm_pool.C` | array of regions | `allocate`, `release`, `is_legitimate` | regions disjoint; memory holds what was written |
| paging assembly | `paging_low.asm` | CR0, CR2, CR3 | access to them | translation is on before addresses rely on it |
| frame manager | `Frame_Manager/MP2_Sources` | as frame pool and page table, in static members | as above | a frame is handed out once |
| segments and start-up | `gdt*.{C,asm}`, `start.asm`, the four `main()`s | descriptor tables | `set_gate`, `gdt_flush`, the order of the set-up | nothing is used before it is there |
| allocator of the thread kernels | `mem_pool.C`, `frame_pool.C` | a pointer that moves up | `new`, `delete` | no two objects overlap |
| console, assert, utilities | `console.C`, `assert.C`, `utils.C` | the cursor, the screen | `putch`, `scroll`, `cls`, `puts`, `puti`, `putui`, `uint2str` | the cursor stays on the screen, nothing beyond the text memory is written, what is printed is seen |

### How they interact

* The timer's interrupt calls the scheduler: `interrupts.C` sends the
  end-of-interrupt signal, calls `SimpleTimer::handle_interrupt()`, and that calls
  `resume(CurrentThread())` and `yield()` when a second is over. The switch happens
  *inside* the handler; the rest of the handler runs when the thread gets its next
  turn. `yield()` and `terminate()` are also called by the threads themselves, with
  interrupts on. No code of the thread kernel turns interrupts off.
* In the disk kernel threads run with interrupts off. The only concurrent actor is
  the drive, which raises its data request whenever it likes.
  `Scheduler::yield()` asks `BlockingDisk` whether a blocked thread can go on;
  `BlockingDisk::read()` and `write()` put the caller into `bq` and yield.
* In the paging kernel a memory access may fault, and the fault's handler accesses a
  page table through the directory's last entry, which may fault in turn.
  `VMPool` keeps its array of regions at an address that is first mapped by a fault.
* Everybody prints: threads, `main()`, and the timer's handler, which may interrupt any of them
  between two accesses to the cursor.
* `setup_context()`, the stubs, the switch and the declaration of `REGS` agree on the order of the
  words of an interrupted context; nothing but this order connects them.

### What is hard

* a timer interrupt between two instructions of the scheduler or of the switch;
* the drive getting ready between two tests of `is_ready()`;
* end-of-interrupt signals before a handler that may not come back for seconds;
* a linear queue whose `dequeue` stores in front of its array and whose `remove` compares the first
  element only, and takes something out of an empty queue;
* relinking block chains one disk write at a time;
* page faults inside the page fault's handler, and frames freed by a number that is
  not a frame number.

`PROJECT.json` lists each of these hazards at its line with the properties that
would notice it.

## 2. Modules

| module | what it is | EXTENDS / INSTANCE |
|---|---|---|
| `Rqueue` | the linear array queue as operators on a record | |
| `ThreadScheduler` | thread kernel: queue, switch, thread start and end, timer interrupt | extends `Rqueue`; implements `RoundRobin` |
| `RoundRobin` | abstract: a line of threads that take turns | |
| `ContextSwitch` | the switch and the stubs, instruction by instruction and word by word | |
| `KernelStart` | what the four `main()`s set up: tables, controllers, timer, heap | |
| `InterruptDispatch` | controllers, stubs, dispatchers and switches in all four kernels | extends `KernelStart` |
| `DiskKernel` | disk kernel: two queues, `yield`, `BlockingDisk`, the drive | extends `Rqueue` |
| `FileSystem` | file system of the disk kernel | implements `FileStore` |
| `FileStore` | abstract: files are sequences, handles have a position | |
| `VirtualMemory` | frame bitmap, faults, page table, regions | |
| `FrameManager` | frames kernel: two pools, identity map, faults inside faults | |
| `Console` | the text console, the numbers it prints, the timer that prints too | |
| `Rqueue_proofs`, `ThreadScheduler_proofs`, `ContextSwitch_proofs`, `DiskKernel_proofs`, `InterruptDispatch_proofs`, `FileSystem_proofs`, `VirtualMemory_proofs`, `Console_proofs` | theorems | extend the modules they are about |

Each configuration file gives a specification its constants directly; operators
named `Mutant...` are deliberate bugs next to the definition they replace.

### Rqueue

`queue` is a function on `-1 .. MAX_THREADS`: the array and one cell at either side,
so that a write past an end is seen instead of being an error of the model. A cell
that was never written holds `Junk`. `dequeue` of an empty queue returns `NULL` and changes nothing;
`remove` from an empty queue moves `tail` to -1, as in the code. One call is one step.

### ThreadScheduler

`cpu` is what the processor executes: the stack in use, the position of its mainline
code, the thread pointer `yield` has dequeued and the interrupt flag. `frame[t]` is the
context that `esp` of control block `t` points to. The model keeps *whose stack it is*
apart from *whose control block it is saved in*, since `threads_low_switch_to` changes
`current_thread` one instruction before `esp`.

| action | code |
|---|---|
| `add`, `kick_off` | `main()` in `kernel.C` |
| `thread_start`, `next_burst`, `pass_on_CPU`, `function_returns`, `thread_shutdown` | `thread.C`, the thread functions in `kernel.C` |
| `yield` | `Scheduler::yield()` up to the switch |
| `save_context`, `load_context` | the two halves of `threads_low_switch_to` |
| `tick`, `preempt` | the timer's interrupt, with and without the end of a second |

A handler runs with interrupts off until its `iret` or until it has switched, so it is
one step. It comes at every position with interrupts on, as nothing in the code keeps it from any. `struck` is
history: what the interrupts have hit so far that they should not. `"passing"` is a turn that ended while its thread was passing the
processor on anyway, after `resume()` or `terminate()` and before its stack pointer was saved: the thread then has
one turn too many, which the properties count (`Turns`). `"fatal"` is what the code does not survive: a return address
overwritten while it was below the stack pointer, a turn that ended between the two loads of the switch, or in
`main()`, which has no control block. The properties that the code breaks from then on say so: `Intact` is that
nothing fatal has happened, `Undisturbed` that nothing at all. What happens inside the switch is `ContextSwitch`'s subject.

### ContextSwitch

The finer account of what `ThreadScheduler` has as two steps and `InterruptDispatch` as one. A
stack is a sequence of words, each of which says what kind of value it is and whose; `code` is
the text of `threads_low_switch_to` and of the stubs, one record per instruction, and an action per
kind of instruction executes it. What is written in C has a position per point at
which a call returns. `raised` and `left` are history: which interrupt is on its way, and what each
context was like when its stack lost the processor. Three of the kernels differ in what happens
around the code, as the module's head says; the fourth has nothing to add.

An interrupt may come before any instruction while the flag is set. Before nine of the switch it is fatal (`Fatal`): the five at which
the moved return address lies below the stack pointer, those between saving the old
stack pointer and loading the new one, and the last load of the switch from `main()`. The code does not turn interrupts off there
(`threads_low.asm:83`, `:99` and `:125`). `struck` records such an interrupt, and two things C code may do that nothing in
the assembly survives: the dispatch of `NULL`, which the timer's handler puts into the queue if a second ends in `main()`, and that
of a dead thread (finding 1), which returns from `thread_shutdown()` to no address. Everything else is in the model: a turn that ends
in `main()`, a switch to the thread that is running. The properties are about the time before (`Intact`). After it
TLC finds a return to a word that is no address (an interrupt before the ninth instruction that merely returns) and the dispatcher on
`main()`'s stack with a thread as the current one (an interrupt before the thirtieth).
When `main()`'s stack has been left for good, `load_esp` forgets what was on it.

### KernelStart and InterruptDispatch

One behaviour is one of the four kernels (`kernel`). `KernelStart` has a step per call in
`main()`, in the order of `Order`: descriptors are packed and unpacked as `GDT::set_gate()` and the
processor do, and an interrupt gets to its stub only through a present gate to a code segment. The heap of
the two kernels with threads is the list of what `operator new` has placed, with addresses.

In `InterruptDispatch` each stack is a sequence of activations; an interrupt pushes one with the
flag its `iret` will restore. The two 8259 controllers are external: request and service
bits, priorities, and the non-specific end-of-interrupt signal for the first line in
service. The thread kernel signals before its handler, the others after it. Line 1
(keyboard) and line 12 (mouse, standing for any line of the second controller) have no
handler. Of the 32 exceptions, 0, 13 and 14 stand for one with a handler that halts, one
without a handler and one that returns in the paging kernel. Which thread is next is
left open here; it may be the running one. A second may also end in `main()` of the thread kernel: its handler then puts
`NULL` into the queue, and `dispatch_NULL` is what happens when somebody takes it out.

### DiskKernel

`at[t]` is the next step of thread `t`; only `current_thread` moves. `drive` is the
operation the drive works on and its data request bit (external). `issue_operation` on a
drive that is busy replaces its operation or is ignored: which of the two is the drive's
choice. `del()` with a thread to take out overwrites its own `tail`; what follows depends on
memory nobody initialised, so the model stops there (position `gone`).

### FileSystem and FileStore

One client calls one operation after the other. An iteration of the loop in `Read`,
`Rewrite` or `DeleteFile` is a step of its own, one in `Write` is up to three, as many as there are writes to the
disk in it (`WriteLinks`, `WriteEnds`, `WriteStep`), so that the invariants are
checked in between. A `for(;;)` is the operation `hang`. The code does not defend
itself against some calls; `Rules` names what the client keeps to (`reset`, `within`,
`nonempty`, `alone`, `room`, `fresh`, explained in the module's head), and each violated rule is a
hazard. In `FileStore` a file is a sequence of characters; its actions read and write a few
characters at a time, and the refinement maps the chain of a file to that sequence.

### VirtualMemory

`mm` holds the marked frames, the frame of each page table and the frame of each mapped
page. `access` is an access of the processor with the faults it leads to, including the
one inside the handler for a missing page table. `free_page` passes the page table
*entry* to `release_frame`, as the code does. For a page in use that entry is taken for the
number of a frame far beyond the bitmap: the word set to 0 is in another page,
`stray_page`, which the access maps if need be, and the frame stays marked. For an
untouched page the entry is 0 and frame 0 of the pool becomes free. Memory starts zeroed, as
in the emulator. The kernel's own pool is used up at boot and appears as constants.

### FrameManager

Sizes are the code's divided by 256. Memory is the words that have been written, by physical address;
`faults` is the stack of page faults in progress, each with what its handler has computed. The handler
writes the new table through its physical address, which is not mapped once paging is on, so that it faults at
that very line. `get_frame` compares where it means to assign, and changes nothing.

### Console

A step is a load or a store of `csr_x` or `csr_y`, or the copy of a part of the screen: the
kernels are compiled without optimisation. Three kinds of kernel differ in who may be in the middle of `putch`:
one writer without interrupts, one writer with the timer's handler, and several whose turns end in the
handler. `page` is history, the same characters on endless paper. A number is its decimal digits,
computed as `uint2str` does, with the zero byte that stops its search.
`move_cursor` writes no register (its lines are commented out), so the hardware cursor is not part of it.

## 3. Runs

| run | module | checks | distinct states |
|---|---|---|---|
| `scheduler` | `ThreadScheduler` | `TypeOK`, `ReadyExactlyOnce`, `OwnStack`, `FinishedForGood`, `RoundRobinOrder`, `EveryTurnEnds`, `Progress` | 105,206 |
| `scheduler_shutdown_race` | `ThreadScheduler` | `DeadNotReady` (violated) | |
| `context_switch` | `ContextSwitch` | `TypeOK`, `NeverLost`, `OnOwnStack`, `DispatcherSees`, `StackAtShutdown`, `ReturnsAsLeft` | 863,000 |
| `interrupts` | `InterruptDispatch` | `TypeOK`, `OneActivation`, `Acknowledged`, `TicksAtRate`, `OwnMemory`, `CellInFront`, `TimerCaptured`, `TicksGoOn` | 10,336 |
| `disk_kernel` | `DiskKernel` | `TypeOK`, `PlacedOnce`, `NeverIdle`, `TransfersOwn` | 177 |
| `disk_dispatch` | `DiskKernel` | `DiskThreadDispatched` (violated) | |
| `filesystem` | `FileSystem` | `TypeOK`, `BlocksAccounted`, `HandleOnItsBlock` | 333,000 |
| `filesystem_content` | `FileSystem` | `ReadsWhatWasWritten`, `OperationsReturn` | 164,000 |
| `virtual_memory` | `VirtualMemory` | `TypeOK`, `FramesDistinct`, `RegionsDisjoint`, `MemoryHolds` | 478,000 |
| `virtual_memory_untouched` | `VirtualMemory` | `MemoryHolds` (violated) | |
| `console` | `Console` | `TypeOK`, `AtRest`, `WithinMemory`, `ShowsPage`, `PrintsNumber` | 1,897,000 |
| `frame_manager` | `FrameManager` | `FramesDistinct` (violated) | |

### Bounds, and why they are enough

* **scheduler**: four threads, as `main()` makes. Threads 1 and 2 terminate
  (`Terminating`) after two bursts (ten in the code: one to be preempted in, one to
  return from), 1 and 3 pass the processor on; so all four combinations occur, one
  endless thread that never yields among them. `MAX_THREADS = 8` (ten in the code) is what a thread with a turn
  too many asks for: each may be in the queue twice. Two ticks a second distinguish the tick that counts from the one that
  ends a turn. Interrupts come at every position; the states after a fatal one are checked and not continued
  (`CONSTRAINT Intact`), since no property says anything of them.
* **context_switch**: two threads, one of which returns; a stack that grows without end in the code
  (section 5) is cut at two saved contexts (`Nested`), which is one more than `InterruptDispatch` ever
  has and the least at which a context lies on top of another. One interrupting line, an
  exception with an error code and one without. Here too what follows a fatal interrupt is not continued. States that differ
  only in the stack pointer that an old switch has left in the control block of the thread that runs count as one (`VIEW`): the next switch
  stores it before anybody loads it. Without that there are 5.8 million, with the same results.
* **interrupts**: two threads suffice for a turn that ends inside a handler and
  comes back to it. The lines are the timer, one of each controller that nobody handles.
* **disk_kernel**: five threads, one of which uses the disk, two of which may return
  (the disk kernel's threads may run off their function's end into an assert).
  `MAX_THREADS` is larger than `N` as it is in the code. Three block numbers tell a wrong
  block from a right one.
* **filesystem**: two files and two handles on three data blocks; a block holds two
  characters (508 in the code), so that positions at the start, inside and at the end
  of a block occur with calls of up to three characters. The disk fills up (no rule
  `room`), which is the case where `Write` must give up. The table has two entries.
* **filesystem_content**: one file of up to three blocks with two kinds of characters:
  this tells a character read from the wrong place from the right one.
* **virtual_memory**: pages of two addresses and regions of three, so that one region
  ends inside the page in which the next begins and a region's last part page is never
  released; two pools; three regions in all.
* **console**: two columns and three rows, so that five characters, newlines among them, fill a row, wrap, and scroll; a tab is
  as wide as the screen, which is the tab that lands behind the edge. Two writers that print three
  characters each and two messages of the timer are enough for three callers in the middle of `putch`. A tick is a second
  (`Hz`): the ticks in between only count. The kernels with several callers print letters and newlines only, as the
  other controls do less than those. The numbers are zero, one that ends in a
  zero and one with a zero in the middle.
* **frame_manager**: tables of four entries instead of 1024; the violation is at the first fault.

### Fairness, and why the code justifies it

* `ThreadScheduler`: strong fairness of the mainline of each stack, weak fairness of the
  timer. A turn lasts until the second ends, thousands of instructions after it began, so
  a thread that gets turns again and again executes its next instruction in one of
  them; the timer chip runs freely and the thread kernel's mainline keeps interrupts on.
  Nothing is assumed about the order of turns: that every thread gets one is what
  `Progress` and `RoundRobin`'s fairness show.
* `InterruptDispatch`: the processor goes on executing, the timer goes on firing, and an
  interrupt that is possible again and again is taken (a pending interrupt is taken
  at the next instruction with the flag set).
* `FileSystem`: an operation that has been called goes on; no call is ever owed.
* `DiskKernel`, `VirtualMemory`, `ContextSwitch`, `Console` and `FrameManager` have safety properties only. In the disk kernel nothing
  ends the turn of a thread that does not yield, so there is no fairness to assume.

`CHECK_DEADLOCK FALSE` is used where a machine may really stop: all threads behind an
assert, an exception without handler (`interrupts`), a client that has nothing left to
call within its bounds or its rules, a `for(;;)` of the file system, a failed assert of the frames kernel, writers that have
printed all they print (`console`), threads that all have returned or are aborted (`context_switch`).

### What the passing runs show

* **scheduler**: until something fatal is hit (`Intact`, section 2), wherever turns end, no thread is lost or run on another's
  stack, and each has its place in the queue once for every turn it is still to get: twice if a turn ended between its
  `resume()` and its `yield()` (`kernel.C:104`), once if it was dead already (finding 1), in which case it gets the processor to
  pass it on and no more (`FinishedForGood`). The timer alone keeps each live thread running. As long as nothing at all is hit
  (`Undisturbed`), threads take turns in first-in first-out order (`RoundRobinOrder`, the steps of `RoundRobin`), and each turn
  ends while somebody waits (`EveryTurnEnds`, its fairness); a thread with a turn too many is out of line.
* **interrupts**: no timer interrupt arrives before its handler; a stack holds at most
  one activation, however many turns end inside handlers; a line is in service only
  while somebody serves it, with one exception: in the thread kernel a line without
  handler returns before the signal (`interrupts.C:122`) and stays in service. It then holds
  back the lines behind it, but not the timer, which is the first: ticks go on.
  Ticks come at the rate the handler counts with; nothing that `new` places overlaps; and the cell in front of
  the ready queue, into which `dequeue` stores, is nobody's, whereas the one in front of the disk's queue is
  that queue's own `tail`.
* **context_switch**: until an interrupt comes before one of the nine instructions, or `NULL` or a dead thread is dispatched, whatever is pushed and popped in whichever order, no return takes another
  word for an address, an `iret` restores every register, the flag and the depth of the stack, and the dispatchers
  find number, error code and registers where `REGS` says.
* **console**: with interrupts and turns at any access to the cursor, output is garbled, but the cursor is on the
  screen again afterwards. In no kernel is anything beyond twice the screen written, in a text
  memory of eight times that, nor more lines scrolled than the screen has, so that the length `25 - temp` does not wrap around: a
  turn that the timer ends in the middle of `putch()` ends after the handler's message has been printed and has scrolled, and
  `pass_on_CPU()` is only called between characters. With turns `scroll()` may copy what lies in front of the screen, less than a screen
  (`WithinMemory`). Alone, a writer sees the last rows of what it has written.
* **disk_kernel**: until `del()` meets a blocked thread, each thread is running, ready or
  blocked in one place only, `yield()` never dispatches a null pointer, and the one
  user of the disk gets its own blocks whenever the drive raises its request.
* **filesystem**, **filesystem_content**: within the rules no block is leaked, shared or in a circle, between any two
  writes to the disk, but that a file which `Write` extends runs on into the free blocks from its first write
  (`file_system.C:121`) to its second (`:131`);
  handles stand on the block of their position, reads return what was written, also
  after the disk is unmounted and mounted, and every loop ends.
* **virtual_memory**: within the rules faults, nested faults and releases leave every page a
  frame of its own, regions never overlap and memory holds what was written.

### Findings

Each is a run in which TLC finds a sentence of the source violated; `PROJECT.json` quotes
the sentence.

1. `thread.C:86`: a turn that ends between `terminate()` and the dequeue of
   `thread_shutdown`'s `yield()` puts the dead thread into the ready queue again.
2. `blocking-disk/scheduler.C:33`: when the drive is ready and a thread is blocked, `yield()`
   takes the thread out of its queue and dispatches nobody.
3. `Virtual_Memory_Management/page_table.C:123`: releasing a region that was never used marks
   frame 0 as free, whoever has it.
4. `Frame_Manager/MP2_Sources/frame_pool.C:40`: `==` instead of `=` leaves a frame free that has just been
   handed out.

Rules of the passing runs stand for further weaknesses, which TLC shows when the rule is taken out of the
configuration: without `reset` `HandleOnItsBlock` is violated (`file_system.C:43`, a `File` just opened stands on
block 0, the superblock), without `nonempty` `BlocksAccounted` (`file_system.C:177`, erasing an empty file frees
block 0), and without `within` `OperationsReturn` (`file_system.C:68`, reading past the end does not end). In the two models
of the switch no rule keeps interrupts away, the history `struck` tells what they have hit: without `Intact` in its premise
`OnOwnStack` is violated (`threads_low.asm:107`, an interrupt once `current_thread` has changed
runs the dispatcher on another stack than that thread's), and so is `NeverLost` (`NULL` is dispatched).

## 4. Theorems

All of them are about every value of the constants that the named assumptions allow.

| module | theorem | states |
|---|---|---|
| `Rqueue_proofs` | `TailBound` | a queue without duplicates is no longer than the set its threads are from |
| `ThreadScheduler_proofs` | `TypeCorrect` | `TypeOK` |
| | `NoThreadLostOrDoubled` | `ReadyExactlyOnce` |
| | `StacksNotMixed` | `OwnStack` |
| | `DeadStayDead` | `FinishedForGood` |
| | `TurnsInOrder` | `RoundRobinOrder` |
| `ContextSwitch_proofs` | `TypeCorrect` | `TypeOK` |
| | `NeverRunsAway` | `NeverLost` |
| | `RunsOnItsStack` | `OnOwnStack` |
| | `DispatcherIsTold` | `DispatcherSees` |
| | `ShutdownStackClean` | `StackAtShutdown` |
| | `ResumesAsLeft` | `ReturnsAsLeft` |
| `DiskKernel_proofs` | `TypeCorrect` | `TypeOK` |
| | `EveryThreadPlacedOnce` | `PlacedOnce` |
| | `AlwaysSomebodyToRun` | `NeverIdle` |
| | `SingleUserGetsItsBlocks` | `TransfersOwn` |
| `InterruptDispatch_proofs` | `TimerAlwaysCaptured` | `TimerCaptured` |
| | `StacksDoNotGrow` | `OneActivation` |
| | `EveryLineAcknowledged` | `Acknowledged` |
| | `TypeCorrect` | `TypeOK` |
| | `TimerCountsRight` | `TicksAtRate` |
| | `NothingOverlaps` | `OwnMemory` |
| | `WordInFront` | `CellInFront` |
| `FileSystem_proofs` | `TypeCorrect` | `TypeOK` |
| | `NoBlockLost` | `BlocksAccounted` |
| | `HandlesInPlace` | `HandleOnItsBlock` |
| | `BehavesLikeFiles` | `ReadsWhatWasWritten` |
| `VirtualMemory_proofs` | `TypeCorrect` | `TypeOK` |
| | `NoFrameShared` | `FramesDistinct` |
| | `RegionsKeepApart` | `RegionsDisjoint` |
| | `BehavesLikeMemory` | `MemoryHolds` |
| `Console_proofs` | `TypeCorrect` | `TypeOK` |
| | `CursorComesToRest` | `AtRest` |
| | `ScrollsWithin` | `WithinMemory` |
| | `LastRowsShown` | `ShowsPage` |
| | `NumbersInDecimal` | `PrintsNumber` |

### Rqueue_proofs

`EnqueueAdds`, `DequeueTakesFirst` and `RemoveOfAbsent` say what the three operations do to
the set of waiting threads, to their distinctness and to `tail`. `TailBound` is the pigeonhole
step that excludes an overflow: the window `0 .. tail-1` maps one to one into
the threads. Both schedulers cite these lemmas and never look into the array.

### Induction over numbers

The library's induction theorems take a predicate, which none of the provers can instantiate. `Induction` (in the proofs of
`FileSystem` and `VirtualMemory`) takes the *set* of the numbers that have the property instead, and follows from `LeastElement`
of its complement (`Console` uses that one alone). With it, recursive functions can be proved about: that the function over a region's pages or a chain's
blocks exists (a fact the provers do not have), and what it returns.

### ThreadScheduler

Assumptions: at least one thread never terminates, as in `kernel.C` (otherwise the last would dispatch a null pointer), and the array has two
cells for every thread (`CountAssumption`; ten cells for four threads). Where and when interrupts come is arbitrary. `TypeCorrect`
holds whatever they hit, the others until they hit something fatal (`Intact`), `TurnsInOrder` as long as
they hit nothing (`Undisturbed`).

`ReadyExactlyOnce` is not inductive: `load_context` continues with whatever context the
control block has, so nothing can be said of it without knowing all saved contexts.
`IInv` therefore adds

* `ContextsSound`: the context a thread is in, or will get back (`ctx`), is on its own stack at a position where a context may be
  saved, and if the thread is dead it passes the processor on or has done so;
* `CpuSound`: the processor runs on the stack of `current_thread` except between the two loads, and `main()` runs only until its
  switch;
* `MainlineSound`: nobody has run while `main()` adds threads, and only terminating functions end;
* `TypeSound`: what is true even after a fatal hit, so that types are kept.

There is one lemma per action (`addKeeps` ... `preemptKeeps`) with a step per conjunct the
action disturbs. What is counted is the places of a thread in the queue and those who have dequeued it (`Holders`) against the turns
it is to get (`Turns`); an endless thread always has one or the processor, which excludes the
dequeue of an empty queue, and no thread has more than two, which excludes the overflow.

`TurnsInOrder` maps the window of the queue to the line of `RoundRobin`, and each step to one of its steps or to none. Where
the code has resumed the running thread and not yet dequeued the next, the line must not have it twice; `LineSound`
says that it is then the last of the queue, that `main()` adds the threads in order and that nobody who waits is about to yield. The fairness of
`RoundRobin` is `EveryTurnEnds`, which TLC checks.

### ContextSwitch

Assumption: `DepthAssumption` on the two bounds of the model, `Nested` and `Deepest`: twenty words per context. Interrupts come before every
instruction. `Sound` is that `IInv` holds as long as nothing in `Fatal` has been hit and no `NULL` or dead thread dispatched (`Intact`); after that nothing is
claimed, since the code does break (section 2).
Threads, devices, exceptions and the number of contexts on a stack are arbitrary, and so is who switches to whom.

None of the properties is inductive, for what an instruction pops was pushed by others, perhaps long before and on a stack
that has been parked since. `IInv` says of every point of the text which words lie where:

* `PlacedSound`: for each instruction of the switch, of the common stubs and of the stubs of single interrupts, and for each
  place in C code, how far the stack reaches above the last saved context and which of that context's registers are already in
  its words, or back in the processor (`Position`, `AtStub`, with `Saved` and `Live` for a context that is saved or restored up to some
  word); up to the dispatcher also the interrupt's number and code (`Told`);
* `StacksSound`: every saved context on every stack was left at a place that can be resumed (`Rests`), and that place's own
  `Position` holds of the context below it, so that the words a chain of interrupts and turns needs are all there, each above the last;
* `ParkedSound`: a stack that waits has a whole context at its top, and its thread's control block points to it, also
  while the switch has saved the stack pointer and not yet loaded the next;
* `CurrentSound`: `current_thread` is the thread whose stack is in use, except between the two stores that change both.

A step then has to leave the words of the saved contexts alone (`Spares`; `KeptWords`, `KeptAppend`) and to establish what the next
instruction expects. `CodeIs`, `SwitchText` and `StubText` spell out the concatenated text of the macros once, `OpStep` leads from the instruction at
an address to the action that executes it, and `PushDoes`, `PopadDoes` and the like say what the actions do to a stack. There is one
lemma per instruction (`Departs1` ... `Departs19`, `Common6` ...), and one for each row of pushes or pops that the switch and the
stubs share (`SavingStep`, `LoadingStep`). `IretKeeps` is the step that takes a context off, `EnterKeeps` the one that adds one:
an interrupt is survived wherever `Rests` holds, and the nine instructions are just those at which it does not.

### DiskKernel

Assumption: `SomebodyNeverWaits`, one thread passes the processor on and does not use the disk, as
in `kernel.C`. `IInv` adds `PositionsSound` (only the running thread is inside the scheduler,
only disk users block, a request is held exactly while one is being served) and `DriveSound` (with one
user the drive works on that user's request), and that `bq.tail` is not overwritten
before `gone`. `SomebodyReady` derives that `yield` finds a thread. TLC has checked `IInv`
for one disk user and for two.

### InterruptDispatch

Assumptions: the lines with a device are lines, the timer is one of them, and threads are not `Main`. There may be any
number of threads and devices.

None of the three properties is inductive. `DispatchSound` adds

* `StacksSound`: interrupts are on, or will be when a stack is switched to, only where nothing has been
  interrupted. This is what keeps a second activation off a stack, through switches inside the handler;
* `TablesSound`: which tables are complete after which step of `main()`, in all four orders, and that nothing runs but `main()`
  with interrupts off until the tenth;
* `ServiceSound`: in the kernels that signal last there is one activation in all, and the lines in service are
  its own; in the thread kernel, which may have one per stack, the timer is in service only under the
  dispatcher that has not signalled yet.

`OrderShape` and `OrderPlaces` look the steps up in the four orders once; `Gates` concludes that by the time
interrupts are possible every line and exception has a gate that closes them; `Pushes`, `Pops` and `GoesOn` are what
the three operations make of a stack; then there is a lemma per action. `accept` gives `TimerCaptured` directly, since only it
takes a request back (`RequestsStay`).

The other four theorems are about what `main()` leaves behind, and their invariant is `StartSound`. `RateSound` has the two bytes of
the timer's chip from the step on that programs it. `HeapSound` needs what `new` relies on: the pool is there before the first
object, all that is placed ends before the next address, in the order in which it was placed, and a step of `main()` places no more than
a stack and its control block, so that the pool's frames do not run out; `Placed` adds that the ready queue comes first and that the disk's
array lies right behind its `Bqueue`. `TablesTyped` has the tables that are filled in the order of `main()`.

### FileSystem

Assumption: `RulesKept`, the rules `reset`, `nonempty` and `alone` (the hazards of calls that break them are listed), a `LookupFile` that
returns false when it finds nothing, which the code leaves to what is in the register, and no file created beyond those for which
`CreateFile` checks the name.

A link can be said to be right only together with all the others of its chain, so the invariant says that there is a *picture* of the disk
(`Layout`): a row of blocks per entry of the table and one for the free blocks, `at[e][lo[e]]`, ..., `at[e][hi[e]]`, no block twice, every
link leading to the next of its row. Taking a block off the front, or pushing one to the front or the back, moves `lo` or `hi` and names
no block anew (`BlockPushed`, `BlockAppended`). `IInv` further relates the table in memory to the one on the
disk (`Files`, `Members`), the handles to their entries and positions (`HandlesTyped`, `HandlesFit`) and the operation under way to all of them
(`OpSound`: while `Rewrite` or `DeleteFile` frees blocks, the entry's row is what is still to be freed; while `Write` extends a file, its row already has
the new block, whose link is taken for the end of the chain until it is written). That the recursive `Walk` along a
chain visits the row, and that it exists, is `WalkExists` and `WalkFollows`, by `Induction`.

`BehavesLikeFiles` is a step simulation: the content of a file is the characters of its row up to its size (`ContentIs`); every step that
leaves the row and those characters alone leaves the file alone (`SameChain`, `ContentSame`), which covers most of the operations; `ReadStep`
returns the characters of `FileStore`'s step one by one (`OutSound`), and `WriteStep` replaces or appends them (`CharactersWritten`,
`WriteContent`), also when it has to take a free block first (`ReadyWithBlock`).

### VirtualMemory

Assumptions: for `RegionsKeepApart` the rule `inside`, and pools that do not overlap; for the others `RulesKept`, which adds that
a region is used before it is released (finding 3) and that there are always as many free frames as the request may take
(`Reserve`).

`RegionsOrdered` says that each region lies in its pool and begins where or after the ones handed out before it end;
`allocate` looks at the last one only, and `release` leaves start and size alone. `Sound` says which frames there are:
those behind pages, those behind page tables and the free ones, no two alike. Both a fault and the release of a page take up to two frames
and make none free, and neither unmaps nor moves what is mapped (`Grows`); for a release this is a recursive function over the region's pages, which
`FreedExists` and `FreedGrows` follow by induction. So the pages a release touches are the region's own and pages of the bitmap, and
`MemoryHolds` follows, since no two pages have a frame in common (`StepHolds`). A release keeps the frame marked as in use:
the theorem is about the code as it is, which never reuses a frame.

### Console

`AtRest` speaks of the moments when nobody is in `putch`. `CursorSound` says who is to blame in all the others: a column
past the edge belongs to somebody who has yet to compare it, or to correct it, and a row likewise. A store of
one caller may undo another's correction, and the proof is that the one who stores is then the one who will compare.

`WithinMemory` needs bounds at every position. The handler runs to the end of its message before anybody else does:
`CursorFits` says per position of the one who is running where the cursor may be, and `LoadedFits` what it may have loaded. The handler may come
when the writer has gone to a new row and has not scrolled, so its bounds are a row further down (`LastRow`); it leaves the cursor on the screen, so
that the writer goes on with its bounds met whichever position it is at (`Resting`, `Ended`). With turns this is what bounds
the rest as well: who goes on after a turn that the handler has ended finds a cursor that the handler has left on the screen, whatever it had
loaded before, and who passes the processor on by itself is between two characters. That the writer may have found a row to
scroll which the handler has scrolled already is why `scroll()` may count zero lines, and less than zero with turns, though never minus the number of
rows. `TurnsSound` says who may be where: a backspace is only
printed where nobody interrupts, whoever is in `putch()` has a character, the handler puts both of its own before anybody else runs.

`ShowsPage` compares the screen with paper that does not end and gets a character as a whole when `putch` begins. `PageSound` says per position
how the two differ in between, for some number of rows that have scrolled away (`Sees`): but for one cell until the character is shown, not
at all while the cursor moves, but for the last row after the copy. The paper's cursor is where the screen's will be once the
column has been compared with the width (`Wraps`). A row goes when the cursor is in row `Rows`, never later, so that `scroll()` always counts one line here
and what it blanks is the row with no ink yet (`SeesCopy`, `SeesBlank`, `LastRowIs`). For a tab the column is computed in two ways (`TabStops`).

`TypeOK` includes that only characters are printed, digits among them: `TenDigits` and `LastDigit` follow `uint2str()`. For
`PrintsNumber` the value of the digits, read from the first on, is a recursive function; `DecimalIs` says that any function that satisfies
its equation is it, and the quotients of the number satisfy it (`Quotients`), the zeros in front having a quotient of 0 (`NothingLeft`).

### What is only model-checked

* Liveness: `Progress`, `EveryTurnEnds`, `TicksGoOn`, `OperationsReturn`.
* `FrameManager` has no theorem: its run ends in a finding.

Liveness under fairness and `ENABLED` are beyond the prover's means, and so are recursive operators, which no module here has:
recursion is written as functions.

## 5. What is not modelled

* **Frame manager**: `release_frame()`, which nobody calls. Its run ends at the first repeated frame; what follows
  (the handler that faults at its own line until the stack is used up) is in the model and among the hazards.
* **Timers**: `wait()` and `current()` have no caller.
* **Interrupts**: `deregister_handler()` and `disable_interrupts()` have no caller; spurious interrupts.
* **Switch**: the depth to which a stack can grow when turns end while a context is being loaded
  (`threads_low.asm:115`) is cut by `Nested`.
* **Switch**: what becomes of the machine after a fatal interrupt.
* **Queue**: an interrupt between two statements of `enqueue` or `dequeue`.
* **Paging kernel**: that the directory and the identity map are written to 0x200000 and 0x201000 (`page_table.C:34`-`35`), where the
  two pools have their bitmaps (`frame_pool.C:27`, `:38`), which the head of `PageTable` in the module shows to be harmless for what is
  checked; the kernel's pool after boot, the branch of `handle_fault` for addresses of
  it, `is_legitimate()`'s value, which ignores that a region has been released, region 341 of a pool, the last free frame.
* **File system**: crashes between two disk writes and concurrent callers (one thread calls it).
* **Start-up**: the multiboot header and the runtime's empty stubs in `start.asm`.
* **Console**: colours, the hardware's cursor (`console.C:102`-`105` are commented out), `int2str()` of negative
  numbers, which nobody prints, and the string functions of `utils.C` that nobody calls.
* **Old copies** of sources that no makefile compiles.

## 6. Plan

Done, in this order: `Rqueue`, `RoundRobin`, `ThreadScheduler` and their proofs;
`FileStore`, `FileSystem`; `DiskKernel` and its proofs; `VirtualMemory`; `InterruptDispatch`;
`ContextSwitch`; `Console` and its proof; `FrameManager`; `KernelStart` with the fourth kernel; the proofs of
`InterruptDispatch` and `VirtualMemory`; the step simulation of `RoundRobin`, the file system and its refinement of `FileStore`, virtual
memory as memory, what `main()` sets up, the bounds of the console and what it shows, numbers included; the switch and the stubs for
any number of threads.

Left:

1. `RqueueRace`: `enqueue` and `dequeue` statement by statement with the timer's interrupt in
   between, composed with the scheduler.
2. `FileSystem`: a crash between two disk writes and the next mount; files created beyond the table.
3. `VirtualMemory`: down to the last frame; a pool's last region entry; `is_legitimate()`'s value.
