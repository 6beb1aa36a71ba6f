------------------------------ MODULE DiskKernel ------------------------------
(***************************************************************************)
(* The scheduler of blocking-disk and its BlockingDisk, on which a thread  *)
(* that finds the drive not ready gives up the CPU.  The ready queue and   *)
(* the queue of blocked threads are the linear array of Rqueue.            *)
(*                                                                         *)
(* thread_start() is empty here and a new thread's EFLAGS are 0, so threads*)
(* run with interrupts off and only yield() takes the processor from one.  *)
(* What runs beside them is the drive: it raises its data request (bit 3   *)
(* of port 0x1F7, which is_ready() tests) whenever it likes, in particular *)
(* between the test of read() or write() and the one of yield().           *)
(*                                                                         *)
(* The position of a thread is the point before its next step:             *)
(*   body     in its function, between two calls                           *)
(*   poll     in read() or write(), before the test of is_ready()          *)
(*   yield    in Scheduler::yield(), before get_disk_thread()              *)
(*   stopped  in abort(), after a failed assert                            *)
(*   gone     in get_disk_thread(), after del() has overwritten its queue  *)
(***************************************************************************)
EXTENDS Rqueue, FiniteSets

CONSTANTS
    N,               \* threads that main() creates
    PassOn,          \* threads that call pass_on_CPU
    DiskUsers,       \* threads that read and write blocks of SYSTEM_DISK
    Returning,       \* threads whose function may return
    Blocks           \* block numbers they use

Threads == 1 .. N

ASSUME CountAssumption == N \in Nat \ {0} /\ N <= MAX_THREADS
ASSUME RolesAssumption == /\ PassOn \subseteq Threads
                          /\ DiskUsers \subseteq Threads
                          /\ Returning \subseteq Threads

VARIABLES
    q,               \* Scheduler::q
    bq,              \* BlockingDisk::bq
    current_thread,
    at,              \* per thread, its position
    req,             \* per thread, the operation of the read() or write()
                     \* it is in
    drive            \* the operation the drive works on, and its data request

vars == <<q, bq, current_thread, at, req, drive>>

None       == [op |-> "none", block |-> 0]
Operations == [op : {"READ", "WRITE"}, block : Blocks]

TypeOK ==
    /\ q \in Queues(Threads \cup {NULL, Junk}) /\ q.tail \in 0 .. N
    /\ bq \in Queues(Threads \cup {NULL, Junk}) /\ bq.tail \in {Junk} \cup 0 .. N
    /\ current_thread \in Threads \cup {NULL, Junk}
    /\ at \in [Threads -> {"body", "poll", "yield", "stopped", "gone"}]
    /\ req \in [Threads -> Operations \cup {None}]
    /\ drive \in [does : Operations \cup {None}, ready : BOOLEAN]

-----------------------------------------------------------------------------
(* main() has added thread 2 to thread N and dispatched to thread 1.  A     *)
(* timer interrupt before that counts a tick and switches nothing.          *)
Added == [queue |-> [i \in Slots |-> IF i \in 0 .. N - 2 THEN i + 2
                                     ELSE newRqueue.queue[i]],
          tail  |-> N - 1]

Init ==
    /\ q = Added
    /\ bq = newRqueue
    /\ current_thread = 1
    /\ at = [t \in Threads |-> "body"]
    /\ req = [t \in Threads |-> None]
    /\ drive = [does |-> None, ready |-> FALSE]

Runs(t, where) == t = current_thread /\ at[t] = where

(* resume(CurrentThread()), and the call of yield().                        *)
MutantNotResumed(t) == q
MutantTwice(t)      == enqueue(enqueue(q, t), t)   \* add() and resume()
resume(t)           == enqueue(q, t)

pass_on_CPU(t) ==
    /\ Runs(t, "body")
    /\ t \in PassOn
    /\ q' = resume(t)
    /\ at' = [at EXCEPT ![t] = "yield"]
    /\ UNCHANGED <<bq, current_thread, req, drive>>

(* thread_shutdown() is assert(FALSE).                                      *)
function_returns(t) ==
    /\ Runs(t, "body")
    /\ t \in Returning
    /\ at' = [at EXCEPT ![t] = "stopped"]
    /\ UNCHANGED <<q, bq, current_thread, req, drive>>

(* issue_operation() writes the command to the drive.  One that is still    *)
(* busy with another takes the new one or ignores it.                       *)
issue_operation(t) ==
    /\ Runs(t, "body")
    /\ t \in DiskUsers
    /\ \E o \in Operations :
         /\ req' = [req EXCEPT ![t] = o]
         /\ \/ drive' = [does |-> o, ready |-> FALSE]
            \/ drive.does # None /\ UNCHANGED drive
    /\ at' = [at EXCEPT ![t] = "poll"]
    /\ UNCHANGED <<q, bq, current_thread>>

MutantAlwaysReady == TRUE            \* BSY clear taken for a data request
is_ready          == drive.ready

(* The 256 words go through the data port: those of the drive's operation.  *)
transfer(t) ==
    /\ Runs(t, "poll")
    /\ is_ready
    /\ drive' = [does |-> None, ready |-> FALSE]
    /\ req' = [req EXCEPT ![t] = None]
    /\ at' = [at EXCEPT ![t] = "body"]
    /\ UNCHANGED <<q, bq, current_thread>>

MutantNotAdded(t) == bq              \* the thread yields without add()
add(t)            == enqueue(bq, t)

not_ready(t) ==
    /\ Runs(t, "poll")
    /\ ~is_ready
    /\ bq' = add(t)
    /\ at' = [at EXCEPT ![t] = "yield"]
    /\ UNCHANGED <<q, current_thread, req, drive>>

-----------------------------------------------------------------------------
(* del() shifts cell 0 into the word before the array.  The Bqueue object   *)
(* and its array are two allocations in a row of a pool without headers: the*)
(* word is tail, which is a pointer from then on.  The loop reads tail again*)
(* and goes on to move the heap above the array, threads and stacks, down by*)
(* a word.  How far it gets, and what runs then, is not modelled; yield()   *)
(* dispatches nobody, as what del() returns is not NULL.                    *)
del == [bq EXCEPT !.tail = Junk]

\* get_disk_thread() calls del(), which has something to take out.
DiskThread == is_ready /\ bq.tail # 0

yield_to_disk_thread(t) ==
    /\ Runs(t, "yield")
    /\ DiskThread
    /\ bq' = del
    /\ at' = [at EXCEPT ![t] = "gone"]
    /\ UNCHANGED <<q, current_thread, req, drive>>

(* Where a thread goes on when yield() returns: in the loop of read() or    *)
(* write(), or in its function.                                             *)
Return(t) == IF req[t] = None THEN "body" ELSE "poll"

yield(t) ==
    /\ Runs(t, "yield")
    /\ ~DiskThread
    /\ current_thread' = first(q)
    /\ q' = dequeue(q)
    /\ at' = [at EXCEPT ![t] = Return(t)]
    /\ UNCHANGED <<bq, req, drive>>

\* The drive has the data of a read, or room for those of a write.
data_request ==
    /\ drive.does # None
    /\ ~drive.ready
    /\ drive' = [drive EXCEPT !.ready = TRUE]
    /\ UNCHANGED <<q, bq, current_thread, at, req>>

Thread(t) == \/ pass_on_CPU(t) \/ function_returns(t)
             \/ issue_operation(t) \/ transfer(t) \/ not_ready(t)
             \/ yield_to_disk_thread(t) \/ yield(t)

Next == (\E t \in Threads : Thread(t)) \/ data_request

Spec == Init /\ [][Next]_vars

-----------------------------------------------------------------------------
Gone     == \E t \in Threads : at[t] = "gone"
Yielding == \E t \in Threads : Runs(t, "yield")

(* Every thread is in exactly one place: running, ready, or blocked on the  *)
(* disk; while it yields it has its next place already.  Neither queue holds*)
(* a thread twice or anything else.  At stake: resume() and yield(),        *)
(* BlockingDisk's add(), and a drive that gets ready in between.  A del()   *)
(* with a thread to take out ends this, see DiskThreadDispatched.           *)
PlacedOnce == ~Gone =>
    /\ Waiting(q) \cap Waiting(bq) = {}
    /\ Distinct(q) /\ Distinct(bq)
    /\ Waiting(q) \cup Waiting(bq) =
         IF Yielding THEN Threads ELSE Threads \ {current_thread}

(* As long as one thread does not wait for the disk, yield() has a thread to*)
(* dispatch: it does not switch to the null pointer of an empty queue.      *)
NeverIdle == PassOn \ DiskUsers # {} => current_thread \in Threads

(* With one thread using the disk every block that is transferred is the one*)
(* the thread asked for, in the direction it asked for, and the drive is    *)
(* ready: no operation overtakes another.                                   *)
TransfersOwn ==
    [][\A t \in Threads :
         Cardinality(DiskUsers) = 1 /\ at[t] = "poll" /\ at'[t] = "body" =>
           drive = [does |-> req[t], ready |-> TRUE]]_vars

(* The strengthening under which these are inductive.  Only the running     *)
(* thread is inside the scheduler or stopped, only disk users have a request*)
(* or wait in bq, and a single one's request is what the drive works on.    *)
PositionsSound ==
    /\ \A t \in Threads : at[t] \in {"yield", "stopped", "gone"} => t = current_thread
    /\ Waiting(bq) \subseteq DiskUsers
    /\ \A t \in Threads : /\ at[t] = "poll" => req[t] # None
                          /\ at[t] = "body" => req[t] = None
                          /\ req[t] # None => t \in DiskUsers

DriveSound ==
    /\ drive.ready => drive.does # None
    /\ Cardinality(DiskUsers) = 1 => \A t \in DiskUsers : drive.does = req[t]

IInv == /\ TypeOK
        /\ ~Gone => bq.tail # Junk
        /\ PlacedOnce
        /\ current_thread \in Threads
        /\ PositionsSound
        /\ DriveSound

\* One thread never waits for the disk and goes on forever.
SomebodyNeverWaits == PassOn \ DiskUsers # {}

(* scheduler.C: if the disk is ready, yield() gets the thread from the disk *)
(* and dispatches it.                                                       *)
DiskThreadDispatched ==
    [][\A t \in Threads : Runs(t, "yield") /\ at'[t] # "yield" /\ DiskThread =>
          current_thread' = first(bq)]_vars
=============================================================================
