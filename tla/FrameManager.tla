---------------------------- MODULE FrameManager ----------------------------
(***************************************************************************)
(* The frame manager of Frame_Manager/MP2_Sources: two frame pools, the    *)
(* identity map, and page faults that take a frame from a pool.            *)
(*                                                                         *)
(* Sizes are the code's divided by 256: a table has Entries entries, the   *)
(* first Entries frames are mapped to themselves, the kernel's pool is the *)
(* second half of them and the process' pool the frames behind them.  The  *)
(* members of FramePool are static, so that there is one of each of them.  *)
(***************************************************************************)
EXTENDS Integers, Sequences, SequencesExt

CONSTANTS
    Entries,       \* of a page table: 1024
    Word,          \* bytes of an entry: 4
    Accesses,      \* NACCESS, words that main() writes and reads
    Nested         \* bound: page faults in progress

PG_SIZE        == 4 * Entries         \* of frames and pages, in bytes
Bitmap         == 0 .. 8 * Entries - 1
KERNEL_START   == Entries \div 2
KERNEL_SIZE    == Entries \div 2
PROCESS_START  == Entries
PROCESS_SIZE   == 7 * Entries
HOLE_START     == (15 * Entries) \div 4
HOLE_SIZE      == Entries \div 4
FAULT_ADDR     == PROCESS_START * PG_SIZE
page_directory_at == KERNEL_START * PG_SIZE
first_table_at    == (KERNEL_START + 1) * PG_SIZE

VARIABLES
    step,                           \* of main()
    base_frame_no, nframes, info_frame_no, frame_bitmap,
    page_table,                     \* the table of the last directory entry
    memory,                         \* words by physical address
    paging,                         \* whether the processor translates
    faults,                         \* page faults in progress
    i,                              \* main()'s access
    handed                          \* history: what get_frame() has returned

pools == <<base_frame_no, nframes, info_frame_no, frame_bitmap>>
vars  == <<step, base_frame_no, nframes, info_frame_no, frame_bitmap, page_table,
           memory, paging, faults, i, handed>>

\* e | 3: supervisor, read and write, present
Present(e) == e - (e % 4) + 3
Page(e)    == e - (e % PG_SIZE)
At(a)      == IF a \in DOMAIN memory THEN memory[a] ELSE 0
Write(m, a, e) == [b \in DOMAIN m \cup {a} |-> IF b = a THEN e ELSE m[b]]

page_dir_index(a)   == (a \div (PG_SIZE * Entries)) % Entries
page_table_index(a) == (a \div PG_SIZE) % Entries
directory_entry(a)  == At(page_directory_at + Word * page_dir_index(a))
table_entry(a)      == At(Page(directory_entry(a)) + Word * page_table_index(a))
Mapped(a)           == ~paging \/ (directory_entry(a) % 2 = 1 /\ table_entry(a) % 2 = 1)
Physical(a)         == IF paging THEN Page(table_entry(a)) + (a % PG_SIZE) ELSE a

-----------------------------------------------------------------------------
(* FramePool.  get_frame() compares where it means to assign.               *)
Free(bits)  == {f \in 0 .. nframes - 1 : bits[f] = 0}
First(S)    == CHOOSE f \in S : \A g \in S : f <= g

\* With no free frame the function ends without a value: any.
get_frame(bits) == IF Free(bits) = {} THEN {0, PG_SIZE}
                   ELSE {First(Free(bits)) * PG_SIZE + base_frame_no}

Constructor(b, n, info) == /\ base_frame_no' = b /\ nframes' = n
                           /\ info_frame_no' = info
                           /\ UNCHANGED frame_bitmap

\* From the first frame of the area to the pool's, plus the size of the area.
mark_inaccessible(b, n) ==
    frame_bitmap' = [f \in Bitmap |-> IF f >= b /\ f < base_frame_no + n THEN -1
                                      ELSE frame_bitmap[f]]

-----------------------------------------------------------------------------
(* main().                                                                  *)
Init ==
    /\ step = "kernel pool"
    /\ base_frame_no = 0 /\ nframes = 0 /\ info_frame_no = 0
    /\ frame_bitmap = [f \in Bitmap |-> 0]
    /\ page_table = first_table_at /\ memory = [a \in {} |-> 0]
    /\ paging = FALSE /\ faults = <<>> /\ i = 0 /\ handed = <<>>

Does(s, next) == step = s /\ step' = next

kernel_mem_pool ==
    /\ Does("kernel pool", "information frame")
    /\ Constructor(KERNEL_START, KERNEL_SIZE, 0)
    /\ UNCHANGED <<page_table, memory, paging, faults, i, handed>>

process_mem_pool ==
    /\ Does("information frame", "hole")
    /\ \E frame \in get_frame(frame_bitmap) :
         /\ Constructor(PROCESS_START, PROCESS_SIZE, frame)
         /\ handed' = Append(handed, frame)
    /\ UNCHANGED <<page_table, memory, paging, faults, i>>

hole == /\ Does("hole", "paging")
        /\ mark_inaccessible(HOLE_START, HOLE_SIZE)
        /\ UNCHANGED <<base_frame_no, nframes, info_frame_no, page_table, memory,
                       paging, faults, i, handed>>

\* The identity map, an empty directory, and the frames that are taken.
init_paging ==
    /\ Does("paging", "write")
    /\ LET table     == [e \in 0 .. Entries - 1 |-> Present(e * PG_SIZE)]
           directory == [e \in 0 .. Entries - 1 |->
                           IF e = 0 THEN Present(page_table) ELSE 2]
           words(at, f) == {at + Word * e : e \in DOMAIN f}
       IN  memory' = [a \in words(page_table, table) \cup words(page_directory_at, directory) |->
                        IF a \in words(page_table, table)
                          THEN table[(a - page_table) \div Word]
                          ELSE directory[(a - page_directory_at) \div Word]]
    /\ frame_bitmap' = [f \in Bitmap |-> IF f < Entries THEN 1 ELSE frame_bitmap[f]]
    /\ paging' = TRUE
    /\ UNCHANGED <<base_frame_no, nframes, info_frame_no, page_table, faults, i, handed>>

\* What a fault has to write, and where, is in registers once it is known.
NewFault(a) == [at |-> a, does |-> "table", new |-> FALSE, frame |-> 0, entry |-> 0]

foo == FAULT_ADDR + Word * i

access ==
    /\ faults = <<>> /\ step \in {"write", "read"} /\ i < Accesses
    /\ IF ~Mapped(foo)
         THEN /\ faults' = <<NewFault(foo)>>
              /\ UNCHANGED <<memory, i, step>>
         ELSE /\ memory' = IF step = "write" THEN Write(memory, Physical(foo), i) ELSE memory
              /\ IF step = "read" /\ At(Physical(foo)) # i
                   THEN step' = "failed" /\ UNCHANGED i
                   ELSE i' = i + 1 /\ UNCHANGED step
              /\ UNCHANGED faults
    /\ UNCHANGED <<pools, page_table, paging, handed>>

written == /\ faults = <<>> /\ i = Accesses
           /\ \/ Does("write", "read") /\ i' = 0
              \/ Does("read", "passed") /\ i' = i
           /\ UNCHANGED <<pools, page_table, memory, paging, faults, handed>>

-----------------------------------------------------------------------------
(* handle_fault(), the last fault's.                                        *)
Fault       == Last(faults)
Handles(s)  == faults # <<>> /\ Fault.does = s
Goes(f)     == faults' = Append(Front(faults), f)

\* An entry that is still what init_paging() has written gets a table.
new_table ==
    /\ Handles("table") /\ directory_entry(Fault.at) = 2
    /\ \E frame \in get_frame(frame_bitmap) :
         /\ page_table' = frame
         /\ handed' = Append(handed, frame)
    /\ Goes([Fault EXCEPT !.does = "frame", !.new = TRUE])
    /\ UNCHANGED <<step, pools, memory, paging, i>>

old_table == /\ Handles("table") /\ directory_entry(Fault.at) # 2
             /\ Goes([Fault EXCEPT !.does = "frame"])
             /\ UNCHANGED <<step, pools, page_table, memory, paging, i, handed>>

new_frame == /\ Handles("frame")
             /\ \E frame \in get_frame(frame_bitmap) :
                  /\ Goes([Fault EXCEPT !.does = "entry", !.frame = frame,
                        !.entry = page_table + Word * page_table_index(Fault.at)])
                  /\ handed' = Append(handed, frame)
             /\ UNCHANGED <<step, pools, page_table, memory, paging, i>>

\* The table is written to where it is in virtual memory: this may fault.
set_entry ==
    /\ Handles("entry")
    /\ LET to == Fault.entry
       IN  IF Mapped(to)
             THEN /\ memory' = Write(memory, Physical(to), Present(Fault.frame))
                  /\ Goes([Fault EXCEPT !.does = "directory"])
             ELSE /\ Len(faults) < Nested
                  /\ faults' = Append(faults, NewFault(to))
                  /\ UNCHANGED memory
    /\ UNCHANGED <<step, pools, page_table, paging, i, handed>>

set_directory ==
    /\ Handles("directory")
    /\ memory' = IF Fault.new
                   THEN Write(memory, page_directory_at + Word * page_dir_index(Fault.at),
                              Present(page_table))
                   ELSE memory
    /\ faults' = Front(faults)
    /\ UNCHANGED <<step, pools, page_table, paging, i, handed>>

Next == \/ kernel_mem_pool \/ process_mem_pool \/ hole \/ init_paging
        \/ access \/ written
        \/ new_table \/ old_table \/ new_frame \/ set_entry \/ set_directory

Spec == Init /\ [][Next]_vars

-----------------------------------------------------------------------------
(* frame_pool.H: get_frame() "Allocates a frame from the frame pool": what  *)
(* it has returned, and nobody has released, it does not return again.      *)
FramesDistinct ==
    \A j, k \in DOMAIN handed : handed[j] = handed[k] => j = k
=============================================================================
