---------------------------- MODULE VirtualMemory ----------------------------
(***************************************************************************)
(* Virtual_Memory_Management: the process frame pool, the page table that  *)
(* is filled by page faults through the directory's entry for itself, and  *)
(* the pools of virtual memory that hand out regions.                      *)
(*                                                                         *)
(* Memory is a set of pages of PG addresses; virtual pages are numbers,    *)
(* frames are indexes into the process pool's bitmap.  What a frame holds  *)
(* is one value, 0 to begin with, as in the emulator's memory.             *)
(*                                                                         *)
(* The client keeps the rules in Rules:                                    *)
(*   touched  a region is released only after each of its pages has been   *)
(*            written or read                                              *)
(*   frames   nothing is asked for with fewer than Reserve frames free     *)
(*   inside   a pool hands out no more than its own addresses              *)
(***************************************************************************)
EXTENDS Integers, Sequences, FiniteSets, FiniteSetsExt

CONSTANTS
    PG,               \* addresses in a page, 4096
    T,                \* entries of a page table or directory, 1024
    nframes,          \* frames of the process pool
    Inaccessible,     \* the first ones, marked by mark_inaccessible()
    base_frame_no,    \* physical page of frame 0
    info_page,        \* page of the process pool's bitmap
    FlagBits,         \* the low bits of an entry the processor has used
    CodeBase,         \* base_address of code_pool
    HeapBase,         \* base_address of heap_pool
    Size,             \* addresses of each
    Sizes,            \* bound: sizes of the regions asked for
    Values,           \* bound: values written
    MaxRegions,       \* bound: regions ever handed out
    Reserve,
    Rules

Base   == <<CodeBase, HeapBase>>
Pools  == 1 .. 2
Frames == 0 .. nframes - 1
Phys0  == -1          \* the frame at address 0, which is not the pool's

ASSUME LayoutAssumption ==
    /\ PG \in Nat \ {0} /\ T \in Nat \ {0} /\ FlagBits \in Frames
    /\ nframes \in Nat /\ Inaccessible \in Nat \ {0} /\ Inaccessible + 2 <= nframes
    /\ Sizes \subseteq Nat \ {0} /\ Values \subseteq Nat
    /\ {CodeBase, HeapBase, Size} \subseteq Nat /\ CodeBase + Size <= HeapBase

VARIABLES
    mm,               \* [taken, table, pte]: the frames whose bit is set, per
                      \* directory entry the page table's frame, and per
                      \* mapped page its frame
    memory,           \* what each frame holds
    regions           \* per pool, pool[0] .. pool[count - 1]

vars == <<mm, memory, regions>>

TypeOK ==
    /\ mm = [taken |-> mm.taken, table |-> mm.table, pte |-> mm.pte]
    /\ mm.taken \subseteq Frames
    /\ \A d \in DOMAIN mm.table : mm.table[d] \in Frames \cup {Phys0}
    /\ \A p \in DOMAIN mm.pte : /\ p \div T \in DOMAIN mm.table
                                /\ mm.pte[p] \in Frames \cup {Phys0}
    /\ memory \in [Frames \cup {Phys0} -> Values \cup {0}]

-----------------------------------------------------------------------------
(* Operators on m, the frame bitmap and the page tables.                    *)

Free(m)  == Frames \ m.taken

\* get_frame_address(get_frame()), and the bitmap after it.
frame(m)     == IF Free(m) = {} THEN Phys0 ELSE Min(Free(m))
get_frame(m) == [m EXCEPT !.taken = @ \cup (Free(m) \cap {frame(m)})]

Extended(f, x, y) == [z \in DOMAIN f \cup {x} |-> IF z = x THEN y ELSE f[z]]

(* An access to the page table of directory entry d, through the last entry *)
(* of the directory.  A missing table is a page fault of its own, at a page *)
(* whose entry is the directory's.  The code's test for a missing table     *)
(* compares with 2, which no entry ever is.                                 *)
MutantUnmarked(m, d) ==
    IF d \in DOMAIN m.table THEN m
    ELSE [m EXCEPT !.table = Extended(@, d, frame(m))]
with_table(m, d) ==
    IF d \in DOMAIN m.table THEN m
    ELSE [get_frame(m) EXCEPT !.table = Extended(@, d, frame(m))]

\* handle_fault() takes the page's frame before it touches the page table.
MutantNoTable(m, p) == [get_frame(m) EXCEPT !.pte = Extended(@, p, frame(m))]
handle_fault(m, p)  ==
    [with_table(get_frame(m), p \div T) EXCEPT !.pte = Extended(@, p, frame(m))]

access(m, p) == IF p \in DOMAIN m.pte THEN m ELSE handle_fault(m, p)

(* release_frame() gets the page's entry instead of a frame number.  As an  *)
(* index into the bitmap the entry of a mapped page is a word of a page far *)
(* above it, which the store of 0 maps; of an unmapped page it is 0.        *)
stray_page(f) == info_page + 4 * (base_frame_no + f)

MutantReleased(m, p) == [m EXCEPT !.taken = @ \ {m.pte[p]}]
release_frame(m, p) ==
    IF p \notin DOMAIN m.pte   THEN [m EXCEPT !.taken = @ \ {0}]
    ELSE IF m.pte[p] = Phys0   THEN [m EXCEPT !.taken = @ \ {FlagBits}]
    ELSE access(m, stray_page(m.pte[p]))

free_page(m, address) ==
    LET p == address \div PG IN release_frame(with_table(m, p \div T), p)

-----------------------------------------------------------------------------
(* main(): the frame pools, the page table, and the constructors of the     *)
(* pools of virtual memory, each of which takes a frame for its regions.    *)
(* The page table begins with the first 4 MB mapped to themselves and the   *)
(* directory's entry for itself; only what comes after them is kept here.   *)
(* The two pages are at 0x200000 and 0x201000, where the pools have their   *)
(* bitmaps.  The words of the identity map are the process bitmap's first   *)
(* 1024, marked before and, as none of them is 0, after; only a release of  *)
(* frame 0 clears the map's word for page 0, which nobody uses by then.  The*)
(* kernel pool's marks for its frames 1 to 3 are taken for the directory's  *)
(* entries of 4 to 16 MB, where no address in use is.                       *)
PageTable            == [taken |-> {}, table |-> <<>>, pte |-> <<>>]
mark_inaccessible(m) == [m EXCEPT !.taken = 0 .. Inaccessible - 1]
VMPool(m)            == get_frame(m)

Init ==
    /\ mm = VMPool(VMPool(mark_inaccessible(PageTable)))
    /\ memory = [f \in Frames \cup {Phys0} |-> 0]
    /\ regions = [i \in Pools |-> <<>>]

(* The array of regions is reached by its physical address: the page of that*)
(* number is mapped, to another frame, when it is first used.               *)
array_page(i) == base_frame_no + Inaccessible + i - 1

EnoughFrames == "frames" \in Rules => Cardinality(Free(mm)) >= Reserve

\* The regions are handed out one behind the other.
MutantFirstFit(i) ==
    LET live == {r \in 1 .. Len(regions[i]) : regions[i][r].valid}
    IN  IF live = {} THEN Base[i]
        ELSE regions[i][Max(live)].start + regions[i][Max(live)].size
start_address(i) ==
    LET n == Len(regions[i])
    IN  IF n = 0 THEN Base[i] ELSE regions[i][n].start + regions[i][n].size

\* A request of size 0 returns 0 and changes nothing.
allocate(i, size) ==
    /\ EnoughFrames
    /\ Len(regions[1]) + Len(regions[2]) < MaxRegions
    /\ "inside" \in Rules => start_address(i) + size <= Base[i] + Size
    /\ mm' = access(mm, array_page(i))
    /\ regions' = [regions EXCEPT ![i] =
                     Append(@, [start |-> start_address(i), size |-> size,
                                valid |-> TRUE])]
    /\ UNCHANGED memory

\* The addresses free_page() is called with: one per full page of the size.
Released(r) == [j \in 1 .. r.size \div PG |-> r.start + (j - 1) * PG]

Freed(m, s) ==
    LET f[j \in 0 .. Len(s)] == IF j = 0 THEN m ELSE free_page(f[j - 1], s[j])
    IN  f[Len(s)]

Live(i) == {k \in 1 .. Len(regions[i]) : regions[i][k].valid}

Touched(r) == "touched" \in Rules =>
    \A j \in 1 .. Len(Released(r)) : Released(r)[j] \div PG \in DOMAIN mm.pte

release(i) == \E k \in Live(i) :
    /\ EnoughFrames
    /\ Touched(regions[i][k])
    /\ mm' = Freed(mm, Released(regions[i][k]))
    /\ regions' = [regions EXCEPT ![i][k].valid = FALSE]
    /\ UNCHANGED memory

\* is_legitimate() reads the array of regions.
is_legitimate(i) ==
    /\ EnoughFrames
    /\ mm' = access(mm, array_page(i))
    /\ UNCHANGED <<memory, regions>>

\* The client reads or writes at an address of a region it has been given.
PagesOf(r) == (r.start \div PG) .. ((r.start + r.size - 1) \div PG)
LivePages(i) == UNION {PagesOf(regions[i][k]) : k \in Live(i)}

read(i) == \E p \in LivePages(i) :
    /\ EnoughFrames
    /\ mm' = access(mm, p)
    /\ UNCHANGED <<memory, regions>>

write(i, v) == \E p \in LivePages(i) :
    /\ EnoughFrames
    /\ mm' = access(mm, p)
    /\ memory' = [memory EXCEPT ![mm'.pte[p]] = v]
    /\ UNCHANGED regions

\* The operators, with i for current_pool.
new(i, size) == allocate(i, size)
delete(i)    == release(i)

Next == \/ \E i \in Pools, size \in Sizes : new(i, size)
        \/ \E i \in Pools : delete(i)
        \/ \E i \in Pools : is_legitimate(i)
        \/ \E i \in Pools : read(i)
        \/ \E i \in Pools, v \in Values : write(i, v)

Spec == Init /\ [][Next]_vars

-----------------------------------------------------------------------------
(* No frame is behind two pages, or behind a page and a page table, and the *)
(* frames in use are marked: a fault never takes one away from another page.*)
FramesDistinct ==
    LET pages  == DOMAIN mm.pte
        tables == DOMAIN mm.table
    IN  /\ \A p, r \in pages : mm.pte[p] = mm.pte[r] => p = r
        /\ \A d, e \in tables : mm.table[d] = mm.table[e] => d = e
        /\ \A p \in pages, d \in tables : mm.pte[p] # mm.table[d]
        /\ {mm.pte[p] : p \in pages} \cup {mm.table[d] : d \in tables} \subseteq mm.taken

(* The addresses of two regions, of one pool or of two, released or not, are*)
(* different ones.                                                          *)
RegionsDisjoint ==
    \A i, j \in Pools : \A k \in 1 .. Len(regions[i]), l \in 1 .. Len(regions[j]) :
      LET r == regions[i][k]
          s == regions[j][l]
      IN  <<i, k>> # <<j, l>> => r.start + r.size <= s.start \/ s.start + s.size <= r.start

(* What makes it inductive: the regions of a pool lie within it, each behind *)
(* the ones handed out before.                                              *)
Region == [start : Nat, size : Sizes, valid : BOOLEAN]

RegionsOrdered ==
    /\ regions \in [Pools -> Seq(Region)]
    /\ \A i \in Pools : \A k \in 1 .. Len(regions[i]) :
         /\ Base[i] <= regions[i][k].start
         /\ regions[i][k].start + regions[i][k].size <= Base[i] + Size
    /\ \A i \in Pools : \A l \in 1 .. Len(regions[i]) : \A k \in 1 .. l - 1 :
         regions[i][k].start + regions[i][k].size <= regions[i][l].start

(* Virtual memory behaves like memory: a step changes what at most one page *)
(* holds, the one the client writes; no fault, no allocate and no release   *)
(* changes the content of a page of any region, and a page that is used for *)
(* the first time holds 0.  This is what GenerateMemoryReferences() tests.  *)
ClientPages == UNION {(Base[i] \div PG) .. ((Base[i] + Size - 1) \div PG) : i \in Pools}
content     == [p \in ClientPages |->
                  IF p \in DOMAIN mm.pte THEN memory[mm.pte[p]] ELSE 0]

MemoryHolds ==
    [][\/ content' = content
       \/ \E p \in ClientPages, v \in Values :
            content' = [content EXCEPT ![p] = v] /\ memory' # memory]_vars

(* What makes it inductive: nobody has written to a frame that is not taken. *)
FreshFrames == \A f \in Free(mm) : memory[f] = 0

IInv == TypeOK /\ FramesDistinct /\ RegionsOrdered /\ FreshFrames

(* The clients for which the pools keep what they promise.  A page that is  *)
(* used takes two frames at most, its own and its page table's, and so does *)
(* the release of a page, through the word of the bitmap it stores to.      *)
RulesKept ==
    /\ {"touched", "frames", "inside"} \subseteq Rules
    /\ Reserve \in Nat /\ Reserve >= 2
    /\ \A size \in Sizes : Reserve >= 2 * (size \div PG)
=============================================================================
