------------------------------ MODULE FileSystem ------------------------------
(***************************************************************************)
(* The file system of blocking-disk (file_system.H and file_system.C): one *)
(* superblock in block 0 with the file table, files as chains of blocks,   *)
(* and the free blocks as one more chain.  A block is P characters of data *)
(* and the number of the next block (508 and 4 bytes in the code).         *)
(*                                                                         *)
(* One client calls the operations one after the other, as the thread of   *)
(* exercise_file_system() would.  An iteration of the loop of Read,        *)
(* Rewrite or DeleteFile is a step, one of the loop of Write as many as    *)
(* there are writes to the disk in it; a for(;;) is the operation "hang".  *)
(*                                                                         *)
(* What the code does not defend itself against is left to the client: the *)
(* rules in Rules are those the client keeps.                              *)
(*   reset     Reset is called before Read or Write on a file that was not *)
(*             empty when it was opened                                    *)
(*   within    Read asks for no more than is left of the file              *)
(*   nonempty  Rewrite and DeleteFile are called for nonempty files only   *)
(*   alone     a file has one handle, and none when it is deleted          *)
(*   room      Write is called only with enough free blocks, and a file is *)
(*             created only when the table has a hole                      *)
(*   fresh     CreateFile is called for files that do not exist            *)
(***************************************************************************)
EXTENDS Integers, Sequences, FiniteSets, FiniteSetsExt

CONSTANTS
    NB,               \* blocks of the disk
    P,                \* characters in a block, 508 in the code
    FS_BLOCK_LENGTH,  \* blocks reserved for the file system
    MaxFiles,         \* entries of the file table, 40
    Unchecked,        \* CreateFile looks for the file unless more have been
                      \* created, 41
    Ids, Handles, Chars,
    MaxN,             \* bound: characters one call asks for
    MaxCreated,       \* bound: files ever created
    LookupMiss,       \* what LookupFile() can return without a return
    Rules

ASSUME SizesAssumption ==
    /\ NB \in Nat /\ FS_BLOCK_LENGTH \in 1 .. NB - 1 /\ P \in Nat \ {0}
    /\ MaxFiles \in Nat \ {0} /\ Unchecked \in Nat /\ MaxN \in Nat \ {0}
    /\ MaxCreated \in Nat
ASSUME NamesAssumption ==
    /\ Ids \subseteq Nat \ {0} /\ Handles \subseteq Nat \ {0} /\ Chars \subseteq Nat \ {0}
    /\ LookupMiss \subseteq BOOLEAN

Blocks     == 0 .. NB - 1
DataBlocks == FS_BLOCK_LENGTH .. NB - 1
Last       == -1                      \* last_block_limiter
Entries    == 1 .. MaxFiles
Blank      == [i \in 0 .. P - 1 |-> 0]

Hole   == [id |-> 0, size |-> 0, start |-> 0]
Closed == [id |-> 0, size |-> 0, start |-> 0, pos |-> 0, block |-> 0]
Idle   == [kind |-> "idle", h |-> 0, id |-> 0, n |-> 0, c |-> 0, block |-> Last]

VARIABLES
    disk,             \* per block, its data and its link
    super,            \* the superblock in block 0
    mounted,          \* a FileSystem object exists and is mounted
    free_block, number_of_files, file_data,    \* its members
    handle,           \* the File objects: id 0 where there is none
    op,               \* the operation in progress
    out               \* what the Read in progress has put into _buf

fs   == <<free_block, number_of_files, file_data>>
vars == <<disk, super, mounted, free_block, number_of_files, file_data,
          handle, op, out>>

TypeOK ==
    /\ disk \in [Blocks -> [data : [0 .. P - 1 -> Chars \cup {0}],
                            link : Blocks \cup {Last}]]
    /\ mounted \in BOOLEAN
    /\ free_block \in Blocks \cup {Last}
    /\ number_of_files \in 0 .. MaxCreated
    /\ \A e \in Entries : /\ file_data[e].id \in Ids \cup {0}
                          /\ file_data[e].size \in 0 .. P * NB
                          /\ file_data[e].start \in Blocks
    /\ \A h \in Handles : /\ handle[h].id \in Ids \cup {0}
                          /\ handle[h].size \in 0 .. P * NB
                          /\ handle[h].pos \in 0 .. handle[h].size
                          /\ handle[h].block \in Blocks
    /\ op.n \in 0 .. MaxN

-----------------------------------------------------------------------------
(* SimpleDisk: whole blocks, into a buffer and out of one.                  *)
read(d, b)         == d[b]
write(d, b, block) == [d EXCEPT ![b] = block]

(* Format(): the data blocks become one chain, the table is empty.          *)
formattedDisk ==
    [b \in Blocks |->
       [data |-> Blank,
        link |-> IF b < FS_BLOCK_LENGTH THEN 0
                 ELSE IF b < NB - 1 THEN b + 1 ELSE Last]]

formattedSuper == [free_block |-> FS_BLOCK_LENGTH, number_of_files |-> 0,
                   file_data |-> [e \in Entries |-> Hole]]

Init ==
    /\ disk = formattedDisk
    /\ super = formattedSuper
    /\ mounted = FALSE
    /\ free_block = 0
    /\ number_of_files = 0
    /\ file_data = [e \in Entries |-> Hole]
    /\ handle = [h \in Handles |-> Closed]
    /\ op = Idle
    /\ out = <<>>

Format ==
    /\ ~mounted
    /\ disk' = formattedDisk
    /\ super' = formattedSuper
    /\ UNCHANGED <<mounted, fs, handle, op, out>>

(* Mount() of a new FileSystem object loads the superblock, the destructor  *)
(* writes all of block 0.  What the block holds in between is out of date   *)
(* and read by nobody.                                                      *)
Stale == [free_block |-> Last, number_of_files |-> 0,
          file_data |-> [e \in Entries |-> Hole]]

Mount ==
    /\ ~mounted
    /\ mounted' = TRUE
    /\ free_block' = super.free_block
    /\ number_of_files' = super.number_of_files
    /\ file_data' = super.file_data
    /\ super' = Stale
    /\ UNCHANGED <<disk, handle, op, out>>

MutantNoTable == [free_block |-> free_block, number_of_files |-> number_of_files,
                  file_data |-> super.file_data]
flushed       == [free_block |-> free_block, number_of_files |-> number_of_files,
                  file_data |-> file_data]

Unmount ==
    /\ mounted /\ op = Idle /\ \A h \in Handles : handle[h].id = 0
    /\ mounted' = FALSE
    /\ super' = flushed
    /\ disk' = write(disk, 0, [data |-> Blank, link |-> 0])
    /\ free_block' = 0 /\ number_of_files' = 0
    /\ file_data' = [e \in Entries |-> Hole]
    /\ UNCHANGED <<handle, op, out>>

-----------------------------------------------------------------------------
(* The loops over the file table stop at the first entry that matches.      *)
EntriesOf(id) == {e \in Entries : file_data[e].id = id}
found(id)     == EntriesOf(id) # {}
entry(id)     == Min(EntriesOf(id))
Room          == "room" \in Rules => EntriesOf(0) # {}

exists(id) == number_of_files <= Unchecked /\ found(id)

(* CreateFile() for a file it does not find: it takes the first hole, and   *)
(* hangs if there is none.  number_of_files counts the files ever created.  *)
newEntry(id) ==
    /\ number_of_files < MaxCreated
    /\ file_data' = [file_data EXCEPT ![entry(0)] = [Hole EXCEPT !.id = id]]
    /\ number_of_files' = number_of_files + 1
    /\ UNCHANGED free_block

CreateFile(id) ==
    /\ mounted /\ op = Idle
    /\ "fresh" \in Rules => ~found(id)
    /\ Room
    /\ \/ exists(id) /\ UNCHANGED <<fs, op>>
       \/ ~exists(id) /\ found(0) /\ newEntry(id) /\ UNCHANGED op
       \/ /\ ~exists(id) /\ ~found(0)
          /\ op' = [Idle EXCEPT !.kind = "hang"]
          /\ UNCHANGED fs
    /\ UNCHANGED <<disk, super, mounted, handle, out>>

(* The constructor File(id).  LookupFile() returns nothing in particular    *)
(* for a file it does not find; where that happens to be TRUE, size and     *)
(* starting_block stay uninitialised and the file is not created.           *)
opened(id, size, start) ==
    [id |-> id, size |-> size, start |-> start, pos |-> 0, block |-> 0]

Open(h, id) ==
    /\ mounted /\ op = Idle /\ handle[h].id = 0
    /\ "alone" \in Rules => \A g \in Handles : handle[g].id # id
    /\ \/ /\ found(id)
          /\ handle' = [handle EXCEPT ![h] =
                          opened(id, file_data[entry(id)].size,
                                     file_data[entry(id)].start)]
          /\ UNCHANGED <<fs, op>>
       \/ /\ ~found(id) /\ TRUE \in LookupMiss
          /\ \E b \in DataBlocks : handle' = [handle EXCEPT ![h] = opened(id, P, b)]
          /\ UNCHANGED <<fs, op>>
       \/ /\ ~found(id) /\ FALSE \in LookupMiss /\ found(0)
          /\ newEntry(id)
          /\ handle' = [handle EXCEPT ![h] = opened(id, 0, 0)]
          /\ UNCHANGED op
       \/ /\ ~found(id) /\ FALSE \in LookupMiss /\ ~found(0) /\ Room
          /\ op' = [Idle EXCEPT !.kind = "hang"]
          /\ UNCHANGED <<fs, handle>>
    /\ UNCHANGED <<disk, super, mounted, out>>

(* A File object goes out of scope.                                         *)
Close(h) ==
    /\ op = Idle /\ handle[h].id # 0
    /\ handle' = [handle EXCEPT ![h] = Closed]
    /\ UNCHANGED <<disk, super, mounted, fs, op, out>>

-----------------------------------------------------------------------------
EoF(f) == f.size = f.pos

\* What has been read of the block ends at its end and at the end of the file.
Least(S) == Min(S)   \* "minimum of _n and available bytes"

(* The handle stands at the block of its position, which it does not after  *)
(* the constructor has opened a file that has blocks.                       *)
Positioned(f) == "reset" \in Rules => (f.start # 0 => f.block # 0)

(* Where the position is after k more characters: on the next block of the  *)
(* chain if this one is used up and the file goes on.                       *)
MutantStay(f, k, size, d) == [f EXCEPT !.size = size, !.pos = @ + k]
advanced(f, k, size, d) ==
    [f EXCEPT !.size = size, !.pos = @ + k,
              !.block = IF (f.pos + k) % P = 0 /\ size # f.pos + k
                          THEN read(d, @).link ELSE @]

StartRead(h, n) ==
    /\ mounted /\ op = Idle /\ handle[h].id # 0
    /\ ~EoF(handle[h]) /\ handle[h].size # 0
    /\ Positioned(handle[h])
    /\ "within" \in Rules => n <= handle[h].size - handle[h].pos
    /\ op' = [Idle EXCEPT !.kind = "read", !.h = h, !.n = n]
    /\ out' = <<>>
    /\ UNCHANGED <<disk, super, mounted, fs, handle>>

ReadStep ==
    LET f   == handle[op.h]
        off == f.pos % P
        k   == Least({op.n, P - off, f.size - f.pos})
    IN  /\ op.kind = "read" /\ op.n > 0
        /\ out' = out \o [i \in 1 .. k |-> read(disk, f.block).data[off + i - 1]]
        /\ handle' = [handle EXCEPT ![op.h] = advanced(f, k, f.size, disk)]
        /\ op' = [op EXCEPT !.n = @ - k]
        /\ UNCHANGED <<disk, super, mounted, fs>>

ReadReturns ==
    /\ op.kind = "read" /\ op.n = 0
    /\ op' = Idle
    /\ out' = <<>>
    /\ UNCHANGED <<disk, super, mounted, fs, handle>>

-----------------------------------------------------------------------------
(* The links that make up the chains.  A block that Write has linked to its *)
(* file and not written yet is the last of the file, though its own link    *)
(* still leads to the free blocks.                                          *)
chained == IF op.kind = "linked" THEN [disk EXCEPT ![op.block].link = Last] ELSE disk

\* The chain that starts at a block, by position; it stays at Last.
Walk(b) ==
    LET w[k \in 0 .. NB] ==
          IF k = 0 THEN b
          ELSE IF w[k - 1] = Last THEN Last ELSE chained[w[k - 1]].link
    IN  w
Chain(b)  == {Walk(b)[k] : k \in 0 .. NB} \ {Last}
BlocksFor(n) == (n + P - 1) \div P

StartWrite(h, n, c) ==
    /\ mounted /\ op = Idle /\ handle[h].id # 0
    /\ Positioned(handle[h])
    /\ "room" \in Rules =>
         BlocksFor(handle[h].pos + n) - BlocksFor(handle[h].size)
           <= Cardinality(Chain(free_block))
    /\ op' = [Idle EXCEPT !.kind = "write", !.h = h, !.n = n, !.c = c]
    /\ UNCHANGED <<disk, super, mounted, fs, handle, out>>

(* At the end of the file and of its last block Write takes the first free  *)
(* block and links it behind the current one, or to the handle if the file  *)
(* is empty.  Its second write ends the chain there and puts into the new   *)
(* block what temp_buf holds.                                               *)
Extends(f) == f.pos % P = 0 /\ EoF(f)

WriteLinks ==
    LET f == handle[op.h]
    IN  /\ op.kind = "write" /\ op.n > 0
        /\ Extends(f) /\ free_block # Last
        /\ disk' = IF f.block = 0 THEN disk
                   ELSE write(disk, f.block,
                              [read(disk, f.block) EXCEPT !.link = free_block])
        /\ handle' = IF f.block = 0 THEN [handle EXCEPT ![op.h].start = free_block]
                     ELSE handle
        /\ free_block' = read(disk, free_block).link
        /\ op' = [op EXCEPT !.kind = "linked", !.block = free_block]
        /\ UNCHANGED <<super, mounted, number_of_files, file_data, out>>

WriteEnds ==
    LET f        == handle[op.h]
        temp_buf == read(disk, IF f.block = 0 THEN op.block ELSE f.block)
    IN  /\ op.kind = "linked"
        /\ disk' = write(disk, op.block, [temp_buf EXCEPT !.link = Last])
        /\ handle' = [handle EXCEPT ![op.h].block = op.block]
        /\ op' = [op EXCEPT !.kind = "ended", !.block = Last]
        /\ UNCHANGED <<super, mounted, fs, out>>

written(d, b, off, k, c) ==
    LET temp_buf == read(d, b)
    IN  write(d, b, [temp_buf EXCEPT !.data =
                       [i \in 0 .. P - 1 |-> IF i \in off .. off + k - 1 THEN c ELSE @[i]]])

MutantSize(f, k) == f.size             \* the file never grows
newSize(f, k)    == IF k + f.pos > f.size THEN f.pos + k ELSE f.size

(* Then the handle is on the block that is written, as it is in the middle  *)
(* of a block.                                                              *)
WriteStep ==
    LET f   == handle[op.h]
        off == f.pos % P
        k   == Least({op.n, P - off})
        d   == written(disk, f.block, off, k, op.c)
    IN  /\ \/ op.kind = "write" /\ op.n > 0 /\ ~Extends(f)
           \/ op.kind = "ended"
        /\ disk' = d
        /\ handle' = [handle EXCEPT ![op.h] = advanced(f, k, newSize(f, k), d)]
        /\ op' = [op EXCEPT !.kind = "write", !.n = @ - k]
        /\ UNCHANGED <<super, mounted, fs, out>>

DiskFull ==
    /\ op.kind = "write" /\ op.n > 0
    /\ Extends(handle[op.h]) /\ free_block = Last
    /\ op' = [op EXCEPT !.kind = "hang"]
    /\ UNCHANGED <<disk, super, mounted, fs, handle, out>>

FlushFile(id, size, start) ==
    IF found(id)
      THEN [file_data EXCEPT ![entry(id)] = [id |-> id, size |-> size, start |-> start]]
      ELSE file_data

WriteReturns ==
    LET f == handle[op.h]
    IN  /\ op.kind = "write" /\ op.n = 0
        /\ file_data' = FlushFile(f.id, f.size, f.start)
        /\ op' = Idle
        /\ UNCHANGED <<disk, super, mounted, free_block, number_of_files, handle, out>>

-----------------------------------------------------------------------------
Reset(h) ==
    /\ mounted /\ op = Idle /\ handle[h].id # 0
    /\ handle' = [handle EXCEPT ![h].pos = 0, ![h].block = handle[h].start]
    /\ UNCHANGED <<disk, super, mounted, fs, op, out>>

(* Rewrite() and DeleteFile() push the blocks of the chain one by one on    *)
(* the free chain; op.block is the one that is next.                        *)
StartRewrite(h) ==
    /\ mounted /\ op = Idle /\ handle[h].id # 0
    /\ "nonempty" \in Rules => handle[h].start # 0
    /\ handle' = [handle EXCEPT ![h].pos = 0, ![h].block = 0]
    /\ op' = [Idle EXCEPT !.kind = "rewrite", !.h = h, !.id = handle[h].id,
                          !.block = handle[h].start]
    /\ UNCHANGED <<disk, super, mounted, fs, out>>

StartDelete(id) ==
    /\ mounted /\ op = Idle /\ found(id)
    /\ "nonempty" \in Rules => file_data[entry(id)].start # 0
    /\ "alone" \in Rules => \A h \in Handles : handle[h].id # id
    /\ op' = [Idle EXCEPT !.kind = "delete", !.id = id,
                          !.block = file_data[entry(id)].start]
    /\ UNCHANGED <<disk, super, mounted, fs, handle, out>>

MutantFreedLink(b) == disk[b].link      \* the block keeps its old link
freedLink(b)       == free_block

MutantNextFree == free_block            \* the link is read back too late
nextToFree     == read(disk, op.block).link

FreeStep ==
    /\ op.kind \in {"rewrite", "delete"} /\ op.block # Last
    /\ disk' = write(disk, op.block, [read(disk, op.block) EXCEPT !.link = freedLink(op.block)])
    /\ free_block' = op.block
    /\ op' = [op EXCEPT !.block = nextToFree]
    /\ UNCHANGED <<super, mounted, number_of_files, file_data, handle, out>>

RewriteReturns ==
    /\ op.kind = "rewrite" /\ op.block = Last
    /\ handle' = [handle EXCEPT ![op.h].start = 0, ![op.h].size = 0]
    /\ file_data' = FlushFile(op.id, 0, 0)
    /\ op' = Idle
    /\ UNCHANGED <<disk, super, mounted, free_block, number_of_files, out>>

DeleteReturns ==
    /\ op.kind = "delete" /\ op.block = Last
    /\ file_data' = [file_data EXCEPT ![entry(op.id)] = Hole]
    /\ op' = Idle
    /\ UNCHANGED <<disk, super, mounted, free_block, number_of_files, handle, out>>

-----------------------------------------------------------------------------
Call == \/ Format \/ Mount \/ Unmount
        \/ \E id \in Ids : CreateFile(id) \/ StartDelete(id)
        \/ \E h \in Handles, id \in Ids : Open(h, id)
        \/ \E h \in Handles : Close(h) \/ Reset(h) \/ StartRewrite(h)
        \/ \E h \in Handles, n \in 1 .. MaxN : StartRead(h, n)
        \/ \E h \in Handles, n \in 1 .. MaxN, c \in Chars : StartWrite(h, n, c)

Continue == \/ ReadStep \/ ReadReturns
            \/ WriteLinks \/ WriteEnds \/ WriteStep \/ DiskFull \/ WriteReturns
            \/ FreeStep \/ RewriteReturns \/ DeleteReturns

Next == Call \/ Continue

\* An operation that has been called goes on; nobody has to call one.
Fairness == WF_vars(Continue)

Safe == Init /\ [][Next]_vars
Spec == Safe /\ Fairness

-----------------------------------------------------------------------------
(* The size and the first block of an entry as the operation in progress    *)
(* has left them: Write keeps them in the handle until it returns, Rewrite  *)
(* and DeleteFile have taken the file apart up to op.block.                 *)
Growing     == op.kind \in {"linked", "ended"}
Writing(id) == /\ op.kind \in {"write", "hang"} \/ Growing
               /\ op.h # 0 /\ handle[op.h].id = id
Freeing(id) == op.kind \in {"rewrite", "delete"} /\ op.id = id

sizeOf(f)  == IF Writing(f.id) THEN handle[op.h].size ELSE f.size
startOf(f) == IF Writing(f.id) THEN handle[op.h].start ELSE f.start

\* The chains there are: the free one, and one per entry of the table.
headOf(e) ==
    IF e = 0 THEN free_block
    ELSE LET f == file_data[e]
         IN  IF f.id # 0 /\ Freeing(f.id) THEN op.block
             ELSE IF startOf(f) = 0 THEN Last ELSE startOf(f)

(* Every data block is in exactly one place, between any two writes to the  *)
(* disk: in the free chain or in the chain of one file, which is as long as *)
(* the file's size says, or by the block longer that Write is adding, and no*)
(* chain runs in a circle.  Until that block is written, the file runs on   *)
(* into the free blocks, and into nothing else.  At stake: the relinking of *)
(* Write, Rewrite, DeleteFile.                                              *)
BlocksAccounted == mounted =>
    LET chains == Entries \cup {0}
    IN  /\ \A e \in chains : Walk(headOf(e))[NB] = Last
        /\ \A e \in chains : \A g \in chains \ {e} :
              Chain(headOf(e)) \cap Chain(headOf(g)) = {}
        /\ UNION {Chain(headOf(e)) : e \in chains} = DataBlocks
        /\ \A e \in Entries : ~Freeing(file_data[e].id) =>
              Cardinality(Chain(headOf(e))) =
                BlocksFor(sizeOf(file_data[e]))
                  + (IF Growing /\ Writing(file_data[e].id) THEN 1 ELSE 0)
        /\ op.kind = "linked" => disk[op.block].link = free_block

(* A handle that has been positioned stands on the block its position is in,*)
(* or, at the end of a file that fills its last block, on that last block,  *)
(* where Write will look for the block to link a new one to, until it has   *)
(* ended the chain in the new one.                                          *)
HandleOnItsBlock ==
    \A h \in Handles :
      LET f == handle[h]
      IN  f.start # 0 /\ f.block # 0 =>
            f.block = Walk(f.start)[IF Extends(f) /\ ~(op.kind = "ended" /\ op.h = h)
                                      THEN f.pos \div P - 1 ELSE f.pos \div P]

(* The clients for which the blocks are accounted for, with a LookupFile()   *)
(* that says so when it does not find the file, and no more files created   *)
(* than CreateFile checks.                                                  *)
RulesKept ==
    /\ {"reset", "nonempty", "alone"} \subseteq Rules
    /\ "fresh" \in Rules \/ MaxCreated <= Unchecked + 1
    /\ TRUE \notin LookupMiss

(* Every operation the client calls returns.                                *)
OperationsReturn == op # Idle ~> op = Idle

-----------------------------------------------------------------------------
(* The file system implements FileStore.                                    *)
table     == IF mounted THEN file_data ELSE super.file_data
named(id) == {e \in Entries : table[e].id = id}

absContent == [id \in Ids |->
    IF named(id) = {} \/ (op.kind = "delete" /\ op.id = id) THEN <<-1>>
    ELSE IF Freeing(id) THEN <<>>
    ELSE LET f == table[Min(named(id))]
         IN  [i \in 1 .. sizeOf(f) |->
                disk[Walk(startOf(f))[(i - 1) \div P]].data[(i - 1) % P]]]
absHandle == [h \in Handles |-> [id |-> handle[h].id, pos |-> handle[h].pos]]

FS == INSTANCE FileStore WITH content <- absContent, handle <- absHandle,
                              online <- mounted, Longest <- P

(* What is read from a file is what was last written to it, for every       *)
(* interleaving of the operations of the handles, and across Unmount.       *)
ReadsWhatWasWritten == FS!Spec
=============================================================================
