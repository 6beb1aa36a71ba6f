------------------------------ MODULE FileStore ------------------------------
(***************************************************************************)
(* What the file system promises its clients: files are sequences of       *)
(* characters with an identifier, a handle has a current position, and     *)
(* there are no blocks.                                                    *)
(***************************************************************************)
EXTENDS Integers, Sequences

CONSTANTS Ids, Handles, Chars,
          Longest           \* characters a step may move at once

NoFile == 0                 \* the identifier of a closed handle
Absent == <<-1>>            \* the content of a file that does not exist

VARIABLES content,          \* per identifier, the characters of the file
          handle,           \* per handle, the file it is open on and where
          out,              \* the characters the current Read has returned
          online            \* the file system is mounted

vars == <<content, handle, out, online>>

Closed == [id |-> NoFile, pos |-> 0]

Init == /\ content = [i \in Ids |-> Absent]
        /\ handle = [h \in Handles |-> Closed]
        /\ out = <<>>
        /\ online = FALSE

Opened  == {h \in Handles : handle[h].id # NoFile}
File(h) == content[handle[h].id]

\* A file that does not exist comes into being, empty.
Created(id) == IF content[id] = Absent THEN [content EXCEPT ![id] = <<>>]
                                       ELSE content

Open(h, id) == /\ handle[h] = Closed
               /\ handle' = [handle EXCEPT ![h] = [id |-> id, pos |-> 0]]
               /\ content' = Created(id)
               /\ UNCHANGED <<out, online>>

Create(id) == /\ content' = Created(id)
              /\ UNCHANGED <<handle, out, online>>

Close(h) == /\ handle' = [handle EXCEPT ![h] = Closed]
            /\ UNCHANGED <<content, out, online>>

StartRead == out' = <<>> /\ UNCHANGED <<content, handle, online>>

\* Read returns the next k characters of the file.
Read(h, k) ==
    LET p == handle[h].pos
    IN  /\ p + k <= Len(File(h))
        /\ out' = out \o SubSeq(File(h), p + 1, p + k)
        /\ handle' = [handle EXCEPT ![h].pos = p + k]
        /\ UNCHANGED <<content, online>>

\* Write replaces the next k characters by c and extends the file as needed.
Write(h, k, c) ==
    LET p == handle[h].pos
        f == File(h)
    IN  /\ content' = [content EXCEPT ![handle[h].id] =
                         [i \in 1 .. IF p + k > Len(f) THEN p + k ELSE Len(f) |->
                            IF i \in p + 1 .. p + k THEN c ELSE f[i]]]
        /\ handle' = [handle EXCEPT ![h].pos = p + k]
        /\ UNCHANGED <<out, online>>

Reset(h) == /\ handle' = [handle EXCEPT ![h].pos = 0]
            /\ UNCHANGED <<content, out, online>>

Rewrite(h) == /\ content' = [content EXCEPT ![handle[h].id] = <<>>]
              /\ handle' = [handle EXCEPT ![h].pos = 0]
              /\ UNCHANGED <<out, online>>

Delete(id) == /\ online
              /\ content[id] # Absent
              /\ content' = [content EXCEPT ![id] = Absent]
              /\ UNCHANGED <<handle, out, online>>

\* Files survive Unmount and Mount; only an unmounted disk is formatted.
MountOrUnmount == /\ online' = ~online
                  /\ UNCHANGED <<content, handle, out>>

Format == /\ ~online
          /\ content' = [i \in Ids |-> Absent]
          /\ UNCHANGED <<handle, out, online>>

Next == \/ \E h \in Handles, id \in Ids : Open(h, id)
        \/ \E id \in Ids : Create(id) \/ Delete(id)
        \/ \E h \in Opened : Close(h) \/ Reset(h) \/ Rewrite(h)
        \/ StartRead
        \/ \E h \in Opened, k \in 1 .. Longest : Read(h, k)
        \/ \E h \in Opened, k \in 1 .. Longest, c \in Chars : Write(h, k, c)
        \/ MountOrUnmount
        \/ Format

Spec == Init /\ [][Next]_vars
=============================================================================
