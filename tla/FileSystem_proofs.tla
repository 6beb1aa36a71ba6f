------------------------- MODULE FileSystem_proofs -------------------------
(***************************************************************************)
(* The chains of blocks of the file system, for all sizes of disks, blocks *)
(* and tables, any number of files and handles, and calls in any order.    *)
(*                                                                         *)
(* What a reader of the code has in mind is a picture of the disk: the     *)
(* free blocks and the blocks of each file in a row each, every link       *)
(* leading to the next block of its row.  The invariant says that there is *)
(* such a picture (Layout): at[e][lo[e]], ..., at[e][hi[e]] are the blocks *)
(* of entry e, those of 0 the free ones.  A block changes places by a move *)
(* of lo or hi, so the steps that relink blocks (BlockPushed,              *)
(* BlockAppended) never have to rename the others, and where a handle      *)
(* stands is an index that no step of another handle moves.  The other     *)
(* parts of IInv relate the superblock, the table, the handles and the     *)
(* operation in progress, whose effects reach the table only when it       *)
(* returns.                                                                *)
(*                                                                         *)
(* A Write that takes a block does so with two writes of the disk, and in  *)
(* between them the rows overlap: the row of the file runs on into that of *)
(* the free blocks.  GInv is the invariant of these states, FInv == IInv   *)
(* \/ GInv that of all.                                                    *)
(*                                                                         *)
(* Walk, which follows the links, is a recursive function: WalkExists      *)
(* builds it by induction over the numbers, ChainIs reads the chain off    *)
(* the picture.                                                            *)
(*                                                                         *)
(* That the file system is a FileStore follows from the same picture.  The *)
(* content of a file is the characters along its row (Characters,          *)
(* ContentIs). A step that leaves the blocks of a file and its entry alone *)
(* leaves its content (ContentSame, by SameChain: chains with the same     *)
(* first block and the same links are the same); there remain a step of    *)
(* Read, which returns the next characters of the row, and one of Write,   *)
(* which writes into one block of the row or into a free one that it links *)
(* behind its end (CharactersWritten).                                     *)
(***************************************************************************)
EXTENDS FileSystem, FiniteSetTheorems, SequenceTheorems, WellFoundedInduction, TLAPS

\* A set of numbers that is not empty has a least element.
LEMMA LeastElement ==
    ASSUME NEW T \in SUBSET Nat, T # {}
    PROVE  \E x \in T : \A y \in T : x <= y
<1> DEFINE R == OpToRel(<, Nat)
<1>1. IsWellFoundedOn(R, Nat)
  BY NatLessThanWellFounded
<1>2. \A x, y \in Nat : <<x, y>> \in R <=> x < y
  BY DEF OpToRel
<1> HIDE DEF R
<1>3. PICK x \in T : \A y \in T : <<y, x>> \notin R
  BY <1>1, WFMin, Zenon
<1>4. ASSUME NEW y \in T PROVE x <= y
  <2>1. x \in Nat /\ y \in Nat
    OBVIOUS
  <2>2. ~(y < x)
    BY <1>2, <1>3, <2>1
  <2>. QED BY <2>1, <2>2
<1>. QED BY <1>4

\* A set that has 0, and with each number the next, has all of them: induction
\* in a form that takes a set and not a predicate.
LEMMA Induction ==
    ASSUME NEW S, 0 \in S, \A n \in Nat : n \in S => n + 1 \in S
    PROVE  Nat \subseteq S
<1> DEFINE T == Nat \ S
<1>1. SUFFICES ASSUME T # {} PROVE FALSE
  OBVIOUS
<1>2. PICK x \in T : \A y \in T : x <= y
  BY <1>1, LeastElement
<1>3. x \in Nat \ {0} /\ x - 1 \in Nat /\ x - 1 \notin T
  BY <1>2
<1>. QED BY <1>3

\* What is assumed of the constants.
LEMMA Sizes ==
    /\ NB \in Nat /\ FS_BLOCK_LENGTH \in 1 .. NB - 1 /\ P \in Nat \ {0} /\ P > 0
    /\ MaxFiles \in Nat \ {0} /\ MaxN \in Nat \ {0} /\ MaxCreated \in Nat /\ Unchecked \in Nat
    /\ Ids \subseteq Nat \ {0} /\ Handles \subseteq Nat \ {0} /\ Chars \subseteq Nat \ {0}
    /\ LookupMiss \subseteq BOOLEAN
BY SizesAssumption, NamesAssumption

\* Block a ends before a later block b starts.
LEMMA Monotone ==
    ASSUME NEW a \in Int, NEW b \in Int, a < b PROVE P * a + P <= P * b
<1>1. a + 1 <= b /\ P \in Nat
  BY Sizes
<1>2. P * (a + 1) <= P * b
  BY <1>1
<1>3. P * (a + 1) = P * a + P
  BY <1>1
<1>. QED BY <1>2, <1>3

\* A position is an offset in a block,
LEMMA DivMod ==
    ASSUME NEW x \in Nat
    PROVE  x \div P \in Nat /\ x % P \in 0 .. P - 1 /\ x = P * (x \div P) + (x % P)
BY Sizes

\* and in no other one.
LEMMA DivUnique ==
    ASSUME NEW x \in Nat, NEW q \in Int, NEW r \in 0 .. P - 1, x = P * q + r
    PROVE  x \div P = q /\ x % P = r
<1> DEFINE a == x \div P
           b == x % P
<1>1. a \in Nat /\ b \in 0 .. P - 1 /\ x = P * a + b /\ P \in Nat /\ P * a \in Int /\ P * q \in Int
  BY DivMod, Sizes
<1> HIDE DEF a, b
<1>2. ~(a < q)
  <2>1. SUFFICES ASSUME a < q PROVE FALSE
    OBVIOUS
  <2>2. P * a + P <= P * q
    BY <1>1, <2>1, Monotone
  <2>. QED BY <1>1, <2>2
<1>3. ~(q < a)
  <2>1. SUFFICES ASSUME q < a PROVE FALSE
    OBVIOUS
  <2>2. P * q + P <= P * a
    BY <1>1, <2>1, Monotone
  <2>. QED BY <1>1, <2>2
<1>4. a = q
  BY <1>1, <1>2, <1>3
<1>5. b = r
  BY <1>1, <1>4
<1>. QED BY <1>4, <1>5 DEF a, b

\* A file has the blocks its characters fill and the one they begin.
LEMMA BlocksForIs ==
    ASSUME NEW x \in Nat
    PROVE  /\ BlocksFor(x) = IF x % P = 0 THEN x \div P ELSE x \div P + 1
           /\ BlocksFor(x) \in Nat
           /\ BlocksFor(x) = 0 <=> x = 0
<1> DEFINE q == x \div P
           r == x % P
           y == x + P - 1
<1>1. q \in Nat /\ r \in 0 .. P - 1 /\ x = P * q + r /\ P \in Nat /\ P > 0 /\ P * q \in Int
  BY DivMod, Sizes
<1>2. y \in Nat
  BY <1>1
<1>3. BlocksFor(x) = y \div P
  BY DEF BlocksFor
<1> HIDE DEF q, r, y
<1>4. CASE r = 0
  <2>1. y = P * q + (P - 1) /\ P - 1 \in 0 .. P - 1
    BY <1>1, <1>4 DEF y
  <2>2. y \div P = q
    BY <1>1, <1>2, <2>1, DivUnique
  <2>3. q = 0 <=> x = 0
    <3>1. ASSUME 0 < q PROVE P * 0 + P <= P * q
      BY <1>1, <3>1, Monotone
    <3>. QED BY <1>1, <1>4, <3>1
  <2>. QED BY <1>1, <1>3, <1>4, <2>2, <2>3 DEF q, r
<1>5. CASE r # 0
  <2>1. P * (q + 1) = P * q + P
    BY <1>1
  <2>2. y = P * (q + 1) + (r - 1) /\ r - 1 \in 0 .. P - 1 /\ q + 1 \in Int
    BY <1>1, <1>5, <2>1 DEF y
  <2>3. y \div P = q + 1
    BY <1>2, <2>2, DivUnique
  <2>4. x # 0
    BY <1>1, <1>5, DivUnique DEF r
  <2>. QED BY <1>1, <1>3, <1>5, <2>3, <2>4 DEF q, r
<1>. QED BY <1>4, <1>5

\* The position after k more characters of the block.
LEMMA Advances ==
    ASSUME NEW x \in Nat, NEW k \in Nat, k <= P - (x % P), k > 0
    PROVE  IF k = P - (x % P)
             THEN (x + k) % P = 0 /\ (x + k) \div P = x \div P + 1
             ELSE (x + k) % P # 0 /\ (x + k) \div P = x \div P
<1> DEFINE q == x \div P
           r == x % P
<1>1. q \in Nat /\ r \in 0 .. P - 1 /\ x = P * q + r /\ P \in Nat /\ P > 0 /\ P * q \in Int
  BY DivMod, Sizes
<1> HIDE DEF q, r
<1>2. CASE k = P - r
  <2>1. P * (q + 1) = P * q + P
    BY <1>1
  <2>2. x + k = P * (q + 1) + 0 /\ 0 \in 0 .. P - 1 /\ q + 1 \in Int /\ x + k \in Nat
    BY <1>1, <1>2, <2>1
  <2>3. (x + k) % P = 0 /\ (x + k) \div P = q + 1
    BY <2>2, DivUnique
  <2>. QED BY <1>2, <2>3 DEF q, r
<1>3. CASE k # P - r
  <2>1. x + k = P * q + (r + k) /\ r + k \in 0 .. P - 1 /\ x + k \in Nat
    BY <1>1, <1>3 DEF r
  <2>2. (x + k) % P = r + k /\ (x + k) \div P = q
    BY <1>1, <2>1, DivUnique
  <2>. QED BY <1>1, <1>3, <2>1, <2>2 DEF q, r
<1>. QED BY <1>2, <1>3 DEF r

\* A position in front of another one is in no later block.
LEMMA BlockOfPosition ==
    ASSUME NEW x \in Nat, NEW y \in Nat, x < y \/ (x <= y /\ x % P # 0)
    PROVE  x \div P + 1 <= BlocksFor(y)
<1> DEFINE q == x \div P
           r == x % P
           s == y \div P
           t == y % P
<1>1. /\ q \in Nat /\ r \in 0 .. P - 1 /\ x = P * q + r /\ P * q \in Int
      /\ s \in Nat /\ t \in 0 .. P - 1 /\ y = P * s + t /\ P * s \in Int
      /\ P \in Nat /\ P > 0
  BY DivMod, Sizes
<1>2. BlocksFor(y) = IF t = 0 THEN s ELSE s + 1
  BY BlocksForIs
<1>3. x < y \/ (x <= y /\ r # 0)
  OBVIOUS
<1> HIDE DEF q, r, s, t
<1>4. ~(s < q)
  <2>1. SUFFICES ASSUME s < q PROVE FALSE
    OBVIOUS
  <2>2. P * s + P <= P * q
    BY <1>1, <2>1, Monotone
  <2>. QED BY <1>1, <1>3, <2>2
<1>5. ~(t = 0 /\ s = q)
  BY <1>1, <1>3
<1>6. q + 1 <= BlocksFor(y)
  BY <1>1, <1>2, <1>4, <1>5
<1>. QED BY <1>6 DEF q

\* A longer file has no fewer blocks.
LEMMA BlocksMonotone ==
    ASSUME NEW x \in Nat, NEW y \in Nat, x <= y
    PROVE  BlocksFor(x) <= BlocksFor(y)
<1>1. BlocksFor(x) \in Nat /\ BlocksFor(y) \in Nat /\ x \div P \in Nat
  BY BlocksForIs, DivMod
<1>2. CASE x = y
  BY <1>1, <1>2
<1>3. CASE x < y
  <2>1. x \div P + 1 <= BlocksFor(y)
    BY <1>3, BlockOfPosition
  <2>2. BlocksFor(x) = x \div P \/ BlocksFor(x) = x \div P + 1
    BY BlocksForIs
  <2> DEFINE q == x \div P
  <2>3. q \in Nat /\ q + 1 <= BlocksFor(y) /\ (BlocksFor(x) = q \/ BlocksFor(x) = q + 1)
    BY <1>1, <2>1, <2>2
  <2> HIDE DEF q
  <2>. QED BY <1>1, <2>3
<1>. QED BY <1>2, <1>3

\* Writing up to a place in the last block, or before it, takes no further block.
LEMMA BlocksEnough ==
    ASSUME NEW x \in Nat, NEW y \in Nat, NEW k \in Nat, k > 0, k <= P - (x % P),
           x < y \/ (x <= y /\ x % P # 0)
    PROVE  BlocksFor(IF k + x > y THEN x + k ELSE y) = BlocksFor(y)
<1>1. CASE ~(k + x > y)
  BY <1>1
<1>2. CASE k + x > y
  <2> DEFINE z == x + k
             q == x \div P
  <2>1. /\ q + 1 <= BlocksFor(y) /\ q \in Nat
        /\ BlocksFor(y) \in Nat /\ BlocksFor(z) \in Nat /\ z \in Nat
    <3>1. q + 1 <= BlocksFor(y)
      BY BlockOfPosition
    <3>2. q \in Nat /\ z \in Nat
      BY DivMod
    <3>. QED BY <3>1, <3>2, BlocksForIs
  <2>2. BlocksFor(z) = q + 1
    BY Advances, BlocksForIs, <2>1
  <2>3. BlocksFor(y) <= q + 1
    <3> DEFINE s == y \div P
               t == y % P
    <3>1. /\ s \in Nat /\ t \in 0 .. P - 1 /\ y = P * s + t /\ P * s \in Int /\ P \in Nat
          /\ P * q \in Int
      BY <2>1, DivMod, Sizes
    <3>2. BlocksFor(y) = IF t = 0 THEN s ELSE s + 1
      BY BlocksForIs
    <3>3. x = P * q + (x % P) /\ x % P \in 0 .. P - 1
      BY DivMod
    <3>4. y < P * q + P
      BY <1>2, <2>1, <3>1, <3>3
    <3> HIDE DEF s, t, q, z
    <3>5. ~(q < s)
      <4>1. SUFFICES ASSUME q < s PROVE FALSE
        OBVIOUS
      <4>2. P * q + P <= P * s
        BY <2>1, <3>1, <4>1, Monotone
      <4>. QED BY <3>1, <3>4, <4>2
    <3>. QED BY <2>1, <3>1, <3>2, <3>5
  <2> HIDE DEF q, z
  <2>4. BlocksFor(z) = BlocksFor(y)
    BY <2>1, <2>2, <2>3
  <2>. QED BY <1>2, <2>4 DEF z
<1>. QED BY <1>1, <1>2

\* and into a new block, one.
LEMMA OneBlockMore ==
    ASSUME NEW x \in Nat, x % P = 0, NEW k \in Nat, k > 0, k <= P
    PROVE  BlocksFor(x + k) = BlocksFor(x) + 1 /\ BlocksFor(x) = x \div P
<1>1. k <= P - (x % P) /\ x + k \in Nat /\ x \div P \in Nat
  BY DivMod, Sizes
<1>2. BlocksFor(x) = x \div P
  BY BlocksForIs
<1>3. BlocksFor(x + k) = x \div P + 1
  BY <1>1, Advances, BlocksForIs
<1>. QED BY <1>2, <1>3

-----------------------------------------------------------------------------
(* The chains as they lie on the disk: that of e is at[e][lo[e]], ...,      *)
(* at[e][hi[e]], with Last behind its end; chain 0 is the free one.  A block*)
(* that leaves a chain or joins one moves a bound and no other block.       *)
Chains == Entries \cup {0}

Laid(at, lo, hi) ==
    /\ lo \in [Chains -> Int] /\ hi \in [Chains -> Int]
    /\ \A e \in Chains : lo[e] <= hi[e] + 1 /\ at[e][hi[e] + 1] = Last
    /\ \A e \in Chains : \A i \in lo[e] .. hi[e] : at[e][i] \in DataBlocks
    /\ \A e, g \in Chains : \A i \in lo[e] .. hi[e], j \in lo[g] .. hi[g] :
         at[e][i] = at[g][j] => e = g /\ i = j
    /\ \A b \in DataBlocks : \E e \in Chains : \E i \in lo[e] .. hi[e] : at[e][i] = b

Followed(at, lo, hi, d) ==
    \A e \in Chains : \A i \in lo[e] .. hi[e] : d[at[e][i]].link = at[e][i + 1]

\* The first block of a file moves to the front of the free chain.
Pushed(at, lo, hi, d, d2, e, b) ==
    \E at2, lo2 :
      /\ Laid(at2, lo2, hi) /\ Followed(at2, lo2, hi, d2)
      /\ at2[0][lo2[0]] = b /\ at2[e][lo2[e]] = d[b].link
      /\ \A g \in Entries : \A i \in Int : at2[g][i] = at[g][i]
      /\ \A g \in Entries \ {e} : lo2[g] = lo[g]

\* Rewrite and DeleteFile: no block is lost when the chain's first one is freed.
LEMMA BlockPushed ==
    ASSUME NEW at, NEW lo, NEW hi, NEW d, NEW d2, Laid(at, lo, hi), Followed(at, lo, hi, d),
           NEW e \in Entries, NEW b, b = at[e][lo[e]], b # Last,
           d2[b].link = at[0][lo[0]],
           \A c \in DataBlocks \ {b} : d2[c].link = d[c].link
    PROVE  Pushed(at, lo, hi, d, d2, e, b)
<1> DEFINE at2 == [g \in Chains |-> [i \in Int |->
                    IF g = 0 /\ i = lo[0] - 1 THEN b ELSE at[g][i]]]
           lo2 == [lo EXCEPT ![0] = @ - 1, ![e] = @ + 1]
<1>0. \A f, g \in Chains : \A i \in lo[f] .. hi[f], j \in lo[g] .. hi[g] :
        at[f][i] = at[g][j] => f = g /\ i = j
  BY DEF Laid
<1>1. /\ e \in Chains /\ 0 \in Chains /\ e # 0 /\ lo[0] \in Int /\ lo[e] \in Int
      /\ \A g \in Chains : lo[g] \in Int /\ hi[g] \in Int
  BY DEF Chains, Entries, Laid
<1>2. lo[e] <= hi[e]
  BY <1>1 DEF Laid
<1>3. b \in DataBlocks
  BY <1>1, <1>2 DEF Laid
<1>4. /\ lo2 \in [Chains -> Int] /\ lo2[0] = lo[0] - 1 /\ lo2[e] = lo[e] + 1
      /\ \A g \in Chains \ {0, e} : lo2[g] = lo[g]
  BY <1>1 DEF Laid
<1>5. /\ at2[0][lo[0] - 1] = b
      /\ \A g \in Chains : \A i \in Int : ~(g = 0 /\ i = lo[0] - 1) => at2[g][i] = at[g][i]
  BY <1>1
<1>6. \A g \in Entries : \A i \in Int : at2[g][i] = at[g][i]
  <2>1. \A g \in Entries : g \in Chains /\ g # 0
    BY DEF Chains, Entries
  <2>. QED BY <2>1
<1> HIDE DEF at2, lo2
<1>7. ASSUME NEW g \in Chains, NEW i \in lo2[g] .. hi[g]
      PROVE  /\ i \in Int
             /\ \/ g = 0 /\ i = lo[0] - 1 /\ at2[g][i] = b
                \/ i \in lo[g] .. hi[g] /\ at2[g][i] = at[g][i] /\ (g = e => i # lo[e])
  BY <1>1, <1>4, <1>5
<1>8. /\ \A g \in Chains : lo2[g] <= hi[g] + 1 /\ at2[g][hi[g] + 1] = Last
  BY SMTT(30), <1>1, <1>2, <1>4, <1>5 DEF Laid
<1>9. \A g \in Chains : \A i \in lo2[g] .. hi[g] : at2[g][i] \in DataBlocks
  BY <1>3, <1>7 DEF Laid
<1>10. lo[e] \in lo[e] .. hi[e]
  BY <1>1, <1>2
<1>11. \A g \in Chains : \A i \in lo[g] .. hi[g] : at[g][i] = b => g = e /\ i = lo[e]
  BY <1>1, <1>10 DEF Laid
<1>12. ASSUME NEW f \in Chains, NEW g \in Chains, NEW i \in lo2[f] .. hi[f], NEW j \in lo2[g] .. hi[g],
              at2[f][i] = at2[g][j]
       PROVE  f = g /\ i = j
  <2>1. CASE f = 0 /\ i = lo[0] - 1
    BY <1>1, <1>5, <1>7, <1>11, <1>12, <2>1
  <2>2. CASE g = 0 /\ j = lo[0] - 1
    BY <1>1, <1>5, <1>7, <1>11, <1>12, <2>2
  <2>3. CASE ~(f = 0 /\ i = lo[0] - 1) /\ ~(g = 0 /\ j = lo[0] - 1)
    <3>1. /\ i \in lo[f] .. hi[f] /\ at2[f][i] = at[f][i]
          /\ j \in lo[g] .. hi[g] /\ at2[g][j] = at[g][j]
      BY <1>7, <2>3
    <3>2. at[f][i] = at[g][j]
      BY <1>12, <3>1
    <3>. QED BY <1>0, <3>1, <3>2
  <2>. QED BY <2>1, <2>2, <2>3
<1>13. ASSUME NEW c \in DataBlocks
       PROVE  \E g \in Chains : \E i \in lo2[g] .. hi[g] : at2[g][i] = c
  <2>1. CASE c = b
    <3>1. lo[0] - 1 \in lo2[0] .. hi[0]
      BY <1>1, <1>4 DEF Laid
    <3>. QED BY <1>1, <1>5, <2>1, <3>1
  <2>2. CASE c # b
    <3>0. PICK g \in Chains : \E i \in lo[g] .. hi[g] : at[g][i] = c
      BY DEF Laid
    <3>1. PICK i \in lo[g] .. hi[g] : at[g][i] = c
      BY <3>0
    <3>2. ~(g = e /\ i = lo[e])
      BY <2>2, <3>1
    <3>3. i \in lo2[g] .. hi[g] /\ at2[g][i] = at[g][i]
      BY <1>1, <1>4, <1>5, <3>1, <3>2
    <3>. QED BY <3>1, <3>3
  <2>. QED BY <2>1, <2>2
<1>14. Laid(at2, lo2, hi)
  BY <1>4, <1>8, <1>9, <1>12, <1>13 DEF Laid
<1>15. ASSUME NEW g \in Chains, NEW i \in lo2[g] .. hi[g]
       PROVE  d2[at2[g][i]].link = at2[g][i + 1]
  <2>1. CASE g = 0 /\ i = lo[0] - 1
    <3>1. (lo[0] - 1) + 1 = lo[0] /\ lo[0] # lo[0] - 1
      BY <1>1
    <3>. QED BY <1>1, <1>5, <2>1, <3>1
  <2>2. CASE ~(g = 0 /\ i = lo[0] - 1)
    <3>1. i \in lo[g] .. hi[g] /\ at2[g][i] = at[g][i] /\ (g = e => i # lo[e])
      BY <1>7, <2>2
    <3>2. at[g][i] # b /\ at[g][i] \in DataBlocks
      BY <1>11, <3>1 DEF Laid
    <3>3. d2[at[g][i]].link = at[g][i + 1]
      BY <3>1, <3>2 DEF Followed
    <3>4. i + 1 \in Int /\ (g = 0 => i + 1 # lo[0] - 1)
      BY <1>1, <3>1
    <3>5. at2[g][i + 1] = at[g][i + 1]
      BY <1>5, <3>4
    <3>. QED BY <3>1, <3>3, <3>5
  <2>. QED BY <2>1, <2>2
<1>16. Followed(at2, lo2, hi, d2)
  BY <1>15 DEF Followed
<1>17. at2[e][lo2[e]] = d[b].link
  <2>1. d[at[e][lo[e]]].link = at[e][lo[e] + 1]
    BY <1>1, <1>10 DEF Followed
  <2>2. at2[e][lo[e] + 1] = at[e][lo[e] + 1]
    BY <1>1, <1>5
  <2>. QED BY <1>4, <2>1, <2>2
<1>18. at2[0][lo2[0]] = b
  BY <1>4, <1>5
<1>19. \A g \in Entries \ {e} : lo2[g] = lo[g]
  BY <1>4 DEF Chains, Entries
<1>. QED BY <1>6, <1>14, <1>16, <1>17, <1>18, <1>19 DEF Pushed

\* The first free block moves to the end of a file.
Appended(at, lo, hi, d, d2, e, b) ==
    \E at2, lo2, hi2 :
      /\ Laid(at2, lo2, hi2) /\ Followed(at2, lo2, hi2, d2)
      /\ at2[0][lo2[0]] = d[b].link /\ at2[e][hi[e] + 1] = b
      /\ hi2[e] = hi[e] + 1
      /\ \A i \in lo[e] .. hi[e] : at2[e][i] = at[e][i]
      /\ \A g \in Entries : lo2[g] = lo[g]
      /\ \A g \in Entries \ {e} : /\ hi2[g] = hi[g]
                                  /\ \A i \in Int : at2[g][i] = at[g][i]

\* Write: nor when the file takes one.
LEMMA BlockAppended ==
    ASSUME NEW at, NEW lo, NEW hi, NEW d, NEW d2, Laid(at, lo, hi), Followed(at, lo, hi, d),
           NEW e \in Entries, NEW b, b = at[0][lo[0]], b # Last,
           d2[b].link = Last,
           lo[e] <= hi[e] => d2[at[e][hi[e]]].link = b,
           \A c \in DataBlocks : c # b /\ ~(lo[e] <= hi[e] /\ c = at[e][hi[e]])
                                   => d2[c].link = d[c].link
    PROVE  Appended(at, lo, hi, d, d2, e, b)
<1> DEFINE at2 == [g \in Chains |-> [i \in Int |->
                    IF g = e /\ i = hi[e] + 1 THEN b
                    ELSE IF g = e /\ i = hi[e] + 2 THEN Last ELSE at[g][i]]]
           lo2 == [lo EXCEPT ![0] = @ + 1]
           hi2 == [hi EXCEPT ![e] = @ + 1]
<1>0. \A f, g \in Chains : \A i \in lo[f] .. hi[f], j \in lo[g] .. hi[g] :
        at[f][i] = at[g][j] => f = g /\ i = j
  BY DEF Laid
<1>1. /\ e \in Chains /\ 0 \in Chains /\ e # 0 /\ lo[0] \in Int /\ lo[e] \in Int /\ hi[e] \in Int
      /\ \A g \in Chains : lo[g] \in Int /\ hi[g] \in Int
      /\ \A g \in Entries : g \in Chains /\ g # 0
  BY DEF Chains, Entries, Laid
<1>2. lo[0] <= hi[0] /\ lo[0] \in lo[0] .. hi[0]
  BY <1>1 DEF Laid
<1>3. b \in DataBlocks
  BY <1>1, <1>2 DEF Laid
<1>4. /\ lo2 \in [Chains -> Int] /\ lo2[0] = lo[0] + 1
      /\ \A g \in Chains \ {0} : lo2[g] = lo[g]
      /\ hi2 \in [Chains -> Int] /\ hi2[e] = hi[e] + 1
      /\ \A g \in Chains \ {e} : hi2[g] = hi[g]
  BY <1>1 DEF Laid
<1>5. /\ at2[e][hi[e] + 1] = b /\ at2[e][hi[e] + 2] = Last
      /\ \A g \in Chains : \A i \in Int :
           ~(g = e /\ i \in {hi[e] + 1, hi[e] + 2}) => at2[g][i] = at[g][i]
  BY <1>1
<1>6. \A g \in Entries \ {e} : \A i \in Int : at2[g][i] = at[g][i]
  BY <1>1
<1> HIDE DEF at2, lo2, hi2
<1>7. ASSUME NEW g \in Chains, NEW i \in lo2[g] .. hi2[g]
      PROVE  /\ i \in Int
             /\ \/ g = e /\ i = hi[e] + 1 /\ at2[g][i] = b
                \/ i \in lo[g] .. hi[g] /\ at2[g][i] = at[g][i] /\ (g = 0 => i # lo[0])
  BY <1>1, <1>4, <1>5
<1>8. ASSUME NEW g \in Chains PROVE lo2[g] <= hi2[g] + 1 /\ at2[g][hi2[g] + 1] = Last
  <2>1. CASE g = e
    <3>1. (hi[e] + 1) + 1 = hi[e] + 2 /\ lo[e] <= hi[e] + 2
      BY <1>1 DEF Laid
    <3>. QED BY <1>1, <1>4, <1>5, <2>1, <3>1
  <2>2. CASE g # e
    BY SMTT(30), <1>1, <1>2, <1>4, <1>5, <2>2 DEF Laid
  <2>. QED BY <2>1, <2>2
<1>9. ASSUME NEW g \in Chains, NEW i \in lo2[g] .. hi2[g] PROVE at2[g][i] \in DataBlocks
  <2>1. CASE g = e /\ i = hi[e] + 1
    BY <1>3, <1>5, <2>1
  <2>2. CASE ~(g = e /\ i = hi[e] + 1)
    <3>1. i \in lo[g] .. hi[g] /\ at2[g][i] = at[g][i]
      BY <1>7, <2>2
    <3>. QED BY <3>1 DEF Laid
  <2>. QED BY <2>1, <2>2
<1>11. \A g \in Chains : \A i \in lo[g] .. hi[g] : at[g][i] = b => g = 0 /\ i = lo[0]
  BY <1>1, <1>2 DEF Laid
<1>12. ASSUME NEW f \in Chains, NEW g \in Chains,
              NEW i \in lo2[f] .. hi2[f], NEW j \in lo2[g] .. hi2[g],
              at2[f][i] = at2[g][j]
       PROVE  f = g /\ i = j
  <2>1. CASE f = e /\ i = hi[e] + 1
    BY <1>1, <1>5, <1>7, <1>11, <1>12, <2>1
  <2>2. CASE g = e /\ j = hi[e] + 1
    BY <1>1, <1>5, <1>7, <1>11, <1>12, <2>2
  <2>3. CASE ~(f = e /\ i = hi[e] + 1) /\ ~(g = e /\ j = hi[e] + 1)
    <3>1. /\ i \in lo[f] .. hi[f] /\ at2[f][i] = at[f][i]
          /\ j \in lo[g] .. hi[g] /\ at2[g][j] = at[g][j]
      BY <1>7, <2>3
    <3>2. at[f][i] = at[g][j]
      BY <1>12, <3>1
    <3>. QED BY <1>0, <3>1, <3>2
  <2>. QED BY <2>1, <2>2, <2>3
<1>13. ASSUME NEW c \in DataBlocks
       PROVE  \E g \in Chains : \E i \in lo2[g] .. hi2[g] : at2[g][i] = c
  <2>1. CASE c = b
    <3>1. hi[e] + 1 \in lo2[e] .. hi2[e]
      BY <1>1, <1>4 DEF Laid
    <3>. QED BY <1>1, <1>5, <2>1, <3>1
  <2>2. CASE c # b
    <3>0. PICK g \in Chains : \E i \in lo[g] .. hi[g] : at[g][i] = c
      BY DEF Laid
    <3>1. PICK i \in lo[g] .. hi[g] : at[g][i] = c
      BY <3>0
    <3>2. ~(g = 0 /\ i = lo[0])
      BY <2>2, <3>1
    <3>3. i \in Int /\ lo[g] <= i /\ i <= hi[g] /\ (g = 0 => lo[0] + 1 <= i)
      BY <1>1, <3>1, <3>2
    <3>4. i \in lo2[g] .. hi2[g]
      <4>1. CASE g = 0
        BY <1>1, <1>4, <3>3, <4>1
      <4>2. CASE g # 0
        BY <1>1, <1>4, <3>3, <4>2
      <4>. QED BY <4>1, <4>2
    <3>5. at2[g][i] = at[g][i]
      BY <1>1, <1>5, <3>3
    <3>. QED BY <3>1, <3>4, <3>5
  <2>. QED BY <2>1, <2>2
<1>14. Laid(at2, lo2, hi2)
  BY <1>4, <1>8, <1>9, <1>12, <1>13 DEF Laid
<1>15. ASSUME NEW g \in Chains, NEW i \in lo2[g] .. hi2[g]
       PROVE  d2[at2[g][i]].link = at2[g][i + 1]
  <2>1. CASE g = e /\ i = hi[e] + 1
    <3>1. (hi[e] + 1) + 1 = hi[e] + 2
      BY <1>1
    <3>. QED BY <1>5, <2>1, <3>1
  <2>2. CASE g = e /\ i # hi[e] + 1 /\ i = hi[e]
    <3>1. i \in lo[e] .. hi[e] /\ at2[e][i] = at[e][i]
      BY <1>7, <2>2
    <3>2. lo[e] <= hi[e]
      BY <1>1, <3>1
    <3>. QED BY <1>5, <2>2, <3>1, <3>2
  <2>3. CASE ~(g = e /\ i \in {hi[e], hi[e] + 1})
    <3>1. i \in lo[g] .. hi[g] /\ at2[g][i] = at[g][i] /\ (g = 0 => i # lo[0])
      BY <1>7, <2>3
    <3>2. at[g][i] # b /\ at[g][i] \in DataBlocks
      BY <1>11, <3>1 DEF Laid
    <3>3. ~(lo[e] <= hi[e] /\ at[g][i] = at[e][hi[e]])
      <4>1. SUFFICES ASSUME lo[e] <= hi[e], at[g][i] = at[e][hi[e]] PROVE FALSE
        OBVIOUS
      <4>2. hi[e] \in lo[e] .. hi[e]
        BY <1>1, <4>1
      <4>3. g = e /\ i = hi[e]
        BY <1>1, <3>1, <4>1, <4>2 DEF Laid
      <4>. QED BY <2>3, <4>3
    <3>4. d2[at[g][i]].link = at[g][i + 1]
      BY <3>1, <3>2, <3>3 DEF Followed
    <3>5. i + 1 \in Int /\ ~(g = e /\ i + 1 \in {hi[e] + 1, hi[e] + 2})
      BY <1>1, <2>3, <3>1
    <3>6. at2[g][i + 1] = at[g][i + 1]
      BY <1>5, <3>5
    <3>. QED BY <3>1, <3>4, <3>6
  <2>. QED BY <2>1, <2>2, <2>3
<1>16. Followed(at2, lo2, hi2, d2)
  BY <1>15 DEF Followed
<1>17. at2[0][lo2[0]] = d[b].link
  <2>1. d[at[0][lo[0]]].link = at[0][lo[0] + 1]
    BY <1>1, <1>2 DEF Followed
  <2>2. at2[0][lo[0] + 1] = at[0][lo[0] + 1]
    BY <1>1, <1>5
  <2>. QED BY <1>4, <2>1, <2>2
<1>18. \A i \in lo[e] .. hi[e] : at2[e][i] = at[e][i]
  BY <1>1, <1>5
<1>19. \A g \in Entries : lo2[g] = lo[g] /\ (g # e => hi2[g] = hi[g])
  BY <1>1, <1>4
<1>. QED BY <1>4, <1>5, <1>6, <1>14, <1>16, <1>17, <1>18, <1>19 DEF Appended

-----------------------------------------------------------------------------
\* The blocks of a chain are as many as its positions, and fewer than NB.
LEMMA ChainBlocks ==
    ASSUME NEW at, NEW lo, NEW hi, Laid(at, lo, hi), NEW e \in Chains
    PROVE  /\ Cardinality({at[e][i] : i \in lo[e] .. hi[e]}) = hi[e] - lo[e] + 1
           /\ {at[e][i] : i \in lo[e] .. hi[e]} \subseteq DataBlocks
           /\ hi[e] - lo[e] + 1 \in 0 .. NB - 1
<1> DEFINE I == lo[e] .. hi[e]
           S == {at[e][i] : i \in I}
           f == [i \in I |-> at[e][i]]
<1>1. lo[e] \in Int /\ hi[e] \in Int /\ lo[e] <= hi[e] + 1
  BY DEF Laid
<1>2. f \in Bijection(I, S)
  <2>1. \A i, j \in I : at[e][i] = at[e][j] => i = j
    BY DEF Laid
  <2>2. f \in [I -> S] /\ \A i \in I : f[i] = at[e][i]
    OBVIOUS
  <2>3. \A s \in S : \E i \in I : f[i] = s
    OBVIOUS
  <2> HIDE DEF f, I
  <2>. QED BY <2>1, <2>2, <2>3 DEF Bijection, Injection, Surjection, IsInjective
<1>3. IsFiniteSet(I) /\ Cardinality(I) = hi[e] - lo[e] + 1
  <2>1. hi[e] - lo[e] + 1 = IF lo[e] > hi[e] THEN 0 ELSE hi[e] - lo[e] + 1
    BY <1>1
  <2>. QED BY <1>1, <2>1, FS_Interval
<1>4. S \subseteq DataBlocks
  BY DEF Laid
<1> HIDE DEF I, S, f
<1>5. IsFiniteSet(S) /\ Cardinality(S) = Cardinality(I)
  BY <1>2, <1>3, FS_Bijection DEF ExistsBijection
<1>6. IsFiniteSet(DataBlocks) /\ Cardinality(DataBlocks) = NB - FS_BLOCK_LENGTH
  <2>1. FS_BLOCK_LENGTH \in Int /\ NB - 1 \in Int /\ ~(FS_BLOCK_LENGTH > NB - 1)
        /\ (NB - 1) - FS_BLOCK_LENGTH + 1 = NB - FS_BLOCK_LENGTH
    BY Sizes
  <2>. QED BY <2>1, FS_Interval DEF DataBlocks
<1>7. Cardinality(S) <= NB - FS_BLOCK_LENGTH
  BY <1>4, <1>6, FS_Subset
<1>. QED BY <1>1, <1>3, <1>4, <1>5, <1>7, Sizes DEF I, S

-----------------------------------------------------------------------------
\* The function Walk(b) exists.
LEMMA WalkExists ==
    ASSUME NEW b
    PROVE  Walk(b) = [k \in 0 .. NB |->
                        IF k = 0 THEN b
                        ELSE IF Walk(b)[k - 1] = Last THEN Last ELSE chained[Walk(b)[k - 1]].link]
<1> DEFINE Next1(x) == IF x = Last THEN Last ELSE chained[x].link
           Step(h, n) == [k \in 0 .. n |-> IF k = 0 THEN b ELSE Next1(h[k - 1])]
           Built == {n \in Nat : \E h : h = Step(h, n)}
<1>1. 0 \in Built
  <2> DEFINE h == [j \in {0} |-> b]
  <2>1. 0 .. 0 = {0}
    OBVIOUS
  <2>2. h = Step(h, 0)
    BY <2>1
  <2>. QED BY <2>2
<1>2. ASSUME NEW n \in Nat, n \in Built PROVE n + 1 \in Built
  <2>1. PICK h : h = Step(h, n)
    BY <1>2
  <2> DEFINE g == [j \in 0 .. n + 1 |-> IF j = n + 1 THEN Next1(h[n]) ELSE h[j]]
  <2>2. \A j \in 0 .. n : g[j] = h[j]
    OBVIOUS
  <2>3. \A j \in 0 .. n + 1 : g[j] = IF j = 0 THEN b ELSE Next1(g[j - 1])
    <3>1. ASSUME NEW j \in 0 .. n PROVE g[j] = IF j = 0 THEN b ELSE Next1(g[j - 1])
      <4>1. h[j] = IF j = 0 THEN b ELSE Next1(h[j - 1])
        BY <2>1
      <4>. QED BY <2>2, <4>1
    <3>2. g[n + 1] = Next1(g[n])
      BY <2>2
    <3>3. \A j \in 0 .. n + 1 : j \in 0 .. n \/ j = n + 1
      OBVIOUS
    <3>4. n + 1 # 0 /\ (n + 1) - 1 = n
      OBVIOUS
    <3> HIDE DEF g, Next1
    <3>. QED BY <3>1, <3>2, <3>3, <3>4
  <2>4. g = Step(g, n + 1)
    BY <2>3
  <2>5. n + 1 \in Nat
    OBVIOUS
  <2> HIDE DEF g, Step
  <2>. QED BY <2>4, <2>5
<1>3. NB \in Built
  <2> HIDE DEF Built
  <2>. QED BY <1>1, <1>2, Induction, Sizes
<1>4. PICK h : h = Step(h, NB)
  BY <1>3
<1> DEFINE w == CHOOSE x : x = Step(x, NB)
<1>5. w = Step(w, NB)
  BY <1>4
<1>6. Walk(b) = w
  BY DEF Walk
<1>. QED BY <1>5, <1>6

\* Walking from the first block of a chain is going through its positions.
LEMMA WalkFollows ==
    ASSUME NEW at, NEW lo, NEW hi, Laid(at, lo, hi), Followed(at, lo, hi, chained), NEW e \in Chains
    PROVE  \A k \in 0 .. NB : Walk(at[e][lo[e]])[k] =
             IF lo[e] + k <= hi[e] THEN at[e][lo[e] + k] ELSE Last
<1> DEFINE b == at[e][lo[e]]
           at_(k) == IF lo[e] + k <= hi[e] THEN at[e][lo[e] + k] ELSE Last
           G == {k \in Nat : k <= NB => Walk(b)[k] = at_(k)}
<1>1. /\ lo[e] \in Int /\ hi[e] \in Int /\ lo[e] <= hi[e] + 1
      /\ at[e][hi[e] + 1] = Last
  BY DEF Laid
<1>2. Last \notin DataBlocks
  BY Sizes DEF Last, DataBlocks
<1>3. 0 \in G
  <2>1. lo[e] + 0 = lo[e] /\ (~(lo[e] <= hi[e]) => lo[e] = hi[e] + 1)
    BY <1>1
  <2>2. Walk(b)[0] = b
    <3>1. 0 \in 0 .. NB
      BY Sizes
    <3>. QED BY <3>1, WalkExists
  <2>. QED BY <1>1, <2>1, <2>2
<1>4. ASSUME NEW k \in Nat, k \in G PROVE k + 1 \in G
  <2>1. SUFFICES ASSUME k + 1 <= NB PROVE Walk(b)[k + 1] = at_(k + 1)
    OBVIOUS
  <2>2. k <= NB /\ k + 1 \in 0 .. NB /\ (k + 1) - 1 = k /\ k + 1 # 0
    BY <2>1, Sizes
  <2>3. Walk(b)[k] = at_(k)
    BY <1>4, <2>2
  <2>4. Walk(b)[k + 1] = IF Walk(b)[k] = Last THEN Last ELSE chained[Walk(b)[k]].link
    <3> DEFINE w == Walk(b)
    <3>1. w = [j \in 0 .. NB |-> IF j = 0 THEN b
                                 ELSE IF w[j - 1] = Last THEN Last ELSE chained[w[j - 1]].link]
      BY WalkExists
    <3> HIDE DEF w
    <3>2. w[k + 1] = IF w[k] = Last THEN Last ELSE chained[w[k]].link
      BY <2>2, <3>1
    <3>. QED BY <3>2 DEF w
  <2>5. CASE lo[e] + k <= hi[e]
    <3> DEFINE i == lo[e] + k
    <3>1. i \in lo[e] .. hi[e] /\ i + 1 = lo[e] + (k + 1)
      BY <1>1, <2>5
    <3>2. at[e][i] \in DataBlocks /\ chained[at[e][i]].link = at[e][i + 1]
      BY <3>1 DEF Laid, Followed
    <3>3. Walk(b)[k + 1] = at[e][i + 1]
      BY <1>2, <2>3, <2>4, <2>5, <3>2
    <3>4. ~(i + 1 <= hi[e]) => i + 1 = hi[e] + 1
      BY <1>1, <2>5
    <3>5. lo[e] + (k + 1) <= hi[e] \/ at[e][i + 1] = Last
      BY <1>1, <3>1, <3>4
    <3> HIDE DEF i
    <3>. QED BY <3>1, <3>3, <3>5
  <2>6. CASE ~(lo[e] + k <= hi[e])
    <3>1. ~(lo[e] + (k + 1) <= hi[e])
      BY <1>1, <2>6
    <3>2. Walk(b)[k + 1] = Last
      BY <2>3, <2>4, <2>6
    <3>. QED BY <3>1, <3>2
  <2>. QED BY <2>5, <2>6
<1>5. Nat \subseteq G
  <2> HIDE DEF G
  <2>. QED BY <1>3, <1>4, Induction
<1>6. ASSUME NEW k \in 0 .. NB PROVE Walk(b)[k] = at_(k)
  <2>1. k \in Nat /\ k <= NB
    BY Sizes
  <2>2. k \in G
    <3> HIDE DEF G
    <3>. QED BY <1>5, <2>1
  <2> HIDE DEF at_
  <2>. QED BY <2>1, <2>2
<1>. QED BY <1>6

\* A chain that is laid out is the one its first block leads to.
LEMMA ChainIs ==
    ASSUME NEW at, NEW lo, NEW hi, Laid(at, lo, hi), Followed(at, lo, hi, chained), NEW e \in Chains
    PROVE  /\ Walk(at[e][lo[e]])[NB] = Last
           /\ Chain(at[e][lo[e]]) = {at[e][i] : i \in lo[e] .. hi[e]}
<1> DEFINE b == at[e][lo[e]]
<1>1. lo[e] \in Int /\ hi[e] \in Int /\ hi[e] - lo[e] + 1 \in 0 .. NB - 1 /\ NB \in Nat
  <2>1. lo[e] \in Int /\ hi[e] \in Int
    BY DEF Laid
  <2>2. hi[e] - lo[e] + 1 \in 0 .. NB - 1
    BY ChainBlocks
  <2>. QED BY <2>1, <2>2, Sizes
<1>2. \A k \in 0 .. NB : Walk(b)[k] = IF lo[e] + k <= hi[e] THEN at[e][lo[e] + k] ELSE Last
  BY WalkFollows
<1>3. Walk(b)[NB] = Last
  BY <1>1, <1>2
<1>4. Last \notin DataBlocks
  BY Sizes DEF Last, DataBlocks
<1>5. ASSUME NEW c \in Chain(b) PROVE c \in {at[e][i] : i \in lo[e] .. hi[e]}
  <2>1. PICK k \in 0 .. NB : c = Walk(b)[k] /\ c # Last
    BY DEF Chain
  <2>2. lo[e] + k \in lo[e] .. hi[e] /\ c = at[e][lo[e] + k]
    BY <1>1, <1>2, <2>1
  <2>. QED BY <2>2
<1>6. ASSUME NEW i \in lo[e] .. hi[e] PROVE at[e][i] \in Chain(b)
  <2> DEFINE k == i - lo[e]
  <2>1. k \in 0 .. NB /\ lo[e] + k = i /\ i <= hi[e]
    BY <1>1
  <2>2. Walk(b)[k] = at[e][i]
    BY <1>2, <2>1
  <2>3. at[e][i] # Last
    BY <1>4 DEF Laid
  <2>. QED BY <2>1, <2>2, <2>3 DEF Chain
<1>. QED BY <1>3, <1>5, <1>6

-----------------------------------------------------------------------------
\* The table, in memory or in the superblock.
Files ==
    /\ table \in [Entries -> [id : Ids \cup {0}, size : 0 .. P * NB,
                              start : DataBlocks \cup {0}]]
    /\ \A e \in Entries : table[e].id = 0 => table[e] = Hole
    /\ \A e \in Entries : table[e].size = 0 <=> table[e].start = 0
    /\ \A e, g \in Entries : table[e].id = table[g].id /\ table[e].id # 0 => e = g

created == IF mounted THEN number_of_files ELSE super.number_of_files

Members ==
    /\ mounted \in BOOLEAN
    /\ created \in 0 .. MaxCreated
    /\ ~mounted => /\ file_data = [e \in Entries |-> Hole] /\ free_block = 0
                   /\ number_of_files = 0
                   /\ op = Idle /\ handle = [h \in Handles |-> Closed]

DiskTyped ==
    disk \in [Blocks -> [data : [0 .. P - 1 -> Chars \cup {0}], link : Blocks \cup {Last}]]

FileTyped(f) ==
    /\ f.pos <= f.size
    /\ f.size = 0 <=> f.start = 0
    /\ f.start = 0 => f.block = 0
    /\ f.id = 0 => f = Closed

HandlesTyped ==
    /\ handle \in [Handles -> [id : Ids \cup {0}, size : 0 .. P * NB, start : DataBlocks \cup {0},
                               pos : Nat, block : DataBlocks \cup {0}]]
    /\ \A h \in Handles : FileTyped(handle[h])

\* A file has one handle, which knows what the table will know of it.
HandlesFit ==
    /\ \A h, g \in Handles : handle[h].id = handle[g].id /\ handle[h].id # 0 => h = g
    /\ \A h \in Handles : handle[h].id # 0 =>
         \E e \in Entries : /\ table[e].id = handle[h].id
                            /\ sizeOf(table[e]) = handle[h].size
                            /\ startOf(table[e]) = handle[h].start

Kinds == {"idle", "hang", "read", "write", "rewrite", "delete"}

OpSound ==
    /\ op \in [kind : Kinds, h : Handles \cup {0}, id : Ids \cup {0}, n : 0 .. MaxN,
               c : Chars \cup {0}, block : DataBlocks \cup {Last}]
    /\ op.kind = "idle" => op = Idle
    /\ op.kind \in {"read", "write", "rewrite"} => op.h # 0
    /\ op.kind = "write" => op.c # 0
    /\ op.kind # "idle" /\ op.h # 0 => handle[op.h].id # 0
    /\ op.kind \in {"read", "write"} => (handle[op.h].start # 0 => handle[op.h].block # 0)
    /\ op.kind = "rewrite" =>
         op.id = handle[op.h].id /\ handle[op.h].block = 0 /\ handle[op.h].pos = 0
    /\ op.kind = "delete" => /\ op.id # 0
                             /\ \E e \in Entries : table[e].id = op.id
                             /\ \A h \in Handles : handle[h].id # op.id

\* The first block of a chain, and the block of the file a handle is on.
first(e) ==
    IF e = 0 THEN IF mounted THEN free_block ELSE super.free_block
    ELSE LET f == table[e]
         IN  IF f.id # 0 /\ Freeing(f.id) THEN op.block
             ELSE IF startOf(f) = 0 THEN Last ELSE startOf(f)

blockOf(f) == IF f.pos % P = 0 /\ EoF(f) THEN f.pos \div P - 1 ELSE f.pos \div P

Layout(at, lo, hi) ==
    /\ Laid(at, lo, hi) /\ Followed(at, lo, hi, disk)
    /\ \A e \in Chains : at[e][lo[e]] = first(e)
    /\ \A e \in Entries : ~Freeing(table[e].id) =>
         hi[e] - lo[e] + 1 = BlocksFor(sizeOf(table[e]))
    /\ \A h \in Handles, e \in Entries :
         handle[h].id # 0 /\ handle[h].block # 0 /\ table[e].id = handle[h].id =>
           handle[h].block = at[e][lo[e] + blockOf(handle[h])]

LaidOut == \E at, lo, hi : Layout(at, lo, hi)

IInv == Files /\ Members /\ DiskTyped /\ HandlesTyped /\ HandlesFit /\ OpSound /\ LaidOut

-----------------------------------------------------------------------------
\* While Write takes a block, the file it writes is an exception to some of it.
BlockType == [data : [0 .. P - 1 -> Chars \cup {0}], link : Blocks \cup {Last}]
FileType  == [id : Ids \cup {0}, size : 0 .. P * NB, start : DataBlocks \cup {0},
              pos : Nat, block : DataBlocks \cup {0}]

WriteKinds == {"write", "linked", "ended"}

Underway ==
    /\ Files /\ Members /\ DiskTyped /\ HandlesFit /\ mounted
    /\ handle \in [Handles -> FileType]
    /\ \A g \in Handles \ {op.h} : FileTyped(handle[g])
    /\ op \in [kind : WriteKinds, h : Handles, id : Ids \cup {0}, n : 0 .. MaxN,
               c : Chars, block : DataBlocks \cup {Last}]
    /\ handle[op.h].id # 0

\* The chains once the file that is written has the block b it goes on in.
Ready(at, lo, hi, d, f, b, x, size) ==
    /\ Laid(at, lo, hi) /\ Followed(at, lo, hi, d)
    /\ hi[x] - lo[x] + 1 = BlocksFor(size)
    /\ f.start = at[x][lo[x]]
    /\ b = at[x][lo[x] + f.pos \div P]
    /\ \A y \in Entries \ {x} : /\ at[y][lo[y]] = first(y)
                                /\ hi[y] - lo[y] + 1 = BlocksFor(sizeOf(table[y]))
    /\ \A g \in Handles \ {op.h}, y \in Entries \ {x} :
         handle[g].id # 0 /\ handle[g].block # 0 /\ table[y].id = handle[g].id =>
           handle[g].block = at[y][lo[y] + blockOf(handle[g])]

Grown(at, lo, hi, x) ==
    LET f == handle[op.h]
    IN  /\ table[x].id = f.id /\ at[0][lo[0]] = free_block
        /\ Ready(at, lo, hi, chained, f, IF op.kind = "linked" THEN op.block ELSE f.block,
                 x, f.size + 1)
        /\ op.kind = "linked" /\ f.block # 0 => f.block = at[x][lo[x] + (f.pos \div P - 1)]

\* The invariant between the writes to the disk that take a block.
GInv ==
    /\ Underway /\ Growing /\ op.n > 0
    /\ Extends(handle[op.h]) /\ handle[op.h].start # 0
    /\ op.kind = "linked" => /\ op.block \in DataBlocks /\ handle[op.h].block # op.block
                             /\ disk[op.block].link = free_block
                             /\ handle[op.h].block # 0 => handle[op.h].pos # 0
    /\ op.kind = "ended" => handle[op.h].block # 0
    /\ \E at, lo, hi : \E x \in Entries : Grown(at, lo, hi, x)

-----------------------------------------------------------------------------
\* A data block is neither the superblock nor the end of a chain.
LEMMA DataBlocksAre ==
    /\ Last \notin DataBlocks /\ 0 \notin DataBlocks /\ DataBlocks \subseteq Blocks
    /\ 0 \in Blocks /\ Last \notin Blocks /\ Last = -1
    /\ \A b \in Blocks : b \in Int
BY Sizes DEF Last, DataBlocks, Blocks

\* Entries are numbers other than that of the free chain.
LEMMA EntriesAre == \A e \in Entries : e \in Chains /\ e # 0 /\ e \in Nat
BY Sizes DEF Chains, Entries

\* A chain begins with a data block unless it is empty.
LEMMA FirstTyped ==
    ASSUME NEW at, NEW lo, NEW hi, Laid(at, lo, hi), NEW e \in Chains
    PROVE  /\ at[e][lo[e]] \in DataBlocks \cup {Last}
           /\ at[e][lo[e]] = Last <=> hi[e] - lo[e] + 1 = 0
<1>1. lo[e] \in Int /\ hi[e] \in Int /\ lo[e] <= hi[e] + 1
  BY DEF Laid
<1>2. CASE lo[e] <= hi[e]
  <2>1. lo[e] \in lo[e] .. hi[e]
    BY <1>1, <1>2
  <2>2. at[e][lo[e]] \in DataBlocks
    BY <2>1 DEF Laid
  <2>. QED BY <1>1, <1>2, <2>2, DataBlocksAre
<1>3. CASE lo[e] = hi[e] + 1
  <2>1. at[e][lo[e]] = Last
    BY <1>3 DEF Laid
  <2>. QED BY <1>1, <1>3, <2>1
<1>. QED BY <1>1, <1>2, <1>3

\* Only while Write takes a block are the chains not all there is on the disk.
LEMMA Unlinked == ASSUME OpSound PROVE chained = disk /\ ~Growing
BY DEF OpSound, Kinds, chained, Growing

\* The inductive invariant implies the type invariant,
LEMMA Typed ==
    ASSUME IInv
    PROVE  TypeOK
<1>1. free_block \in Blocks \cup {Last}
  <2>1. CASE mounted
    <3>1. PICK at, lo, hi : Layout(at, lo, hi)
      BY DEF IInv, LaidOut
    <3>2. 0 \in Chains
      BY DEF Chains
    <3>3. at[0][lo[0]] = free_block
      BY <2>1, <3>1, <3>2 DEF Layout, first
    <3>. QED BY <3>1, <3>2, <3>3, FirstTyped, DataBlocksAre DEF Layout
  <2>2. CASE ~mounted
    BY <2>2, DataBlocksAre DEF IInv, Members
  <2>. QED BY <2>1, <2>2
<1>2. number_of_files \in 0 .. MaxCreated
  BY Sizes DEF IInv, Members, created
<1>3. ASSUME NEW e \in Entries
      PROVE  /\ file_data[e].id \in Ids \cup {0} /\ file_data[e].size \in 0 .. P * NB
             /\ file_data[e].start \in Blocks
  <2>1. CASE mounted
    <3>1. file_data[e] \in [id : Ids \cup {0}, size : 0 .. P * NB, start : DataBlocks \cup {0}]
      BY <2>1 DEF IInv, Files, table
    <3>. QED BY <3>1, DataBlocksAre
  <2>2. CASE ~mounted
    <3>1. file_data[e] = Hole
      BY <2>2 DEF IInv, Members
    <3>2. 0 \in 0 .. P * NB
      BY Sizes
    <3>. QED BY <3>1, <3>2, DataBlocksAre DEF Hole
  <2>. QED BY <2>1, <2>2
<1>4. ASSUME NEW h \in Handles
      PROVE  /\ handle[h].id \in Ids \cup {0} /\ handle[h].size \in 0 .. P * NB
             /\ handle[h].pos \in 0 .. handle[h].size
             /\ handle[h].block \in Blocks
  <2>1. /\ handle[h] \in [id : Ids \cup {0}, size : 0 .. P * NB, start : DataBlocks \cup {0},
                          pos : Nat, block : DataBlocks \cup {0}]
        /\ handle[h].pos <= handle[h].size
    BY DEF IInv, HandlesTyped, FileTyped
  <2>2. handle[h].pos \in 0 .. handle[h].size
    BY <2>1, Sizes
  <2>. QED BY <2>1, <2>2, DataBlocksAre
<1>5. op.n \in 0 .. MaxN
  BY DEF IInv, OpSound
<1>6. mounted \in BOOLEAN /\ disk \in [Blocks -> [data : [0 .. P - 1 -> Chars \cup {0}],
                                                  link : Blocks \cup {Last}]]
  BY DEF IInv, Members, DiskTyped
<1>. QED BY <1>1, <1>2, <1>3, <1>4, <1>5, <1>6 DEF TypeOK

\* The blocks are accounted for if they are laid out and the first ones are known.
LEMMA Spread ==
    ASSUME NEW at, NEW lo, NEW hi, Laid(at, lo, hi), Followed(at, lo, hi, chained),
           \A e \in Chains : at[e][lo[e]] = headOf(e),
           \A e \in Entries : ~Freeing(file_data[e].id) =>
             hi[e] - lo[e] + 1 = BlocksFor(sizeOf(file_data[e]))
                                   + (IF Growing /\ Writing(file_data[e].id) THEN 1 ELSE 0),
           op.kind = "linked" => disk[op.block].link = free_block
    PROVE  BlocksAccounted
<1>1. SUFFICES
    /\ \A e \in Chains : Walk(headOf(e))[NB] = Last
    /\ \A e \in Chains : \A g \in Chains \ {e} : Chain(headOf(e)) \cap Chain(headOf(g)) = {}
    /\ UNION {Chain(headOf(e)) : e \in Chains} = DataBlocks
    /\ \A e \in Entries : ~Freeing(file_data[e].id) =>
         Cardinality(Chain(headOf(e))) =
           BlocksFor(sizeOf(file_data[e]))
             + (IF Growing /\ Writing(file_data[e].id) THEN 1 ELSE 0)
  BY Zenon DEF BlocksAccounted, Chains
<1>2. ASSUME NEW e \in Chains
      PROVE  Walk(headOf(e))[NB] = Last /\ Chain(headOf(e)) = {at[e][i] : i \in lo[e] .. hi[e]}
  <2>1. /\ Walk(at[e][lo[e]])[NB] = Last
        /\ Chain(at[e][lo[e]]) = {at[e][i] : i \in lo[e] .. hi[e]}
    BY ChainIs
  <2>. QED BY <2>1
<1>3. ASSUME NEW e \in Chains, NEW g \in Chains \ {e}
      PROVE  Chain(headOf(e)) \cap Chain(headOf(g)) = {}
  <2>1. \A i \in lo[e] .. hi[e], j \in lo[g] .. hi[g] : at[e][i] # at[g][j]
    BY DEF Laid
  <2>. QED BY <1>2, <2>1
<1>4. UNION {Chain(headOf(e)) : e \in Chains} = DataBlocks
  <2>1. \A e \in Chains : Chain(headOf(e)) \subseteq DataBlocks
    BY <1>2 DEF Laid
  <2>2. \A b \in DataBlocks : \E e \in Chains : b \in Chain(headOf(e))
    BY <1>2 DEF Laid
  <2>. QED BY <2>1, <2>2
<1>5. ASSUME NEW e \in Entries, ~Freeing(file_data[e].id)
      PROVE  Cardinality(Chain(headOf(e))) =
               BlocksFor(sizeOf(file_data[e]))
                 + (IF Growing /\ Writing(file_data[e].id) THEN 1 ELSE 0)
  BY <1>2, <1>5, ChainBlocks, EntriesAre
<1>. QED BY <1>2, <1>3, <1>4, <1>5

\* that every block is accounted for,
LEMMA Accounted ==
    ASSUME IInv
    PROVE  BlocksAccounted
<1>1. SUFFICES ASSUME mounted PROVE BlocksAccounted
  BY DEF BlocksAccounted
<1>2. PICK at, lo, hi : Layout(at, lo, hi)
  BY DEF IInv, LaidOut
<1>3. \A e \in Chains : at[e][lo[e]] = headOf(e)
  BY <1>1, <1>2 DEF Layout, first, headOf, table
<1>4. chained = disk /\ ~Growing
  BY Unlinked DEF IInv
<1>5. Laid(at, lo, hi) /\ Followed(at, lo, hi, chained)
  BY <1>2, <1>4 DEF Layout
<1>6. \A e \in Entries : ~Freeing(file_data[e].id) =>
        hi[e] - lo[e] + 1 = BlocksFor(sizeOf(file_data[e]))
                              + (IF Growing /\ Writing(file_data[e].id) THEN 1 ELSE 0)
  <2>1. ASSUME NEW e \in Entries, ~Freeing(file_data[e].id)
        PROVE  hi[e] - lo[e] + 1 = BlocksFor(sizeOf(file_data[e])) /\ hi[e] - lo[e] + 1 \in Int
    <3>1. hi[e] - lo[e] + 1 = BlocksFor(sizeOf(file_data[e]))
      BY <1>1, <1>2, <2>1 DEF Layout, table
    <3>2. hi[e] - lo[e] + 1 \in 0 .. NB - 1
      BY <1>5, ChainBlocks, EntriesAre
    <3>. QED BY <3>1, <3>2
  <2>. QED BY <1>4, <2>1
<1>7. op.kind # "linked"
  BY <1>4 DEF Growing
<1>. QED BY <1>3, <1>5, <1>6, <1>7, Spread

\* The block of its position is a block of the file.
LEMMA BlockInFile ==
    ASSUME NEW f, f.pos \in Nat, f.pos <= f.size, f.size \in Nat, f.size # 0
    PROVE  blockOf(f) \in 0 .. BlocksFor(f.size) - 1
<1> DEFINE x == f.pos
           y == f.size
<1>1. /\ x \in Nat /\ y \in Nat /\ x <= y /\ y # 0
      /\ x \div P \in Nat /\ BlocksFor(y) \in Nat /\ BlocksFor(y) # 0
  BY DivMod, BlocksForIs
<1>2. blockOf(f) = IF x % P = 0 /\ y = x THEN x \div P - 1 ELSE x \div P
  BY DEF blockOf, EoF
<1> HIDE DEF x, y
<1>3. CASE x % P = 0 /\ y = x
  <2>1. BlocksFor(x) = x \div P
    BY <1>1, <1>3, BlocksForIs
  <2>. QED BY <1>1, <1>2, <1>3, <2>1 DEF y
<1>4. CASE ~(x % P = 0 /\ y = x)
  <2>1. x < y \/ (x <= y /\ x % P # 0)
    BY <1>1, <1>4
  <2>2. x \div P + 1 <= BlocksFor(y)
    BY <1>1, <2>1, BlockOfPosition
  <2>. QED BY <1>1, <1>2, <1>4, <2>2 DEF y
<1>. QED BY <1>3, <1>4

\* and that a handle is on the block of its position.
LEMMA OnItsBlock ==
    ASSUME IInv
    PROVE  HandleOnItsBlock
<1>1. SUFFICES ASSUME NEW h \in Handles, handle[h].start # 0, handle[h].block # 0
               PROVE  handle[h].block = Walk(handle[h].start)[blockOf(handle[h])]
  <2>1. op.kind # "ended"
    BY Unlinked DEF IInv, Growing
  <2>2. \A g \in Handles : Extends(handle[g]) <=> handle[g].pos % P = 0 /\ EoF(handle[g])
    BY DEF Extends
  <2>. QED BY <2>1, <2>2 DEF HandleOnItsBlock, blockOf
<1> DEFINE f == handle[h]
<1>2. /\ f \in [id : Ids \cup {0}, size : 0 .. P * NB, start : DataBlocks \cup {0},
                pos : Nat, block : DataBlocks \cup {0}]
      /\ f.pos <= f.size /\ (f.size = 0 <=> f.start = 0) /\ (f.id = 0 => f = Closed)
  BY DEF IInv, HandlesTyped, FileTyped
<1>3. f.id # 0 /\ f.size # 0 /\ f.size \in Nat /\ f.pos \in Nat
  BY <1>1, <1>2, Sizes DEF Closed
<1>4. PICK e \in Entries : /\ table[e].id = f.id /\ sizeOf(table[e]) = f.size
                           /\ startOf(table[e]) = f.start
  BY <1>3 DEF IInv, HandlesFit
<1>5. ~Freeing(f.id)
  <2>1. SUFFICES ASSUME op.kind \in {"rewrite", "delete"}, op.id = f.id PROVE FALSE
    BY DEF Freeing
  <2>2. op.kind = "delete" => f.id # op.id
    BY DEF IInv, OpSound
  <2>3. op.kind = "rewrite" => /\ op.h # 0 /\ op.h \in Handles \cup {0}
                               /\ op.id = handle[op.h].id /\ handle[op.h].block = 0
    BY DEF IInv, OpSound
  <2>4. op.kind = "rewrite" => op.h = h
    BY <1>3, <2>1, <2>3 DEF IInv, HandlesFit
  <2>. QED BY <1>1, <2>1, <2>2, <2>3, <2>4
<1>6. PICK at, lo, hi : Layout(at, lo, hi)
  BY DEF IInv, LaidOut
<1>7. Laid(at, lo, hi) /\ Followed(at, lo, hi, disk) /\ e \in Chains /\ e # 0
  BY <1>6, EntriesAre DEF Layout
<1>8. at[e][lo[e]] = f.start
  BY <1>1, <1>4, <1>5, <1>6, <1>7 DEF Layout, first
<1>9. hi[e] - lo[e] + 1 = BlocksFor(f.size)
  BY <1>4, <1>5, <1>6 DEF Layout
<1>10. f.block = at[e][lo[e] + blockOf(f)]
  BY <1>1, <1>3, <1>4, <1>6 DEF Layout
<1>11. blockOf(f) \in 0 .. BlocksFor(f.size) - 1
  BY <1>2, <1>3, BlockInFile
<1>12. lo[e] \in Int /\ hi[e] \in Int /\ BlocksFor(f.size) \in 0 .. NB - 1 /\ NB \in Nat
  <2>1. lo[e] \in Int /\ hi[e] \in Int
    BY <1>7 DEF Laid
  <2>2. hi[e] - lo[e] + 1 \in 0 .. NB - 1
    BY <1>7, ChainBlocks
  <2>. QED BY <1>9, <2>1, <2>2, Sizes
<1>13. blockOf(f) \in 0 .. NB /\ lo[e] + blockOf(f) <= hi[e]
  BY <1>9, <1>11, <1>12
<1>14. Walk(at[e][lo[e]])[blockOf(f)] = at[e][lo[e] + blockOf(f)]
  <2>1. Followed(at, lo, hi, chained)
    BY <1>7, Unlinked DEF IInv
  <2>. QED BY <1>7, <1>13, <2>1, WalkFollows
<1>. QED BY <1>8, <1>10, <1>14

-----------------------------------------------------------------------------
\* Format() leaves one chain of all data blocks,
LEMMA FormattedLaid ==
    \E at, lo, hi : /\ Laid(at, lo, hi) /\ Followed(at, lo, hi, formattedDisk)
                    /\ at[0][lo[0]] = FS_BLOCK_LENGTH
                    /\ \A e \in Entries : at[e][lo[e]] = Last /\ hi[e] - lo[e] + 1 = 0
<1> DEFINE at == [e \in Chains |-> [i \in Int |-> IF e = 0 /\ i \in DataBlocks THEN i ELSE Last]]
           lo == [e \in Chains |-> IF e = 0 THEN FS_BLOCK_LENGTH ELSE 0]
           hi == [e \in Chains |-> IF e = 0 THEN NB - 1 ELSE -1]
<1>1. /\ 0 \in Chains /\ FS_BLOCK_LENGTH \in Int /\ NB - 1 \in Int /\ FS_BLOCK_LENGTH <= NB - 1
      /\ FS_BLOCK_LENGTH >= 1 /\ DataBlocks = FS_BLOCK_LENGTH .. NB - 1
  BY Sizes DEF Chains, DataBlocks
<1>2. /\ lo \in [Chains -> Int] /\ hi \in [Chains -> Int]
      /\ lo[0] = FS_BLOCK_LENGTH /\ hi[0] = NB - 1
      /\ \A e \in Chains \ {0} : lo[e] = 0 /\ hi[e] = -1
  BY <1>1
<1>3. \A e \in Chains : \A i \in Int : at[e][i] = IF e = 0 /\ i \in DataBlocks THEN i ELSE Last
  OBVIOUS
<1> HIDE DEF at, lo, hi
<1>4. \A e \in Chains : \A i \in lo[e] .. hi[e] : e = 0 /\ i \in DataBlocks /\ at[e][i] = i
  BY <1>1, <1>2, <1>3
<1>5. \A e \in Chains : lo[e] <= hi[e] + 1 /\ at[e][hi[e] + 1] = Last
  BY <1>1, <1>2, <1>3
<1>6. \A b \in DataBlocks : \E e \in Chains : \E i \in lo[e] .. hi[e] : at[e][i] = b
  BY <1>1, <1>2, <1>3
<1>7. Laid(at, lo, hi)
  BY <1>2, <1>4, <1>5, <1>6 DEF Laid
<1>8. ASSUME NEW e \in Chains, NEW i \in lo[e] .. hi[e]
      PROVE  formattedDisk[at[e][i]].link = at[e][i + 1]
  <2>1. e = 0 /\ i \in DataBlocks /\ at[e][i] = i /\ i \in Blocks
    BY <1>4, DataBlocksAre
  <2>2. formattedDisk[i].link = IF i < NB - 1 THEN i + 1 ELSE Last
    BY <1>1, <2>1 DEF formattedDisk
  <2>. QED BY <1>1, <1>3, <2>1, <2>2
<1>9. Followed(at, lo, hi, formattedDisk)
  BY <1>8 DEF Followed
<1>10. at[0][lo[0]] = FS_BLOCK_LENGTH
  BY <1>1, <1>2, <1>3
<1>11. \A e \in Entries : at[e][lo[e]] = Last /\ hi[e] - lo[e] + 1 = 0
  BY <1>2, <1>3, EntriesAre
<1>. QED BY <1>7, <1>9, <1>10, <1>11

\* and a disk that is one.
LEMMA FormattedTyped ==
    formattedDisk \in [Blocks -> [data : [0 .. P - 1 -> Chars \cup {0}], link : Blocks \cup {Last}]]
<1>1. Blank \in [0 .. P - 1 -> Chars \cup {0}]
  BY DEF Blank
<1>2. ASSUME NEW b \in Blocks
      PROVE  (IF b < FS_BLOCK_LENGTH THEN 0 ELSE IF b < NB - 1 THEN b + 1 ELSE Last) \in Blocks \cup {Last}
  BY Sizes DEF Blocks
<1>. QED BY <1>1, <1>2 DEF formattedDisk

\* An empty file has no block.
LEMMA BlocksForNone == BlocksFor(0) = 0
BY BlocksForIs, Sizes

\* A hole of the table, a closed handle and an idle client.
LEMMA Nothing ==
    /\ Hole.id = 0 /\ Hole.size = 0 /\ Hole.start = 0
    /\ Hole \in [id : Ids \cup {0}, size : 0 .. P * NB, start : DataBlocks \cup {0}]
    /\ Closed.id = 0 /\ Closed.size = 0 /\ Closed.start = 0 /\ Closed.pos = 0 /\ Closed.block = 0
    /\ Closed \in [id : Ids \cup {0}, size : 0 .. P * NB, start : DataBlocks \cup {0},
                   pos : Nat, block : DataBlocks \cup {0}]
    /\ FileTyped(Closed)
    /\ Idle.kind = "idle" /\ Idle.h = 0 /\ Idle.id = 0 /\ Idle.n = 0 /\ Idle.c = 0 /\ Idle.block = Last
    /\ Idle \in [kind : Kinds, h : Handles \cup {0}, id : Ids \cup {0}, n : 0 .. MaxN,
                 c : Chars \cup {0}, block : DataBlocks \cup {Last}]
<1>1. 0 \in 0 .. P * NB /\ 0 \in 0 .. MaxN /\ 0 \in Nat
  BY Sizes
<1>. QED BY <1>1 DEF Hole, Closed, Idle, Kinds, FileTyped

\* What a superblock without files and a formatted disk amount to.
LEMMA InitInvariant == Init => IInv
<1>1. SUFFICES ASSUME Init PROVE IInv
  OBVIOUS
<1>2. /\ ~mounted /\ mounted \in BOOLEAN /\ disk = formattedDisk /\ op = Idle
      /\ table = [e \in Entries |-> Hole]
      /\ created = 0 /\ handle = [h \in Handles |-> Closed]
      /\ super.free_block = FS_BLOCK_LENGTH
  BY <1>1 DEF Init, table, created, formattedSuper
<1>3. Files
  BY <1>2, Nothing DEF Files
<1>4. Members
  BY <1>1, <1>2, Sizes DEF Members, Init
<1>5. DiskTyped
  BY <1>2, FormattedTyped DEF DiskTyped
<1>6. HandlesTyped
  BY <1>2, Nothing DEF HandlesTyped
<1>7. HandlesFit
  BY <1>2, Nothing DEF HandlesFit
<1>8. OpSound
  BY <1>2, Nothing DEF OpSound
<1>9. PICK at, lo, hi : /\ Laid(at, lo, hi) /\ Followed(at, lo, hi, disk)
                        /\ at[0][lo[0]] = FS_BLOCK_LENGTH
                        /\ \A e \in Entries : at[e][lo[e]] = Last /\ hi[e] - lo[e] + 1 = 0
  BY <1>2, FormattedLaid
<1>10. \A e \in Entries : /\ ~Freeing(table[e].id) /\ first(e) = Last
                          /\ sizeOf(table[e]) = 0
  BY <1>2, Nothing, EntriesAre DEF Freeing, Writing, Growing, first, sizeOf, startOf
<1>11. first(0) = FS_BLOCK_LENGTH
  BY <1>2 DEF first
<1>12. \A h \in Handles : handle[h].id = 0
  BY <1>2, Nothing
<1>13. Layout(at, lo, hi)
  BY <1>9, <1>10, <1>11, <1>12, BlocksForNone DEF Layout, Chains
<1>. QED BY <1>3, <1>4, <1>5, <1>6, <1>7, <1>8, <1>13 DEF IInv, LaidOut

-----------------------------------------------------------------------------
\* The chains stay where they are when no link, first block or length changes.
LEMMA LayoutKept ==
    ASSUME NEW at, NEW lo, NEW hi, Layout(at, lo, hi),
           \A b \in DataBlocks : disk'[b].link = disk[b].link,
           \A e \in Chains : first(e)' = first(e),
           \A e \in Entries : (~Freeing(table[e].id))' =>
              ~Freeing(table[e].id) /\ BlocksFor(sizeOf(table[e])') = BlocksFor(sizeOf(table[e])),
           \A h \in Handles, e \in Entries :
              handle'[h].id # 0 /\ handle'[h].block # 0 /\ table'[e].id = handle'[h].id =>
                handle'[h].block = at[e][lo[e] + blockOf(handle'[h])]
    PROVE  LaidOut'
<1>1. Laid(at, lo, hi) /\ Followed(at, lo, hi, disk)
  BY DEF Layout
<1>2. Followed(at, lo, hi, disk')
  BY <1>1 DEF Followed, Laid
<1>3. \A e \in Chains : at[e][lo[e]] = first(e)'
  BY DEF Layout
<1>4. \A e \in Entries : (~Freeing(table[e].id))' =>
         hi[e] - lo[e] + 1 = BlocksFor(sizeOf(table[e])')
  BY DEF Layout
<1>5. Layout(at, lo, hi)'
  BY <1>1, <1>2, <1>3, <1>4 DEF Layout, Laid, Followed, blockOf, EoF, BlocksFor
<1>. QED BY <1>5 DEF LaidOut

-----------------------------------------------------------------------------
\* The invariant is kept when nothing changes,
LEMMA Stutters == ASSUME IInv, UNCHANGED vars PROVE IInv'
<1>1. /\ disk' = disk /\ super' = super /\ mounted' = mounted /\ free_block' = free_block
      /\ number_of_files' = number_of_files /\ file_data' = file_data /\ handle' = handle
      /\ op' = op
  BY DEF vars
<1>2. Files' /\ Members' /\ DiskTyped' /\ HandlesTyped'
  BY <1>1 DEF IInv, Files, Members, DiskTyped, HandlesTyped, table, created
<1>3. HandlesFit' /\ OpSound'
  BY <1>1 DEF IInv, HandlesFit, OpSound, table, sizeOf, startOf, Writing, Growing
<1>4. LaidOut'
  <2>1. PICK at, lo, hi : Layout(at, lo, hi)
    BY DEF IInv, LaidOut
  <2>2. table' = table
    BY <1>1 DEF table
  <2>3. /\ \A e \in Chains : first(e)' = first(e)
        /\ \A e \in Entries : (~Freeing(table[e].id))' =>
              ~Freeing(table[e].id) /\ BlocksFor(sizeOf(table[e])') = BlocksFor(sizeOf(table[e]))
    BY <1>1, <2>2 DEF first, Freeing, sizeOf, startOf, Writing, Growing
  <2>4. \A h \in Handles, e \in Entries :
           handle'[h].id # 0 /\ handle'[h].block # 0 /\ table'[e].id = handle'[h].id =>
             handle'[h].block = at[e][lo[e] + blockOf(handle'[h])]
    BY <1>1, <2>1, <2>2 DEF Layout
  <2>. QED BY <1>1, <2>1, <2>3, <2>4, LayoutKept
<1>. QED BY <1>2, <1>3, <1>4 DEF IInv

-----------------------------------------------------------------------------
\* by Format(), which empties the table,
LEMMA FormatSound == ASSUME IInv, Format PROVE IInv'
<1>1. /\ ~mounted' /\ mounted' \in BOOLEAN /\ disk' = formattedDisk /\ op' = Idle
      /\ handle' = [h \in Handles |-> Closed]
      /\ super' = formattedSuper
      /\ file_data' = [e \in Entries |-> Hole] /\ free_block' = 0 /\ number_of_files' = 0
  BY DEF IInv, Members, Format, fs
<1>2. table' = [e \in Entries |-> Hole] /\ created' = 0
  BY <1>1 DEF table, created, formattedSuper
<1>3. Files'
  BY <1>2, Nothing DEF Files
<1>4. Members'
  BY <1>1, <1>2, Sizes DEF Members
<1>5. DiskTyped'
  BY <1>1, FormattedTyped DEF DiskTyped
<1>6. HandlesTyped'
  BY <1>1, Nothing DEF HandlesTyped, FileTyped
<1>7. HandlesFit'
  BY <1>1, Nothing DEF HandlesFit
<1>8. OpSound'
  BY <1>1, Nothing DEF OpSound
<1>9. PICK at, lo, hi : /\ Laid(at, lo, hi) /\ Followed(at, lo, hi, formattedDisk)
                        /\ at[0][lo[0]] = FS_BLOCK_LENGTH
                        /\ \A e \in Entries : at[e][lo[e]] = Last /\ hi[e] - lo[e] + 1 = 0
  BY FormattedLaid
<1>10. \A e \in Entries : /\ (~Freeing(table[e].id))' /\ first(e)' = Last
                          /\ sizeOf(table[e])' = 0
  BY <1>1, <1>2, Nothing, EntriesAre DEF Freeing, Writing, Growing, first, sizeOf, startOf
<1>11. first(0)' = FS_BLOCK_LENGTH
  BY <1>1 DEF first, formattedSuper
<1>12. \A h \in Handles : handle'[h].id = 0
  BY <1>1, Nothing
<1>13. /\ Followed(at, lo, hi, disk')
       /\ \A e \in Chains : at[e][lo[e]] = first(e)'
       /\ \A e \in Entries : hi[e] - lo[e] + 1 = BlocksFor(sizeOf(table[e])')
  BY <1>1, <1>9, <1>10, <1>11, BlocksForNone DEF Chains
<1>14. Layout(at, lo, hi)'
  BY <1>9, <1>12, <1>13 DEF Layout, Laid, Followed, BlocksFor
<1>. QED BY <1>3, <1>4, <1>5, <1>6, <1>7, <1>8, <1>14 DEF IInv, LaidOut

\* Mounting and unmounting move the table and the head of the free chain.
LEMMA MovedSound ==
    ASSUME IInv, mounted' \in BOOLEAN, table' = table, created' = created, first(0)' = first(0),
           op = Idle, UNCHANGED <<op, handle>>, DiskTyped',
           \A b \in DataBlocks : disk'[b].link = disk[b].link,
           ~mounted' => /\ file_data' = [e \in Entries |-> Hole] /\ free_block' = 0
                        /\ number_of_files' = 0 /\ handle = [h \in Handles |-> Closed]
    PROVE  IInv'
<1>1. Files' /\ Members' /\ HandlesTyped'
  BY DEF IInv, Files, Members, HandlesTyped, FileTyped
<1>2. \A f : sizeOf(f)' = sizeOf(f) /\ startOf(f)' = startOf(f)
  BY DEF sizeOf, startOf, Writing, Growing
<1>3. HandlesFit'
  BY <1>2 DEF IInv, HandlesFit, sizeOf, startOf, Writing, Growing
<1>4. OpSound'
  BY DEF IInv, OpSound
<1>5. LaidOut'
  <2>1. PICK at, lo, hi : Layout(at, lo, hi)
    BY DEF IInv, LaidOut
  <2>3. /\ \A e \in Entries : first(e)' = first(e)
        /\ \A e \in Entries : (~Freeing(table[e].id))' =>
              ~Freeing(table[e].id) /\ BlocksFor(sizeOf(table[e])') = BlocksFor(sizeOf(table[e]))
    BY EntriesAre DEF first, Freeing, sizeOf, startOf, Writing, Growing
  <2>4. \A h \in Handles, e \in Entries :
           handle'[h].id # 0 /\ handle'[h].block # 0 /\ table'[e].id = handle'[h].id =>
             handle'[h].block = at[e][lo[e] + blockOf(handle'[h])]
    BY <2>1 DEF Layout
  <2>5. \A e \in Chains : first(e)' = first(e)
    BY <2>3 DEF Chains
  <2>. QED BY <2>1, <2>3, <2>4, <2>5, LayoutKept
<1>. QED BY <1>1, <1>3, <1>4, <1>5 DEF IInv

\* by Mount(), which moves the table and the free chain into memory,
LEMMA MountSound == ASSUME IInv, Mount PROVE IInv'
<1>1. table' = table /\ created' = created /\ first(0)' = first(0)
  BY DEF Mount, table, created, first
<1>2. mounted' = TRUE /\ op = Idle /\ UNCHANGED <<op, handle, disk>>
  BY DEF Mount, IInv, Members
<1>3. DiskTyped'
  BY <1>2 DEF IInv, DiskTyped
<1>. QED BY <1>1, <1>2, <1>3, MovedSound

\* and by the destructor, which moves them back.
LEMMA UnmountSound == ASSUME IInv, Unmount PROVE IInv'
<1>1. table' = table /\ created' = created /\ first(0)' = first(0)
  BY DEF Unmount, table, created, first, flushed
<1>2. /\ mounted' = FALSE /\ op = Idle /\ UNCHANGED <<op, handle>>
      /\ file_data' = [e \in Entries |-> Hole] /\ free_block' = 0 /\ number_of_files' = 0
  BY DEF Unmount
<1>3. handle = [h \in Handles |-> Closed]
  <2>1. handle \in [Handles -> {Closed}]
    <3>1. DOMAIN handle = Handles /\ handle = [h \in Handles |-> handle[h]]
      BY DEF IInv, HandlesTyped
    <3>2. \A h \in Handles : handle[h] = Closed
      BY DEF Unmount, IInv, HandlesTyped, FileTyped
    <3>. QED BY <3>1, <3>2
  <2>. QED BY <2>1
<1>4. disk' = [disk EXCEPT ![0] = [data |-> Blank, link |-> 0]]
  BY DEF Unmount, write
<1>5. DiskTyped'
  <2>1. [data |-> Blank, link |-> 0] \in [data : [0 .. P - 1 -> Chars \cup {0}],
                                          link : Blocks \cup {Last}]
    BY DataBlocksAre DEF Blank
  <2>. QED BY <1>4, <2>1 DEF IInv, DiskTyped
<1>6. \A b \in DataBlocks : disk'[b].link = disk[b].link
  BY <1>4, DataBlocksAre DEF IInv, DiskTyped
<1>. QED BY <1>1, <1>2, <1>3, <1>5, <1>6, MovedSound

-----------------------------------------------------------------------------
\* The loop over the table ends at an entry that matches.
LEMMA EntryFound ==
    ASSUME NEW id, found(id)
    PROVE  entry(id) \in Entries /\ file_data[entry(id)].id = id
<1> DEFINE T == EntriesOf(id)
<1>1. T # {} /\ T \in SUBSET Nat
  BY EntriesAre DEF found, EntriesOf
<1> HIDE DEF T
<1>2. \E x \in T : \A y \in T : x <= y
  BY <1>1, LeastElement
<1>3. Min(T) \in T
  BY <1>2 DEF Min
<1>. QED BY <1>3 DEF T, entry, EntriesOf

\* What the entry of a file with a handle says.
LEMMA EntryOfHandle ==
    ASSUME IInv, NEW h \in Handles, handle[h].id # 0, NEW e \in Entries,
           table[e].id = handle[h].id
    PROVE  sizeOf(table[e]) = handle[h].size /\ startOf(table[e]) = handle[h].start
<1>1. PICK g \in Entries : /\ table[g].id = handle[h].id /\ sizeOf(table[g]) = handle[h].size
                           /\ startOf(table[g]) = handle[h].start
  BY DEF IInv, HandlesFit
<1>2. g = e
  BY <1>1 DEF IInv, Files
<1>. QED BY <1>1, <1>2

\* Steps that touch neither the disk nor the file system.
LEMMA TableKept ==
    ASSUME IInv, mounted, UNCHANGED <<disk, super, mounted, fs>>,
           HandlesTyped', OpSound', HandlesFit',
           \A e \in Entries : /\ first(e)' = first(e)
                              /\ (~Freeing(table[e].id))' => ~Freeing(table[e].id)
                              /\ sizeOf(table[e])' = sizeOf(table[e]),
           \A at, lo, hi : Layout(at, lo, hi) =>
             \A h \in Handles, e \in Entries :
               handle'[h].id # 0 /\ handle'[h].block # 0 /\ table[e].id = handle'[h].id =>
                 handle'[h].block = at[e][lo[e] + blockOf(handle'[h])]
    PROVE  IInv' /\ table' = table
<1>1. /\ table' = table /\ created' = created
      /\ mounted' = mounted /\ disk' = disk /\ free_block' = free_block
      /\ number_of_files' = number_of_files /\ file_data' = file_data
  BY DEF fs, table, created
<1>2. Files' /\ Members' /\ DiskTyped'
  BY <1>1 DEF IInv, Files, Members, DiskTyped
<1>3. LaidOut'
  <2>1. PICK at, lo, hi : Layout(at, lo, hi)
    BY DEF IInv, LaidOut
  <2>2. \A e \in Chains : first(e)' = first(e)
    <3>1. first(0)' = first(0)
      BY <1>1 DEF first
    <3>. QED BY <3>1 DEF Chains
  <2>3. \A h \in Handles, e \in Entries :
          handle'[h].id # 0 /\ handle'[h].block # 0 /\ table'[e].id = handle'[h].id =>
            handle'[h].block = at[e][lo[e] + blockOf(handle'[h])]
    BY <1>1, <2>1
  <2>4. \A b \in DataBlocks : disk'[b].link = disk[b].link
    BY <1>1
  <2>5. \A e \in Entries : (~Freeing(table[e].id))' =>
           ~Freeing(table[e].id) /\ BlocksFor(sizeOf(table[e])') = BlocksFor(sizeOf(table[e]))
    OBVIOUS
  <2>. QED BY <2>1, <2>2, <2>3, <2>4, <2>5, LayoutKept
<1>. QED BY <1>1, <1>2, <1>3 DEF IInv

\* and do not touch a handle.
LEMMA HandlesKept ==
    ASSUME IInv, mounted, UNCHANGED <<disk, super, mounted, fs, handle>>, OpSound',
           \A e \in Entries : /\ first(e)' = first(e)
                              /\ (~Freeing(table[e].id))' => ~Freeing(table[e].id)
                              /\ sizeOf(table[e])' = sizeOf(table[e])
                              /\ startOf(table[e])' = startOf(table[e])
    PROVE  IInv'
<1>1. table' = table /\ handle' = handle
  BY DEF fs, table
<1>2. HandlesTyped' /\ HandlesFit'
  BY <1>1 DEF IInv, HandlesTyped, HandlesFit, FileTyped
<1>3. ASSUME NEW at, NEW lo, NEW hi, Layout(at, lo, hi)
      PROVE  \A h \in Handles, e \in Entries :
               handle'[h].id # 0 /\ handle'[h].block # 0 /\ table[e].id = handle'[h].id =>
                 handle'[h].block = at[e][lo[e] + blockOf(handle'[h])]
  BY <1>1, <1>3 DEF Layout
<1>. QED BY <1>2, <1>3, TableKept

-----------------------------------------------------------------------------
\* Read is called,
LEMMA StartReadSound ==
    ASSUME IInv, RulesKept, NEW h \in Handles, NEW n \in 1 .. MaxN, StartRead(h, n) PROVE IInv'
<1>1. /\ mounted /\ op = Idle /\ handle[h].id # 0 /\ "reset" \in Rules
      /\ UNCHANGED <<disk, super, mounted, fs, handle>> /\ Positioned(handle[h])
  BY DEF StartRead, RulesKept
<1>2. /\ op'.kind = "read" /\ op'.h = h /\ op'.n = n /\ op'.id = 0 /\ op'.c = 0 /\ op'.block = Last
      /\ op' \in [kind : Kinds, h : Handles \cup {0}, id : Ids \cup {0}, n : 0 .. MaxN,
                  c : Chars \cup {0}, block : DataBlocks \cup {Last}]
  <2>1. op' = [kind |-> "read", h |-> h, id |-> 0, n |-> n, c |-> 0, block |-> Last]
    BY DEF StartRead, Idle
  <2>2. "read" \in Kinds /\ n \in 0 .. MaxN
    BY Sizes DEF Kinds
  <2>. QED BY <2>1, <2>2
<1>3. h # 0 /\ handle' = handle /\ table' = table
  BY <1>1, Sizes DEF fs, table
<1>4. OpSound'
  BY <1>1, <1>2, <1>3 DEF OpSound, Positioned
<1>5. \A e \in Entries : /\ first(e)' = first(e)
                         /\ (~Freeing(table[e].id))' => ~Freeing(table[e].id)
                         /\ sizeOf(table[e])' = sizeOf(table[e])
                         /\ startOf(table[e])' = startOf(table[e])
  BY <1>1, <1>2, <1>3, EntriesAre, Nothing DEF first, Freeing, sizeOf, startOf, Writing, Growing
<1>. QED BY <1>1, <1>4, <1>5, HandlesKept

\* and returns.
LEMMA ReadReturnsSound == ASSUME IInv, ReadReturns PROVE IInv'
<1>1. /\ op.kind = "read" /\ op' = Idle
      /\ UNCHANGED <<disk, super, mounted, fs, handle>>
  BY DEF ReadReturns
<1>2. mounted
  BY <1>1, Nothing DEF IInv, Members
<1>3. table' = table /\ handle' = handle
  BY <1>1 DEF fs, table
<1>4. OpSound'
  BY <1>1, Nothing DEF OpSound
<1>5. \A e \in Entries : /\ first(e)' = first(e)
                         /\ (~Freeing(table[e].id))' => ~Freeing(table[e].id)
                         /\ sizeOf(table[e])' = sizeOf(table[e])
                         /\ startOf(table[e])' = startOf(table[e])
  BY <1>1, <1>3, EntriesAre, Nothing DEF first, Freeing, sizeOf, startOf, Writing, Growing
<1>. QED BY <1>1, <1>2, <1>4, <1>5, HandlesKept

\* Write is called.
LEMMA StartWriteSound ==
    ASSUME IInv, RulesKept, NEW h \in Handles, NEW n \in 1 .. MaxN, NEW c \in Chars,
           StartWrite(h, n, c)
    PROVE  IInv'
<1>1. /\ mounted /\ op = Idle /\ handle[h].id # 0 /\ "reset" \in Rules
      /\ UNCHANGED <<disk, super, mounted, fs, handle>> /\ Positioned(handle[h])
  BY DEF StartWrite, RulesKept
<1>2. /\ op'.kind = "write" /\ op'.h = h /\ op'.n = n /\ op'.id = 0 /\ op'.c = c /\ op'.block = Last
      /\ op' \in [kind : Kinds, h : Handles \cup {0}, id : Ids \cup {0}, n : 0 .. MaxN,
                  c : Chars \cup {0}, block : DataBlocks \cup {Last}]
  <2>1. op' = [kind |-> "write", h |-> h, id |-> 0, n |-> n, c |-> c, block |-> Last]
    BY DEF StartWrite, Idle
  <2>2. "write" \in Kinds /\ n \in 0 .. MaxN
    BY Sizes DEF Kinds
  <2>. QED BY <2>1, <2>2
<1>3. h # 0 /\ handle' = handle /\ table' = table /\ c # 0
  BY <1>1, Sizes DEF fs, table
<1>4. OpSound'
  BY <1>1, <1>2, <1>3 DEF OpSound, Positioned
<1>5. ASSUME NEW e \in Entries
      PROVE  /\ sizeOf(table[e])' = sizeOf(table[e])
             /\ startOf(table[e])' = startOf(table[e])
  <2>1. CASE table[e].id = handle[h].id
    <3>1. sizeOf(table[e])' = handle[h].size /\ startOf(table[e])' = handle[h].start
      BY <1>2, <1>3, <2>1 DEF sizeOf, startOf, Writing, Growing
    <3>. QED BY <1>1, <2>1, <3>1, EntryOfHandle
  <2>2. CASE table[e].id # handle[h].id
    BY <1>1, <1>2, <1>3, <2>2, Nothing DEF sizeOf, startOf, Writing, Growing
  <2>. QED BY <2>1, <2>2
<1>6. \A e \in Entries : /\ first(e)' = first(e)
                         /\ (~Freeing(table[e].id))' => ~Freeing(table[e].id)
  BY <1>1, <1>2, <1>3, <1>5, EntriesAre, Nothing DEF first, Freeing
<1>. QED BY <1>1, <1>4, <1>5, <1>6, HandlesKept

\* It hangs when it needs a block and none is free.
LEMMA DiskFullSound == ASSUME IInv, DiskFull PROVE IInv'
<1>1. /\ op.kind = "write" /\ op' = [op EXCEPT !.kind = "hang"]
      /\ UNCHANGED <<disk, super, mounted, fs, handle>>
  BY DEF DiskFull
<1>2. mounted
  BY <1>1, Nothing DEF IInv, Members
<1>3. table' = table /\ handle' = handle
  BY <1>1 DEF fs, table
<1>4. /\ op'.kind = "hang" /\ op'.h = op.h /\ op'.id = op.id
      /\ op' \in [kind : Kinds, h : Handles \cup {0}, id : Ids \cup {0}, n : 0 .. MaxN,
                  c : Chars \cup {0}, block : DataBlocks \cup {Last}]
      /\ op.h # 0 /\ handle[op.h].id # 0
  BY <1>1 DEF IInv, OpSound, Kinds
<1>5. OpSound'
  BY <1>3, <1>4 DEF OpSound
<1>6. \A e \in Entries : /\ first(e)' = first(e)
                         /\ (~Freeing(table[e].id))' => ~Freeing(table[e].id)
                         /\ sizeOf(table[e])' = sizeOf(table[e])
                         /\ startOf(table[e])' = startOf(table[e])
  BY <1>1, <1>3, <1>4, EntriesAre DEF first, Freeing, sizeOf, startOf, Writing, Growing
<1>. QED BY <1>1, <1>2, <1>5, <1>6, HandlesKept

\* Freeing the blocks of a file begins with its first one.
LEMMA StartFreeing ==
    ASSUME IInv, op = Idle, table' = table, op'.kind \in {"rewrite", "delete"}, op'.id # 0,
           NEW e \in Entries, table[e].id = op'.id, table[e].start # 0, op'.block = table[e].start
    PROVE  \A g \in Entries : /\ first(g)' = first(g)
                              /\ (~Freeing(table[g].id))' => ~Freeing(table[g].id)
                              /\ sizeOf(table[g])' = sizeOf(table[g])
                              /\ startOf(table[g])' = startOf(table[g])
<1>1. \A g \in Entries : table[g].id = op'.id => g = e
  BY DEF IInv, Files
<1>2. \A g \in Entries : sizeOf(table[g]) = table[g].size /\ startOf(table[g]) = table[g].start
                         /\ ~Freeing(table[g].id)
  BY Nothing DEF sizeOf, startOf, Writing, Growing, Freeing
<1>3. \A g \in Entries : sizeOf(table[g])' = table[g].size /\ startOf(table[g])' = table[g].start
  BY DEF sizeOf, startOf, Writing, Growing
<1>4. \A g \in Entries : first(g)' = first(g)
  <2>1. \A g \in Entries : first(g) = IF table[g].start = 0 THEN Last ELSE table[g].start
    BY <1>2, EntriesAre DEF first
  <2>2. \A g \in Entries \ {e} : first(g)' = IF table[g].start = 0 THEN Last ELSE table[g].start
    BY <1>1, <1>3, EntriesAre DEF first, Freeing
  <2>3. first(e)' = table[e].start
    BY EntriesAre DEF first, Freeing
  <2>. QED BY <2>1, <2>2, <2>3
<1>. QED BY <1>2, <1>3, <1>4

\* DeleteFile is called.
LEMMA StartDeleteSound ==
    ASSUME IInv, RulesKept, NEW id \in Ids, StartDelete(id) PROVE IInv'
<1> DEFINE e == entry(id)
<1>1. /\ mounted /\ op = Idle /\ found(id) /\ {"nonempty", "alone"} \subseteq Rules
      /\ UNCHANGED <<disk, super, mounted, fs, handle>>
      /\ file_data[e].start # 0 /\ \A h \in Handles : handle[h].id # id
  BY DEF StartDelete, RulesKept
<1>2. /\ table = file_data /\ table' = table /\ handle' = handle
      /\ e \in Entries /\ table[e].id = id /\ id # 0
  BY <1>1, EntryFound, Sizes DEF fs, table
<1>3. table[e].start \in DataBlocks
  BY <1>1, <1>2 DEF IInv, Files
<1>4. /\ op'.kind = "delete" /\ op'.id = id /\ op'.h = 0 /\ op'.block = table[e].start
      /\ op' \in [kind : Kinds, h : Handles \cup {0}, id : Ids \cup {0}, n : 0 .. MaxN,
                  c : Chars \cup {0}, block : DataBlocks \cup {Last}]
  <2>1. op' = [kind |-> "delete", h |-> 0, id |-> id, n |-> 0, c |-> 0, block |-> file_data[e].start]
    BY DEF StartDelete, Idle
  <2>2. "delete" \in Kinds /\ 0 \in 0 .. MaxN /\ file_data[e].start = table[e].start
        /\ table[e].start \in DataBlocks
    BY <1>2, <1>3, Sizes DEF Kinds
  <2>. QED BY <2>1, <2>2
<1> HIDE DEF e
<1>5. OpSound'
  BY <1>1, <1>2, <1>4 DEF OpSound
<1>6. \A g \in Entries : /\ first(g)' = first(g)
                         /\ (~Freeing(table[g].id))' => ~Freeing(table[g].id)
                         /\ sizeOf(table[g])' = sizeOf(table[g])
                         /\ startOf(table[g])' = startOf(table[g])
  BY <1>1, <1>2, <1>4, StartFreeing
<1>. QED BY <1>1, <1>5, <1>6, HandlesKept

-----------------------------------------------------------------------------
\* "minimum of _n and available bytes"
LEMMA MinOf ==
    ASSUME NEW T \in SUBSET Nat, T # {}
    PROVE  Least(T) \in T /\ \A y \in T : Least(T) <= y
<1>1. \E x \in T : \A y \in T : x <= y
  BY LeastElement
<1>. QED BY <1>1 DEF Least, Min

\* A file has at most P * NB characters.
LEMMA SizeFits ==
    ASSUME NEW y \in Nat, BlocksFor(y) <= NB
    PROVE  y \in 0 .. P * NB
<1> DEFINE s == y \div P
           t == y % P
<1>1. /\ s \in Nat /\ t \in 0 .. P - 1 /\ y = P * s + t /\ P * s \in Int
      /\ P \in Nat /\ NB \in Nat /\ P * NB \in Int
  BY DivMod, Sizes
<1>2. BlocksFor(y) = IF t = 0 THEN s ELSE s + 1
  BY BlocksForIs
<1> HIDE DEF s, t
<1>3. CASE s = NB
  BY <1>1, <1>2, <1>3
<1>4. CASE s < NB
  <2>1. P * s + P <= P * NB
    BY <1>1, <1>4, Monotone
  <2>. QED BY <1>1, <2>1
<1>. QED BY <1>1, <1>2, <1>3, <1>4

\* A handle that stands on the block of its position and moves k characters,
\* at most to the end of the block, still does.
LEMMA Advancing ==
    ASSUME NEW at, NEW lo, NEW hi, NEW d, Laid(at, lo, hi), Followed(at, lo, hi, d),
           NEW e \in Chains,
           NEW f \in [id : Ids \cup {0}, size : 0 .. P * NB, start : DataBlocks \cup {0},
                      pos : Nat, block : DataBlocks \cup {0}],
           NEW k \in Nat, k > 0, k <= P - (f.pos % P),
           NEW size \in Nat, f.pos + k <= size, BlocksFor(size) = hi[e] - lo[e] + 1,
           f.block = at[e][lo[e] + f.pos \div P]
    PROVE  LET g == advanced(f, k, size, d)
           IN  /\ g.id = f.id /\ g.start = f.start /\ g.size = size /\ g.pos = f.pos + k
               /\ g.block \in DataBlocks
               /\ g.block = at[e][lo[e] + blockOf(g)]
               /\ g \in [id : Ids \cup {0}, size : 0 .. P * NB, start : DataBlocks \cup {0},
                         pos : Nat, block : DataBlocks \cup {0}]
<1> DEFINE g == advanced(f, k, size, d)
           x == f.pos
           q == x \div P
           new == x + k
           next == IF new % P = 0 /\ size # new THEN d[f.block].link ELSE f.block
<1>1. g = [id |-> f.id, size |-> size, start |-> f.start, pos |-> new, block |-> next]
  <2>1. f = [id |-> f.id, size |-> f.size, start |-> f.start, pos |-> x, block |-> f.block]
    OBVIOUS
  <2>2. g = [f EXCEPT !.size = size, !.pos = new, !.block = next]
    BY <2>1 DEF advanced, read
  <2> HIDE DEF g, x, new, next
  <2>. QED BY <2>1, <2>2
<1>2. /\ x \in Nat /\ q \in Nat /\ lo[e] \in Int /\ hi[e] \in Int /\ new \in Nat
      /\ hi[e] - lo[e] + 1 \in 0 .. NB - 1 /\ NB \in Nat
  <2>1. x \in Nat /\ new \in Nat
    OBVIOUS
  <2>2. q \in Nat
    BY <2>1, DivMod
  <2>3. lo[e] \in Int /\ hi[e] \in Int
    BY DEF Laid
  <2>4. hi[e] - lo[e] + 1 \in 0 .. NB - 1
    BY ChainBlocks
  <2>. QED BY <2>1, <2>2, <2>3, <2>4, Sizes
<1>3. size \in 0 .. P * NB
  <2>1. BlocksFor(size) <= NB
    BY <1>2
  <2>. QED BY <2>1, SizeFits
<1>4. IF k = P - (x % P) THEN new % P = 0 /\ new \div P = q + 1
                         ELSE new % P # 0 /\ new \div P = q
  BY <1>2, Advances
<1>5. x < size
  BY <1>2
<1>6. q + 1 <= BlocksFor(size)
  BY <1>2, <1>5, BlockOfPosition
<1>7. lo[e] + q \in lo[e] .. hi[e]
  BY <1>2, <1>6
<1>8. f.block \in DataBlocks /\ d[f.block].link = at[e][lo[e] + q + 1]
  BY <1>7 DEF Laid, Followed
<1>9. blockOf(g) = IF new % P = 0 /\ size = new THEN new \div P - 1 ELSE new \div P
  <2>1. g.pos = new /\ g.size = size
    BY <1>1
  <2>. QED BY <2>1 DEF blockOf, EoF
<1> HIDE DEF q, new, g
<1>10. next \in DataBlocks /\ next = at[e][lo[e] + blockOf(g)]
  <2>1. CASE new % P = 0 /\ size # new
    <3>1. new \div P = q + 1 /\ blockOf(g) = q + 1
      BY <1>4, <1>9, <2>1
    <3>2. new < size
      BY <1>2, <2>1 DEF new
    <3>3. q + 2 <= BlocksFor(size)
      <4>1. new \div P + 1 <= BlocksFor(size)
        BY <1>2, <3>2, BlockOfPosition
      <4>. QED BY <1>2, <3>1, <4>1
    <3>4. lo[e] + (q + 1) \in lo[e] .. hi[e] /\ lo[e] + q + 1 = lo[e] + (q + 1)
      BY <1>2, <3>3
    <3>5. next = at[e][lo[e] + (q + 1)]
      BY <1>8, <2>1, <3>4
    <3>6. at[e][lo[e] + (q + 1)] \in DataBlocks
      BY <3>4 DEF Laid
    <3>. QED BY <3>1, <3>5, <3>6
  <2>2. CASE ~(new % P = 0 /\ size # new)
    <3>1. blockOf(g) = q
      BY <1>2, <1>4, <1>9, <2>2
    <3>. QED BY <1>8, <2>2, <3>1 DEF q
  <2>. QED BY <2>1, <2>2
<1> HIDE DEF next
<1>11. g \in [id : Ids \cup {0}, size : 0 .. P * NB, start : DataBlocks \cup {0},
              pos : Nat, block : DataBlocks \cup {0}]
  BY <1>1, <1>2, <1>3, <1>10
<1>. QED BY <1>1, <1>10, <1>11 DEF g, new

-----------------------------------------------------------------------------
\* A File object goes out of scope.
LEMMA CloseSound == ASSUME IInv, NEW h \in Handles, Close(h) PROVE IInv'
<1>1. /\ op = Idle /\ op' = op /\ handle[h].id # 0 /\ handle' = [handle EXCEPT ![h] = Closed]
      /\ UNCHANGED <<disk, super, mounted, fs>>
  BY DEF Close
<1>2. mounted
  BY <1>1, Nothing DEF IInv, Members
<1>3. /\ handle'[h] = Closed /\ \A g \in Handles \ {h} : handle'[g] = handle[g]
      /\ table' = table
  BY <1>1 DEF IInv, HandlesTyped, fs, table
<1>4. HandlesTyped'
  BY <1>1, <1>3, Nothing DEF IInv, HandlesTyped, FileTyped
<1>5. OpSound'
  BY <1>1, Nothing DEF OpSound
<1>6. \A e \in Entries : /\ first(e)' = first(e)
                         /\ (~Freeing(table[e].id))' => ~Freeing(table[e].id)
                         /\ sizeOf(table[e])' = sizeOf(table[e])
                         /\ startOf(table[e])' = startOf(table[e])
  BY <1>1, <1>3, EntriesAre, Nothing DEF first, Freeing, sizeOf, startOf, Writing, Growing
<1>7. \A g \in Handles : handle'[g].id # 0 => g # h /\ handle'[g] = handle[g]
  BY <1>3, Nothing
<1>8. HandlesFit'
  BY <1>3, <1>6, <1>7 DEF IInv, HandlesFit
<1>9. ASSUME NEW at, NEW lo, NEW hi, Layout(at, lo, hi)
      PROVE  \A g \in Handles, e \in Entries :
               handle'[g].id # 0 /\ handle'[g].block # 0 /\ table[e].id = handle'[g].id =>
                 handle'[g].block = at[e][lo[e] + blockOf(handle'[g])]
  BY <1>7, <1>9 DEF Layout
<1>. QED BY <1>1, <1>2, <1>4, <1>5, <1>6, <1>8, <1>9, TableKept

\* A handle that moves.
LEMMA HandleMoves ==
    ASSUME IInv, mounted, UNCHANGED <<disk, super, mounted, fs>>, OpSound',
           NEW h \in Handles, handle[h].id # 0,
           NEW f \in [id : Ids \cup {0}, size : 0 .. P * NB, start : DataBlocks \cup {0},
                      pos : Nat, block : DataBlocks \cup {0}],
           handle' = [handle EXCEPT ![h] = f],
           f.id = handle[h].id, f.size = handle[h].size, f.start = handle[h].start,
           f.pos <= f.size, f.start = 0 => f.block = 0,
           \A e \in Entries : /\ first(e)' = first(e)
                              /\ (~Freeing(table[e].id))' => ~Freeing(table[e].id)
                              /\ sizeOf(table[e])' = sizeOf(table[e])
                              /\ startOf(table[e])' = startOf(table[e]),
           \A at, lo, hi : Layout(at, lo, hi) =>
             \A e \in Entries : f.block # 0 /\ table[e].id = f.id =>
               f.block = at[e][lo[e] + blockOf(f)]
    PROVE  IInv'
<1>1. /\ handle'[h] = f /\ \A g \in Handles \ {h} : handle'[g] = handle[g]
      /\ table' = table
  BY DEF IInv, HandlesTyped, fs, table
<1>2. FileTyped(f)
  BY DEF IInv, HandlesTyped, FileTyped
<1>3. HandlesTyped'
  BY <1>1, <1>2 DEF IInv, HandlesTyped, FileTyped
<1>4. \A g \in Handles : handle'[g].id = handle[g].id /\ handle'[g].size = handle[g].size
                         /\ handle'[g].start = handle[g].start
  BY <1>1
<1>5. HandlesFit'
  BY <1>1, <1>4 DEF IInv, HandlesFit
<1>6. ASSUME NEW at, NEW lo, NEW hi, Layout(at, lo, hi),
             NEW g \in Handles, NEW e \in Entries,
             handle'[g].id # 0, handle'[g].block # 0, table[e].id = handle'[g].id
      PROVE  handle'[g].block = at[e][lo[e] + blockOf(handle'[g])]
  <2>1. CASE g = h
    BY <1>1, <1>6, <2>1
  <2>2. CASE g # h
    BY <1>1, <1>6, <2>2 DEF Layout
  <2>. QED BY <2>1, <2>2
<1>. QED BY <1>3, <1>5, <1>6, TableKept

-----------------------------------------------------------------------------
\* An iteration of the loop of Read or Write takes k characters off op.n.
LEMMA OpCounts ==
    ASSUME IInv, NEW k \in Nat, k <= op.n, op' = [op EXCEPT !.n = @ - k]
    PROVE  /\ op'.kind = op.kind /\ op'.h = op.h /\ op'.id = op.id /\ op'.c = op.c
           /\ op'.block = op.block
           /\ op' \in [kind : Kinds, h : Handles \cup {0}, id : Ids \cup {0}, n : 0 .. MaxN,
                       c : Chars \cup {0}, block : DataBlocks \cup {Last}]
<1>1. op \in [kind : Kinds, h : Handles \cup {0}, id : Ids \cup {0}, n : 0 .. MaxN,
              c : Chars \cup {0}, block : DataBlocks \cup {Last}]
  BY DEF IInv, OpSound
<1>2. op.n - k \in 0 .. MaxN
  BY <1>1, Sizes
<1>3. op' = [kind |-> op.kind, h |-> op.h, id |-> op.id, n |-> op.n - k, c |-> op.c,
             block |-> op.block]
  <2>1. op = [kind |-> op.kind, h |-> op.h, id |-> op.id, n |-> op.n, c |-> op.c,
              block |-> op.block]
    BY <1>1
  <2>. QED BY <2>1
<1>. QED BY <1>1, <1>2, <1>3

\* What Reset() and its like make of a handle.
LEMMA MovedHandle ==
    ASSUME NEW f \in [id : Ids \cup {0}, size : 0 .. P * NB, start : DataBlocks \cup {0},
                      pos : Nat, block : DataBlocks \cup {0}],
           NEW pos \in Nat, NEW block \in DataBlocks \cup {0}
    PROVE  [f EXCEPT !.pos = pos, !.block = block]
           = [id |-> f.id, size |-> f.size, start |-> f.start, pos |-> pos, block |-> block]
<1> DEFINE i == f.id
           s == f.size
           b == f.start
           p == f.pos
           c == f.block
           g == [f EXCEPT !.pos = pos, !.block = block]
<1>1. f = [id |-> i, size |-> s, start |-> b, pos |-> p, block |-> c]
  OBVIOUS
<1>2. g = [f EXCEPT !.pos = pos, !.block = block]
  OBVIOUS
<1> HIDE DEF i, s, b, p, c, g
<1>3. g = [id |-> i, size |-> s, start |-> b, pos |-> pos, block |-> block]
  BY <1>1, <1>2
<1>. QED BY <1>3 DEF i, s, b, g

\* An iteration of the loop of Read.
LEMMA ReadStepSound == ASSUME IInv, ReadStep PROVE IInv'
<1> DEFINE h == op.h
           f == handle[h]
           off == f.pos % P
           k == Least({op.n, P - off, f.size - f.pos})
           g == advanced(f, k, f.size, disk)
<1> USE DEF FileType
<1>1. /\ op.kind = "read" /\ op.n > 0 /\ handle' = [handle EXCEPT ![h] = g]
      /\ op' = [op EXCEPT !.n = @ - k]
      /\ UNCHANGED <<disk, super, mounted, fs>>
  BY DEF ReadStep
<1>2. mounted
  BY <1>1, Nothing DEF IInv, Members
<1>3. /\ h \in Handles /\ h # 0 /\ f.id # 0 /\ op.n \in Nat
      /\ f \in FileType /\ FileTyped(f)
      /\ (f.start # 0 => f.block # 0)
  <2>1. h \in Handles /\ h # 0 /\ f.id # 0 /\ op.n \in 0 .. MaxN /\ (f.start # 0 => f.block # 0)
    BY <1>1 DEF IInv, OpSound
  <2>2. op.n \in Nat
    BY <2>1, Sizes
  <2>. QED BY <2>1, <2>2 DEF IInv, HandlesTyped
<1>4. /\ f.pos \in Nat /\ f.size \in Nat /\ f.pos <= f.size /\ off \in 0 .. P - 1 /\ P \in Nat
  <2>1. f.pos \in Nat /\ f.size \in Nat /\ f.pos <= f.size
    BY <1>3, Sizes DEF FileTyped
  <2>. QED BY <2>1, DivMod, Sizes
<1> HIDE DEF off
<1>5. k \in Nat /\ k <= op.n /\ k <= P - off /\ k <= f.size - f.pos
      /\ (k = 0 => f.size = f.pos)
  <2> DEFINE T == {op.n, P - off, f.size - f.pos}
  <2>1. T \in SUBSET Nat /\ T # {} /\ op.n \in T /\ P - off \in T /\ f.size - f.pos \in T
        /\ P - off > 0
    BY <1>3, <1>4
  <2> HIDE DEF T
  <2>2. Least(T) \in T /\ \A y \in T : Least(T) <= y
    BY <2>1, MinOf
  <2>3. k = Least(T)
    BY DEF T
  <2> HIDE DEF k
  <2>4. Least(T) = op.n \/ Least(T) = P - off \/ Least(T) = f.size - f.pos
    BY <2>2 DEF T
  <2>. QED BY <1>1, <1>3, <1>4, <2>1, <2>2, <2>3, <2>4
<1> HIDE DEF k
<1>6. /\ table' = table /\ handle'[h] = g /\ op'.kind = "read" /\ op'.h = h
      /\ op' \in [kind : Kinds, h : Handles \cup {0}, id : Ids \cup {0}, n : 0 .. MaxN,
                  c : Chars \cup {0}, block : DataBlocks \cup {Last}]
  <2>1. table' = table
    BY <1>1 DEF fs, table
  <2>2. handle'[h] = g
    BY <1>1, <1>3 DEF IInv, HandlesTyped
  <2>. QED BY <1>1, <1>5, <2>1, <2>2, OpCounts
<1>7. \A e \in Entries : /\ first(e)' = first(e)
                         /\ (~Freeing(table[e].id))' => ~Freeing(table[e].id)
                         /\ ~Freeing(table[e].id)
                         /\ sizeOf(table[e])' = sizeOf(table[e])
                         /\ startOf(table[e])' = startOf(table[e])
  BY <1>1, <1>6, EntriesAre DEF first, Freeing, sizeOf, startOf, Writing, Growing
<1>8. CASE k = 0
  <2>1. g = f
    <3>1. f.pos + 0 = f.pos
      BY <1>4
    <3>. QED BY <1>3, <1>5, <1>8, <3>1 DEF advanced
  <2>2. OpSound'
    BY <1>3, <1>6, <2>1 DEF OpSound
  <2>3. ASSUME NEW at, NEW lo, NEW hi, Layout(at, lo, hi)
        PROVE  \A e \in Entries : f.block # 0 /\ table[e].id = f.id =>
                 f.block = at[e][lo[e] + blockOf(f)]
    BY <1>3, <2>3 DEF Layout
  <2>4. handle' = [handle EXCEPT ![h] = f]
    BY <1>1, <2>1
  <2> HIDE DEF h, f, g
  <2>. QED BY ZenonT(60), <1>1, <1>2, <1>3, <1>4, <1>7, <2>2, <2>3, <2>4,
     HandleMoves DEF FileTyped, f
<1>9. CASE k > 0
  <2>1. f.size # 0 /\ f.start # 0 /\ f.block # 0 /\ f.pos < f.size /\ f.pos + k <= f.size
    BY <1>3, <1>4, <1>5, <1>9 DEF FileTyped
  <2>2. blockOf(f) = f.pos \div P
    BY <2>1, <1>4 DEF blockOf, EoF
  <2>3. ASSUME NEW at, NEW lo, NEW hi, Layout(at, lo, hi), NEW e \in Entries, table[e].id = f.id
        PROVE  /\ g.id = f.id /\ g.start = f.start /\ g.size = f.size /\ g.pos = f.pos + k
               /\ g.block \in DataBlocks
               /\ g.block = at[e][lo[e] + blockOf(g)]
               /\ g \in FileType
    <3>1. Laid(at, lo, hi) /\ Followed(at, lo, hi, disk) /\ e \in Chains
      BY <2>3, EntriesAre DEF Layout
    <3>2. BlocksFor(f.size) = hi[e] - lo[e] + 1
      <4>1. sizeOf(table[e]) = f.size
        BY <1>3, <2>3, EntryOfHandle
      <4>. QED BY <1>7, <2>3, <4>1 DEF Layout
    <3>3. f.block = at[e][lo[e] + f.pos \div P]
      BY <1>3, <2>1, <2>2, <2>3 DEF Layout
    <3> HIDE DEF f
    <3>. QED BY <1>3, <1>4, <1>5, <1>9, <2>1, <3>1, <3>2, <3>3, Advancing DEF off
  <2>4. /\ g.id = f.id /\ g.start = f.start /\ g.size = f.size /\ g.pos = f.pos + k
        /\ g.block \in DataBlocks /\ g \in FileType
    <3>1. PICK at, lo, hi : Layout(at, lo, hi)
      BY DEF IInv, LaidOut
    <3>2. PICK e \in Entries : table[e].id = f.id
      BY <1>3 DEF IInv, HandlesFit
    <3> HIDE DEF f, g
    <3>. QED BY <2>3, <3>1, <3>2
  <2>5. OpSound'
    BY <1>3, <1>6, <2>4, DataBlocksAre DEF OpSound
  <2>6. \A at, lo, hi : Layout(at, lo, hi) =>
          \A e \in Entries : g.block # 0 /\ table[e].id = g.id =>
            g.block = at[e][lo[e] + blockOf(g)]
    <3> SUFFICES ASSUME NEW at, NEW lo, NEW hi, Layout(at, lo, hi), NEW e \in Entries,
                        g.block # 0, table[e].id = g.id
                 PROVE  g.block = at[e][lo[e] + blockOf(g)]
      OBVIOUS
    <3>1. g.id = f.id
      BY <2>4
    <3> HIDE DEF f, g
    <3>2. table[e].id = f.id
      BY <3>1
    <3>. QED BY <2>3, <3>2
  <2>7. g.pos <= g.size /\ (g.start = 0 => g.block = 0)
    BY <2>1, <2>4
  <2> HIDE DEF h, g
  <2>. QED BY <1>1, <1>2, <1>3, <1>7, <2>4, <2>5, <2>6, <2>7, HandleMoves
<1>. QED BY <1>5, <1>8, <1>9

\* Reset() puts the handle on the first block.
LEMMA ResetSound == ASSUME IInv, NEW h \in Handles, Reset(h) PROVE IInv'
<1> DEFINE f == handle[h]
           g == [f EXCEPT !.pos = 0, !.block = f.start]
<1> USE DEF FileType
<1>1. /\ mounted /\ op = Idle /\ f.id # 0 /\ handle' = [handle EXCEPT ![h] = g]
      /\ UNCHANGED <<disk, super, mounted, fs>> /\ op' = op
  BY DEF Reset, IInv, HandlesTyped
<1>2. f \in FileType /\ FileTyped(f)
  BY DEF IInv, HandlesTyped
<1>3. g = [id |-> f.id, size |-> f.size, start |-> f.start, pos |-> 0, block |-> f.start]
  <2>1. 0 \in Nat /\ f.start \in DataBlocks \cup {0}
    BY <1>2
  <2> HIDE DEF f
  <2>. QED BY <1>2, <2>1, MovedHandle
<1> HIDE DEF g
<1>4. /\ g \in FileType /\ g.id = f.id /\ g.size = f.size /\ g.start = f.start
      /\ g.pos = 0 /\ g.block = f.start /\ g.pos <= g.size
  <2>1. 0 <= f.size
    BY <1>2, Sizes
  <2>. QED BY <1>2, <1>3, <2>1
<1>5. OpSound' /\ table' = table
  BY <1>1, Nothing DEF OpSound, fs, table
<1>6. \A e \in Entries : /\ first(e)' = first(e)
                         /\ (~Freeing(table[e].id))' => ~Freeing(table[e].id)
                         /\ ~Freeing(table[e].id)
                         /\ sizeOf(table[e])' = sizeOf(table[e])
                         /\ startOf(table[e])' = startOf(table[e])
  BY <1>1, <1>5, EntriesAre, Nothing DEF first, Freeing, sizeOf, startOf, Writing, Growing
<1>7. ASSUME NEW at, NEW lo, NEW hi, Layout(at, lo, hi), NEW e \in Entries,
             g.block # 0, table[e].id = g.id
      PROVE  g.block = at[e][lo[e] + blockOf(g)]
  <2>1. f.start # 0 /\ f.size # 0
    BY <1>2, <1>4, <1>7 DEF FileTyped
  <2>2. blockOf(g) = 0
    <3>1. 0 \div P = 0
      BY Sizes
    <3>. QED BY <1>4, <2>1, <3>1 DEF blockOf, EoF
  <2>3. startOf(table[e]) = f.start
    BY <1>1, <1>4, <1>7, EntryOfHandle
  <2>4. at[e][lo[e]] = f.start
    BY <1>6, <1>7, <2>1, <2>3, EntriesAre DEF Layout, first
  <2>5. lo[e] + 0 = lo[e]
    BY <1>7, EntriesAre DEF Layout, Laid
  <2>. QED BY <1>4, <2>2, <2>4, <2>5
<1>8. \A at, lo, hi : Layout(at, lo, hi) =>
        \A e \in Entries : g.block # 0 /\ table[e].id = g.id =>
          g.block = at[e][lo[e] + blockOf(g)]
  BY <1>7
<1>9. g.start = 0 => g.block = 0
  BY <1>4
<1>. QED BY <1>1, <1>4, <1>5, <1>6, <1>8, <1>9, HandleMoves

\* Rewrite is called.
LEMMA StartRewriteSound ==
    ASSUME IInv, RulesKept, NEW h \in Handles, StartRewrite(h) PROVE IInv'
<1> DEFINE f == handle[h]
           g == [f EXCEPT !.pos = 0, !.block = 0]
<1> USE DEF FileType
<1>1. /\ mounted /\ op = Idle /\ f.id # 0 /\ handle' = [handle EXCEPT ![h] = g]
      /\ UNCHANGED <<disk, super, mounted, fs>> /\ f.start # 0 /\ h # 0
  BY Sizes DEF StartRewrite, RulesKept, IInv, HandlesTyped
<1>2. f \in FileType /\ FileTyped(f)
  BY DEF IInv, HandlesTyped
<1>3. g = [id |-> f.id, size |-> f.size, start |-> f.start, pos |-> 0, block |-> 0]
  <2>1. 0 \in Nat /\ 0 \in DataBlocks \cup {0}
    OBVIOUS
  <2> HIDE DEF f
  <2>. QED BY <1>2, <2>1, MovedHandle
<1> HIDE DEF g
<1>4. /\ g \in FileType /\ g.id = f.id /\ g.size = f.size /\ g.start = f.start
      /\ g.pos = 0 /\ g.block = 0 /\ g.pos <= g.size
  <2>1. 0 <= f.size
    BY <1>2, Sizes
  <2>. QED BY <1>2, <1>3, <2>1
<1>5. /\ op' = [kind |-> "rewrite", h |-> h, id |-> f.id, n |-> 0, c |-> 0, block |-> f.start]
      /\ op' \in [kind : Kinds, h : Handles \cup {0}, id : Ids \cup {0}, n : 0 .. MaxN,
                  c : Chars \cup {0}, block : DataBlocks \cup {Last}]
  <2>1. op' = [kind |-> "rewrite", h |-> h, id |-> f.id, n |-> 0, c |-> 0, block |-> f.start]
    BY DEF StartRewrite, Idle
  <2>2. "rewrite" \in Kinds /\ 0 \in 0 .. MaxN /\ f.start \in DataBlocks /\ f.id \in Ids
    BY <1>1, <1>2, Sizes DEF Kinds
  <2> HIDE DEF f
  <2>. QED BY <2>1, <2>2
<1>6. table' = table /\ handle'[h] = g
  BY <1>1 DEF fs, table, IInv, HandlesTyped
<1>7. OpSound'
  BY <1>1, <1>4, <1>5, <1>6 DEF OpSound
<1>8. PICK x \in Entries : /\ table[x].id = f.id /\ sizeOf(table[x]) = f.size
                           /\ startOf(table[x]) = f.start
  BY <1>1 DEF IInv, HandlesFit
<1>9. table[x].start = f.start
  BY <1>1, <1>8, Nothing DEF startOf, Writing, Growing
<1>10. \A e \in Entries : /\ first(e)' = first(e)
                          /\ (~Freeing(table[e].id))' => ~Freeing(table[e].id)
                          /\ sizeOf(table[e])' = sizeOf(table[e])
                          /\ startOf(table[e])' = startOf(table[e])
  BY <1>1, <1>5, <1>6, <1>8, <1>9, StartFreeing
<1>11. \A at, lo, hi : Layout(at, lo, hi) =>
         \A e \in Entries : g.block # 0 /\ table[e].id = g.id =>
           g.block = at[e][lo[e] + blockOf(g)]
  BY <1>4
<1>12. /\ mounted /\ UNCHANGED <<disk, super, mounted, fs>> /\ f.id # 0
       /\ handle' = [handle EXCEPT ![h] = g]
       /\ g.pos <= g.size /\ (g.start = 0 => g.block = 0)
  BY <1>1, <1>4
<1>13. g \in [id : Ids \cup {0}, size : 0 .. P * NB, start : DataBlocks \cup {0},
              pos : Nat, block : DataBlocks \cup {0}]
       /\ g.id = handle[h].id /\ g.size = handle[h].size /\ g.start = handle[h].start
       /\ handle[h].id # 0
  BY <1>1, <1>4
<1> HIDE DEF f, FileType
<1>. QED BY <1>7, <1>10, <1>11, <1>12, <1>13, HandleMoves

-----------------------------------------------------------------------------
\* Steps that change what is known of the chains and no chain.
LEMMA Rearranged ==
    ASSUME IInv, mounted' = TRUE, disk' = disk, Files', created' \in 0 .. MaxCreated,
           HandlesTyped', HandlesFit', OpSound',
           \A e \in Chains : first(e)' = first(e),
           \A at, lo, hi : Layout(at, lo, hi) =>
             /\ \A e \in Entries : (~Freeing(table[e].id))' =>
                  hi[e] - lo[e] + 1 = BlocksFor(sizeOf(table[e])')
             /\ \A h \in Handles, e \in Entries :
                  handle'[h].id # 0 /\ handle'[h].block # 0 /\ table'[e].id = handle'[h].id =>
                    handle'[h].block = at[e][lo[e] + blockOf(handle'[h])]
    PROVE  IInv'
<1>1. Members' /\ DiskTyped'
  BY DEF IInv, Members, DiskTyped
<1>2. LaidOut'
  <2>1. PICK at, lo, hi : Layout(at, lo, hi)
    BY DEF IInv, LaidOut
  <2>2. Laid(at, lo, hi) /\ Followed(at, lo, hi, disk')
    BY <2>1 DEF Layout
  <2>3. \A e \in Chains : at[e][lo[e]] = first(e)'
    BY <2>1 DEF Layout
  <2>4. /\ \A e \in Entries : (~Freeing(table[e].id))' =>
             hi[e] - lo[e] + 1 = BlocksFor(sizeOf(table[e])')
        /\ \A h \in Handles, e \in Entries :
             handle'[h].id # 0 /\ handle'[h].block # 0 /\ table'[e].id = handle'[h].id =>
               handle'[h].block = at[e][lo[e] + blockOf(handle'[h])]
    BY <2>1
  <2>5. Layout(at, lo, hi)'
    BY <2>2, <2>3, <2>4 DEF Layout, Laid, Followed, blockOf, EoF, BlocksFor
  <2>. QED BY <2>5 DEF LaidOut
<1>. QED BY <1>1, <1>2 DEF IInv

\* A file has one entry.
LEMMA EntryIs ==
    ASSUME IInv, mounted, NEW x \in Entries, file_data[x].id # 0
    PROVE  found(file_data[x].id) /\ entry(file_data[x].id) = x
<1>1. found(file_data[x].id)
  BY DEF found, EntriesOf
<1>2. table = file_data
  BY DEF table
<1>. QED BY <1>1, <1>2, EntryFound DEF IInv, Files

\* An entry in the making.
LEMMA EntryTyped ==
    ASSUME NEW id \in Ids \cup {0}, NEW size \in 0 .. P * NB, NEW start \in DataBlocks \cup {0}
    PROVE  [id |-> id, size |-> size, start |-> start]
             \in [id : Ids \cup {0}, size : 0 .. P * NB, start : DataBlocks \cup {0}]
OBVIOUS

\* Write returns: the entry catches up with the handle.
LEMMA WriteReturnsSound == ASSUME IInv, WriteReturns PROVE IInv'
<1> DEFINE f == handle[op.h]
           entry2 == [id |-> f.id, size |-> f.size, start |-> f.start]
<1>1. /\ op.kind = "write" /\ op' = Idle /\ file_data' = FlushFile(f.id, f.size, f.start)
      /\ UNCHANGED <<disk, super, mounted, free_block, number_of_files, handle>>
  BY DEF WriteReturns
<1>2. mounted /\ mounted' = TRUE /\ table = file_data /\ table' = file_data'
  BY <1>1, Nothing DEF IInv, Members, table
<1>3. op.h \in Handles /\ op.h # 0 /\ f.id # 0
  BY <1>1 DEF IInv, OpSound
<1>4. PICK x \in Entries : table[x].id = f.id /\ sizeOf(table[x]) = f.size
                           /\ startOf(table[x]) = f.start
  BY <1>3 DEF IInv, HandlesFit
<1>5. found(f.id) /\ entry(f.id) = x
  BY <1>2, <1>3, <1>4, EntryIs
<1>6. /\ table'[x] = entry2 /\ \A y \in Entries \ {x} : table'[y] = table[y]
      /\ table' = [table EXCEPT ![x] = entry2]
  BY <1>1, <1>2, <1>5 DEF FlushFile, IInv, Files
<1>7. /\ f.id \in Ids \cup {0} /\ f.size \in 0 .. P * NB /\ f.start \in DataBlocks \cup {0}
      /\ (f.size = 0 <=> f.start = 0)
  BY <1>3 DEF IInv, HandlesTyped, FileTyped
<1>8. \A y \in Entries : table'[y].id = table[y].id /\ (y # x => table[y].id # f.id)
  BY <1>3, <1>4, <1>6 DEF IInv, Files
<1>9. Files'
  <2>1. entry2 \in [id : Ids \cup {0}, size : 0 .. P * NB, start : DataBlocks \cup {0}]
    BY <1>7, EntryTyped
  <2>2. entry2.id = f.id /\ entry2.size = f.size /\ entry2.start = f.start
    OBVIOUS
  <2> HIDE DEF entry2, f
  <2>3. table' \in [Entries -> [id : Ids \cup {0}, size : 0 .. P * NB,
                                start : DataBlocks \cup {0}]]
    BY <1>6, <2>1 DEF IInv, Files
  <2>. QED BY <1>3, <1>6, <1>7, <1>8, <2>2, <2>3 DEF IInv, Files
<1>10. \A y \in Entries : /\ sizeOf(table[y])' = sizeOf(table[y])
                          /\ startOf(table[y])' = startOf(table[y])
                          /\ ~Freeing(table[y].id) /\ (~Freeing(table[y].id))'
  <2>1. \A y \in Entries : sizeOf(table[y])' = table'[y].size /\ startOf(table[y])' = table'[y].start
                           /\ ~Freeing(table[y].id) /\ (~Freeing(table[y].id))'
    BY <1>1, Nothing DEF sizeOf, startOf, Writing, Growing, Freeing
  <2>2. \A y \in Entries \ {x} : sizeOf(table[y]) = table[y].size /\ startOf(table[y]) = table[y].start
    BY <1>8 DEF sizeOf, startOf, Writing, Growing
  <2>. QED BY <1>4, <1>6, <2>1, <2>2
<1>11. \A e \in Chains : first(e)' = first(e)
  BY <1>1, <1>10 DEF first, Chains
<1>12. HandlesTyped' /\ HandlesFit'
  BY <1>1, <1>8, <1>10 DEF IInv, HandlesTyped, FileTyped, HandlesFit
<1>13. OpSound'
  BY <1>1, Nothing DEF OpSound
<1>14. created' \in 0 .. MaxCreated
  BY <1>1, <1>2 DEF IInv, Members, created
<1>15. \A at, lo, hi : Layout(at, lo, hi) =>
         /\ \A e \in Entries : (~Freeing(table[e].id))' =>
              hi[e] - lo[e] + 1 = BlocksFor(sizeOf(table[e])')
         /\ \A h \in Handles, e \in Entries :
              handle'[h].id # 0 /\ handle'[h].block # 0 /\ table'[e].id = handle'[h].id =>
                handle'[h].block = at[e][lo[e] + blockOf(handle'[h])]
  BY <1>1, <1>8, <1>10 DEF Layout
<1> HIDE DEF f, entry2
<1>. QED BY <1>1, <1>2, <1>9, <1>11, <1>12, <1>13, <1>14, <1>15, Rearranged

-----------------------------------------------------------------------------
\* When all blocks of a file are freed, none is left.
LEMMA AllFreed ==
    ASSUME IInv, op.kind \in {"rewrite", "delete"}, op.block = Last
    PROVE  /\ mounted /\ op.id # 0 /\ op.id \in Ids
           /\ \E x \in Entries : table[x].id = op.id
           /\ \A x \in Entries : table[x].id = op.id =>
                /\ first(x) = Last
                /\ \A at, lo, hi : Layout(at, lo, hi) => hi[x] - lo[x] + 1 = 0
<1>1. mounted
  BY Nothing DEF IInv, Members
<1>2. op.id # 0 /\ op.id \in Ids /\ \E x \in Entries : table[x].id = op.id
  <2>1. CASE op.kind = "rewrite"
    <3>1. op.h \in Handles /\ op.id = handle[op.h].id /\ op.id # 0 /\ op.id \in Ids \cup {0}
      BY <2>1 DEF IInv, OpSound
    <3>. QED BY <3>1 DEF IInv, HandlesFit
  <2>2. CASE op.kind = "delete"
    BY <2>2 DEF IInv, OpSound
  <2>. QED BY <2>1, <2>2
<1>3. ASSUME NEW x \in Entries, table[x].id = op.id
      PROVE  /\ first(x) = Last
             /\ \A at, lo, hi : Layout(at, lo, hi) => hi[x] - lo[x] + 1 = 0
  <2>1. first(x) = Last
    BY <1>2, <1>3, EntriesAre DEF first, Freeing
  <2>2. ASSUME NEW at, NEW lo, NEW hi, Layout(at, lo, hi) PROVE hi[x] - lo[x] + 1 = 0
    <3>1. at[x][lo[x]] = Last /\ Laid(at, lo, hi) /\ x \in Chains
      BY <2>1, <2>2, EntriesAre DEF Layout
    <3>. QED BY <3>1, FirstTyped
  <2>. QED BY <2>1, <2>2
<1>. QED BY <1>1, <1>2, <1>3

\* The entry of a file whose blocks have been freed is emptied or becomes a hole.
LEMMA EntryEmptied ==
    ASSUME IInv, op.kind \in {"rewrite", "delete"}, op.block = Last, op' = Idle,
           NEW x \in Entries, table[x].id = op.id,
           NEW id \in Ids \cup {0}, id = op.id \/ id = 0,
           table' = [table EXCEPT ![x] = [id |-> id, size |-> 0, start |-> 0]],
           UNCHANGED <<mounted, free_block>>
    PROVE  /\ Files' /\ OpSound'
           /\ table'[x].id = id /\ \A y \in Entries \ {x} : table'[y] = table[y] /\ table[y].id # op.id
           /\ \A e \in Chains : first(e)' = first(e)
           /\ sizeOf(table[x])' = 0 /\ startOf(table[x])' = 0
           /\ \A y \in Entries \ {x} : /\ sizeOf(table[y])' = sizeOf(table[y])
                                       /\ startOf(table[y])' = startOf(table[y])
           /\ \A at, lo, hi : Layout(at, lo, hi) =>
                \A e \in Entries : hi[e] - lo[e] + 1 = BlocksFor(sizeOf(table[e])')
<1> DEFINE entry2 == [id |-> id, size |-> 0, start |-> 0]
<1>1. /\ mounted /\ mounted' /\ op.id # 0 /\ first(x) = Last
  BY AllFreed
<1>2. /\ entry2.id = id /\ entry2.size = 0 /\ entry2.start = 0 /\ (id = 0 => entry2 = Hole)
      /\ entry2 \in [id : Ids \cup {0}, size : 0 .. P * NB, start : DataBlocks \cup {0}]
  <2>1. 0 \in 0 .. P * NB
    BY Sizes
  <2>. QED BY <2>1 DEF Hole
<1> HIDE DEF entry2
<1>3. /\ table'[x] = entry2 /\ table' = [table EXCEPT ![x] = entry2]
      /\ \A y \in Entries \ {x} : table'[y] = table[y] /\ table[y].id # op.id
  BY <1>1 DEF IInv, Files, entry2
<1>4. Files'
  <2>3. table' \in [Entries -> [id : Ids \cup {0}, size : 0 .. P * NB,
                                start : DataBlocks \cup {0}]]
    BY <1>2, <1>3 DEF IInv, Files
  <2>. QED BY <1>2, <1>3, <2>3 DEF IInv, Files
<1>5. OpSound'
  BY Nothing DEF OpSound
<1>6. \A y \in Entries : /\ sizeOf(table[y])' = table'[y].size
                         /\ startOf(table[y])' = table'[y].start
                         /\ sizeOf(table[y]) = table[y].size
                         /\ startOf(table[y]) = table[y].start
                         /\ (~Freeing(table[y].id))'
  BY Nothing DEF sizeOf, startOf, Writing, Growing, Freeing
<1>7. \A y \in Entries \ {x} : ~Freeing(table[y].id)
  BY <1>3 DEF Freeing
<1>8. \A e \in Chains : first(e)' = first(e)
  <2>1. first(0)' = first(0)
    BY <1>1 DEF first
  <2>2. first(x)' = first(x)
    BY <1>1, <1>2, <1>3, <1>6, EntriesAre DEF first
  <2>3. \A y \in Entries \ {x} : first(y)' = first(y)
    BY <1>3, <1>6, <1>7, EntriesAre DEF first
  <2>. QED BY <2>1, <2>2, <2>3 DEF Chains
<1>9. ASSUME NEW at, NEW lo, NEW hi, Layout(at, lo, hi), NEW e \in Entries
      PROVE  hi[e] - lo[e] + 1 = BlocksFor(sizeOf(table[e])')
  <2>1. CASE e = x
    <3>1. hi[x] - lo[x] + 1 = 0
      BY <1>9, AllFreed
    <3>. QED BY <1>2, <1>3, <1>6, <2>1, <3>1, BlocksForNone
  <2>2. CASE e # x
    BY <1>3, <1>6, <1>7, <1>9, <2>2 DEF Layout
  <2>. QED BY <2>1, <2>2
<1>. QED BY <1>2, <1>3, <1>4, <1>5, <1>6, <1>8, <1>9

\* DeleteFile returns: its entry is a hole.
LEMMA DeleteReturnsSound == ASSUME IInv, DeleteReturns PROVE IInv'
<1>1. /\ op.kind = "delete" /\ op.block = Last /\ op' = Idle
      /\ file_data' = [file_data EXCEPT ![entry(op.id)] = Hole]
      /\ UNCHANGED <<disk, super, mounted, free_block, number_of_files, handle>>
  BY DEF DeleteReturns
<1>2. mounted /\ op.id # 0
  BY <1>1, AllFreed
<1>3. PICK x \in Entries : table[x].id = op.id
  BY <1>1, AllFreed
<1>4. table = file_data /\ table' = file_data' /\ entry(op.id) = x
  BY <1>1, <1>2, <1>3, EntryIs DEF table
<1>5. table' = [table EXCEPT ![x] = [id |-> 0, size |-> 0, start |-> 0]] /\ 0 \in Ids \cup {0}
  BY <1>1, <1>4 DEF Hole
<1>6. /\ Files' /\ OpSound'
      /\ table'[x].id = 0 /\ \A y \in Entries \ {x} : table'[y] = table[y] /\ table[y].id # op.id
      /\ \A e \in Chains : first(e)' = first(e)
      /\ \A y \in Entries \ {x} : /\ sizeOf(table[y])' = sizeOf(table[y])
                                  /\ startOf(table[y])' = startOf(table[y])
      /\ \A at, lo, hi : Layout(at, lo, hi) =>
           \A e \in Entries : hi[e] - lo[e] + 1 = BlocksFor(sizeOf(table[e])')
  BY <1>1, <1>3, <1>5, EntryEmptied
<1>7. \A h \in Handles : handle'[h] = handle[h] /\ handle[h].id # op.id
  BY <1>1 DEF IInv, OpSound
<1>8. HandlesTyped'
  BY <1>1 DEF IInv, HandlesTyped, FileTyped
<1>9. HandlesFit'
  <2>1. \A h, g \in Handles : handle'[h].id = handle'[g].id /\ handle'[h].id # 0 => h = g
    BY <1>7 DEF IInv, HandlesFit
  <2>2. ASSUME NEW h \in Handles, handle'[h].id # 0
        PROVE  \E e \in Entries : /\ table'[e].id = handle'[h].id
                                  /\ sizeOf(table[e])' = handle'[h].size
                                  /\ startOf(table[e])' = handle'[h].start
    <3>1. PICK y \in Entries : /\ table[y].id = handle[h].id
                               /\ sizeOf(table[y]) = handle[h].size
                               /\ startOf(table[y]) = handle[h].start
      BY <1>7, <2>2 DEF IInv, HandlesFit
    <3>2. y # x
      BY <1>3, <1>7, <3>1
    <3>. QED BY <1>6, <1>7, <3>1, <3>2
  <2>. QED BY <2>1, <2>2 DEF HandlesFit
<1>10. created' \in 0 .. MaxCreated
  BY <1>1, <1>2 DEF IInv, Members, created
<1>11. \A at, lo, hi : Layout(at, lo, hi) =>
         \A h \in Handles, e \in Entries :
           handle'[h].id # 0 /\ handle'[h].block # 0 /\ table'[e].id = handle'[h].id =>
             handle'[h].block = at[e][lo[e] + blockOf(handle'[h])]
  BY <1>6, <1>7 DEF Layout
<1>. QED BY <1>1, <1>2, <1>6, <1>8, <1>9, <1>10, <1>11, Rearranged

\* Rewrite returns: entry and handle are those of an empty file.
LEMMA RewriteReturnsSound == ASSUME IInv, RewriteReturns PROVE IInv'
<1> DEFINE f == handle[op.h]
           g == [f EXCEPT !.start = 0, !.size = 0]
<1>1. /\ op.kind = "rewrite" /\ op.block = Last /\ op' = Idle
      /\ handle' = [handle EXCEPT ![op.h].start = 0, ![op.h].size = 0]
      /\ file_data' = FlushFile(op.id, 0, 0)
      /\ UNCHANGED <<disk, super, mounted, free_block, number_of_files>>
  BY DEF RewriteReturns
<1>2. mounted /\ op.id # 0 /\ op.id \in Ids
  BY <1>1, AllFreed
<1>3. PICK x \in Entries : table[x].id = op.id
  BY <1>1, AllFreed
<1>4. table = file_data /\ table' = file_data' /\ entry(op.id) = x /\ found(op.id)
  BY <1>1, <1>2, <1>3, EntryIs DEF table
<1>5. table' = [table EXCEPT ![x] = [id |-> op.id, size |-> 0, start |-> 0]]
  BY <1>1, <1>4 DEF FlushFile
<1>6. /\ Files' /\ OpSound'
      /\ table'[x].id = op.id
      /\ \A y \in Entries \ {x} : table'[y] = table[y] /\ table[y].id # op.id
      /\ \A e \in Chains : first(e)' = first(e)
      /\ sizeOf(table[x])' = 0 /\ startOf(table[x])' = 0
      /\ \A y \in Entries \ {x} : /\ sizeOf(table[y])' = sizeOf(table[y])
                                  /\ startOf(table[y])' = startOf(table[y])
      /\ \A at, lo, hi : Layout(at, lo, hi) =>
           \A e \in Entries : hi[e] - lo[e] + 1 = BlocksFor(sizeOf(table[e])')
  BY <1>1, <1>2, <1>3, <1>5, EntryEmptied
<1>7. /\ op.h \in Handles /\ f.id = op.id /\ f.pos = 0 /\ f.block = 0
      /\ f \in [id : Ids \cup {0}, size : 0 .. P * NB, start : DataBlocks \cup {0},
                pos : Nat, block : DataBlocks \cup {0}]
  BY <1>1 DEF IInv, OpSound, HandlesTyped
<1>8. /\ handle'[op.h] = g /\ \A h \in Handles \ {op.h} : handle'[h] = handle[h]
      /\ handle' = [handle EXCEPT ![op.h] = g]
  BY <1>1, <1>7 DEF IInv, HandlesTyped
<1>9. g = [id |-> op.id, size |-> 0, start |-> 0, pos |-> 0, block |-> 0]
  <2> DEFINE s == f.size
             b == f.start
             i == op.id
  <2>1. f = [id |-> i, size |-> s, start |-> b, pos |-> 0, block |-> 0]
    BY <1>7
  <2>2. g = [f EXCEPT !.start = 0, !.size = 0]
    OBVIOUS
  <2> HIDE DEF s, b, i, f, g
  <2>3. g = [id |-> i, size |-> 0, start |-> 0, pos |-> 0, block |-> 0]
    BY <2>1, <2>2
  <2>. QED BY <2>3 DEF i
<1> HIDE DEF g, f
<1>10. /\ g \in [id : Ids \cup {0}, size : 0 .. P * NB, start : DataBlocks \cup {0},
                pos : Nat, block : DataBlocks \cup {0}]
       /\ FileTyped(g) /\ g.id = op.id /\ g.size = 0 /\ g.start = 0 /\ g.block = 0
  <2>1. 0 \in 0 .. P * NB /\ 0 <= 0 /\ 0 \in Nat
    BY Sizes
  <2>. QED BY <1>2, <1>9, <2>1 DEF FileTyped
<1>11. HandlesTyped'
  <2>1. handle' \in [Handles -> [id : Ids \cup {0}, size : 0 .. P * NB, start : DataBlocks \cup {0},
                                 pos : Nat, block : DataBlocks \cup {0}]]
    BY <1>8, <1>10 DEF IInv, HandlesTyped
  <2>2. \A h \in Handles : FileTyped(handle'[h])
    BY <1>8, <1>10 DEF IInv, HandlesTyped
  <2>. QED BY <2>1, <2>2 DEF HandlesTyped, FileTyped
<1>12. \A h \in Handles : handle'[h].id = handle[h].id
  BY <1>7, <1>8, <1>10 DEF f
<1>13. HandlesFit'
  <2>1. \A h, k \in Handles : handle'[h].id = handle'[k].id /\ handle'[h].id # 0 => h = k
    BY <1>12 DEF IInv, HandlesFit
  <2>2. ASSUME NEW h \in Handles, handle'[h].id # 0
        PROVE  \E e \in Entries : /\ table'[e].id = handle'[h].id
                                  /\ sizeOf(table[e])' = handle'[h].size
                                  /\ startOf(table[e])' = handle'[h].start
    <3>1. CASE h = op.h
      BY <1>6, <1>8, <1>10, <3>1
    <3>2. CASE h # op.h
      <4>1. handle'[h] = handle[h] /\ handle[h].id # op.id
        BY <1>7, <1>8, <1>2, <3>2 DEF IInv, HandlesFit, f
      <4>2. PICK y \in Entries : /\ table[y].id = handle[h].id
                                 /\ sizeOf(table[y]) = handle[h].size
                                 /\ startOf(table[y]) = handle[h].start
        BY <2>2, <4>1 DEF IInv, HandlesFit
      <4>3. y # x
        BY <1>3, <4>1, <4>2
      <4>. QED BY <1>6, <4>1, <4>2, <4>3
    <3>. QED BY <3>1, <3>2
  <2>. QED BY <2>1, <2>2 DEF HandlesFit
<1>14. created' \in 0 .. MaxCreated
  BY <1>1, <1>2 DEF IInv, Members, created
<1>15. \A at, lo, hi : Layout(at, lo, hi) =>
         \A h \in Handles, e \in Entries :
           handle'[h].id # 0 /\ handle'[h].block # 0 /\ table'[e].id = handle'[h].id =>
             handle'[h].block = at[e][lo[e] + blockOf(handle'[h])]
  <2>1. \A y \in Entries : table'[y].id = table[y].id
    BY <1>3, <1>6
  <2>2. \A h \in Handles : handle'[h].block # 0 => handle'[h] = handle[h]
    BY <1>8, <1>10
  <2>. QED BY <2>1, <2>2 DEF Layout
<1>16. mounted' = TRUE /\ disk' = disk
  BY <1>1, <1>2
<1>. QED BY <1>6, <1>11, <1>13, <1>14, <1>15, <1>16, Rearranged

-----------------------------------------------------------------------------
\* An iteration of the loop of Rewrite or DeleteFile.
LEMMA FreeStepSound == ASSUME IInv, FreeStep PROVE IInv'
<1> DEFINE b == op.block
<1>1. /\ op.kind \in {"rewrite", "delete"} /\ b # Last
      /\ disk' = [disk EXCEPT ![b] = [disk[b] EXCEPT !.link = free_block]]
      /\ free_block' = b /\ op' = [op EXCEPT !.block = disk[b].link]
      /\ UNCHANGED <<super, mounted, number_of_files, file_data, handle>>
  BY DEF FreeStep, write, read, freedLink, nextToFree
<1>2. /\ op.id # 0 /\ op.id \in Ids
      /\ \E x \in Entries : table[x].id = op.id
      /\ \A h \in Handles : handle[h].id = op.id => handle[h].block = 0
  <2>1. CASE op.kind = "rewrite"
    <3>1. op.h \in Handles /\ op.id = handle[op.h].id /\ op.id # 0 /\ op.id \in Ids \cup {0}
          /\ handle[op.h].block = 0
      BY <2>1 DEF IInv, OpSound
    <3>. QED BY <3>1 DEF IInv, HandlesFit
  <2>2. CASE op.kind = "delete"
    BY <2>2 DEF IInv, OpSound
  <2>. QED BY <1>1, <2>1, <2>2
<1>3. PICK x \in Entries : table[x].id = op.id
  BY <1>2
<1>4. PICK at, lo, hi : Layout(at, lo, hi)
  BY DEF IInv, LaidOut
<1>5. Laid(at, lo, hi) /\ Followed(at, lo, hi, disk) /\ x \in Chains /\ x # 0 /\ 0 \in Chains
  BY <1>4, EntriesAre DEF Layout, Chains
<1>6. mounted /\ mounted' /\ table' = table /\ handle' = handle
  BY <1>1, Nothing DEF IInv, Members, table
<1>7. at[x][lo[x]] = b /\ at[0][lo[0]] = free_block
  BY <1>2, <1>3, <1>4, <1>5, <1>6, <1>1 DEF Layout, first, Freeing
<1>8. b \in DataBlocks /\ b \in Blocks /\ free_block \in Blocks \cup {Last}
  BY <1>1, <1>5, <1>7, FirstTyped, DataBlocksAre
<1>9. /\ DiskTyped'
      /\ disk'[b].link = free_block
      /\ \A c \in DataBlocks \ {b} : disk'[c].link = disk[c].link
  <2> DEFINE block2 == [disk[b] EXCEPT !.link = free_block]
  <2>1. disk[b] \in [data : [0 .. P - 1 -> Chars \cup {0}], link : Blocks \cup {Last}]
    BY <1>8 DEF IInv, DiskTyped
  <2>2. /\ block2 \in [data : [0 .. P - 1 -> Chars \cup {0}], link : Blocks \cup {Last}]
        /\ block2.link = free_block
    BY <1>8, <2>1
  <2> HIDE DEF block2
  <2>3. disk' = [disk EXCEPT ![b] = block2]
    BY <1>1 DEF block2
  <2>4. disk'[b] = block2 /\ \A c \in Blocks \ {b} : disk'[c] = disk[c]
    BY <1>8, <2>3 DEF IInv, DiskTyped
  <2>5. DiskTyped'
    BY <2>2, <2>3 DEF IInv, DiskTyped
  <2>. QED BY <2>2, <2>4, <2>5, DataBlocksAre
<1>10. PICK at2, lo2 :
         /\ Laid(at2, lo2, hi) /\ Followed(at2, lo2, hi, disk')
         /\ at2[0][lo2[0]] = b /\ at2[x][lo2[x]] = disk[b].link
         /\ \A y \in Entries : \A i \in Int : at2[y][i] = at[y][i]
         /\ \A y \in Entries \ {x} : lo2[y] = lo[y]
  <2> HIDE DEF b
  <2>1. b = at[x][lo[x]] /\ b # Last /\ disk'[b].link = at[0][lo[0]]
    BY <1>1, <1>7, <1>9
  <2>2. Pushed(at, lo, hi, disk, disk', x, b)
    BY <1>5, <1>9, <2>1, BlockPushed
  <2>. QED BY <2>2 DEF Pushed
<1>11. disk[b].link \in DataBlocks \cup {Last}
  BY <1>5, <1>10, FirstTyped
<1>12. /\ op'.kind = op.kind /\ op'.h = op.h /\ op'.id = op.id /\ op'.block = disk[b].link
       /\ op' \in [kind : Kinds, h : Handles \cup {0}, id : Ids \cup {0}, n : 0 .. MaxN,
                   c : Chars \cup {0}, block : DataBlocks \cup {Last}]
  <2> DEFINE link == disk[b].link
  <2>1. op \in [kind : Kinds, h : Handles \cup {0}, id : Ids \cup {0}, n : 0 .. MaxN,
                c : Chars \cup {0}, block : DataBlocks \cup {Last}]
    BY DEF IInv, OpSound
  <2>2. op' = [op EXCEPT !.block = link] /\ link \in DataBlocks \cup {Last}
    BY <1>1, <1>11
  <2> HIDE DEF link, b
  <2>3. /\ op'.kind = op.kind /\ op'.h = op.h /\ op'.id = op.id /\ op'.block = link
        /\ op' \in [kind : Kinds, h : Handles \cup {0}, id : Ids \cup {0}, n : 0 .. MaxN,
                    c : Chars \cup {0}, block : DataBlocks \cup {Last}]
    BY <2>1, <2>2
  <2>. QED BY <2>3 DEF link
<1>13. OpSound'
  BY <1>1, <1>6, <1>12 DEF IInv, OpSound
<1>14. Files' /\ Members' /\ HandlesTyped'
  BY <1>1, <1>6 DEF IInv, Files, Members, created, HandlesTyped, FileTyped
<1>15. \A y \in Entries : /\ sizeOf(table[y])' = sizeOf(table[y])
                          /\ startOf(table[y])' = startOf(table[y])
                          /\ (Freeing(table[y].id))' = Freeing(table[y].id)
  BY <1>1, <1>6, <1>12 DEF sizeOf, startOf, Writing, Growing, Freeing
<1>16. HandlesFit'
  BY <1>6, <1>15 DEF IInv, HandlesFit
<1>17. \A y \in Entries \ {x} : table[y].id # op.id /\ first(y)' = first(y)
  <2>1. \A y \in Entries \ {x} : table[y].id # op.id
    BY <1>2, <1>3 DEF IInv, Files
  <2>. QED BY <1>6, <1>12, <1>15, <2>1, EntriesAre DEF first, Freeing
<1>18. \A y \in Chains : at2[y][lo2[y]] = first(y)'
  <2>1. at2[0][lo2[0]] = first(0)'
    BY <1>1, <1>6, <1>10 DEF first
  <2>2. at2[x][lo2[x]] = first(x)'
    BY <1>1, <1>2, <1>3, <1>5, <1>6, <1>10, <1>12 DEF first, Freeing
  <2>3. ASSUME NEW y \in Entries \ {x} PROVE at2[y][lo2[y]] = first(y)'
    <3>1. y \in Chains /\ y # 0 /\ lo[y] \in Int
      BY <1>5, EntriesAre DEF Laid
    <3>2. at2[y][lo2[y]] = at[y][lo[y]]
      BY <1>10, <3>1
    <3>. QED BY <1>4, <1>17, <3>1, <3>2 DEF Layout
  <2>. QED BY <2>1, <2>2, <2>3 DEF Chains
<1>19. ASSUME NEW y \in Entries, (~Freeing(table[y].id))'
       PROVE  hi[y] - lo2[y] + 1 = BlocksFor(sizeOf(table[y])')
  <2>1. ~Freeing(table[y].id)
    BY <1>15, <1>19
  <2>2. y # x
    BY <1>1, <1>3, <2>1 DEF Freeing
  <2>3. lo2[y] = lo[y]
    BY <1>10, <2>2
  <2>. QED BY <1>4, <1>15, <2>1, <2>3 DEF Layout
<1>20. ASSUME NEW h \in Handles, NEW y \in Entries,
              handle'[h].id # 0, handle'[h].block # 0, table'[y].id = handle'[h].id
       PROVE  handle'[h].block = at2[y][lo2[y] + blockOf(handle'[h])]
  <2>1. y # x /\ y \in Chains /\ y # 0
    BY <1>2, <1>3, <1>6, <1>20, EntriesAre
  <2>2. handle[h].block = at[y][lo[y] + blockOf(handle[h])]
    BY <1>4, <1>6, <1>20 DEF Layout
  <2>3. lo2[y] = lo[y] /\ lo[y] \in Int
    <3>1. lo2[y] = lo[y]
      BY <1>10, <2>1
    <3>. QED BY <1>5, <2>1, <3>1 DEF Laid
  <2>4. blockOf(handle[h]) \in Int
    <3>1. handle[h].pos \in Nat
      BY DEF IInv, HandlesTyped
    <3>2. handle[h].pos \div P \in Int
      BY <3>1, DivMod
    <3>. QED BY <3>2 DEF blockOf
  <2>5. lo[y] + blockOf(handle[h]) \in Int
    BY <2>3, <2>4
  <2>6. at2[y][lo[y] + blockOf(handle[h])] = at[y][lo[y] + blockOf(handle[h])]
    BY <1>10, <2>5
  <2>. QED BY <1>6, <2>2, <2>3, <2>6
<1>21. Layout(at2, lo2, hi)'
  BY <1>10, <1>18, <1>19, <1>20 DEF Layout, Laid, Followed, blockOf, EoF, BlocksFor
<1>. QED BY <1>9, <1>13, <1>14, <1>16, <1>21 DEF IInv, LaidOut

-----------------------------------------------------------------------------
\* One block of the disk gets other links or other data.
LEMMA Relinked ==
    ASSUME NEW block \in BlockType, NEW b \in Blocks \cup {Last}
    PROVE  [block EXCEPT !.link = b] = [data |-> block.data, link |-> b]
<1> DEFINE s == block.data
           l == block.link
<1>1. block = [data |-> s, link |-> l]
  BY DEF BlockType
<1> HIDE DEF s, l
<1>2. [block EXCEPT !.link = b] = [data |-> s, link |-> b]
  BY <1>1
<1>. QED BY <1>2 DEF s

\* Writing a block changes that block.
LEMMA OneBlock ==
    ASSUME NEW d \in [Blocks -> BlockType], NEW b \in Blocks, NEW block \in BlockType
    PROVE  /\ [d EXCEPT ![b] = block] \in [Blocks -> BlockType]
           /\ [d EXCEPT ![b] = block][b] = block
           /\ \A c \in Blocks \ {b} : [d EXCEPT ![b] = block][c] = d[c]
OBVIOUS

\* Writing characters changes no link and no other character.
LEMMA WrittenLinks ==
    ASSUME NEW d \in [Blocks -> BlockType], NEW b \in Blocks, NEW off, NEW k, NEW c \in Chars \cup {0}
    PROVE  /\ written(d, b, off, k, c) \in [Blocks -> BlockType]
           /\ \A a \in Blocks : written(d, b, off, k, c)[a].link = d[a].link
           /\ \A a \in Blocks \ {b} : written(d, b, off, k, c)[a] = d[a]
           /\ \A r \in 0 .. P - 1 :
                written(d, b, off, k, c)[b].data[r]
                  = IF r \in off .. off + k - 1 THEN c ELSE d[b].data[r]
<1> DEFINE s == d[b].data
           l == d[b].link
           s2 == [i \in 0 .. P - 1 |-> IF i \in off .. off + k - 1 THEN c ELSE s[i]]
           block == [data |-> s2, link |-> l]
<1>1. s \in [0 .. P - 1 -> Chars \cup {0}] /\ l \in Blocks \cup {Last} /\ d[b] = [data |-> s, link |-> l]
  BY DEF BlockType
<1>2. written(d, b, off, k, c) = [d EXCEPT ![b] = [d[b] EXCEPT !.data = s2]]
  BY DEF written, write, read
<1>3. s2 \in [0 .. P - 1 -> Chars \cup {0}]
  BY <1>1
<1> HIDE DEF s, l, s2
<1>4. [d[b] EXCEPT !.data = s2] = block
  BY <1>1
<1>5. block \in BlockType /\ block.link = d[b].link
  BY <1>1, <1>3 DEF BlockType
<1>6. written(d, b, off, k, c) = [d EXCEPT ![b] = block]
  BY <1>2, <1>4
<1>7. \A r \in 0 .. P - 1 : block.data[r] = IF r \in off .. off + k - 1 THEN c ELSE d[b].data[r]
  BY DEF s2, s
<1> HIDE DEF block
<1>. QED BY <1>5, <1>6, <1>7, OneBlock

\* Block a of d gets b as its next one; b is made the last of a chain.
LinkedIn(d, a, b, d1) ==
    d1 = IF a = 0 THEN d ELSE [d EXCEPT ![a] = [d[a] EXCEPT !.link = b]]
EndedIn(d1, b, d2) == d2 = [d1 EXCEPT ![b].link = Last]

\* A block that is linked behind another is, as the chains go, the last one.
LEMMA LinkedDisk ==
    ASSUME NEW d \in [Blocks -> BlockType], NEW a \in DataBlocks \cup {0}, NEW b \in DataBlocks,
           a # b,
           NEW d1, LinkedIn(d, a, b, d1), NEW d2, EndedIn(d1, b, d2)
    PROVE  /\ d1 \in [Blocks -> BlockType] /\ d1[b] = d[b]
           /\ \A c \in DataBlocks : d1[c].data = d[c].data
           /\ \A c \in DataBlocks \ {a} : d1[c] = d[c]
           /\ d2[b].link = Last
           /\ a # 0 => d2[a].link = b
           /\ \A c \in DataBlocks \ {a, b} : d2[c].link = d[c].link
<1> DEFINE t  == [d[a] EXCEPT !.link = b]
           e  == [d1[b] EXCEPT !.link = Last]
<1>1. a \in Blocks /\ b \in Blocks /\ b \in Blocks \cup {Last} /\ Last \in Blocks \cup {Last}
      /\ \A c \in DataBlocks : c \in Blocks /\ c # 0
  BY DataBlocksAre
<1>2. t = [data |-> d[a].data, link |-> b]
  BY <1>1, Relinked
<1>3. t \in BlockType /\ t.link = b /\ t.data = d[a].data
  <2>1. d[a].data \in [0 .. P - 1 -> Chars \cup {0}]
    BY <1>1 DEF BlockType
  <2> HIDE DEF t
  <2>. QED BY <1>1, <1>2, <2>1 DEF BlockType
<1>8. d1 = IF a = 0 THEN d ELSE [d EXCEPT ![a] = t]
  BY DEF LinkedIn
<1> HIDE DEF t
<1>4. /\ d1 \in [Blocks -> BlockType] /\ d1[b] = d[b]
      /\ a # 0 => d1[a] = t
      /\ \A c \in Blocks \ {a} : d1[c] = d[c]
  BY <1>1, <1>3, <1>8, OneBlock
<1>5. e = [data |-> d1[b].data, link |-> Last]
  BY <1>1, <1>4, Relinked
<1>6. e \in BlockType /\ e.link = Last
  <2>1. d1[b].data \in [0 .. P - 1 -> Chars \cup {0}]
    BY <1>1, <1>4 DEF BlockType
  <2> HIDE DEF e
  <2>. QED BY <1>1, <1>5, <2>1 DEF BlockType
<1>9. d2 = [d1 EXCEPT ![b] = e]
  BY DEF EndedIn
<1> HIDE DEF e
<1>7. d2[b] = e /\ \A c \in Blocks \ {b} : d2[c] = d1[c]
  BY <1>1, <1>4, <1>6, <1>9, OneBlock
<1>. QED BY <1>1, <1>3, <1>4, <1>6, <1>7

-----------------------------------------------------------------------------
\* A Write in progress has a file to write.
LEMMA UnderwayNow == ASSUME IInv, op.kind = "write" PROVE Underway
<1>1. /\ op \in [kind : Kinds, h : Handles \cup {0}, id : Ids \cup {0}, n : 0 .. MaxN,
                 c : Chars \cup {0}, block : DataBlocks \cup {Last}]
      /\ op.h # 0 /\ op.c # 0 /\ handle[op.h].id # 0
  BY DEF IInv, OpSound
<1>2. op.h \in Handles /\ op.c \in Chars
  BY <1>1
<1>3. op = [kind |-> op.kind, h |-> op.h, id |-> op.id, n |-> op.n, c |-> op.c,
            block |-> op.block]
  BY <1>1
<1>4. op.kind \in WriteKinds
  BY DEF WriteKinds
<1>5. op \in [kind : WriteKinds, h : Handles, id : Ids \cup {0}, n : 0 .. MaxN,
              c : Chars, block : DataBlocks \cup {Last}]
  BY <1>1, <1>2, <1>3, <1>4
<1>6. mounted
  BY Nothing DEF IInv, Members
<1>. QED BY <1>1, <1>5, <1>6 DEF IInv, Underway, HandlesTyped, FileType

\* What Write knows of its file that the table does not know, the handle does.
LEMMA WriteKeeps ==
    ASSUME Underway, op'.h = op.h, op'.kind \in WriteKinds, table' = table, mounted' = mounted,
           NEW g \in FileType, g.id = handle[op.h].id, handle' = [handle EXCEPT ![op.h] = g]
    PROVE  /\ HandlesFit'
           /\ handle' \in [Handles -> FileType] /\ handle'[op.h] = g
           /\ \A i \in Handles \ {op.h} : handle'[i] = handle[i] /\ FileTyped(handle'[i])
           /\ \A y \in Entries : table[y].id # handle[op.h].id =>
                /\ sizeOf(table[y])' = sizeOf(table[y])
                /\ startOf(table[y])' = startOf(table[y])
                /\ first(y)' = first(y)
           /\ \A y \in Entries : table[y].id = handle[op.h].id =>
                /\ sizeOf(table[y])' = g.size /\ startOf(table[y])' = g.start
                /\ sizeOf(table[y]) = handle[op.h].size
                /\ startOf(table[y]) = handle[op.h].start
                /\ Writing(table[y].id)
           /\ \A y \in Entries : ~Freeing(table[y].id) /\ ~Freeing(table[y].id)'
<1> DEFINE h == op.h
<1>1. /\ h \in Handles /\ h # 0 /\ handle[h].id # 0 /\ handle \in [Handles -> FileType]
      /\ op.kind \in WriteKinds
  BY Sizes DEF Underway
<1>2. handle'[h] = g /\ \A i \in Handles \ {h} : handle'[i] = handle[i]
  BY <1>1
<1>3. handle' \in [Handles -> FileType] /\ \A i \in Handles \ {h} : FileTyped(handle'[i])
  <2>1. handle' \in [Handles -> FileType]
    BY <1>1
  <2>. QED BY <1>2, <2>1 DEF Underway
<1>5. \A id : ~Freeing(id) /\ ~Freeing(id)'
  BY <1>1 DEF Freeing, WriteKinds
<1>6. \A id : /\ Writing(id) <=> id = handle[h].id
              /\ Writing(id)' <=> id = handle[h].id
  BY <1>1, <1>2 DEF Writing, Growing, WriteKinds
<1>7. \A y \in Entries : table[y].id # handle[h].id =>
        sizeOf(table[y])' = sizeOf(table[y]) /\ startOf(table[y])' = startOf(table[y])
  BY <1>6 DEF sizeOf, startOf
<1>8. \A y \in Entries : table[y].id # handle[h].id => first(y)' = first(y)
  BY <1>5, <1>7, EntriesAre DEF first
<1>9. \A y \in Entries : table[y].id = handle[h].id =>
        sizeOf(table[y])' = g.size /\ startOf(table[y])' = g.start
  BY <1>2, <1>6 DEF sizeOf, startOf
<1>10. \A y \in Entries : table[y].id = handle[h].id =>
         /\ sizeOf(table[y]) = handle[h].size /\ startOf(table[y]) = handle[h].start
         /\ Writing(table[y].id)
  BY <1>6 DEF sizeOf, startOf
<1>11. HandlesFit'
  <2>1. \A i \in Handles : handle'[i].id = handle[i].id
    BY <1>2
  <2>2. \A i, j \in Handles : handle'[i].id = handle'[j].id /\ handle'[i].id # 0 => i = j
    BY <2>1 DEF Underway, HandlesFit
  <2>3. ASSUME NEW i \in Handles, handle'[i].id # 0
        PROVE  \E y \in Entries : /\ table'[y].id = handle'[i].id
                                  /\ sizeOf(table[y])' = handle'[i].size
                                  /\ startOf(table[y])' = handle'[i].start
    <3>1. CASE i = h
      <4>1. PICK y \in Entries : table[y].id = handle[h].id
        BY <1>1 DEF Underway, HandlesFit
      <4>. QED BY <1>2, <1>9, <3>1, <4>1
    <3>2. CASE i # h
      <4>1. handle'[i] = handle[i] /\ handle[i].id # handle[h].id
        BY <1>1, <1>2, <2>3, <3>2 DEF Underway, HandlesFit
      <4>2. PICK y \in Entries : /\ table[y].id = handle[i].id
                                 /\ sizeOf(table[y]) = handle[i].size
                                 /\ startOf(table[y]) = handle[i].start
        BY <2>3, <4>1 DEF Underway, HandlesFit
      <4>. QED BY <1>7, <4>1, <4>2
    <3>. QED BY <3>1, <3>2
  <2>. QED BY <2>2, <2>3 DEF HandlesFit
<1>. QED BY <1>1, <1>2, <1>3, <1>5, <1>6, <1>7, <1>8, <1>9, <1>10, <1>11

-----------------------------------------------------------------------------
\* Write has its block: it fills it and goes on as Read does.
LEMMA WriteMoves ==
    ASSUME Underway, NEW x \in Entries, table[x].id = handle[op.h].id,
           NEW k \in Nat, k > 0, k <= op.n, op' = [op EXCEPT !.kind = "write", !.n = @ - k],
           NEW f, f = handle[op.h], f.start # 0, k <= P - (f.pos % P),
           NEW size \in Nat, f.pos + k <= size,
           NEW at, NEW lo, NEW hi, Ready(at, lo, hi, disk', f, f.block, x, size),
           DiskTyped', at[0][lo[0]] = free_block',
           handle' = [handle EXCEPT ![op.h] = advanced(f, k, size, disk')],
           UNCHANGED <<super, mounted, number_of_files, file_data>>
    PROVE  IInv'
<1> DEFINE h == op.h
           g == advanced(f, k, size, disk')
<1>1. /\ mounted /\ mounted' /\ table' = table /\ h \in Handles /\ handle[h].id # 0 /\ h # 0
      /\ f \in FileType
  BY Sizes DEF Underway, table
<1>2. /\ Laid(at, lo, hi) /\ Followed(at, lo, hi, disk')
      /\ BlocksFor(size) = hi[x] - lo[x] + 1
      /\ f.start = at[x][lo[x]] /\ f.block = at[x][lo[x] + f.pos \div P]
      /\ x \in Chains /\ x # 0
  BY EntriesAre DEF Ready
<1>3. /\ g.id = f.id /\ g.start = f.start /\ g.size = size /\ g.pos = f.pos + k
      /\ g.block \in DataBlocks
      /\ g.block = at[x][lo[x] + blockOf(g)]
      /\ g \in FileType
  <2>1. \A d : Followed(at, lo, hi, d) =>
         LET g2 == advanced(f, k, size, d)
         IN  /\ g2.id = f.id /\ g2.start = f.start /\ g2.size = size /\ g2.pos = f.pos + k
             /\ g2.block \in DataBlocks
             /\ g2.block = at[x][lo[x] + blockOf(g2)]
             /\ g2 \in FileType
    <3> TAKE d
    <3> HAVE Followed(at, lo, hi, d)
    <3>. QED BY <1>1, <1>2, Advancing DEF FileType
  <2>. QED BY <1>2, <2>1
<1> HIDE DEF g
<1>4. /\ op' \in [kind : Kinds, h : Handles \cup {0}, id : Ids \cup {0}, n : 0 .. MaxN,
                  c : Chars \cup {0}, block : DataBlocks \cup {Last}]
      /\ op'.kind = "write" /\ op'.h = h /\ op'.c \in Chars
  <2>1. op \in [kind : WriteKinds, h : Handles, id : Ids \cup {0}, n : 0 .. MaxN,
                c : Chars, block : DataBlocks \cup {Last}]
    BY DEF Underway
  <2>2. op.n - k \in 0 .. MaxN /\ "write" \in Kinds
    BY <2>1, Sizes DEF Kinds
  <2>3. op' = [kind |-> "write", h |-> op.h, id |-> op.id, n |-> op.n - k, c |-> op.c,
               block |-> op.block]
    BY <2>1
  <2>. QED BY <2>1, <2>2, <2>3
<1>5. g.size # 0 /\ f.pos \in Nat /\ g.pos <= g.size
  BY <1>1, <1>3 DEF FileType
<1>6. /\ HandlesFit'
      /\ handle' \in [Handles -> FileType] /\ handle'[h] = g
      /\ \A i \in Handles \ {h} : handle'[i] = handle[i] /\ FileTyped(handle'[i])
      /\ \A y \in Entries \ {x} : /\ table[y].id # handle[h].id
                                  /\ sizeOf(table[y])' = sizeOf(table[y])
                                  /\ first(y)' = first(y)
      /\ sizeOf(table[x])' = size /\ startOf(table[x])' = f.start
      /\ (~Freeing(table[x].id))'
  <2>1. handle' = [handle EXCEPT ![op.h] = g] /\ g.id = handle[op.h].id
    BY <1>3 DEF g
  <2>2. op'.kind \in WriteKinds /\ op'.h = op.h /\ mounted' = mounted
    BY <1>1, <1>4 DEF WriteKinds
  <2>3. PICK g2 \in FileType : g2 = g
    BY <1>3
  <2>4. handle' = [handle EXCEPT ![op.h] = g2] /\ g2.id = handle[op.h].id /\ g2.size = size
        /\ g2.start = f.start
    BY <1>3, <2>1, <2>3
  <2>5. /\ HandlesFit'
        /\ handle' \in [Handles -> FileType] /\ handle'[op.h] = g2
        /\ \A i \in Handles \ {op.h} : handle'[i] = handle[i] /\ FileTyped(handle'[i])
        /\ \A y \in Entries : table[y].id # handle[op.h].id =>
             sizeOf(table[y])' = sizeOf(table[y]) /\ first(y)' = first(y)
        /\ \A y \in Entries : table[y].id = handle[op.h].id =>
             sizeOf(table[y])' = g2.size /\ startOf(table[y])' = g2.start
        /\ \A y \in Entries : ~Freeing(table[y].id)'
    BY <1>1, <2>2, <2>4, WriteKeeps
  <2>6. \A y \in Entries \ {x} : table[y].id # handle[h].id
    BY <1>1 DEF Underway, Files
  <2>. QED BY <2>3, <2>4, <2>5, <2>6
<1>7. HandlesTyped'
  <2>1. FileTyped(g)
    BY <1>1, <1>3, <1>5 DEF FileTyped
  <2>. QED BY <1>6, <2>1 DEF HandlesTyped, FileType
<1>8. OpSound'
  BY <1>1, <1>3, <1>4, <1>6, DataBlocksAre, Sizes DEF OpSound
<1>9. Files' /\ Members'
  BY <1>1 DEF Underway, Files, Members, created
<1>10. \A y \in Chains : at[y][lo[y]] = first(y)'
  <2>1. first(0)' = free_block'
    BY <1>1 DEF first
  <2>2. first(x)' = f.start
    BY <1>1, <1>2, <1>6 DEF first
  <2>3. \A y \in Entries \ {x} : at[y][lo[y]] = first(y)'
    BY <1>6 DEF Ready
  <2>. QED BY <1>2, <2>1, <2>2, <2>3 DEF Chains
<1>11. \A y \in Entries : hi[y] - lo[y] + 1 = BlocksFor(sizeOf(table[y])')
  <2>1. \A y \in Entries \ {x} : hi[y] - lo[y] + 1 = BlocksFor(sizeOf(table[y])')
    BY <1>6 DEF Ready
  <2>. QED BY <1>2, <1>6, <2>1
<1>12. ASSUME NEW i \in Handles, NEW y \in Entries,
              handle'[i].id # 0, handle'[i].block # 0, table'[y].id = handle'[i].id
       PROVE  handle'[i].block = at[y][lo[y] + blockOf(handle'[i])]
  <2>1. CASE i = h
    <3>1. y = x
      BY <1>1, <1>3, <1>6, <1>12, <2>1
    <3>. QED BY <1>3, <1>6, <2>1, <3>1
  <2>2. CASE i # h
    <3>1. handle'[i] = handle[i] /\ handle[i].id # handle[h].id
      BY <1>1, <1>6, <1>12, <2>2 DEF Underway, HandlesFit
    <3>2. y # x
      BY <1>1, <1>12, <3>1
    <3>. QED BY <1>1, <1>12, <2>2, <3>1, <3>2 DEF Ready
  <2>. QED BY <2>1, <2>2
<1>13. Layout(at, lo, hi)'
  BY ZenonT(60), <1>2, <1>10, <1>11, <1>12 DEF Layout, Laid, Followed, blockOf, EoF, BlocksFor
<1>. QED BY <1>6, <1>7, <1>8, <1>9, <1>13 DEF IInv, LaidOut

-----------------------------------------------------------------------------
\* Within the file, or in a block that is not full, the chains stay as they are.
LEMMA ReadyAsItIs ==
    ASSUME IInv, op.kind = "write", op.h \in Handles, ~Extends(handle[op.h]),
           NEW x \in Entries, table[x].id = handle[op.h].id,
           NEW k \in Nat, k > 0, k <= P - (handle[op.h].pos % P),
           NEW at, NEW lo, NEW hi, Layout(at, lo, hi)
    PROVE  /\ handle[op.h].start # 0
           /\ Ready(at, lo, hi, disk, handle[op.h], handle[op.h].block, x,
                    newSize(handle[op.h], k))
<1> DEFINE h == op.h
           f == handle[h]
<1>1. /\ f \in FileType /\ FileTyped(f) /\ f.id # 0 /\ (f.start # 0 => f.block # 0)
      /\ mounted
  BY Nothing DEF IInv, HandlesTyped, OpSound, FileType, Members
<1>2. f.pos \in Nat /\ f.size \in Nat /\ f.pos <= f.size
  BY <1>1, Sizes DEF FileType, FileTyped
<1>3. f.size # 0
  <2>1. 0 % P = 0
    BY Sizes
  <2>. QED BY <1>2, <2>1 DEF Extends, EoF
<1>4. f.start # 0 /\ f.block # 0
  BY <1>1, <1>3 DEF FileTyped
<1>5. f.pos < f.size \/ (f.pos <= f.size /\ f.pos % P # 0)
  BY <1>2 DEF Extends, EoF
<1>6. BlocksFor(newSize(f, k)) = BlocksFor(f.size)
  BY <1>2, <1>5, BlocksEnough DEF newSize
<1>7. sizeOf(table[x]) = f.size /\ startOf(table[x]) = f.start
  BY <1>1, EntryOfHandle
<1>8. \A y \in Entries : ~Freeing(table[y].id)
  BY DEF Freeing
<1>9. Laid(at, lo, hi) /\ Followed(at, lo, hi, disk) /\ x \in Chains /\ x # 0
  BY EntriesAre DEF Layout
<1>10. f.start = at[x][lo[x]]
  BY <1>4, <1>7, <1>8, <1>9 DEF Layout, first
<1>11. f.block = at[x][lo[x] + f.pos \div P]
  <2>1. blockOf(f) = f.pos \div P
    BY DEF blockOf, Extends
  <2>. QED BY <1>1, <1>4, <2>1 DEF Layout
<1>12. hi[x] - lo[x] + 1 = BlocksFor(newSize(f, k))
  BY <1>6, <1>7, <1>8 DEF Layout
<1>13. \A y \in Entries \ {x} : at[y][lo[y]] = first(y) /\ hi[y] - lo[y] + 1 = BlocksFor(sizeOf(table[y]))
  BY <1>8, EntriesAre DEF Layout
<1>14. \A g \in Handles \ {h}, y \in Entries \ {x} :
         handle[g].id # 0 /\ handle[g].block # 0 /\ table[y].id = handle[g].id =>
           handle[g].block = at[y][lo[y] + blockOf(handle[g])]
  BY DEF Layout
<1>. QED BY <1>4, <1>9, <1>10, <1>11, <1>12, <1>13, <1>14 DEF Ready

\* The file gets its first block, or a handle that has one keeps it.
LEMMA Started ==
    ASSUME NEW f \in FileType, NEW b \in DataBlocks
    PROVE  LET g == IF f.block = 0 THEN [f EXCEPT !.start = b] ELSE f
           IN  /\ g \in FileType /\ g.id = f.id /\ g.pos = f.pos /\ g.size = f.size
               /\ g.block = f.block /\ g.start = IF f.block = 0 THEN b ELSE f.start
<1>1. f = [id |-> f.id, size |-> f.size, start |-> f.start, pos |-> f.pos, block |-> f.block]
  BY DEF FileType
<1>2. CASE f.block = 0
  <2> DEFINE g == [id |-> f.id, size |-> f.size, start |-> b, pos |-> f.pos, block |-> f.block]
  <2>1. [f EXCEPT !.start = b] = g
    BY <1>1
  <2>2. g \in FileType
    BY DEF FileType
  <2>. QED BY <1>2, <2>1, <2>2
<1>3. CASE f.block # 0
  BY <1>3
<1>. QED BY <1>2, <1>3

\* At the end of the file and of its last block Write links a free one: where that is
\* on the disk, and what it does to the blocks.
LEMMA LinksWhere ==
    ASSUME IInv, WriteLinks, NEW f, f = handle[op.h], NEW b, b = free_block,
           NEW x \in Entries, table[x].id = f.id,
           NEW at, NEW lo, NEW hi, Layout(at, lo, hi)
    PROVE  /\ op.h \in Handles /\ op.n \in Nat /\ mounted /\ f.id # 0
           /\ f \in FileType /\ FileTyped(f)
           /\ f.pos \in Nat /\ f.size = f.pos /\ f.pos % P = 0 /\ f.block \in DataBlocks \cup {0}
           /\ (f.block = 0 <=> f.start = 0) /\ (f.start = 0 <=> f.size = 0)
           /\ BlocksFor(f.size + 1) = f.pos \div P + 1 /\ BlocksFor(f.size) = f.pos \div P
           /\ f.pos \div P \in Nat
           /\ Laid(at, lo, hi) /\ Followed(at, lo, hi, disk) /\ x \in Chains /\ x # 0
           /\ lo[x] \in Int /\ hi[x] \in Int /\ lo[0] \in Int /\ hi[0] \in Int
           /\ at[0][lo[0]] = b /\ b \in DataBlocks /\ lo[0] \in lo[0] .. hi[0]
           /\ sizeOf(table[x]) = f.size /\ startOf(table[x]) = f.start
           /\ \A y \in Entries : ~Freeing(table[y].id)
           /\ hi[x] - lo[x] + 1 = f.pos \div P /\ hi[x] + 1 = lo[x] + f.pos \div P
           /\ f.block # 0 => /\ lo[x] <= hi[x] /\ f.block = at[x][hi[x]] /\ f.start = at[x][lo[x]]
                             /\ hi[x] = lo[x] + (f.pos \div P - 1)
           /\ f.block = 0 => lo[x] = hi[x] + 1
           /\ f.block # b
           /\ disk' \in [Blocks -> BlockType] /\ disk'[b] = disk[b]
           /\ \A c \in DataBlocks : disk'[c].data = disk[c].data
           /\ chained'[b].link = Last /\ (f.block # 0 => chained'[f.block].link = b)
           /\ \A c \in DataBlocks \ {f.block, b} : chained'[c].link = disk[c].link
           /\ op'.kind = "linked" /\ op'.block = b /\ op'.h = op.h /\ op'.n = op.n
           /\ op' \in [kind : WriteKinds, h : Handles, id : Ids \cup {0}, n : 0 .. MaxN,
                       c : Chars, block : DataBlocks \cup {Last}]
<1> DEFINE h == op.h
<1>0. PICK a : a = f.block
  OBVIOUS
<1> DEFINE d1 == IF a = 0 THEN disk ELSE [disk EXCEPT ![a] = [disk[a] EXCEPT !.link = b]]
           d2 == [d1 EXCEPT ![b].link = Last]
<1>2. /\ op.kind = "write" /\ op.n > 0 /\ Extends(f) /\ b # Last
      /\ disk' = d1 /\ op' = [op EXCEPT !.kind = "linked", !.block = b]
  BY <1>0 DEF WriteLinks, read, write
<1>3. Underway /\ OpSound
  BY <1>2, UnderwayNow DEF IInv
<1>4. /\ h \in Handles /\ op.n \in Nat /\ mounted /\ f.id # 0 /\ f \in FileType /\ FileTyped(f)
      /\ (f.start # 0 => f.block # 0)
  <2>1. h \in Handles /\ op.n \in 0 .. MaxN /\ mounted /\ f.id # 0
    BY <1>3 DEF Underway
  <2>2. f \in FileType /\ FileTyped(f)
    BY <2>1 DEF IInv, HandlesTyped, FileType
  <2>. QED BY <1>2, <1>3, <2>1, <2>2 DEF OpSound
<1>6. f.pos \in Nat /\ f.size = f.pos /\ f.pos % P = 0 /\ f.block \in DataBlocks \cup {0}
      /\ (f.block = 0 <=> f.start = 0) /\ (f.start = 0 <=> f.size = 0)
  BY <1>2, <1>4, Sizes DEF FileType, FileTyped, Extends, EoF
<1>7. BlocksFor(f.size + 1) = f.pos \div P + 1 /\ BlocksFor(f.size) = f.pos \div P
      /\ f.pos \div P \in Nat
  BY <1>6, OneBlockMore, DivMod, Sizes
<1>9. /\ Laid(at, lo, hi) /\ Followed(at, lo, hi, disk) /\ x \in Chains /\ x # 0 /\ 0 \in Chains
      /\ lo[x] \in Int /\ hi[x] \in Int /\ lo[0] \in Int /\ hi[0] \in Int
  BY EntriesAre DEF Layout, Chains, Laid
<1>10. at[0][lo[0]] = b
  BY <1>4, <1>9 DEF Layout, first
<1>11. b \in DataBlocks
  BY <1>2, <1>9, <1>10, FirstTyped
<1>12. sizeOf(table[x]) = f.size /\ startOf(table[x]) = f.start
  BY <1>4, EntryOfHandle
<1>13. \A y \in Entries : ~Freeing(table[y].id)
  BY <1>2 DEF Freeing
<1>14. hi[x] - lo[x] + 1 = f.pos \div P /\ hi[x] + 1 = lo[x] + f.pos \div P
  <2>1. hi[x] - lo[x] + 1 = BlocksFor(f.size)
    BY <1>12, <1>13 DEF Layout
  <2>. QED BY <1>7, <1>9, <2>1
<1>15. /\ f.block # 0 => /\ lo[x] <= hi[x] /\ f.block = at[x][hi[x]] /\ f.start = at[x][lo[x]]
                         /\ hi[x] = lo[x] + (f.pos \div P - 1)
       /\ f.block = 0 => lo[x] = hi[x] + 1
  <2>1. CASE f.block # 0
    <3>1. f.size # 0 /\ f.start # 0
      BY <1>6, <2>1
    <3>2. f.pos \div P # 0
      BY <1>6, <1>7, <3>1, BlocksForIs
    <3>3. blockOf(f) = f.pos \div P - 1 /\ lo[x] + (f.pos \div P - 1) = hi[x]
      BY <1>6, <1>7, <1>9, <1>14 DEF blockOf, EoF
    <3>4. f.block = at[x][lo[x] + blockOf(f)]
      BY <1>4, <2>1 DEF Layout
    <3>5. f.start = at[x][lo[x]]
      BY <1>9, <1>12, <1>13, <3>1 DEF Layout, first
    <3>6. lo[x] <= hi[x]
      BY <1>7, <1>9, <1>14, <3>2
    <3>. QED BY <2>1, <3>3, <3>4, <3>5, <3>6
  <2>2. CASE f.block = 0
    <3>1. f.pos \div P = 0
      BY <1>6, <1>7, <2>2, BlocksForIs
    <3>. QED BY <1>9, <1>14, <2>2, <3>1
  <2>. QED BY <2>1, <2>2
<1>19. lo[0] \in lo[0] .. hi[0]
  <2>1. hi[0] - lo[0] + 1 # 0
    BY <1>2, <1>9, <1>10, FirstTyped
  <2>2. lo[0] <= hi[0] + 1
    BY <1>9 DEF Laid
  <2>. QED BY <1>9, <2>1, <2>2
<1>16. f.block # b
  <2>2. CASE f.block # 0
    <3>1. hi[x] \in lo[x] .. hi[x]
      BY <1>9, <1>15, <2>2
    <3>2. at[x][hi[x]] # at[0][lo[0]]
      BY <1>9, <1>19, <3>1 DEF Laid
    <3>. QED BY <1>10, <1>15, <2>2, <3>2
  <2>3. CASE f.block = 0
    BY <1>11, <2>3, DataBlocksAre
  <2>. QED BY <2>2, <2>3
<1>17. /\ d1 \in [Blocks -> BlockType] /\ d1[b] = disk[b] /\ d2[b].link = Last
       /\ \A c \in DataBlocks : d1[c].data = disk[c].data
       /\ f.block # 0 => d2[f.block].link = b
       /\ \A c \in DataBlocks \ {f.block, b} : d2[c].link = disk[c].link
  <2>1. disk \in [Blocks -> BlockType]
    BY DEF IInv, DiskTyped, BlockType
  <2>2. a \in DataBlocks \cup {0} /\ a # b
    BY <1>0, <1>6, <1>16
  <2>3. /\ d1 \in [Blocks -> BlockType] /\ d1[b] = disk[b] /\ d2[b].link = Last
        /\ \A c \in DataBlocks : d1[c].data = disk[c].data
        /\ a # 0 => d2[a].link = b
        /\ \A c \in DataBlocks \ {a, b} : d2[c].link = disk[c].link
    <3>1. PICK e1 : e1 = d1
      OBVIOUS
    <3>2. e1 = IF a = 0 THEN disk ELSE [disk EXCEPT ![a] = [disk[a] EXCEPT !.link = b]]
      BY <3>1
    <3> HIDE DEF d1
    <3>3. PICK e2 : e2 = d2
      OBVIOUS
    <3>4. e2 = [e1 EXCEPT ![b].link = Last]
      BY <3>1, <3>3
    <3> HIDE DEF d2
    <3>5. PICK e : e = disk
      OBVIOUS
    <3>6. /\ e1 \in [Blocks -> BlockType] /\ e1[b] = e[b] /\ e2[b].link = Last
          /\ \A c \in DataBlocks : e1[c].data = e[c].data
          /\ a # 0 => e2[a].link = b
          /\ \A c \in DataBlocks \ {a, b} : e2[c].link = e[c].link
      <4>1. e \in [Blocks -> BlockType] /\ a \in DataBlocks \cup {0} /\ b \in DataBlocks /\ a # b
        BY <1>11, <2>1, <2>2, <3>5
      <4>2. LinkedIn(e, a, b, e1) /\ EndedIn(e1, b, e2)
        BY <3>2, <3>4, <3>5 DEF LinkedIn, EndedIn
      <4>. QED BY <4>1, <4>2, LinkedDisk
    <3>. QED BY <3>1, <3>3, <3>5, <3>6
  <2> HIDE DEF d1, d2
  <2>. QED BY <1>0, <2>3
<1> HIDE DEF d1
<1>20. chained' = d2 /\ op'.kind = "linked" /\ op'.block = b /\ op'.h = h /\ op'.n = op.n
       /\ op' \in [kind : WriteKinds, h : Handles, id : Ids \cup {0}, n : 0 .. MaxN,
                   c : Chars, block : DataBlocks \cup {Last}]
  <2>1. op \in [kind : WriteKinds, h : Handles, id : Ids \cup {0}, n : 0 .. MaxN,
                c : Chars, block : DataBlocks \cup {Last}]
    BY <1>3 DEF Underway
  <2>2. op' = [kind |-> "linked", h |-> op.h, id |-> op.id, n |-> op.n, c |-> op.c, block |-> b]
    BY <1>2, <2>1
  <2>3. "linked" \in WriteKinds
    BY DEF WriteKinds
  <2>4. op'.kind = "linked" /\ op'.block = b
    BY <2>2
  <2>. QED BY <1>2, <1>11, <2>1, <2>2, <2>3, <2>4 DEF chained
<1>. QED BY <1>2, <1>4, <1>6, <1>7, <1>9, <1>10, <1>11, <1>12, <1>13, <1>14, <1>15, <1>16, <1>17, <1>19,
         <1>20, Zenon

\* The picture after it.
LEMMA LinksSound == ASSUME IInv, WriteLinks PROVE GInv'
<1> DEFINE h == op.h
<1>1. PICK f, b : f = handle[h] /\ b = free_block
  OBVIOUS
<1> DEFINE g  == IF f.block = 0 THEN [f EXCEPT !.start = b] ELSE f
<1>2. /\ op.kind = "write" /\ op.n > 0 /\ Extends(f) /\ b # Last
      /\ free_block' = disk[b].link
      /\ handle' = IF f.block = 0 THEN [handle EXCEPT ![h].start = b] ELSE handle
      /\ UNCHANGED <<super, mounted, number_of_files, file_data>>
  BY <1>1 DEF WriteLinks, read, write
<1>3. Underway
  BY <1>2, UnderwayNow
<1>5. PICK x \in Entries : table[x].id = f.id
  BY <1>1, <1>3 DEF Underway, HandlesFit
<1>8. PICK at, lo, hi : Layout(at, lo, hi)
  BY DEF IInv, LaidOut
<1>40. PICK d2 : d2 = chained'
  OBVIOUS
<1>4. /\ h \in Handles /\ op.n \in Nat /\ mounted /\ f.id # 0 /\ f \in FileType
      /\ f.pos \in Nat /\ f.size = f.pos /\ f.block \in DataBlocks \cup {0}
      /\ (f.block = 0 <=> f.start = 0) /\ (f.start = 0 <=> f.size = 0)
      /\ BlocksFor(f.size + 1) = f.pos \div P + 1 /\ f.pos \div P \in Nat
      /\ Laid(at, lo, hi) /\ Followed(at, lo, hi, disk) /\ x \in Chains /\ x # 0
      /\ lo[x] \in Int /\ hi[x] \in Int
      /\ at[0][lo[0]] = b /\ b \in DataBlocks
      /\ \A y \in Entries : ~Freeing(table[y].id)
      /\ hi[x] - lo[x] + 1 = f.pos \div P /\ hi[x] + 1 = lo[x] + f.pos \div P
      /\ f.block # 0 => /\ lo[x] <= hi[x] /\ f.block = at[x][hi[x]] /\ f.start = at[x][lo[x]]
                        /\ hi[x] = lo[x] + (f.pos \div P - 1)
      /\ f.block = 0 => lo[x] = hi[x] + 1
      /\ f.block # b
  BY <1>1, <1>5, <1>8, LinksWhere
<1>6. /\ disk' \in [Blocks -> BlockType] /\ disk'[b] = disk[b]
      /\ d2[b].link = Last /\ (f.block # 0 => d2[f.block].link = b)
      /\ \A c \in DataBlocks \ {f.block, b} : d2[c].link = disk[c].link
      /\ op'.kind = "linked" /\ op'.block = b /\ op'.h = h /\ op'.n = op.n
      /\ op' \in [kind : WriteKinds, h : Handles, id : Ids \cup {0}, n : 0 .. MaxN,
                  c : Chars, block : DataBlocks \cup {Last}]
  BY <1>1, <1>5, <1>8, <1>40, LinksWhere
<1>18. /\ g \in FileType /\ g.id = f.id /\ g.pos = f.pos /\ g.size = f.size
       /\ g.block = f.block /\ g.start = IF f.block = 0 THEN b ELSE f.start
  BY <1>4, Started
<1>19. handle' = [handle EXCEPT ![h] = g]
  <2>1. CASE f.block = 0
    BY <1>1, <1>2, <2>1
  <2>2. CASE f.block # 0
    <3>1. handle \in [Handles -> FileType] /\ handle' = handle /\ g = handle[h]
      BY <1>1, <1>2, <1>3, <2>2 DEF Underway
    <3> HIDE DEF g
    <3>. QED BY <1>4, <3>1
  <2>. QED BY <2>1, <2>2
<1> HIDE DEF g
<1>41. PICK g3 : g3 = g
  OBVIOUS
<1>21. Appended(at, lo, hi, disk, d2, x, b)
  <2>1. lo[x] <= hi[x] => d2[at[x][hi[x]]].link = b
    BY <1>4, <1>6
  <2>2. \A c \in DataBlocks : c # b /\ ~(lo[x] <= hi[x] /\ c = at[x][hi[x]])
                                => d2[c].link = disk[c].link
    BY <1>4, <1>6, DataBlocksAre
  <2>3. b = at[0][lo[0]] /\ b # Last /\ d2[b].link = Last
    BY <1>2, <1>4, <1>6
  <2>. QED BY <1>4, <2>1, <2>2, <2>3, BlockAppended
<1>22. PICK at2, lo2, hi2 :
         /\ Laid(at2, lo2, hi2) /\ Followed(at2, lo2, hi2, d2)
         /\ at2[0][lo2[0]] = disk[b].link /\ at2[x][hi[x] + 1] = b
         /\ hi2[x] = hi[x] + 1
         /\ \A i \in lo[x] .. hi[x] : at2[x][i] = at[x][i]
         /\ \A y \in Entries : lo2[y] = lo[y]
         /\ \A y \in Entries \ {x} : /\ hi2[y] = hi[y]
                                     /\ \A i \in Int : at2[y][i] = at[y][i]
  BY <1>21 DEF Appended
<1>23. table' = table /\ mounted' = mounted
  BY <1>2, <1>4 DEF table
<1>24. /\ HandlesFit'
       /\ handle' \in [Handles -> FileType] /\ handle'[h] = g
       /\ \A i \in Handles \ {h} : handle'[i] = handle[i] /\ FileTyped(handle'[i])
       /\ \A y \in Entries \ {x} : /\ sizeOf(table[y])' = sizeOf(table[y])
                                   /\ first(y)' = first(y)
  <2>1. op'.kind \in WriteKinds /\ op'.h = op.h /\ g.id = handle[op.h].id
    BY <1>1, <1>18, <1>6 DEF WriteKinds
  <2>2. PICK g2 \in FileType : g2 = g
    BY <1>18
  <2>3. handle' = [handle EXCEPT ![op.h] = g2] /\ g2.id = handle[op.h].id
    BY <1>19, <2>1, <2>2
  <2>4. /\ HandlesFit'
        /\ handle' \in [Handles -> FileType] /\ handle'[op.h] = g2
        /\ \A i \in Handles \ {op.h} : handle'[i] = handle[i] /\ FileTyped(handle'[i])
        /\ \A y \in Entries : table[y].id # handle[op.h].id =>
             sizeOf(table[y])' = sizeOf(table[y]) /\ first(y)' = first(y)
    BY <1>3, <1>23, <2>1, <2>3, WriteKeeps
  <2>5. \A y \in Entries \ {x} : table[y].id # handle[h].id
    BY <1>1, <1>4, <1>5 DEF IInv, Files
  <2>. QED BY <2>2, <2>4, <2>5
<1>25. \A y \in Entries \ {x} : at2[y][lo2[y]] = first(y)' /\ hi2[y] - lo2[y] + 1 = BlocksFor(sizeOf(table[y])')
  <2>1. \A y \in Entries \ {x} : lo[y] \in Int /\ at[y][lo[y]] = first(y)
                                 /\ hi[y] - lo[y] + 1 = BlocksFor(sizeOf(table[y]))
    BY <1>8, <1>4, EntriesAre DEF Layout, Laid
  <2>. QED BY <1>22, <1>24, <2>1
<1>26. ASSUME NEW i \in Handles \ {h}, NEW y \in Entries \ {x},
              handle'[i].id # 0, handle'[i].block # 0, table'[y].id = handle'[i].id
       PROVE  handle'[i].block = at2[y][lo2[y] + blockOf(handle'[i])]
  <2>0. handle'[i] = handle[i] /\ table'[y] = table[y]
    BY <1>23, <1>24
  <2>1. handle[i].block = at[y][lo[y] + blockOf(handle[i])]
    BY <1>8, <1>26, <2>0 DEF Layout
  <2>2. blockOf(handle[i]) \in Int
    <3>1. handle[i].pos \in Nat
      BY DEF IInv, HandlesTyped
    <3>2. handle[i].pos \div P \in Int
      BY <3>1, DivMod
    <3>. QED BY <3>2 DEF blockOf
  <2>3. lo[y] \in Int
    BY <1>4, EntriesAre DEF Laid
  <2>. QED BY <1>22, <2>0, <2>1, <2>2, <2>3
<1>27. hi2[x] - lo2[x] + 1 = BlocksFor(g.size + 1)
  BY <1>4, <1>18, <1>22
<1>28. b = at2[x][lo2[x] + g.pos \div P]
  BY <1>4, <1>18, <1>22
<1>29. g.start = at2[x][lo2[x]]
  <2>1. CASE f.block = 0
    BY <1>4, <1>18, <1>22, <2>1
  <2>2. CASE f.block # 0
    <3>1. lo[x] \in lo[x] .. hi[x]
      BY <1>4, <2>2
    <3>. QED BY <1>4, <1>18, <1>22, <2>2, <3>1
  <2>. QED BY <2>1, <2>2
<1>30. g.block # 0 => g.block = at2[x][lo2[x] + (g.pos \div P - 1)]
  <2>1. SUFFICES ASSUME f.block # 0 PROVE g.block = at2[x][lo2[x] + (g.pos \div P - 1)]
    BY <1>18
  <2>2. hi[x] \in lo[x] .. hi[x]
    BY <1>4, <2>1
  <2>. QED BY <1>4, <1>18, <1>22, <2>1, <2>2
<1>31. Grown(at2, lo2, hi2, x)'
  <2>1. table'[x].id = g3.id /\ at2[0][lo2[0]] = free_block'
    BY <1>2, <1>5, <1>18, <1>22, <1>23, <1>40, <1>41
  <2>2. /\ chained' = d2 /\ handle'[op'.h] = g3 /\ op'.kind = "linked" /\ op'.block = b
        /\ Followed(at2, lo2, hi2, d2) /\ hi2[x] - lo2[x] + 1 = BlocksFor(g3.size + 1)
        /\ g3.start = at2[x][lo2[x]] /\ b = at2[x][lo2[x] + g3.pos \div P]
        /\ g3.block # 0 => g3.block = at2[x][lo2[x] + (g3.pos \div P - 1)]
    BY <1>6, <1>22, <1>24, <1>27, <1>28, <1>29, <1>30, <1>40, <1>41
  <2>3. \A i \in Handles \ {op'.h}, y \in Entries \ {x} :
          handle'[i].id # 0 /\ handle'[i].block # 0 /\ table'[y].id = handle'[i].id =>
            handle'[i].block = at2[y][lo2[y] + blockOf(handle'[i])]
    BY <1>6, <1>26
  <2>4. /\ Followed(at2, lo2, hi2, chained')
        /\ hi2[x] - lo2[x] + 1 = BlocksFor(handle'[op'.h].size + 1)
        /\ handle'[op'.h].start = at2[x][lo2[x]]
        /\ (IF op'.kind = "linked" THEN op'.block ELSE handle'[op'.h].block)
             = at2[x][lo2[x] + handle'[op'.h].pos \div P]
    BY <2>2
  <2>5. Ready(at2, lo2, hi2, chained, handle[op.h],
              IF op.kind = "linked" THEN op.block ELSE handle[op.h].block, x, handle[op.h].size + 1)'
    BY ZenonT(60), <1>22, <1>25, <2>3, <2>4 DEF Ready, Laid, Followed, blockOf, EoF, BlocksFor
  <2>6. /\ table'[x].id = handle'[op'.h].id
        /\ handle'[op'.h].block # 0 =>
             handle'[op'.h].block = at2[x][lo2[x] + (handle'[op'.h].pos \div P - 1)]
    BY <2>1, <2>2
  <2>. QED BY <2>1, <2>5, <2>6 DEF Grown
<1>32. Underway'
  <2>1. Files' /\ Members'
    BY <1>2, <1>4, <1>23 DEF IInv, Files, Members, created
  <2>2. DiskTyped'
    BY <1>2, <1>6 DEF DiskTyped, BlockType
  <2>. QED BY <1>4, <1>18, <1>6, <1>23, <1>24, <2>1, <2>2 DEF Underway
<1>33. /\ handle'[op'.h] = g /\ Extends(g) /\ g.start # 0 /\ g.block # b
       /\ disk'[b].link = free_block' /\ (g.block # 0 => g.pos # 0)
  <2>1. Extends(g)
    BY <1>2, <1>18 DEF Extends, EoF
  <2>2. g.start # 0
    BY <1>4, <1>18, DataBlocksAre
  <2>. QED BY <1>2, <1>4, <1>6, <1>18, <1>24, <2>1, <2>2
<1>34. Growing' /\ Extends(handle[op.h])'
  BY <1>6, <1>33 DEF Growing, Extends, EoF
<1>. QED BY <1>2, <1>4, <1>6, <1>31, <1>32, <1>33, <1>34 DEF GInv

\* In the new block, too, Write ends the chain. No other block changes, and no link as
\* the chains go.
LEMMA EndsBlock ==
    ASSUME GInv, WriteEnds, NEW b, b = op.block
    PROVE  /\ disk' \in [Blocks -> BlockType] /\ b \in DataBlocks
           /\ \A a \in DataBlocks \ {b} : disk'[a] = disk[a]
           /\ \A a \in DataBlocks : disk'[a].link = chained[a].link
           /\ chained' = disk' /\ op'.kind = "ended" /\ op'.h = op.h /\ op'.n = op.n
           /\ op' \in [kind : WriteKinds, h : Handles, id : Ids \cup {0}, n : 0 .. MaxN,
                       c : Chars, block : DataBlocks \cup {Last}]
<1> DEFINE h == op.h
<1>1. PICK f, c : f = handle[h] /\ c = chained
  OBVIOUS
<1> DEFINE t == [disk[IF f.block = 0 THEN b ELSE f.block] EXCEPT !.link = Last]
<1>2. /\ op.kind = "linked"
      /\ disk' = [disk EXCEPT ![b] = t]
      /\ op' = [op EXCEPT !.kind = "ended", !.block = Last]
  BY <1>1 DEF WriteEnds, read, write
<1>3. Underway /\ b \in DataBlocks
  BY <1>1, <1>2 DEF GInv
<1>4. f \in FileType /\ disk \in [Blocks -> BlockType]
  BY <1>1, <1>3 DEF Underway, DiskTyped, BlockType
<1>9. /\ disk' \in [Blocks -> BlockType] /\ disk'[b].link = Last
      /\ \A a \in DataBlocks \ {b} : disk'[a] = disk[a]
  <2>1. (IF f.block = 0 THEN b ELSE f.block) \in Blocks /\ b \in Blocks
    BY <1>3, <1>4, DataBlocksAre DEF FileType
  <2>2. PICK a \in Blocks : a = IF f.block = 0 THEN b ELSE f.block
    BY <2>1
  <2>3. t = [data |-> disk[a].data, link |-> Last]
    BY <1>4, <2>2, Relinked
  <2>4. t \in BlockType /\ t.link = Last
    <3>1. disk[a].data \in [0 .. P - 1 -> Chars \cup {0}]
      BY <1>4 DEF BlockType
    <3> HIDE DEF t
    <3>. QED BY <2>3, <3>1 DEF BlockType
  <2> HIDE DEF t
  <2>. QED BY <1>2, <1>4, <2>1, <2>4, OneBlock, DataBlocksAre
<1>10. c[b].link = Last /\ \A a \in DataBlocks \ {b} : c[a].link = disk[a].link
  <2>1. disk[b].data \in [0 .. P - 1 -> Chars \cup {0}] /\ b \in Blocks /\ Last \in Blocks \cup {Last}
    BY <1>3, <1>4, DataBlocksAre DEF BlockType
  <2> DEFINE e == [data |-> disk[b].data, link |-> Last]
  <2>2. c = [disk EXCEPT ![b] = e]
    <3>1. c = [disk EXCEPT ![b] = [disk[b] EXCEPT !.link = Last]]
      BY <1>1, <1>2 DEF chained
    <3>2. [disk[b] EXCEPT !.link = Last] = e
      BY <1>4, <2>1, Relinked
    <3>. QED BY <3>1, <3>2
  <2>3. e \in BlockType /\ e.link = Last
    BY <2>1 DEF BlockType
  <2> HIDE DEF e
  <2>. QED BY <1>4, <2>1, <2>2, <2>3, OneBlock, DataBlocksAre
<1>11. \A a \in DataBlocks : disk'[a].link = c[a].link
  BY <1>9, <1>10
<1>12. chained' = disk' /\ op'.kind = "ended" /\ op'.h = h /\ op'.n = op.n
       /\ op' \in [kind : WriteKinds, h : Handles, id : Ids \cup {0}, n : 0 .. MaxN,
                   c : Chars, block : DataBlocks \cup {Last}]
  <2>1. op \in [kind : WriteKinds, h : Handles, id : Ids \cup {0}, n : 0 .. MaxN,
                c : Chars, block : DataBlocks \cup {Last}]
    BY <1>3 DEF Underway
  <2>2. op' = [kind |-> "ended", h |-> op.h, id |-> op.id, n |-> op.n, c |-> op.c, block |-> Last]
    BY <1>2, <2>1
  <2>3. "ended" \in WriteKinds
    BY DEF WriteKinds
  <2>4. op'.kind = "ended"
    BY <2>2
  <2>. QED BY <2>1, <2>2, <2>3, <2>4 DEF chained
<1>. QED BY <1>1, <1>3, <1>9, <1>11, <1>12

\* So the picture stays.
LEMMA EndsSound == ASSUME GInv, WriteEnds PROVE GInv'
<1> DEFINE h == op.h
<1>1. PICK f, b, c : f = handle[h] /\ b = op.block /\ c = chained
  OBVIOUS
<1> DEFINE g == [f EXCEPT !.block = b]
<1>2. /\ op.kind = "linked"
      /\ handle' = [handle EXCEPT ![h].block = b]
      /\ op' = [op EXCEPT !.kind = "ended", !.block = Last]
      /\ UNCHANGED <<super, mounted, number_of_files, file_data, free_block>>
  BY <1>1 DEF WriteEnds, read, write, fs
<1>3. /\ Underway /\ op.n > 0 /\ Extends(f) /\ f.start # 0 /\ b \in DataBlocks
      /\ disk[b].link = free_block
  BY <1>1, <1>2 DEF GInv
<1>4. /\ h \in Handles /\ mounted /\ f.id # 0 /\ f \in FileType
      /\ handle \in [Handles -> FileType] /\ disk \in [Blocks -> BlockType]
  BY <1>1, <1>3 DEF Underway, DiskTyped, BlockType
<1>5. PICK at, lo, hi : \E x \in Entries : Grown(at, lo, hi, x)
  BY DEF GInv
<1>6. PICK x \in Entries : Grown(at, lo, hi, x)
  BY <1>5
<1>7. /\ g \in FileType /\ g.id = f.id /\ g.pos = f.pos /\ g.size = f.size
      /\ g.start = f.start /\ g.block = b
  <2>1. f = [id |-> f.id, size |-> f.size, start |-> f.start, pos |-> f.pos, block |-> f.block]
    BY <1>4 DEF FileType
  <2> DEFINE g2 == [id |-> f.id, size |-> f.size, start |-> f.start, pos |-> f.pos, block |-> b]
  <2>2. g = g2
    BY <2>1
  <2>3. g2 \in FileType
    BY <1>3, <1>4 DEF FileType
  <2> HIDE DEF g
  <2>. QED BY <2>2, <2>3
<1>8. handle' = [handle EXCEPT ![h] = g]
  BY <1>1, <1>2
<1> HIDE DEF g
<1>9. /\ disk' \in [Blocks -> BlockType]
      /\ \A a \in DataBlocks : disk'[a].link = c[a].link
      /\ chained' = disk' /\ op'.kind = "ended" /\ op'.h = h /\ op'.n = op.n
      /\ op' \in [kind : WriteKinds, h : Handles, id : Ids \cup {0}, n : 0 .. MaxN,
                  c : Chars, block : DataBlocks \cup {Last}]
  BY <1>1, EndsBlock
<1>13. /\ table[x].id = f.id /\ at[0][lo[0]] = free_block
       /\ Laid(at, lo, hi) /\ Followed(at, lo, hi, c)
       /\ hi[x] - lo[x] + 1 = BlocksFor(f.size + 1)
       /\ f.start = at[x][lo[x]] /\ b = at[x][lo[x] + f.pos \div P]
       /\ \A y \in Entries \ {x} : /\ at[y][lo[y]] = first(y)
                                   /\ hi[y] - lo[y] + 1 = BlocksFor(sizeOf(table[y]))
       /\ \A i \in Handles \ {h}, y \in Entries \ {x} :
            handle[i].id # 0 /\ handle[i].block # 0 /\ table[y].id = handle[i].id =>
              handle[i].block = at[y][lo[y] + blockOf(handle[i])]
  BY <1>1, <1>2, <1>6 DEF Grown, Ready
<1>14. Followed(at, lo, hi, disk')
  BY <1>9, <1>13 DEF Followed, Laid
<1>15. table' = table /\ mounted' = mounted
  BY <1>2, <1>4 DEF table
<1>16. PICK g2 \in FileType : g2 = g
  BY <1>7
<1>17. /\ HandlesFit'
       /\ handle' \in [Handles -> FileType] /\ handle'[h] = g2
       /\ \A i \in Handles \ {h} : handle'[i] = handle[i] /\ FileTyped(handle'[i])
       /\ \A y \in Entries \ {x} : /\ sizeOf(table[y])' = sizeOf(table[y])
                                   /\ first(y)' = first(y)
  <2>1. op'.kind \in WriteKinds /\ op'.h = op.h
    BY <1>9 DEF WriteKinds
  <2>2. handle' = [handle EXCEPT ![op.h] = g2] /\ g2.id = handle[op.h].id
    BY <1>1, <1>7, <1>8, <1>16
  <2>3. /\ HandlesFit'
        /\ handle' \in [Handles -> FileType] /\ handle'[op.h] = g2
        /\ \A i \in Handles \ {op.h} : handle'[i] = handle[i] /\ FileTyped(handle'[i])
        /\ \A y \in Entries : table[y].id # handle[op.h].id =>
             sizeOf(table[y])' = sizeOf(table[y]) /\ first(y)' = first(y)
    BY <1>3, <1>15, <2>1, <2>2, WriteKeeps
  <2>4. \A y \in Entries \ {x} : table[y].id # handle[h].id
    BY <1>1, <1>3, <1>4, <1>13 DEF Underway, Files
  <2>. QED BY <2>3, <2>4
<1>18. Grown(at, lo, hi, x)'
  <2>1. \A y \in Entries \ {x} : at[y][lo[y]] = first(y)' /\ hi[y] - lo[y] + 1 = BlocksFor(sizeOf(table[y])')
    BY <1>13, <1>17
  <2>2. \A i \in Handles \ {op'.h}, y \in Entries \ {x} :
          handle'[i].id # 0 /\ handle'[i].block # 0 /\ table'[y].id = handle'[i].id =>
            handle'[i].block = at[y][lo[y] + blockOf(handle'[i])]
    BY <1>9, <1>13, <1>15, <1>17
  <2>3. handle'[op'.h] = g2 /\ g2.size = f.size /\ g2.start = f.start /\ g2.pos = f.pos /\ g2.block = b
        /\ g2.id = f.id /\ op'.kind # "linked"
    BY <1>7, <1>9, <1>16, <1>17
  <2>4. /\ Followed(at, lo, hi, chained')
        /\ hi[x] - lo[x] + 1 = BlocksFor(handle'[op'.h].size + 1)
        /\ handle'[op'.h].start = at[x][lo[x]]
        /\ (IF op'.kind = "linked" THEN op'.block ELSE handle'[op'.h].block)
             = at[x][lo[x] + handle'[op'.h].pos \div P]
    BY <1>9, <1>13, <1>14, <2>3
  <2>5. Ready(at, lo, hi, chained, handle[op.h],
              IF op.kind = "linked" THEN op.block ELSE handle[op.h].block, x, handle[op.h].size + 1)'
    BY ZenonT(60), <1>13, <2>1, <2>2, <2>4 DEF Ready, Laid, Followed, blockOf, EoF, BlocksFor
  <2>6. table'[x].id = handle'[op'.h].id /\ at[0][lo[0]] = free_block'
    BY <1>2, <1>13, <1>15, <2>3
  <2>. QED BY <2>3, <2>5, <2>6 DEF Grown
<1>19. Underway'
  <2>1. Files' /\ Members'
    BY <1>2, <1>3, <1>15 DEF Underway, Files, Members, created
  <2>2. DiskTyped'
    BY <1>9 DEF DiskTyped, BlockType
  <2>. QED BY <1>4, <1>7, <1>9, <1>15, <1>16, <1>17, <2>1, <2>2 DEF Underway
<1>20. handle'[op'.h] = g2 /\ Extends(g2) /\ g2.start # 0 /\ g2.block # 0
  BY <1>3, <1>7, <1>9, <1>16, <1>17, DataBlocksAre DEF Extends, EoF
<1>21. Growing' /\ Extends(handle[op.h])'
  BY <1>9, <1>20 DEF Growing, Extends, EoF
<1>. QED BY <1>3, <1>9, <1>18, <1>19, <1>20, <1>21 DEF GInv

\* When it writes the characters, the handle is on the block for them.
LEMMA WriteStands ==
    ASSUME IInv \/ GInv, WriteStep,
           NEW f, f = handle[op.h], NEW k, k = Least({op.n, P - (f.pos % P)})
    PROVE  /\ Underway /\ f.start # 0 /\ f.block \in DataBlocks /\ op.h \in Handles
           /\ k \in Nat /\ k > 0 /\ k <= op.n /\ k <= P - (f.pos % P)
           /\ op.kind \in {"write", "ended"} /\ ~(IInv /\ Extends(f)) /\ chained = disk
           /\ \E at, lo, hi : \E x \in Entries :
                /\ table[x].id = f.id /\ at[0][lo[0]] = free_block
                /\ Ready(at, lo, hi, disk, f, f.block, x, newSize(f, k))
<1>1. \/ IInv /\ op.kind = "write" /\ op.n > 0 /\ ~Extends(f)
      \/ GInv /\ op.kind = "ended" /\ op.n > 0 /\ ~IInv
  BY Unlinked DEF WriteStep, IInv, GInv, Growing, Underway, OpSound
<1>2. /\ Underway /\ op.n > 0 /\ op.kind \in {"write", "ended"} /\ chained = disk
      /\ ~(IInv /\ Extends(f))
  BY <1>1, UnderwayNow DEF GInv, chained
<1>3. op.h \in Handles /\ op.n \in Nat /\ f.id # 0 /\ f \in FileType /\ mounted
  BY <1>2 DEF Underway
<1>4. f.pos \in Nat /\ f.size \in Nat /\ f.pos % P \in 0 .. P - 1 /\ P \in Nat
  <2>1. f.pos \in Nat /\ f.size \in Nat
    BY <1>3, Sizes DEF FileType
  <2>. QED BY <2>1, DivMod, Sizes
<1>5. k \in Nat /\ k > 0 /\ k <= op.n /\ k <= P - (f.pos % P)
  <2> DEFINE T == {op.n, P - (f.pos % P)}
  <2>1. T \in SUBSET Nat /\ T # {} /\ op.n \in T /\ P - (f.pos % P) \in T /\ P - (f.pos % P) > 0
    BY <1>3, <1>4
  <2> HIDE DEF T
  <2>2. Least(T) \in T /\ \A y \in T : Least(T) <= y
    BY <2>1, MinOf
  <2>3. k = Least(T)
    BY DEF T
  <2>4. Least(T) = op.n \/ Least(T) = P - (f.pos % P)
    BY <2>2 DEF T
  <2>. QED BY <1>2, <1>3, <1>4, <2>1, <2>2, <2>3, <2>4
<1>6. CASE IInv /\ op.kind = "write" /\ ~Extends(f)
  <2>1. PICK x \in Entries : table[x].id = f.id
    BY <1>3, <1>6 DEF IInv, HandlesFit
  <2>2. PICK at, lo, hi : Layout(at, lo, hi)
    BY <1>6 DEF IInv, LaidOut
  <2>3. f.start # 0 /\ Ready(at, lo, hi, disk, f, f.block, x, newSize(f, k))
    BY <1>3, <1>5, <1>6, <2>1, <2>2, ReadyAsItIs
  <2>4. at[0][lo[0]] = free_block
    BY <1>3, <2>2 DEF Layout, first, Chains
  <2>5. f.block \in DataBlocks
    <3>1. f.start # 0 => f.block # 0
      BY <1>6 DEF IInv, OpSound
    <3>. QED BY <1>3, <2>3, <3>1 DEF FileType
  <2>. QED BY <1>2, <1>3, <1>5, <2>1, <2>3, <2>4, <2>5
<1>7. CASE GInv /\ op.kind = "ended"
  <2>1. PICK at, lo, hi : \E x \in Entries : Grown(at, lo, hi, x)
    BY <1>7 DEF GInv
  <2>2. PICK x \in Entries : Grown(at, lo, hi, x)
    BY <2>1
  <2>3. f.start # 0 /\ f.block \in DataBlocks /\ f.size = f.pos /\ f.pos % P = 0
    BY <1>3, <1>7 DEF GInv, FileType, Extends, EoF
  <2>4. newSize(f, k) = f.size + k /\ k <= P
    BY <1>4, <1>5, <2>3 DEF newSize
  <2>5. BlocksFor(f.size + k) = BlocksFor(f.size + 1)
    <3>1. 1 <= P
      BY Sizes
    <3>. QED BY <1>4, <1>5, <2>3, <2>4, <3>1, OneBlockMore
  <2>6. table[x].id = f.id /\ at[0][lo[0]] = free_block
        /\ Ready(at, lo, hi, disk, f, f.block, x, f.size + 1)
    BY <1>2, <1>7, <2>2 DEF Grown
  <2>7. Ready(at, lo, hi, disk, f, f.block, x, newSize(f, k))
    BY <2>4, <2>5, <2>6 DEF Ready
  <2>. QED BY <1>2, <1>3, <1>5, <2>3, <2>6, <2>7
<1>. QED BY <1>1, <1>6, <1>7

\* An iteration of the loop of Write, or what is left of it.
LEMMA WriteStepSound == ASSUME IInv \/ GInv, WriteStep PROVE IInv'
<1>1. PICK f, k : f = handle[op.h] /\ k = Least({op.n, P - (f.pos % P)})
  OBVIOUS
<1> DEFINE h == op.h
           off == f.pos % P
           d == written(disk, f.block, off, k, op.c)
           size == newSize(f, k)
<1>2. /\ disk' = d
      /\ handle' = [handle EXCEPT ![h] = advanced(f, k, size, d)]
      /\ op' = [op EXCEPT !.kind = "write", !.n = @ - k]
      /\ UNCHANGED <<super, mounted, number_of_files, file_data, free_block>>
  BY <1>1 DEF WriteStep, fs
<1>3. /\ Underway /\ f.start # 0 /\ f.block \in DataBlocks /\ h \in Handles
      /\ k \in Nat /\ k > 0 /\ k <= op.n /\ k <= P - (f.pos % P)
      /\ \E at, lo, hi : \E x \in Entries :
           /\ table[x].id = f.id /\ at[0][lo[0]] = free_block
           /\ Ready(at, lo, hi, disk, f, f.block, x, newSize(f, k))
  BY <1>1, WriteStands
<1>4. PICK at, lo, hi : \E x \in Entries :
           /\ table[x].id = f.id /\ at[0][lo[0]] = free_block
           /\ Ready(at, lo, hi, disk, f, f.block, x, size)
  BY <1>3
<1>5. PICK x \in Entries : /\ table[x].id = f.id /\ at[0][lo[0]] = free_block
                           /\ Ready(at, lo, hi, disk, f, f.block, x, size)
  BY <1>4
<1>6. size \in Nat /\ f.pos + k <= size
  <2>1. f \in FileType
    BY <1>1, <1>3 DEF Underway
  <2>2. f.pos \in Nat /\ f.size \in Nat
    BY <2>1, Sizes DEF FileType
  <2>. QED BY <1>3, <2>2 DEF newSize
<1> HIDE DEF size
<1>7. d \in [Blocks -> BlockType] /\ \A a \in Blocks : d[a].link = disk[a].link
  <2>1. f.block \in Blocks /\ disk \in [Blocks -> BlockType] /\ op.c \in Chars \cup {0}
    BY <1>3, DataBlocksAre DEF Underway, DiskTyped, BlockType
  <2>. QED BY <2>1, WrittenLinks
<1> HIDE DEF d
<1>8. DiskTyped'
  BY <1>2, <1>7 DEF DiskTyped, BlockType
<1>9. Ready(at, lo, hi, disk', f, f.block, x, size)
  <2>1. \A y \in Chains : \A i \in lo[y] .. hi[y] : at[y][i] \in Blocks
    BY <1>5, DataBlocksAre DEF Ready, Laid
  <2>2. Followed(at, lo, hi, disk')
    BY <1>2, <1>5, <1>7, <2>1 DEF Ready, Followed
  <2>. QED BY <1>5, <2>2 DEF Ready
<1>10. PICK s : s = size
  OBVIOUS
<1>11. s \in Nat /\ f.pos + k <= s /\ Ready(at, lo, hi, disk', f, f.block, x, s)
       /\ handle' = [handle EXCEPT ![op.h] = advanced(f, k, s, disk')]
       /\ table[x].id = handle[op.h].id /\ at[0][lo[0]] = free_block'
       /\ f = handle[op.h] /\ op' = [op EXCEPT !.kind = "write", !.n = @ - k]
       /\ Underway /\ f.start # 0 /\ k \in Nat /\ k > 0 /\ k <= op.n /\ k <= P - (f.pos % P)
       /\ UNCHANGED <<super, mounted, number_of_files, file_data>>
  BY <1>1, <1>2, <1>3, <1>5, <1>6, <1>9, <1>10
<1>. QED BY <1>8, <1>11, WriteMoves

-----------------------------------------------------------------------------
\* The invariant while Write takes a block says what the types are,
LEMMA TypedGrowing == ASSUME GInv PROVE TypeOK
<1>1. PICK at, lo, hi : \E x \in Entries : Grown(at, lo, hi, x)
  BY DEF GInv
<1>2. /\ Underway /\ Laid(at, lo, hi) /\ at[0][lo[0]] = free_block /\ Extends(handle[op.h])
  BY <1>1 DEF GInv, Grown, Ready
<1>3. free_block \in Blocks \cup {Last}
  BY <1>2, FirstTyped, DataBlocksAre DEF Chains
<1>4. number_of_files \in 0 .. MaxCreated
  BY <1>2 DEF Underway, Members, created
<1>5. \A e \in Entries : /\ file_data[e].id \in Ids \cup {0} /\ file_data[e].size \in 0 .. P * NB
                         /\ file_data[e].start \in Blocks
  <2>1. \A e \in Entries : file_data[e] \in [id : Ids \cup {0}, size : 0 .. P * NB, start : DataBlocks \cup {0}]
    BY <1>2 DEF Underway, Files, table
  <2>. QED BY <2>1, DataBlocksAre
<1>6. ASSUME NEW h \in Handles
      PROVE  /\ handle[h].id \in Ids \cup {0} /\ handle[h].size \in 0 .. P * NB
             /\ handle[h].pos \in 0 .. handle[h].size
             /\ handle[h].block \in Blocks
  <2>1. handle[h] \in FileType /\ handle[h].pos <= handle[h].size
    <3>1. handle[h] \in FileType
      BY <1>2 DEF Underway
    <3>2. handle[h].pos \in Nat
      BY <3>1 DEF FileType
    <3>3. CASE h = op.h
      BY <1>2, <3>1, <3>2, <3>3 DEF Extends, EoF
    <3>4. CASE h # op.h
      BY <1>2, <3>1, <3>4 DEF Underway, FileTyped
    <3>. QED BY <3>1, <3>3, <3>4
  <2>2. handle[h].pos \in 0 .. handle[h].size
    BY <2>1, Sizes DEF FileType
  <2>. QED BY <2>1, <2>2, DataBlocksAre DEF FileType
<1>7. op.n \in 0 .. MaxN /\ mounted \in BOOLEAN
      /\ disk \in [Blocks -> [data : [0 .. P - 1 -> Chars \cup {0}], link : Blocks \cup {Last}]]
  BY <1>2 DEF Underway, Members, DiskTyped
<1>. QED BY <1>3, <1>4, <1>5, <1>6, <1>7 DEF TypeOK

\* What Growing means for the chains of the other files.
LEMMA GrowingFile ==
    ASSUME GInv
    PROVE  /\ op.h \in Handles /\ op.h # 0 /\ handle[op.h].id # 0 /\ mounted /\ handle[op.h] \in FileType
           /\ \A id : ~Freeing(id) /\ (Writing(id) <=> id = handle[op.h].id)
           /\ \E at, lo, hi : \E x \in Entries :
                /\ Grown(at, lo, hi, x)
                /\ \A e \in Chains : at[e][lo[e]] = first(e)
                /\ \A y \in Entries \ {x} : table[y].id # handle[op.h].id
                /\ sizeOf(table[x]) = handle[op.h].size /\ startOf(table[x]) = handle[op.h].start
<1>1. /\ op.h \in Handles /\ op.h # 0 /\ handle[op.h].id # 0 /\ mounted /\ Underway /\ Growing
      /\ handle[op.h].start # 0 /\ handle[op.h] \in FileType
  BY Sizes DEF GInv, Underway
<1>2. \A id : ~Freeing(id) /\ (Writing(id) <=> id = handle[op.h].id)
  BY <1>1 DEF Growing, Freeing, Writing
<1>3. PICK at, lo, hi : \E x \in Entries : Grown(at, lo, hi, x)
  BY DEF GInv
<1>4. PICK x \in Entries : Grown(at, lo, hi, x)
  BY <1>3
<1>5. /\ table[x].id = handle[op.h].id /\ at[0][lo[0]] = free_block
      /\ handle[op.h].start = at[x][lo[x]]
      /\ \A y \in Entries \ {x} : at[y][lo[y]] = first(y)
  BY <1>4 DEF Grown, Ready
<1>6. sizeOf(table[x]) = handle[op.h].size /\ startOf(table[x]) = handle[op.h].start
  BY <1>2, <1>5 DEF sizeOf, startOf
<1>7. \A e \in Chains : at[e][lo[e]] = first(e)
  <2>1. first(0) = free_block
    BY <1>1 DEF first
  <2>2. first(x) = handle[op.h].start
    BY <1>1, <1>2, <1>6, EntriesAre DEF first
  <2>. QED BY <1>5, <2>1, <2>2 DEF Chains
<1>8. \A y \in Entries \ {x} : table[y].id # handle[op.h].id
  BY <1>1, <1>5 DEF Underway, Files
<1>. QED BY <1>1, <1>2, <1>4, <1>6, <1>7, <1>8

\* that every block is accounted for, the one that Write takes to its file,
LEMMA AccountedGrowing == ASSUME GInv PROVE BlocksAccounted
<1>1. /\ op.h \in Handles /\ handle[op.h].id # 0 /\ mounted /\ handle[op.h] \in FileType
      /\ \A id : ~Freeing(id) /\ (Writing(id) <=> id = handle[op.h].id)
      /\ Extends(handle[op.h]) /\ Growing
  BY GrowingFile DEF GInv
<1>2. PICK at, lo, hi : \E x \in Entries :
                /\ Grown(at, lo, hi, x)
                /\ \A e \in Chains : at[e][lo[e]] = first(e)
                /\ \A y \in Entries \ {x} : table[y].id # handle[op.h].id
                /\ sizeOf(table[x]) = handle[op.h].size /\ startOf(table[x]) = handle[op.h].start
  BY GrowingFile
<1>3. PICK x \in Entries :
                /\ Grown(at, lo, hi, x)
                /\ \A e \in Chains : at[e][lo[e]] = first(e)
                /\ \A y \in Entries \ {x} : table[y].id # handle[op.h].id
                /\ sizeOf(table[x]) = handle[op.h].size /\ startOf(table[x]) = handle[op.h].start
  BY <1>2
<1>4. /\ table[x].id = handle[op.h].id
      /\ Laid(at, lo, hi) /\ Followed(at, lo, hi, chained)
      /\ hi[x] - lo[x] + 1 = BlocksFor(handle[op.h].size + 1)
      /\ \A y \in Entries \ {x} : hi[y] - lo[y] + 1 = BlocksFor(sizeOf(table[y]))
  BY <1>3 DEF Grown, Ready
<1>5. \A e \in Chains : at[e][lo[e]] = headOf(e)
  BY <1>1, <1>3 DEF first, headOf, table
<1>6. BlocksFor(handle[op.h].size + 1) = BlocksFor(handle[op.h].size) + 1
  <2>1. handle[op.h].size \in Nat /\ handle[op.h].size % P = 0 /\ 1 <= P
    BY <1>1, Sizes DEF FileType, Extends, EoF
  <2>. QED BY <2>1, OneBlockMore
<1>7. ASSUME NEW e \in Entries
      PROVE  hi[e] - lo[e] + 1 = BlocksFor(sizeOf(file_data[e]))
                                   + (IF Growing /\ Writing(file_data[e].id) THEN 1 ELSE 0)
  <2>1. table = file_data
    BY <1>1 DEF table
  <2>2. CASE e = x
    <3>1. Writing(file_data[e].id)
      BY <1>1, <1>4, <2>1, <2>2
    <3>. QED BY <1>1, <1>3, <1>4, <1>6, <2>1, <2>2, <3>1
  <2>3. CASE e # x
    <3>1. ~Writing(file_data[e].id) /\ hi[e] - lo[e] + 1 = BlocksFor(sizeOf(file_data[e]))
      BY <1>1, <1>3, <1>4, <2>1, <2>3
    <3>2. hi[e] - lo[e] + 1 \in 0 .. NB - 1
      BY <1>4, ChainBlocks, EntriesAre
    <3>. QED BY <3>1, <3>2
  <2>. QED BY <2>2, <2>3
<1>8. op.kind = "linked" => disk[op.block].link = free_block
  BY DEF GInv
<1>. QED BY <1>4, <1>5, <1>7, <1>8, Spread

\* and that the handles are on their blocks.
LEMMA OnItsBlockGrowing == ASSUME GInv PROVE HandleOnItsBlock
<1>1. SUFFICES ASSUME NEW h \in Handles, handle[h].start # 0, handle[h].block # 0
               PROVE  handle[h].block =
                        Walk(handle[h].start)[IF Extends(handle[h]) /\ ~(op.kind = "ended" /\ op.h = h)
                                                THEN handle[h].pos \div P - 1 ELSE handle[h].pos \div P]
  BY DEF HandleOnItsBlock
<1> DEFINE f == handle[h]
<1>2. /\ op.h \in Handles /\ handle[op.h].id # 0 /\ mounted /\ Underway
      /\ \A id : ~Freeing(id) /\ (Writing(id) <=> id = handle[op.h].id)
      /\ Extends(handle[op.h]) /\ Growing
  BY GrowingFile DEF GInv
<1>3. PICK at, lo, hi : \E x \in Entries :
                /\ Grown(at, lo, hi, x)
                /\ \A e \in Chains : at[e][lo[e]] = first(e)
                /\ \A y \in Entries \ {x} : table[y].id # handle[op.h].id
                /\ sizeOf(table[x]) = handle[op.h].size /\ startOf(table[x]) = handle[op.h].start
  BY GrowingFile
<1>4. PICK x \in Entries :
                /\ Grown(at, lo, hi, x)
                /\ \A e \in Chains : at[e][lo[e]] = first(e)
                /\ \A y \in Entries \ {x} : table[y].id # handle[op.h].id
                /\ sizeOf(table[x]) = handle[op.h].size /\ startOf(table[x]) = handle[op.h].start
  BY <1>3
<1>5. /\ Laid(at, lo, hi) /\ Followed(at, lo, hi, chained) /\ x \in Chains
      /\ hi[x] - lo[x] + 1 = BlocksFor(handle[op.h].size + 1)
      /\ handle[op.h].start = at[x][lo[x]]
      /\ (IF op.kind = "linked" THEN op.block ELSE handle[op.h].block)
           = at[x][lo[x] + handle[op.h].pos \div P]
      /\ op.kind = "linked" /\ handle[op.h].block # 0 =>
           handle[op.h].block = at[x][lo[x] + (handle[op.h].pos \div P - 1)]
      /\ \A y \in Entries \ {x} : hi[y] - lo[y] + 1 = BlocksFor(sizeOf(table[y]))
      /\ \A g \in Handles \ {op.h}, y \in Entries \ {x} :
           handle[g].id # 0 /\ handle[g].block # 0 /\ table[y].id = handle[g].id =>
             handle[g].block = at[y][lo[y] + blockOf(handle[g])]
  BY <1>4, EntriesAre DEF Grown, Ready
<1>6. f \in FileType /\ f.pos \in Nat /\ f.size \in Nat /\ f.pos \div P \in Nat /\ NB \in Nat
  <2>1. f \in FileType /\ f.pos \in Nat /\ f.size \in Nat
    BY <1>2, Sizes DEF Underway, FileType
  <2>. QED BY <2>1, DivMod, Sizes
<1>7. CASE h = op.h
  <2>1. f.size = f.pos /\ f.pos % P = 0 /\ (f.pos = 0 \/ f.pos \div P # 0) /\ Extends(f)
    <3>1. f.size = f.pos /\ f.pos % P = 0
      BY <1>2, <1>7 DEF Extends, EoF
    <3>. QED BY <1>2, <1>6, <1>7, <3>1, BlocksForIs
  <2>2. hi[x] - lo[x] + 1 = f.pos \div P + 1
    <3>1. 1 <= P
      BY Sizes
    <3>. QED BY <1>5, <1>6, <1>7, <2>1, <3>1, OneBlockMore
  <2>3. lo[x] \in Int /\ hi[x] \in Int /\ hi[x] - lo[x] + 1 \in 0 .. NB - 1
    <3>1. lo[x] \in Int /\ hi[x] \in Int
      BY <1>5 DEF Laid
    <3>. QED BY <1>5, <3>1, ChainBlocks
  <2>4. CASE op.kind = "ended"
    <3>1. f.pos \div P \in 0 .. NB /\ lo[x] + f.pos \div P <= hi[x]
      BY <1>6, <2>2, <2>3
    <3>2. Walk(at[x][lo[x]])[f.pos \div P] = at[x][lo[x] + f.pos \div P]
      BY <1>5, <3>1, WalkFollows
    <3>. QED BY <1>5, <1>7, <2>4, <3>2
  <2>5. CASE op.kind = "linked"
    <3>1. f.pos # 0
      BY <1>1, <1>7, <2>5 DEF GInv
    <3>2. f.pos \div P - 1 \in 0 .. NB /\ lo[x] + (f.pos \div P - 1) <= hi[x]
      BY <1>6, <2>1, <2>2, <2>3, <3>1
    <3>3. Walk(at[x][lo[x]])[f.pos \div P - 1] = at[x][lo[x] + (f.pos \div P - 1)]
      BY <1>5, <3>2, WalkFollows
    <3>. QED BY <1>1, <1>5, <1>7, <2>1, <2>5, <3>3
  <2>. QED BY <1>2, <2>4, <2>5 DEF Growing
<1>8. CASE h # op.h
  <2>1. FileTyped(f) /\ f.id # 0 /\ f.size # 0 /\ f.pos <= f.size
    <3>1. FileTyped(f)
      BY <1>2, <1>8 DEF Underway
    <3>. QED BY <1>1, <3>1 DEF FileTyped, Closed
  <2>2. PICK y \in Entries : /\ table[y].id = f.id /\ sizeOf(table[y]) = f.size
                             /\ startOf(table[y]) = f.start
    BY <1>2, <2>1 DEF Underway, HandlesFit
  <2>3. y # x /\ y \in Chains /\ y # 0
    BY <1>2, <1>4, <1>5, <1>8, <2>1, <2>2, EntriesAre DEF Underway, HandlesFit, Grown
  <2>4. at[y][lo[y]] = f.start
    BY <1>1, <1>2, <1>4, <2>2, <2>3 DEF first
  <2>5. hi[y] - lo[y] + 1 = BlocksFor(f.size) /\ f.block = at[y][lo[y] + blockOf(f)]
    BY <1>1, <1>5, <1>8, <2>1, <2>2, <2>3
  <2>6. blockOf(f) \in 0 .. BlocksFor(f.size) - 1
    BY <1>6, <2>1, BlockInFile
  <2>7. lo[y] \in Int /\ hi[y] \in Int /\ hi[y] - lo[y] + 1 \in 0 .. NB - 1
    <3>1. lo[y] \in Int /\ hi[y] \in Int
      BY <1>5, <2>3 DEF Laid
    <3>. QED BY <1>5, <2>3, <3>1, ChainBlocks
  <2>8. blockOf(f) \in 0 .. NB /\ lo[y] + blockOf(f) <= hi[y]
    BY <1>6, <2>5, <2>6, <2>7
  <2>9. Walk(at[y][lo[y]])[blockOf(f)] = at[y][lo[y] + blockOf(f)]
    BY <1>5, <2>3, <2>8, WalkFollows
  <2>10. blockOf(f) = IF Extends(f) THEN f.pos \div P - 1 ELSE f.pos \div P
    BY DEF blockOf, Extends
  <2>. QED BY <1>8, <2>4, <2>5, <2>9, <2>10
<1>. QED BY <1>7, <1>8
-----------------------------------------------------------------------------
\* An empty file is in range.
LEMMA SizeNone == 0 \in 0 .. P * NB /\ 0 \in DataBlocks \cup {0}
BY Sizes

\* A file is created in a hole of the table and has no blocks yet.
LEMMA EntryMade ==
    ASSUME IInv, mounted, op = Idle, op' = op, UNCHANGED <<disk, super, mounted>>,
           NEW id \in Ids, ~found(id), found(0), newEntry(id)
    PROVE  /\ Files' /\ created' \in 0 .. MaxCreated
           /\ \A e \in Chains : first(e)' = first(e)
           /\ \A e \in Entries : /\ sizeOf(table[e])' = sizeOf(table[e])
                                 /\ startOf(table[e])' = startOf(table[e])
                                 /\ ~Freeing(table[e].id)
           /\ \E x \in Entries : /\ table[x].id = 0 /\ table'[x].id = id
                                 /\ sizeOf(table[x])' = 0 /\ startOf(table[x])' = 0
                                 /\ \A y \in Entries \ {x} : table'[y] = table[y]
           /\ \A g \in Handles : handle[g].id # id
<1> DEFINE made == [id |-> id, size |-> 0, start |-> 0]
<1>1. /\ number_of_files < MaxCreated /\ number_of_files' = number_of_files + 1
      /\ file_data' = [file_data EXCEPT ![entry(0)] = made] /\ free_block' = free_block
  <2>1. [Hole EXCEPT !.id = id] = made
    BY DEF Hole
  <2> HIDE DEF made
  <2>. QED BY <2>1 DEF newEntry
<1>2. PICK x \in Entries : x = entry(0) /\ file_data[x].id = 0
  BY EntryFound
<1>3. table = file_data /\ table' = file_data' /\ mounted' /\ id # 0
  <2>1. id # 0
    BY Sizes
  <2>. QED BY <2>1 DEF table
<1>4. table[x] = Hole
  BY <1>2, <1>3 DEF IInv, Files
<1>5. /\ made \in [id : Ids \cup {0}, size : 0 .. P * NB, start : DataBlocks \cup {0}]
      /\ made.id = id /\ made.size = 0 /\ made.start = 0
  BY SizeNone, EntryTyped
<1> HIDE DEF made
<1>6. table'[x] = made /\ \A y \in Entries \ {x} : table'[y] = table[y]
  BY <1>1, <1>2, <1>3 DEF IInv, Files
<1>7. \A y \in Entries : table[y].id # id
  BY <1>3 DEF found, EntriesOf
<1>8. Files'
  <2>1. table' \in [Entries -> [id : Ids \cup {0}, size : 0 .. P * NB, start : DataBlocks \cup {0}]]
    <3>1. table' = [table EXCEPT ![x] = made]
      BY <1>1, <1>2, <1>3
    <3>. QED BY <1>5, <3>1 DEF IInv, Files
  <2>2. \A e \in Entries : table'[e].id = 0 => table'[e] = Hole
    BY <1>3, <1>5, <1>6 DEF IInv, Files
  <2>3. \A e \in Entries : table'[e].size = 0 <=> table'[e].start = 0
    BY <1>5, <1>6 DEF IInv, Files
  <2>4. \A e, g \in Entries : table'[e].id = table'[g].id /\ table'[e].id # 0 => e = g
    BY <1>5, <1>6, <1>7 DEF IInv, Files
  <2>. QED BY <2>1, <2>2, <2>3, <2>4 DEF Files
<1>9. created' \in 0 .. MaxCreated
  <2>1. number_of_files \in 0 .. MaxCreated
    BY DEF IInv, Members, created
  <2>2. number_of_files + 1 \in 0 .. MaxCreated
    BY <1>1, <2>1, Sizes
  <2>. QED BY <1>1, <1>3, <2>2 DEF created
<1>10. /\ \A i : ~Writing(i) /\ ~Writing(i)'
       /\ \A i : ~Freeing(i) /\ ~Freeing(i)'
  BY Nothing DEF Writing, Growing, Freeing
<1>11. \A e \in Entries : /\ sizeOf(table[e]) = table[e].size /\ sizeOf(table[e])' = table'[e].size
                          /\ startOf(table[e]) = table[e].start /\ startOf(table[e])' = table'[e].start
  <2>1. \A e \in Entries : ~Writing(table[e].id) /\ ~Writing(table[e].id)'
    BY Nothing DEF Writing, Growing
  <2>. QED BY <2>1 DEF sizeOf, startOf
<1>12. \A e \in Entries : table'[e].size = table[e].size /\ table'[e].start = table[e].start
  BY <1>4, <1>5, <1>6, Nothing
<1>13. \A e \in Entries : ~Freeing(table[e].id) /\ ~Freeing(table[e].id)'
  BY Nothing DEF Freeing
<1>14. \A e \in Chains : first(e)' = first(e)
  <2>1. first(0)' = first(0)
    BY <1>1, <1>3 DEF first
  <2>2. \A e \in Entries : first(e)' = first(e)
    BY <1>11, <1>12, <1>13, EntriesAre DEF first
  <2>. QED BY <2>1, <2>2 DEF Chains
<1>15. \A g \in Handles : handle[g].id # id
  BY <1>3, <1>7 DEF IInv, HandlesFit
<1>16. table[x].id = 0 /\ table'[x].id = id /\ sizeOf(table[x])' = 0 /\ startOf(table[x])' = 0
  BY <1>2, <1>3, <1>5, <1>6, <1>11
<1>. QED BY <1>2, <1>6, <1>8, <1>9, <1>11, <1>12, <1>13, <1>14, <1>15, <1>16

\* CreateFile() and the constructor hang for want of a hole.
LEMMA Hangs ==
    ASSUME IInv, mounted, op = Idle, op' = [Idle EXCEPT !.kind = "hang"],
           UNCHANGED <<disk, super, mounted, fs, handle>>
    PROVE  IInv'
<1>1. /\ op'.kind = "hang" /\ op'.h = 0 /\ op'.id = 0
      /\ op' \in [kind : Kinds, h : Handles \cup {0}, id : Ids \cup {0}, n : 0 .. MaxN,
                  c : Chars \cup {0}, block : DataBlocks \cup {Last}]
  <2> DEFINE hang == [kind |-> "hang", h |-> 0, id |-> 0, n |-> 0, c |-> 0, block |-> Last]
  <2>1. [Idle EXCEPT !.kind = "hang"] = hang
    BY DEF Idle
  <2>2. 0 \in 0 .. MaxN
    BY Sizes
  <2>3. hang \in [kind : Kinds, h : Handles \cup {0}, id : Ids \cup {0}, n : 0 .. MaxN,
                  c : Chars \cup {0}, block : DataBlocks \cup {Last}]
    BY <2>2 DEF Kinds
  <2>4. hang.kind = "hang" /\ hang.h = 0 /\ hang.id = 0
    OBVIOUS
  <2> HIDE DEF hang
  <2>5. op' = hang
    BY <2>1
  <2>. QED BY <2>3, <2>4, <2>5
<1>2. OpSound'
  BY <1>1 DEF OpSound
<1>3. table' = table
  BY DEF fs, table
<1>4. \A e \in Entries : /\ first(e)' = first(e)
                         /\ (~Freeing(table[e].id))' => ~Freeing(table[e].id)
                         /\ sizeOf(table[e])' = sizeOf(table[e])
                         /\ startOf(table[e])' = startOf(table[e])
  BY <1>1, <1>3, EntriesAre, Nothing DEF first, Freeing, sizeOf, startOf, Writing, Growing, fs
<1>. QED BY <1>2, <1>4, HandlesKept

\* CreateFile.
LEMMA CreateFileSound ==
    ASSUME IInv, RulesKept, NEW id \in Ids, CreateFile(id) PROVE IInv'
<1>1. /\ mounted /\ op = Idle /\ UNCHANGED <<disk, super, mounted, handle>>
      /\ \/ exists(id) /\ UNCHANGED <<fs, op>>
         \/ ~exists(id) /\ found(0) /\ newEntry(id) /\ UNCHANGED op
         \/ /\ ~exists(id) /\ ~found(0)
            /\ op' = [Idle EXCEPT !.kind = "hang"]
            /\ UNCHANGED fs
  BY DEF CreateFile
<1>2. CASE exists(id) /\ UNCHANGED <<fs, op>>
  <2>1. OpSound'
    BY <1>1, <1>2 DEF IInv, OpSound, table, fs
  <2>2. table' = table
    BY <1>1, <1>2 DEF fs, table
  <2>3. \A e \in Entries : /\ first(e)' = first(e)
                           /\ (~Freeing(table[e].id))' => ~Freeing(table[e].id)
                           /\ sizeOf(table[e])' = sizeOf(table[e])
                           /\ startOf(table[e])' = startOf(table[e])
    BY <1>1, <1>2, <2>2 DEF first, Freeing, sizeOf, startOf, Writing, Growing, fs
  <2>. QED BY <1>1, <1>2, <2>1, <2>3, HandlesKept
<1>3. CASE ~exists(id) /\ found(0) /\ newEntry(id) /\ UNCHANGED op
  <2>1. ~found(id)
    <3>1. "fresh" \in Rules => ~found(id)
      BY DEF CreateFile
    <3>2. CASE MaxCreated <= Unchecked + 1
      <4>1. number_of_files < MaxCreated /\ number_of_files \in 0 .. MaxCreated
        BY <1>1, <1>3 DEF newEntry, IInv, Members, created
      <4>2. number_of_files <= Unchecked
        BY <3>2, <4>1, Sizes
      <4>. QED BY <1>3, <4>2 DEF exists
    <3>. QED BY <3>1, <3>2 DEF RulesKept
  <2>2. /\ Files' /\ created' \in 0 .. MaxCreated
        /\ \A e \in Chains : first(e)' = first(e)
        /\ \A e \in Entries : /\ sizeOf(table[e])' = sizeOf(table[e])
                              /\ startOf(table[e])' = startOf(table[e])
                              /\ ~Freeing(table[e].id)
        /\ \E x \in Entries : /\ table[x].id = 0 /\ table'[x].id = id
                              /\ \A y \in Entries \ {x} : table'[y] = table[y]
        /\ \A g \in Handles : handle[g].id # id
    BY <1>1, <1>3, <2>1, EntryMade
  <2>3. PICK x \in Entries : /\ table[x].id = 0 /\ table'[x].id = id
                             /\ \A y \in Entries \ {x} : table'[y] = table[y]
    BY <2>2
  <2>4. HandlesTyped'
    BY <1>1 DEF IInv, HandlesTyped, FileTyped
  <2>5. OpSound'
    BY <1>1, <1>3, Nothing DEF OpSound
  <2>6. \A g \in Handles : handle'[g] = handle[g] /\ handle[g].id # id
    BY <1>1, <2>2
  <2>7. HandlesFit'
    <3>1. ASSUME NEW g \in Handles, handle[g].id # 0
          PROVE  \E e \in Entries : /\ table'[e].id = handle[g].id
                                    /\ sizeOf(table[e])' = handle[g].size
                                    /\ startOf(table[e])' = handle[g].start
      <4>1. PICK y \in Entries : /\ table[y].id = handle[g].id
                                 /\ sizeOf(table[y]) = handle[g].size
                                 /\ startOf(table[y]) = handle[g].start
        BY <3>1 DEF IInv, HandlesFit
      <4>2. y # x
        BY <2>3, <3>1, <4>1
      <4>. QED BY <2>2, <2>3, <4>1, <4>2
    <3>2. \A g, i \in Handles : handle'[g].id = handle'[i].id /\ handle'[g].id # 0 => g = i
      BY <2>6 DEF IInv, HandlesFit
    <3>. QED BY <2>6, <3>1, <3>2 DEF HandlesFit
  <2>8. ASSUME NEW at, NEW lo, NEW hi, Layout(at, lo, hi)
        PROVE  /\ \A e \in Entries : (~Freeing(table[e].id))' =>
                     hi[e] - lo[e] + 1 = BlocksFor(sizeOf(table[e])')
               /\ \A g \in Handles, e \in Entries :
                    handle'[g].id # 0 /\ handle'[g].block # 0 /\ table'[e].id = handle'[g].id =>
                      handle'[g].block = at[e][lo[e] + blockOf(handle'[g])]
    <3>1. \A e \in Entries : hi[e] - lo[e] + 1 = BlocksFor(sizeOf(table[e])')
      BY <2>2, <2>8 DEF Layout
    <3>2. \A g \in Handles, e \in Entries : table'[e].id = handle'[g].id => table[e].id = handle[g].id
      BY <2>3, <2>6
    <3>3. \A g \in Handles, e \in Entries :
            handle'[g].id # 0 /\ handle'[g].block # 0 /\ table'[e].id = handle'[g].id =>
              handle'[g].block = at[e][lo[e] + blockOf(handle'[g])]
      BY <2>6, <2>8, <3>2 DEF Layout
    <3>. QED BY <3>1, <3>3
  <2>9. mounted' = TRUE /\ disk' = disk
    BY <1>1
  <2>. QED BY <2>2, <2>4, <2>5, <2>7, <2>8, <2>9, Rearranged
<1>4. CASE ~exists(id) /\ ~found(0) /\ op' = [Idle EXCEPT !.kind = "hang"] /\ UNCHANGED fs
  BY <1>1, <1>4, Hangs
<1>. QED BY <1>1, <1>2, <1>3, <1>4

-----------------------------------------------------------------------------
\* A new handle, on a file that has none.
LEMMA HandleAdded ==
    ASSUME IInv, NEW h \in Handles, NEW id \in Ids, \A g \in Handles : handle[g].id # id,
           NEW size \in 0 .. P * NB, NEW start \in DataBlocks \cup {0}, size = 0 <=> start = 0,
           handle' = [handle EXCEPT ![h] = opened(id, size, start)],
           NEW x \in Entries, table'[x].id = id, sizeOf(table[x])' = size, startOf(table[x])' = start,
           \A y \in Entries : table[y].id # 0 =>
               /\ table'[y].id = table[y].id
               /\ sizeOf(table[y])' = sizeOf(table[y]) /\ startOf(table[y])' = startOf(table[y])
    PROVE  /\ HandlesTyped' /\ HandlesFit'
           /\ handle'[h].block = 0 /\ \A g \in Handles \ {h} : handle'[g] = handle[g]
<1> DEFINE f == opened(id, size, start)
<1>1. f = [id |-> id, size |-> size, start |-> start, pos |-> 0, block |-> 0]
  BY DEF opened
<1>2. f \in FileType /\ f.id = id /\ f.size = size /\ f.start = start /\ f.pos = 0 /\ f.block = 0
  BY <1>1 DEF FileType
<1>3. FileTyped(f)
  <2>1. id # 0 /\ 0 <= size
    BY Sizes
  <2>. QED BY <1>2, <2>1 DEF FileTyped
<1> HIDE DEF f
<1>4. handle' = [handle EXCEPT ![h] = f] /\ handle \in [Handles -> FileType]
  BY DEF f, IInv, HandlesTyped, FileType
<1>5. handle' \in [Handles -> FileType] /\ handle'[h] = f /\ \A g \in Handles \ {h} : handle'[g] = handle[g]
  BY <1>2, <1>4
<1>6. HandlesTyped'
  BY <1>3, <1>5 DEF IInv, HandlesTyped, FileType, FileTyped
<1>7. ASSUME NEW g \in Handles, NEW i \in Handles, handle'[g].id = handle'[i].id, handle'[g].id # 0
      PROVE  g = i
  BY <1>2, <1>5, <1>7 DEF IInv, HandlesFit
<1>8. ASSUME NEW g \in Handles, handle'[g].id # 0
      PROVE  \E e \in Entries : /\ table'[e].id = handle'[g].id
                                /\ sizeOf(table[e])' = handle'[g].size
                                /\ startOf(table[e])' = handle'[g].start
  <2>1. CASE g = h
    BY <1>2, <1>5, <2>1
  <2>2. CASE g # h
    <3>1. handle'[g] = handle[g] /\ handle[g].id # 0
      BY <1>5, <1>8, <2>2
    <3>2. PICK y \in Entries : /\ table[y].id = handle[g].id
                               /\ sizeOf(table[y]) = handle[g].size
                               /\ startOf(table[y]) = handle[g].start
      BY <3>1 DEF IInv, HandlesFit
    <3>. QED BY <3>1, <3>2
  <2>. QED BY <2>1, <2>2
<1>. QED BY <1>2, <1>5, <1>6, <1>7, <1>8 DEF HandlesFit

\* The constructor File(id).
LEMMA OpenSound ==
    ASSUME IInv, RulesKept, NEW h \in Handles, NEW id \in Ids, Open(h, id) PROVE IInv'
<1>1. /\ mounted /\ op = Idle /\ handle[h].id = 0 /\ UNCHANGED <<disk, super, mounted>>
      /\ \A g \in Handles : handle[g].id # id
      /\ \/ /\ found(id)
            /\ handle' = [handle EXCEPT ![h] =
                            opened(id, file_data[entry(id)].size, file_data[entry(id)].start)]
            /\ UNCHANGED <<fs, op>>
         \/ /\ ~found(id) /\ found(0) /\ newEntry(id)
            /\ handle' = [handle EXCEPT ![h] = opened(id, 0, 0)]
            /\ UNCHANGED op
         \/ /\ op' = [Idle EXCEPT !.kind = "hang"]
            /\ UNCHANGED <<fs, handle>>
  BY DEF Open, RulesKept
<1>2. OpSound' \/ op' # op
  BY <1>1, Nothing DEF OpSound
<1>3. id # 0
  BY Sizes
<1>4. CASE /\ found(id)
           /\ handle' = [handle EXCEPT ![h] =
                           opened(id, file_data[entry(id)].size, file_data[entry(id)].start)]
           /\ UNCHANGED <<fs, op>>
  <2>1. PICK x \in Entries : x = entry(id) /\ file_data[x].id = id
    BY <1>4, EntryFound
  <2>2. table' = table /\ table = file_data
    BY <1>1, <1>4 DEF fs, table
  <2>3. \A e \in Entries : /\ sizeOf(table[e]) = table[e].size /\ sizeOf(table[e])' = table[e].size
                           /\ startOf(table[e]) = table[e].start /\ startOf(table[e])' = table[e].start
                           /\ ~Freeing(table[e].id)
                           /\ ~Freeing(table[e].id)'
    BY <1>1, <1>4, <2>2, Nothing DEF sizeOf, startOf, Writing, Growing, Freeing
  <2> DEFINE size == file_data[x].size
             start == file_data[x].start
  <2>4. size \in 0 .. P * NB /\ start \in DataBlocks \cup {0} /\ (size = 0 <=> start = 0)
    BY <2>2 DEF IInv, Files
  <2>5. handle' = [handle EXCEPT ![h] = opened(id, size, start)]
    BY <1>4, <2>1
  <2>6. table'[x].id = id /\ sizeOf(table[x])' = size /\ startOf(table[x])' = start
    BY <2>1, <2>2, <2>3
  <2>7. \A y \in Entries : /\ table'[y].id = table[y].id
                           /\ sizeOf(table[y])' = sizeOf(table[y])
                           /\ startOf(table[y])' = startOf(table[y])
    BY <2>2, <2>3
  <2>8. \E s, b : s = size /\ b = start
    OBVIOUS
  <2>9. PICK s, b : s = size /\ b = start
    BY <2>8
  <2> HIDE DEF size, start
  <2>10. /\ HandlesTyped' /\ HandlesFit'
         /\ handle'[h].block = 0 /\ \A g \in Handles \ {h} : handle'[g] = handle[g]
    BY <1>1, <2>4, <2>5, <2>6, <2>7, <2>9, HandleAdded
  <2>11. \A e \in Entries : first(e)' = first(e)
    BY <1>1, <2>2, <2>3, EntriesAre DEF first
  <2>12. \A at, lo, hi : Layout(at, lo, hi) =>
           \A g \in Handles, e \in Entries :
             handle'[g].id # 0 /\ handle'[g].block # 0 /\ table[e].id = handle'[g].id =>
               handle'[g].block = at[e][lo[e] + blockOf(handle'[g])]
    BY <2>10 DEF Layout
  <2>13. UNCHANGED <<disk, super, mounted, fs>>
    BY <1>1, <1>4
  <2>. QED BY <1>1, <1>2, <1>4, <2>3, <2>7, <2>10, <2>11, <2>12, <2>13, TableKept
<1>5. CASE /\ ~found(id) /\ found(0) /\ newEntry(id)
           /\ handle' = [handle EXCEPT ![h] = opened(id, 0, 0)]
           /\ UNCHANGED op
  <2>1. /\ Files' /\ created' \in 0 .. MaxCreated
        /\ \A e \in Chains : first(e)' = first(e)
        /\ \A e \in Entries : /\ sizeOf(table[e])' = sizeOf(table[e])
                              /\ startOf(table[e])' = startOf(table[e])
                              /\ ~Freeing(table[e].id)
        /\ \E x \in Entries : /\ table[x].id = 0 /\ table'[x].id = id
                              /\ sizeOf(table[x])' = 0 /\ startOf(table[x])' = 0
                              /\ \A y \in Entries \ {x} : table'[y] = table[y]
    BY <1>1, <1>5, EntryMade
  <2>2. PICK x \in Entries : /\ table[x].id = 0 /\ table'[x].id = id
                             /\ sizeOf(table[x])' = 0 /\ startOf(table[x])' = 0
                             /\ \A y \in Entries \ {x} : table'[y] = table[y]
    BY <2>1
  <2>3. \A y \in Entries : table[y].id # 0 =>
           /\ table'[y].id = table[y].id
           /\ sizeOf(table[y])' = sizeOf(table[y]) /\ startOf(table[y])' = startOf(table[y])
    BY <2>1, <2>2
  <2>4. /\ HandlesTyped' /\ HandlesFit'
        /\ handle'[h].block = 0 /\ \A g \in Handles \ {h} : handle'[g] = handle[g]
    BY <1>1, <1>5, <2>2, <2>3, SizeNone, HandleAdded
  <2>5. ASSUME NEW at, NEW lo, NEW hi, Layout(at, lo, hi)
        PROVE  /\ \A e \in Entries : (~Freeing(table[e].id))' =>
                     hi[e] - lo[e] + 1 = BlocksFor(sizeOf(table[e])')
               /\ \A g \in Handles, e \in Entries :
                    handle'[g].id # 0 /\ handle'[g].block # 0 /\ table'[e].id = handle'[g].id =>
                      handle'[g].block = at[e][lo[e] + blockOf(handle'[g])]
    <3>1. \A e \in Entries : hi[e] - lo[e] + 1 = BlocksFor(sizeOf(table[e])')
      BY <2>1, <2>5 DEF Layout
    <3>2. ASSUME NEW g \in Handles, NEW e \in Entries,
                 handle'[g].id # 0, handle'[g].block # 0, table'[e].id = handle'[g].id
          PROVE  handle'[g].block = at[e][lo[e] + blockOf(handle'[g])]
      <4>1. handle'[g] = handle[g] /\ handle[g].id # id
        BY <1>1, <2>4, <3>2
      <4>2. table[e].id = handle[g].id
        BY <2>2, <3>2, <4>1
      <4>. QED BY <2>5, <3>2, <4>1, <4>2 DEF Layout
    <3>. QED BY <3>1, <3>2
  <2>6. mounted' = TRUE /\ disk' = disk /\ OpSound'
    BY <1>1, <1>2, <1>5
  <2>. QED BY <2>1, <2>4, <2>5, <2>6, Rearranged
<1>6. CASE op' = [Idle EXCEPT !.kind = "hang"] /\ UNCHANGED <<fs, handle>>
  BY <1>1, <1>6, Hangs
<1>. QED BY <1>1, <1>4, <1>5, <1>6

-----------------------------------------------------------------------------
\* Between the writes of a block nothing happens but the next of them,
LEMMA GrowingOnly == ASSUME GInv, [Next]_vars PROVE WriteEnds \/ WriteStep \/ UNCHANGED vars
<1>1. mounted /\ op # Idle /\ op.kind \in {"linked", "ended"}
  <2>1. Idle.kind = "idle"
    BY DEF Idle
  <2>. QED BY <2>1 DEF GInv, Underway, Growing
<1>2. ~Call
  BY <1>1 DEF Call, Format, Mount, Unmount, CreateFile, StartDelete, Open, Close, Reset,
              StartRewrite, StartRead, StartWrite
<1>3. Continue => WriteEnds \/ WriteStep
  BY <1>1 DEF Continue, ReadStep, ReadReturns, WriteLinks, DiskFull, WriteReturns, FreeStep,
              RewriteReturns, DeleteReturns
<1>. QED BY <1>2, <1>3 DEF Next

\* and when nothing does, all stays as it is.
LEMMA GrowingStutters == ASSUME GInv, UNCHANGED vars PROVE GInv'
<1>1. /\ disk' = disk /\ super' = super /\ mounted' = mounted /\ free_block' = free_block
      /\ number_of_files' = number_of_files /\ file_data' = file_data /\ handle' = handle
      /\ op' = op
  BY DEF vars
<1>2. table' = table /\ chained' = chained
  BY <1>1 DEF table, chained
<1>3. Underway'
  <2>1. Files' /\ Members' /\ DiskTyped'
    BY <1>1, <1>2 DEF GInv, Underway, Files, Members, DiskTyped, created
  <2>2. HandlesFit'
    BY <1>1, <1>2 DEF GInv, Underway, HandlesFit, sizeOf, startOf, Writing, Growing
  <2>. QED BY <1>1, <2>1, <2>2 DEF GInv, Underway
<1>4. /\ Growing' /\ op'.n > 0 /\ Extends(handle[op.h])' /\ handle'[op'.h].start # 0
      /\ op'.kind = "linked" => /\ op'.block \in DataBlocks /\ handle'[op'.h].block # op'.block
                                /\ disk'[op'.block].link = free_block'
                                /\ handle'[op'.h].block # 0 => handle'[op'.h].pos # 0
      /\ op'.kind = "ended" => handle'[op'.h].block # 0
  BY <1>1 DEF GInv, Growing, Extends, EoF
<1>5. \E at, lo, hi : \E x \in Entries : Grown(at, lo, hi, x)'
  <2>1. PICK at, lo, hi : \E x \in Entries : Grown(at, lo, hi, x)
    BY DEF GInv
  <2>2. PICK x \in Entries : Grown(at, lo, hi, x)
    BY <2>1
  <2>3. /\ \A y \in Entries : first(y)' = first(y) /\ sizeOf(table[y])' = sizeOf(table[y])
    BY <1>1, <1>2 DEF first, sizeOf, startOf, Writing, Growing, Freeing
  <2>4. /\ Laid(at, lo, hi) /\ Followed(at, lo, hi, chained')
        /\ hi[x] - lo[x] + 1 = BlocksFor(handle'[op'.h].size + 1)
        /\ handle'[op'.h].start = at[x][lo[x]]
        /\ (IF op'.kind = "linked" THEN op'.block ELSE handle'[op'.h].block)
             = at[x][lo[x] + handle'[op'.h].pos \div P]
    BY <1>1, <1>2, <2>2 DEF Grown, Ready
  <2>6. /\ \A y \in Entries \ {x} : /\ at[y][lo[y]] = first(y)'
                                    /\ hi[y] - lo[y] + 1 = BlocksFor(sizeOf(table[y])')
        /\ \A g \in Handles \ {op'.h}, y \in Entries \ {x} :
             handle'[g].id # 0 /\ handle'[g].block # 0 /\ table'[y].id = handle'[g].id =>
               handle'[g].block = at[y][lo[y] + blockOf(handle'[g])]
    BY <1>1, <1>2, <2>2, <2>3 DEF Grown, Ready
  <2>5. Ready(at, lo, hi, chained, handle[op.h],
              IF op.kind = "linked" THEN op.block ELSE handle[op.h].block, x, handle[op.h].size + 1)'
    BY ZenonT(60), <2>4, <2>6 DEF Ready, Laid, Followed, blockOf, EoF, BlocksFor
  <2>. QED BY <1>1, <1>2, <2>2, <2>5 DEF Grown
<1>. QED BY <1>3, <1>4, <1>5 DEF GInv

\* The inductive invariant: between two of the writes that take a block, that of
\* those, otherwise the picture with every chain ended.
FInv == IInv \/ GInv

\* Every step keeps the invariant.
LEMMA NextSound == ASSUME FInv, RulesKept, [Next]_vars PROVE FInv'
<1>1. CASE IInv /\ Call
  <2>1. IInv'
    BY <1>1, FormatSound, MountSound, UnmountSound, CreateFileSound, StartDeleteSound, OpenSound,
       CloseSound, ResetSound, StartRewriteSound, StartReadSound, StartWriteSound
       DEF Call
  <2>. QED BY <2>1 DEF FInv
<1>2. CASE IInv /\ Continue
  <2>1. ~WriteEnds
    BY <1>2, Unlinked DEF IInv, WriteEnds, Growing
  <2>2. IInv' \/ GInv'
    BY <1>2, <2>1, ReadStepSound, ReadReturnsSound, LinksSound, WriteStepSound, DiskFullSound,
       WriteReturnsSound, FreeStepSound, RewriteReturnsSound, DeleteReturnsSound
       DEF Continue
  <2>. QED BY <2>2 DEF FInv
<1>3. CASE IInv /\ UNCHANGED vars
  BY <1>3, Stutters DEF FInv
<1>4. CASE GInv
  BY <1>4, GrowingOnly, EndsSound, WriteStepSound, GrowingStutters DEF FInv
<1>. QED BY <1>1, <1>2, <1>3, <1>4 DEF Next, FInv

\* For clients that keep the rules, the inductive invariant holds. So, however the
\* operations of the file system follow one another, across Unmount and Mount too,
THEOREM FileInvariant ==
    ASSUME RulesKept PROVE Safe => []FInv
<1>1. Init => FInv
  BY InitInvariant DEF FInv
<1>. QED BY <1>1, NextSound, PTL DEF Safe

\* blocks, links, the table and the handles keep their types,
THEOREM TypeCorrect ==
    ASSUME RulesKept PROVE Safe => []TypeOK
<1>1. FInv => TypeOK
  BY Typed, TypedGrowing DEF FInv
<1>. QED BY <1>1, FileInvariant, PTL

\* every data block is in the free chain or in the chain of one file, no chain runs
\* in a circle, and a file has the blocks its size asks for, or one more while Write
\* takes that one; only in between Write's first two writes to the disk does a file
\* run on, into the free blocks behind its own,
THEOREM NoBlockLost ==
    ASSUME RulesKept PROVE Safe => []BlocksAccounted
<1>1. FInv => BlocksAccounted
  BY Accounted, AccountedGrowing DEF FInv
<1>. QED BY <1>1, FileInvariant, PTL

\* and a handle is on the block of its position in the chain of its file.
THEOREM HandlesInPlace ==
    ASSUME RulesKept PROVE Safe => []HandleOnItsBlock
<1>1. FInv => HandleOnItsBlock
  BY OnItsBlock, OnItsBlockGrowing DEF FInv
<1>. QED BY <1>1, FileInvariant, PTL

-----------------------------------------------------------------------------
\* Two pictures of a chain that begins with the same block agree as far as the links do.
SameStart(x, n, at, lo, hi, d, at2, lo2, hi2, d2) ==
    /\ Laid(at, lo, hi) /\ Followed(at, lo, hi, d)
    /\ Laid(at2, lo2, hi2) /\ Followed(at2, lo2, hi2, d2)
    /\ at[x][lo[x]] = at2[x][lo2[x]] /\ lo[x] + n <= hi[x] + 1
    /\ \A k \in 0 .. n - 2 : d2[at[x][lo[x] + k]].link = d[at[x][lo[x] + k]].link

LEMMA SameChain ==
    ASSUME NEW x \in Chains, NEW n \in Nat, NEW at, NEW lo, NEW hi, NEW d,
           NEW at2, NEW lo2, NEW hi2, NEW d2, SameStart(x, n, at, lo, hi, d, at2, lo2, hi2, d2)
    PROVE  \A k \in 0 .. n - 1 : at2[x][lo2[x] + k] = at[x][lo[x] + k] /\ lo2[x] + k <= hi2[x]
<1> SUFFICES ASSUME Laid(at, lo, hi), Followed(at, lo, hi, d),
                    Laid(at2, lo2, hi2), Followed(at2, lo2, hi2, d2),
                    at[x][lo[x]] = at2[x][lo2[x]], lo[x] + n <= hi[x] + 1,
                    \A k \in 0 .. n - 2 : d2[at[x][lo[x] + k]].link = d[at[x][lo[x] + k]].link
             PROVE  \A k \in 0 .. n - 1 :
                      at2[x][lo2[x] + k] = at[x][lo[x] + k] /\ lo2[x] + k <= hi2[x]
  BY Zenon DEF SameStart
<1> DEFINE Same(k) == k < n => at2[x][lo2[x] + k] = at[x][lo[x] + k] /\ lo2[x] + k <= hi2[x]
           G == {k \in Nat : Same(k)}
<1>1. /\ lo[x] \in Int /\ hi[x] \in Int /\ lo2[x] \in Int /\ hi2[x] \in Int
      /\ lo2[x] <= hi2[x] + 1 /\ at2[x][hi2[x] + 1] = Last
  BY DEF Laid
<1>2. ASSUME NEW k \in Nat, k < n, at2[x][lo2[x] + k] = at[x][lo[x] + k], lo2[x] + k <= hi2[x] + 1
      PROVE  lo2[x] + k <= hi2[x]
  <2>1. lo[x] + k \in lo[x] .. hi[x]
    BY <1>1, <1>2
  <2>2. at[x][lo[x] + k] # Last
    BY <2>1, DataBlocksAre DEF Laid
  <2>3. lo2[x] + k # hi2[x] + 1
    BY <1>1, <1>2, <2>2
  <2>. QED BY <1>1, <1>2, <2>3
<1>3. 0 \in G
  <2>1. lo[x] + 0 = lo[x] /\ lo2[x] + 0 = lo2[x]
    BY <1>1
  <2>2. ASSUME 0 < n PROVE lo2[x] + 0 <= hi2[x]
    <3>1. at2[x][lo2[x] + 0] = at[x][lo[x] + 0] /\ lo2[x] + 0 <= hi2[x] + 1
      BY <1>1, <2>1
    <3>. QED BY <1>2, <2>2, <3>1
  <2>3. Same(0)
    BY <2>1, <2>2
  <2>. QED BY <2>3
<1>4. ASSUME NEW k \in Nat, k \in G PROVE k + 1 \in G
  <2>1. SUFFICES ASSUME k + 1 < n PROVE Same(k + 1)
    BY <1>4
  <2>2. at2[x][lo2[x] + k] = at[x][lo[x] + k] /\ lo2[x] + k <= hi2[x]
    BY <1>4, <2>1
  <2>3. k \in 0 .. n - 2 /\ lo[x] + k \in lo[x] .. hi[x] /\ lo2[x] + k \in lo2[x] .. hi2[x]
    BY <1>1, <2>1, <2>2
  <2>4. d[at[x][lo[x] + k]].link = at[x][lo[x] + k + 1]
    BY <2>3 DEF Followed
  <2>5. d2[at2[x][lo2[x] + k]].link = at2[x][lo2[x] + k + 1]
    BY <2>3 DEF Followed
  <2>6. at2[x][lo2[x] + k + 1] = at[x][lo[x] + k + 1]
    BY <2>2, <2>3, <2>4, <2>5
  <2>7. lo[x] + k + 1 = lo[x] + (k + 1) /\ lo2[x] + k + 1 = lo2[x] + (k + 1)
    BY <1>1
  <2>8. at2[x][lo2[x] + (k + 1)] = at[x][lo[x] + (k + 1)] /\ lo2[x] + (k + 1) <= hi2[x] + 1
    BY <1>1, <2>2, <2>6, <2>7
  <2>9. lo2[x] + (k + 1) <= hi2[x]
    BY <1>2, <2>1, <2>8
  <2>. QED BY <2>8, <2>9
<1>5. G = Nat
  <2>1. G \subseteq Nat
    OBVIOUS
  <2> HIDE DEF G
  <2>. QED BY <1>3, <1>4, <2>1, Induction
<1>6. \A k \in Nat : Same(k)
  BY <1>5
<1>. QED BY <1>6

\* A position of a file is in one of its blocks.
LEMMA CharacterIn ==
    ASSUME NEW size \in Nat, NEW i \in 1 .. size
    PROVE  /\ i - 1 \in Nat /\ (i - 1) \div P \in Nat /\ ((i - 1) % P) \in 0 .. P - 1
           /\ (i - 1) \div P + 1 <= BlocksFor(size)
           /\ i - 1 = P * ((i - 1) \div P) + ((i - 1) % P)
<1>1. i - 1 \in Nat /\ i - 1 < size
  OBVIOUS
<1>2. PICK y \in Nat : y = i - 1
  BY <1>1
<1>3. y \div P \in Nat /\ (y % P) \in 0 .. P - 1 /\ y = P * (y \div P) + (y % P)
  BY DivMod
<1>4. y \div P + 1 <= BlocksFor(size)
  BY <1>1, <1>2, BlockOfPosition
<1>. QED BY <1>1, <1>2, <1>3, <1>4

\* The characters of a file, off the picture.
Characters(at, lo, x, d, size) ==
    [i \in 1 .. size |-> d[at[x][lo[x] + (i - 1) \div P]].data[(i - 1) % P]]

\* The disk in a picture, between the writes that take a block too.
Pictured(at, lo, hi) ==
    /\ Laid(at, lo, hi) /\ Followed(at, lo, hi, chained)
    /\ \A e \in Chains : at[e][lo[e]] = first(e)
    /\ \A e \in Entries : ~Freeing(table[e].id) =>
         BlocksFor(sizeOf(table[e])) <= hi[e] - lo[e] + 1

LEMMA LayoutPictures ==
    ASSUME IInv, NEW at, NEW lo, NEW hi, Layout(at, lo, hi) PROVE Pictured(at, lo, hi)
<1>1. Laid(at, lo, hi) /\ Followed(at, lo, hi, chained)
  BY Unlinked DEF IInv, Layout
<1>2. ASSUME NEW e \in Entries, ~Freeing(table[e].id)
      PROVE  BlocksFor(sizeOf(table[e])) <= hi[e] - lo[e] + 1
  <2>1. hi[e] - lo[e] + 1 \in 0 .. NB - 1
    BY <1>1, ChainBlocks, EntriesAre
  <2>2. hi[e] - lo[e] + 1 = BlocksFor(sizeOf(table[e]))
    BY <1>2 DEF Layout
  <2>. QED BY <2>1, <2>2, Sizes
<1>. QED BY <1>1, <1>2 DEF Layout, Pictured

LEMMA GrownPicture ==
    ASSUME GInv, NEW at, NEW lo, NEW hi, NEW x \in Entries, Grown(at, lo, hi, x),
           \A e \in Chains : at[e][lo[e]] = first(e), sizeOf(table[x]) = handle[op.h].size
    PROVE  Pictured(at, lo, hi)
<1>3. /\ Laid(at, lo, hi) /\ Followed(at, lo, hi, chained)
      /\ hi[x] - lo[x] + 1 = BlocksFor(handle[op.h].size + 1)
      /\ \A y \in Entries \ {x} : hi[y] - lo[y] + 1 = BlocksFor(sizeOf(table[y]))
  BY DEF Grown, Ready
<1>4. BlocksFor(handle[op.h].size + 1) = BlocksFor(handle[op.h].size) + 1
      /\ BlocksFor(handle[op.h].size) \in Nat
  <2>1. handle[op.h].size \in Nat /\ handle[op.h].size % P = 0 /\ 1 <= P
    BY GrowingFile, Sizes DEF GInv, FileType, Extends, EoF
  <2>. QED BY <2>1, OneBlockMore, BlocksForIs
<1>5. ASSUME NEW e \in Entries PROVE BlocksFor(sizeOf(table[e])) <= hi[e] - lo[e] + 1
  <2>1. CASE e = x
    BY <1>3, <1>4, <2>1
  <2>2. CASE e # x
    <3>1. hi[e] - lo[e] + 1 \in 0 .. NB - 1
      BY <1>3, ChainBlocks, EntriesAre
    <3>2. hi[e] - lo[e] + 1 = BlocksFor(sizeOf(table[e]))
      BY <1>3, <2>2
    <3>. QED BY <3>1, <3>2, Sizes
  <2>. QED BY <2>1, <2>2
<1>. QED BY <1>3, <1>5 DEF Pictured

LEMMA GrownPictures == ASSUME GInv PROVE \E at, lo, hi : Pictured(at, lo, hi)
<1>1. PICK at, lo, hi : \E x \in Entries :
                /\ Grown(at, lo, hi, x)
                /\ \A e \in Chains : at[e][lo[e]] = first(e)
                /\ \A y \in Entries \ {x} : table[y].id # handle[op.h].id
                /\ sizeOf(table[x]) = handle[op.h].size /\ startOf(table[x]) = handle[op.h].start
  BY GrowingFile
<1>. QED BY <1>1, GrownPicture

\* What the invariant says at any time.
LEMMA HeldNow ==
    ASSUME IInv \/ GInv
    PROVE  /\ Files /\ DiskTyped /\ handle \in [Handles -> FileType]
           /\ \E at, lo, hi : Pictured(at, lo, hi)
<1>1. CASE IInv
  BY <1>1, LayoutPictures DEF IInv, LaidOut, HandlesTyped, FileType
<1>2. CASE GInv
  BY <1>2, GrownPictures DEF GInv, Underway
<1>. QED BY <1>1, <1>2

Pictures == \E at, lo, hi : Pictured(at, lo, hi)

LEMMA PicturesNow == IInv \/ GInv => Pictures
BY HeldNow DEF Pictures

LEMMA PicturesNext == (IInv \/ GInv)' => Pictures'
BY PicturesNow, PTL

LEMMA UnlinkedNext == OpSound' => chained' = disk'
BY DEF OpSound, Kinds, chained

\* A file is named by one entry.
LEMMA NamedIs ==
    ASSUME IInv \/ GInv, NEW x \in Entries, table[x].id # 0
    PROVE  named(table[x].id) = {x} /\ Min(named(table[x].id)) = x
<1>1. \A e \in Entries : table[e].id = table[x].id => e = x
  BY HeldNow DEF Files
<1>2. named(table[x].id) = {x}
  BY <1>1 DEF named
<1>3. Min({x}) = x
  <2>1. x \in Nat
    BY EntriesAre
  <2>2. {x} \in SUBSET Nat /\ \E m \in {x} : \A y \in {x} : m <= y
    BY <2>1
  <2>3. Min({x}) \in {x}
    BY <2>2, MinOf DEF Least
  <2>. QED BY <2>3
<1>. QED BY <1>2, <1>3

\* How long a file is.
LEMMA SizeIs ==
    ASSUME IInv \/ GInv, NEW x \in Entries
    PROVE  sizeOf(table[x]) \in Nat
<1>1. table[x].size \in 0 .. P * NB
  BY HeldNow DEF Files
<1>2. ASSUME Writing(table[x].id) PROVE handle[op.h].size \in 0 .. P * NB
  <2>1. op.h \in Handles
    BY <1>2 DEF Writing, IInv, OpSound, GInv, Underway
  <2>. QED BY <2>1, HeldNow DEF FileType
<1>. QED BY <1>1, <1>2 DEF sizeOf

-----------------------------------------------------------------------------
\* What the abstract file system says of a file: it is not there, it is being erased,
\* or it is what its blocks hold.
ContentKnown ==
    /\ absContent = [id \in Ids |-> absContent[id]]
    /\ \A id \in Ids :
         /\ (\A e \in Entries : table[e].id # id) => absContent[id] = <<-1>>
         /\ op.kind = "delete" /\ op.id = id => absContent[id] = <<-1>>
         /\ op.kind = "rewrite" /\ op.id = id /\ (\E e \in Entries : table[e].id = id)
              => absContent[id] = <<>>
    /\ \A x \in Entries : table[x].id \in Ids /\ ~Freeing(table[x].id) =>
         \A at, lo, hi : Layout(at, lo, hi) =>
           absContent[table[x].id] = Characters(at, lo, x, disk, sizeOf(table[x]))

ContentSeen ==
    /\ absContent = [id \in Ids |-> absContent[id]]
    /\ \A id \in Ids :
         /\ (\A e \in Entries : table[e].id # id) => absContent[id] = <<-1>>
         /\ op.kind = "delete" /\ op.id = id => absContent[id] = <<-1>>
         /\ op.kind = "rewrite" /\ op.id = id /\ (\E e \in Entries : table[e].id = id)
              => absContent[id] = <<>>
    /\ \A x \in Entries : table[x].id \in Ids /\ ~Freeing(table[x].id) =>
         \A at, lo, hi : Pictured(at, lo, hi) =>
           absContent[table[x].id] = Characters(at, lo, x, disk, sizeOf(table[x]))

\* A file that is not being erased is what is found along its chain.
LEMMA PictureIs ==
    ASSUME IInv \/ GInv, NEW at, NEW lo, NEW hi, Pictured(at, lo, hi),
           NEW x \in Entries, table[x].id \in Ids, ~Freeing(table[x].id)
    PROVE  absContent[table[x].id] = Characters(at, lo, x, disk, sizeOf(table[x]))
<1> DEFINE id == table[x].id
           size == sizeOf(table[x])
           start == startOf(table[x])
<1>1. id # 0
  BY Sizes
<1>2. named(id) # {} /\ Min(named(id)) = x
  BY <1>1, NamedIs
<1>3. ~(op.kind = "delete" /\ op.id = id)
  BY DEF Freeing
<1>4. absContent[id] = [i \in 1 .. size |-> disk[Walk(start)[(i - 1) \div P]].data[(i - 1) % P]]
  BY <1>2, <1>3 DEF absContent
<1>5. Laid(at, lo, hi) /\ Followed(at, lo, hi, chained) /\ x \in Chains /\ x # 0
  BY EntriesAre DEF Pictured
<1>6. BlocksFor(size) <= hi[x] - lo[x] + 1
  BY DEF Pictured
<1>7. size \in Nat /\ BlocksFor(size) \in Nat
  BY SizeIs, BlocksForIs
<1>8. ASSUME NEW i \in 1 .. size
      PROVE  Walk(start)[(i - 1) \div P] = at[x][lo[x] + (i - 1) \div P]
  <2>1. (i - 1) \div P \in Nat /\ (i - 1) \div P + 1 <= BlocksFor(size)
    BY <1>7, <1>8, CharacterIn
  <2>2. lo[x] \in Int /\ hi[x] \in Int /\ NB \in Nat
    BY <1>5, Sizes DEF Laid
  <2>20. hi[x] - lo[x] + 1 \in 0 .. NB - 1
    BY <1>5, ChainBlocks
  <2> HIDE DEF size, start
  <2>3. lo[x] + (i - 1) \div P <= hi[x] /\ (i - 1) \div P \in 0 .. NB
    BY <1>6, <1>7, <2>1, <2>2, <2>20
  <2>4. hi[x] - lo[x] + 1 # 0
    BY <1>6, <1>7, <2>1, <2>2
  <2>5. at[x][lo[x]] # Last
    BY <1>5, <2>4, FirstTyped
  <2>6. at[x][lo[x]] = start
    BY <1>1, <1>5, <2>5 DEF Pictured, first, start
  <2>7. Walk(at[x][lo[x]])[(i - 1) \div P] = at[x][lo[x] + (i - 1) \div P]
    BY <1>5, <2>3, WalkFollows
  <2>. QED BY <2>6, <2>7
<1>. QED BY <1>4, <1>8 DEF Characters

LEMMA ContentIs ==
    ASSUME IInv, NEW at, NEW lo, NEW hi, Layout(at, lo, hi),
           NEW x \in Entries, table[x].id \in Ids, ~Freeing(table[x].id)
    PROVE  absContent[table[x].id] = Characters(at, lo, x, disk, sizeOf(table[x]))
BY LayoutPictures, PictureIs

\* All that ContentSeen says is so,
LEMMA SeesContent == IInv \/ GInv => ContentSeen
<1> SUFFICES ASSUME IInv \/ GInv PROVE ContentSeen
  OBVIOUS
<1>1. absContent = [id \in Ids |-> absContent[id]]
  BY DEF absContent
<1>2. ASSUME NEW id \in Ids, \A e \in Entries : table[e].id # id
      PROVE  absContent[id] = <<-1>>
  <2>1. named(id) = {}
    BY <1>2 DEF named
  <2>. QED BY <2>1 DEF absContent
<1>3. ASSUME NEW id \in Ids, op.kind = "delete", op.id = id
      PROVE  absContent[id] = <<-1>>
  BY <1>3 DEF absContent
<1>4. ASSUME NEW id \in Ids, op.kind = "rewrite", op.id = id, NEW e \in Entries, table[e].id = id
      PROVE  absContent[id] = <<>>
  <2>1. named(id) # {} /\ Freeing(id)
    BY <1>4 DEF named, Freeing
  <2>2. ~(op.kind = "delete" /\ op.id = id)
    BY <1>4
  <2>. QED BY <2>1, <2>2 DEF absContent
<1>. QED BY <1>1, <1>2, <1>3, <1>4, PictureIs DEF ContentSeen

\* before a step and after it,
LEMMA SeesContentNext == (IInv \/ GInv)' => ContentSeen'
BY SeesContent, PTL

\* and in particular what ContentKnown does.
LEMMA KnowsContent == IInv => ContentKnown
BY SeesContent, ContentIs DEF ContentSeen, ContentKnown

LEMMA KnowsContentNext == IInv' => ContentKnown'
BY KnowsContent, PTL

\* A file that is there is not the mark of one that is not.
LEMMA ContentPresent ==
    ASSUME IInv, NEW x \in Entries, table[x].id \in Ids, ~Freeing(table[x].id)
    PROVE  absContent[table[x].id] # <<-1>>
<1>1. PICK at, lo, hi : Layout(at, lo, hi)
  BY DEF IInv, LaidOut
<1>2. PICK size \in Nat : size = sizeOf(table[x])
  BY SizeIs
<1>3. absContent[table[x].id] = Characters(at, lo, x, disk, size)
  BY <1>1, <1>2, ContentIs
<1>4. Laid(at, lo, hi) /\ x \in Chains /\ hi[x] - lo[x] + 1 = BlocksFor(size)
  BY <1>1, <1>2, EntriesAre DEF Layout
<1>5. SUFFICES ASSUME Characters(at, lo, x, disk, size) = <<-1>> PROVE FALSE
  BY <1>3
<1>6. DOMAIN Characters(at, lo, x, disk, size) = 1 .. size
  BY DEF Characters
<1>7. 1 .. size = 1 .. 1
  BY <1>5, <1>6
<1>8. 1 \in 1 .. size
  BY <1>7
<1>9. /\ (1 - 1) \div P \in Nat /\ ((1 - 1) % P) \in 0 .. P - 1
      /\ (1 - 1) \div P + 1 <= BlocksFor(size)
  BY <1>8, CharacterIn
<1>10. PICK q \in Nat, r \in 0 .. P - 1 : q = (1 - 1) \div P /\ r = (1 - 1) % P
  BY <1>9
<1>11. disk[at[x][lo[x] + q]].data[r] = -1
  BY <1>5, <1>8, <1>10 DEF Characters
<1>12. at[x][lo[x] + q] \in DataBlocks
  BY <1>4, <1>9, <1>10 DEF Laid
<1>13. disk[at[x][lo[x] + q]].data[r] \in Chars \cup {0}
  <2>1. at[x][lo[x] + q] \in Blocks
    BY <1>12, DataBlocksAre
  <2>2. \A b \in Blocks : disk[b].data \in [0 .. P - 1 -> Chars \cup {0}]
    BY DEF IInv, DiskTyped
  <2>3. disk[at[x][lo[x] + q]].data \in [0 .. P - 1 -> Chars \cup {0}]
    BY <2>1, <2>2
  <2>. QED BY <1>10, <2>3
<1>. QED BY <1>11, <1>13, Sizes

-----------------------------------------------------------------------------
\* Files with the same characters at the same places hold the same.
LEMMA SameCharacters ==
    ASSUME NEW at, NEW lo, NEW d, NEW at2, NEW lo2, NEW d2, NEW x, NEW size,
           \A i \in 1 .. size : d2[at2[x][lo2[x] + (i - 1) \div P]].data[(i - 1) % P]
                                = d[at[x][lo[x] + (i - 1) \div P]].data[(i - 1) % P]
    PROVE  Characters(at2, lo2, x, d2, size) = Characters(at, lo, x, d, size)
BY DEF Characters

\* Along a chain no data changes and, up to its end, no link.
KeptAlong(x, at, lo, n) ==
    /\ \A k \in 0 .. n - 1 : disk'[at[x][lo[x] + k]].data = disk[at[x][lo[x] + k]].data
    /\ \A k \in 0 .. n - 2 : chained'[at[x][lo[x] + k]].link = chained[at[x][lo[x] + k]].link

\* No step on other blocks than those of a file changes what the file holds,
LEMMA ContentKept ==
    ASSUME IInv \/ GInv, (IInv \/ GInv)', NEW id \in Ids,
           \A e \in Entries : table'[e].id = id <=> table[e].id = id,
           \A kind : op'.kind = kind /\ op'.id = id /\ kind \in {"rewrite", "delete"}
                     <=> op.kind = kind /\ op.id = id /\ kind \in {"rewrite", "delete"},
           ~Freeing(id) => \A x \in Entries : table[x].id = id =>
              /\ sizeOf(table[x])' = sizeOf(table[x])
              /\ sizeOf(table[x]) # 0 => startOf(table[x])' = startOf(table[x])
              /\ \E at, lo, hi : /\ Pictured(at, lo, hi)
                                 /\ KeptAlong(x, at, lo, BlocksFor(sizeOf(table[x])))
    PROVE  absContent'[id] = absContent[id]
<1>0. ContentSeen /\ ContentSeen'
  BY SeesContent, SeesContentNext
<1>1. CASE \A e \in Entries : table[e].id # id
  <2>1. absContent[id] = <<-1>>
    BY <1>0, <1>1 DEF ContentSeen
  <2>2. \A e \in Entries : table'[e].id # id
    BY <1>1
  <2>3. absContent'[id] = <<-1>>
    BY <1>0, <2>2 DEF ContentSeen
  <2>. QED BY <2>1, <2>3
<1>2. CASE op.kind = "delete" /\ op.id = id
  <2>1. absContent[id] = <<-1>>
    BY <1>0, <1>2 DEF ContentSeen
  <2>2. op'.kind = "delete" /\ op'.id = id
    BY <1>2
  <2>3. absContent'[id] = <<-1>>
    BY <1>0, <2>2 DEF ContentSeen
  <2>. QED BY <2>1, <2>3
<1>3. ASSUME op.kind = "rewrite", op.id = id, NEW x \in Entries, table[x].id = id
      PROVE  absContent'[id] = absContent[id]
  <2>1. absContent[id] = <<>>
    BY <1>0, <1>3 DEF ContentSeen
  <2>2. op'.kind = "rewrite" /\ op'.id = id /\ table'[x].id = id
    BY <1>3
  <2>3. absContent'[id] = <<>>
    BY <1>0, <2>2 DEF ContentSeen
  <2>. QED BY <2>1, <2>3
<1>4. ASSUME ~Freeing(id), NEW x \in Entries, table[x].id = id
      PROVE  absContent'[id] = absContent[id]
  <2>4. PICK size \in Nat : size = sizeOf(table[x])
    BY SizeIs
  <2>1. PICK at, lo, hi : Pictured(at, lo, hi) /\ KeptAlong(x, at, lo, BlocksFor(size))
    BY <1>4, <2>4
  <2>2. Pictures'
    BY PicturesNext
  <2>3. PICK at2, lo2, hi2 : Pictured(at2, lo2, hi2)'
    BY <2>2 DEF Pictures
  <2>5. table'[x].id = id /\ ~Freeing(id)' /\ id # 0
    BY <1>4, Sizes DEF Freeing
  <2>6. absContent[id] = Characters(at, lo, x, disk, size)
    BY <1>0, <1>4, <2>1, <2>4 DEF ContentSeen
  <2>7. sizeOf(table[x])' = size /\ (size # 0 => startOf(table[x])' = startOf(table[x]))
    BY <1>4, <2>4
  <2>8. absContent'[id] = Characters(at2, lo2, x, disk', size)
    BY <1>0, <2>3, <2>5, <2>7 DEF ContentSeen
  <2>9. /\ Laid(at, lo, hi) /\ Followed(at, lo, hi, chained)
        /\ Laid(at2, lo2, hi2) /\ Followed(at2, lo2, hi2, chained')
        /\ x \in Chains /\ x # 0
    BY <2>1, <2>3, EntriesAre DEF Pictured
  <2>10. size # 0 => at[x][lo[x]] = at2[x][lo2[x]]
    <3>1. at[x][lo[x]] = first(x) /\ at2[x][lo2[x]] = first(x)'
      BY <2>1, <2>3, <2>9 DEF Pictured
    <3>2. size # 0 => first(x)' = first(x)
      BY <1>4, <2>5, <2>7, <2>9 DEF first
    <3>. QED BY <3>1, <3>2
  <2>11. BlocksFor(size) <= hi[x] - lo[x] + 1 /\ lo[x] \in Int /\ hi[x] \in Int
    <3>1. BlocksFor(size) <= hi[x] - lo[x] + 1
      BY <1>4, <2>1, <2>4 DEF Pictured
    <3>. QED BY <2>9, <3>1 DEF Laid
  <2>12. BlocksFor(size) \in Nat
    BY BlocksForIs
  <2>13. PICK n \in Nat : n = BlocksFor(size) /\ lo[x] + n <= hi[x] + 1
    BY <2>11, <2>12
  <2>14. \A k \in 0 .. n - 1 : disk'[at[x][lo[x] + k]].data = disk[at[x][lo[x] + k]].data
    BY <2>1, <2>13 DEF KeptAlong
  <2>16. ASSUME size # 0 PROVE \A k \in 0 .. n - 1 : at2[x][lo2[x] + k] = at[x][lo[x] + k]
    <3>1. PICK d, d2 : d = chained /\ d2 = chained'
      OBVIOUS
    <3>2. \A k \in 0 .. n - 2 : d2[at[x][lo[x] + k]].link = d[at[x][lo[x] + k]].link
      BY <2>1, <2>13, <3>1 DEF KeptAlong
    <3>3. SameStart(x, n, at, lo, hi, d, at2, lo2, hi2, d2)
      BY <2>9, <2>10, <2>13, <2>16, <3>1, <3>2 DEF SameStart
    <3>. QED BY <2>9, <3>3, SameChain
  <2>17. ASSUME NEW i \in 1 .. size
         PROVE  disk'[at2[x][lo2[x] + (i - 1) \div P]].data[(i - 1) % P]
                  = disk[at[x][lo[x] + (i - 1) \div P]].data[(i - 1) % P]
    <3>1. (i - 1) \div P \in 0 .. n - 1
      <4>1. (i - 1) \div P \in Nat /\ (i - 1) \div P + 1 <= n
        BY <2>13, CharacterIn
      <4>. QED BY <4>1
    <3>2. /\ at2[x][lo2[x] + (i - 1) \div P] = at[x][lo[x] + (i - 1) \div P]
          /\ disk'[at[x][lo[x] + (i - 1) \div P]].data = disk[at[x][lo[x] + (i - 1) \div P]].data
      BY <2>14, <2>16, <2>17, <3>1
    <3>. QED BY <3>2
  <2>18. Characters(at2, lo2, x, disk', size) = Characters(at, lo, x, disk, size)
    BY <2>17, SameCharacters
  <2>. QED BY <2>6, <2>8, <2>18
<1>5. Freeing(id) => op.id = id /\ (op.kind = "rewrite" \/ op.kind = "delete")
  BY DEF Freeing
<1>6. CASE \E x \in Entries : table[x].id = id
  <2>1. PICK x \in Entries : table[x].id = id
    BY <1>6
  <2>2. CASE ~Freeing(id)
    BY <1>4, <2>1, <2>2
  <2>3. CASE Freeing(id)
    BY <1>2, <1>3, <1>5, <2>1, <2>3
  <2>. QED BY <2>2, <2>3
<1>. QED BY <1>1, <1>6

\* and none of an operation on another file.
LEMMA ContentSame ==
    ASSUME IInv, IInv', NEW id \in Ids,
           \A e \in Entries : table'[e].id = id <=> table[e].id = id,
           \A kind : op'.kind = kind /\ op'.id = id /\ kind \in {"rewrite", "delete"}
                     <=> op.kind = kind /\ op.id = id /\ kind \in {"rewrite", "delete"},
           ~Freeing(id) => \A x \in Entries : table[x].id = id =>
              /\ sizeOf(table[x])' = sizeOf(table[x])
              /\ startOf(table[x])' = startOf(table[x])
              /\ \A at, lo, hi : Layout(at, lo, hi) =>
                   \A i \in lo[x] .. hi[x] : disk'[at[x][i]] = disk[at[x][i]]
    PROVE  absContent'[id] = absContent[id]
<1>1. PICK at, lo, hi : Layout(at, lo, hi)
  BY DEF IInv, LaidOut
<1>2. Pictured(at, lo, hi)
  BY <1>1, LayoutPictures
<1>3. chained = disk /\ chained' = disk'
  BY Unlinked, UnlinkedNext DEF IInv
<1>4. ASSUME ~Freeing(id), NEW x \in Entries, table[x].id = id
      PROVE  KeptAlong(x, at, lo, BlocksFor(sizeOf(table[x])))
  <2>1. PICK n \in Nat : n = BlocksFor(sizeOf(table[x]))
    BY SizeIs, BlocksForIs
  <2>2. Laid(at, lo, hi) /\ x \in Chains /\ hi[x] - lo[x] + 1 = n
    BY <1>1, <1>4, <2>1, EntriesAre DEF Layout
  <2>3. lo[x] \in Int /\ hi[x] \in Int
    BY <2>2 DEF Laid
  <2>4. \A k \in 0 .. n - 1 : disk'[at[x][lo[x] + k]] = disk[at[x][lo[x] + k]]
    <3>1. \A k \in 0 .. n - 1 : lo[x] + k \in lo[x] .. hi[x]
      BY <2>2, <2>3
    <3>. QED BY <1>1, <1>4, <3>1
  <2>5. \A k \in 0 .. n - 2 : k \in 0 .. n - 1
    OBVIOUS
  <2>. QED BY <1>3, <2>1, <2>4, <2>5 DEF KeptAlong
<1>. QED BY <1>2, <1>4, ContentKept

\* The abstract state after a step, file by file and handle by handle.
LEMMA ContentsAre ==
    ASSUME IInv \/ GInv, (IInv \/ GInv)'
    PROVE  /\ absContent = [i \in Ids |-> absContent[i]]
           /\ absContent' = [i \in Ids |-> absContent'[i]]
BY SeesContent, SeesContentNext DEF ContentSeen

\* Of a handle, FileStore sees the file and the position.
LEMMA HandlesAre ==
    /\ absHandle = [h \in Handles |-> [id |-> handle[h].id, pos |-> handle[h].pos]]
    /\ absHandle' = [h \in Handles |-> [id |-> handle'[h].id, pos |-> handle'[h].pos]]
BY DEF absHandle

\* All files keep their content when the table, the disk and the files being
\* erased stay what they are.
LEMMA ContentsSame ==
    ASSUME IInv, IInv', \A b \in DataBlocks : disk'[b] = disk[b],
           \A e \in Entries : table'[e].id = table[e].id,
           \/ op'.kind = op.kind /\ op'.id = op.id
           \/ op'.kind \notin {"rewrite", "delete"} /\ op.kind \notin {"rewrite", "delete"},
           \A x \in Entries : /\ sizeOf(table[x])' = sizeOf(table[x])
                              /\ startOf(table[x])' = startOf(table[x])
    PROVE  absContent' = absContent
<1>1. ASSUME NEW id \in Ids PROVE absContent'[id] = absContent[id]
  <2>1. \A e \in Entries : table'[e].id = id <=> table[e].id = id
    OBVIOUS
  <2>2. \A kind : op'.kind = kind /\ op'.id = id /\ kind \in {"rewrite", "delete"}
                  <=> op.kind = kind /\ op.id = id /\ kind \in {"rewrite", "delete"}
    OBVIOUS
  <2>3. \A x \in Entries : \A at, lo, hi : Layout(at, lo, hi) =>
          \A i \in lo[x] .. hi[x] : disk'[at[x][i]] = disk[at[x][i]]
    <3>1. \A x \in Entries : \A at, lo, hi : Layout(at, lo, hi) =>
            \A i \in lo[x] .. hi[x] : at[x][i] \in DataBlocks
      BY EntriesAre DEF Layout, Laid
    <3>. QED BY <3>1
  <2>. QED BY <2>1, <2>2, <2>3, ContentSame
<1>. QED BY <1>1, ContentsAre

-----------------------------------------------------------------------------
\* What Read has returned so far.
OutSound == out \in Seq(Chars \cup {0})

\* A step between blocks, links and the table only is none of FileStore.
LEMMA Hidden ==
    ASSUME absContent' = absContent, absHandle' = absHandle, out' = out, mounted' = mounted
    PROVE  [FS!Next]_(FS!vars)
BY DEF FS!vars

\* A step that moves one handle.
LEMMA HandleStep ==
    ASSUME IInv \/ GInv, NEW h \in Handles, NEW f, handle' = [handle EXCEPT ![h] = f]
    PROVE  /\ absHandle[h] = [id |-> handle[h].id, pos |-> handle[h].pos]
           /\ absHandle' = [absHandle EXCEPT ![h] = [id |-> f.id, pos |-> f.pos]]
           /\ f.id = handle[h].id => absHandle' = [absHandle EXCEPT ![h].pos = f.pos]
           /\ handle[h].id # 0 => h \in FS!Opened
<1>1. handle = [g \in Handles |-> handle[g]]
  BY HeldNow
<1>2. handle' = [g \in Handles |-> IF g = h THEN f ELSE handle[g]]
  BY <1>1
<1>3. absHandle' = [g \in Handles |-> IF g = h THEN [id |-> f.id, pos |-> f.pos]
                                      ELSE [id |-> handle[g].id, pos |-> handle[g].pos]]
  BY <1>2, HandlesAre
<1>4. absHandle[h] = [id |-> handle[h].id, pos |-> handle[h].pos]
  BY HandlesAre
<1>5. absHandle' = [absHandle EXCEPT ![h] = [id |-> f.id, pos |-> f.pos]]
  BY <1>3, HandlesAre
<1>6. [absHandle[h] EXCEPT !.pos = f.pos] = [id |-> handle[h].id, pos |-> f.pos]
  BY <1>4
<1>7. [absHandle EXCEPT ![h].pos = f.pos]
        = [absHandle EXCEPT ![h] = [absHandle[h] EXCEPT !.pos = f.pos]]
  OBVIOUS
<1>. QED BY <1>4, <1>5, <1>6, <1>7 DEF FS!Opened, FS!NoFile

\* Nor does it see where handles that stay are.
LEMMA HandlesSame == ASSUME handle' = handle PROVE absHandle' = absHandle
BY DEF absHandle

\* Only a Write in progress knows more of a file than the table does.
LEMMA NotWriting ==
    ASSUME table' = table, op.kind \notin WriteKinds \cup {"hang"} \/ op.h = 0,
           op'.kind \notin WriteKinds \cup {"hang"} \/ op'.h = 0
    PROVE  \A x \in Entries : /\ sizeOf(table[x])' = sizeOf(table[x])
                              /\ startOf(table[x])' = startOf(table[x])
BY DEF sizeOf, startOf, Writing, Growing, WriteKinds

-----------------------------------------------------------------------------
\* A disk that has been formatted holds no file.
LEMMA InitAbstract == IInv /\ Init => FS!Init
<1> SUFFICES ASSUME IInv, Init PROVE FS!Init
  OBVIOUS
<1>1. table = [e \in Entries |-> Hole]
  BY DEF Init, table, formattedSuper
<1>2. \A id \in Ids, e \in Entries : table[e].id # id
  BY <1>1, Sizes, Nothing
<1>3. \A id \in Ids : absContent[id] = <<-1>>
  BY <1>2, KnowsContent DEF ContentKnown
<1>4. absContent = [id \in Ids |-> <<-1>>]
  BY <1>3, KnowsContent DEF ContentKnown
<1>5. absHandle = [h \in Handles |-> [id |-> 0, pos |-> 0]]
  BY HandlesAre, Nothing DEF Init
<1>. QED BY <1>4, <1>5 DEF Init, FS!Init, FS!Absent, FS!Closed, FS!NoFile

\* Format() erases all files.
LEMMA FormatAbstract == ASSUME IInv, IInv', Format PROVE [FS!Next]_(FS!vars)
<1>1. table' = [e \in Entries |-> Hole]
  BY DEF Format, table, formattedSuper
<1>2. \A id \in Ids, e \in Entries : table'[e].id # id
  BY <1>1, Sizes, Nothing
<1>3. \A id \in Ids : absContent'[id] = <<-1>>
  BY <1>2, KnowsContentNext DEF ContentKnown
<1>4. absContent' = [id \in Ids |-> <<-1>>]
  BY <1>3, ContentsAre
<1>5. absHandle' = absHandle
  BY HandlesSame DEF Format
<1>. QED BY <1>4, <1>5 DEF Format, FS!Next, FS!Format, FS!Absent

\* Mount() and the destructor change no file.
LEMMA MountAbstract == ASSUME IInv, IInv', Mount \/ Unmount PROVE [FS!Next]_(FS!vars)
<1>1. /\ table' = table /\ UNCHANGED <<handle, op, out>> /\ op = Idle
      /\ mounted \in BOOLEAN /\ mounted' = ~mounted
  BY DEF Mount, Unmount, table, flushed, IInv, Members
<1>2. \A b \in DataBlocks : disk'[b] = disk[b]
  BY DataBlocksAre DEF Mount, Unmount, write, IInv, DiskTyped
<1>3. absContent' = absContent
  <2>1. table' = table /\ op' = op /\ op = Idle
    BY <1>1
  <2>. QED BY <1>2, <2>1, Nothing, NotWriting, ContentsSame DEF WriteKinds
<1>4. absHandle' = absHandle
  BY <1>1, HandlesSame
<1>. QED BY <1>1, <1>3, <1>4 DEF FS!Next, FS!MountOrUnmount

\* A File object goes out of scope.
LEMMA CloseAbstract ==
    ASSUME IInv, IInv', NEW h \in Handles, Close(h) PROVE [FS!Next]_(FS!vars)
<1>1. /\ op = Idle /\ op' = op /\ UNCHANGED <<disk, super, mounted, fs, out>>
      /\ handle[h].id # 0 /\ handle' = [handle EXCEPT ![h] = Closed]
  BY DEF Close
<1>2. table' = table
  BY <1>1 DEF table, fs
<1>3. absContent' = absContent
  BY <1>1, <1>2, Nothing, NotWriting, ContentsSame DEF WriteKinds
<1>4. h \in FS!Opened /\ absHandle' = [absHandle EXCEPT ![h] = [id |-> 0, pos |-> 0]]
  <2>1. /\ h \in FS!Opened
        /\ absHandle' = [absHandle EXCEPT ![h] = [id |-> Closed.id, pos |-> Closed.pos]]
    BY <1>1, HandleStep
  <2>. QED BY <2>1, Nothing
<1>. QED BY <1>1, <1>3, <1>4 DEF FS!Next, FS!Close, FS!Closed, FS!NoFile

\* Reset() goes back to the first character.
LEMMA ResetAbstract ==
    ASSUME IInv, IInv', NEW h \in Handles, Reset(h) PROVE [FS!Next]_(FS!vars)
<1> DEFINE f == handle[h]
           g == [f EXCEPT !.pos = 0, !.block = f.start]
<1>1. /\ op = Idle /\ op' = op /\ UNCHANGED <<disk, super, mounted, fs, out>>
      /\ f.id # 0 /\ handle' = [handle EXCEPT ![h] = g]
  BY DEF Reset
<1>2. table' = table
  BY <1>1 DEF table, fs
<1>3. absContent' = absContent
  BY <1>1, <1>2, Nothing, NotWriting, ContentsSame DEF WriteKinds
<1>4. g.id = f.id /\ g.pos = 0
  <2>1. g = [id |-> f.id, size |-> f.size, start |-> f.start, pos |-> 0, block |-> f.start]
    <3>1. f \in [id : Ids \cup {0}, size : 0 .. P * NB, start : DataBlocks \cup {0},
                 pos : Nat, block : DataBlocks \cup {0}]
      BY DEF IInv, HandlesTyped
    <3>. QED BY <3>1, MovedHandle
  <2>. QED BY <2>1
<1> HIDE DEF g
<1>5. h \in FS!Opened /\ absHandle' = [absHandle EXCEPT ![h].pos = 0]
  BY <1>1, <1>4, HandleStep
<1>. QED BY <1>1, <1>3, <1>5 DEF FS!Next, FS!Reset

\* Rewrite empties the file when it is called, not when its blocks are free,
LEMMA StartRewriteAbstract ==
    ASSUME IInv, IInv', NEW h \in Handles, StartRewrite(h) PROVE [FS!Next]_(FS!vars)
<1> DEFINE f == handle[h]
           g == [f EXCEPT !.pos = 0, !.block = 0]
           id == f.id
<1>1. /\ op = Idle /\ UNCHANGED <<disk, super, mounted, fs, out>>
      /\ f.id # 0 /\ handle' = [handle EXCEPT ![h] = g]
      /\ op' = [Idle EXCEPT !.kind = "rewrite", !.h = h, !.id = f.id, !.block = f.start]
  BY DEF StartRewrite
<1>2. table' = table
  BY <1>1 DEF table, fs
<1>3. op'.kind = "rewrite" /\ op'.id = id
  BY <1>1 DEF Idle
<1>4. g.id = f.id /\ g.pos = 0
  <2>1. g = [id |-> f.id, size |-> f.size, start |-> f.start, pos |-> 0, block |-> 0]
    <3>1. f \in [id : Ids \cup {0}, size : 0 .. P * NB, start : DataBlocks \cup {0},
                 pos : Nat, block : DataBlocks \cup {0}]
      BY DEF IInv, HandlesTyped
    <3>. QED BY <3>1, MovedHandle
  <2>. QED BY <2>1
<1>5. id \in Ids
  BY <1>1 DEF IInv, HandlesTyped
<1>6. PICK x \in Entries : table[x].id = id
  BY <1>1 DEF IInv, HandlesFit
<1> HIDE DEF g
<1>7. h \in FS!Opened /\ absHandle' = [absHandle EXCEPT ![h].pos = 0] /\ absHandle[h].id = id
  <2>1. h \in FS!Opened /\ absHandle' = [absHandle EXCEPT ![h].pos = g.pos]
    BY <1>1, <1>4, HandleStep
  <2>2. absHandle[h].id = id
    BY HandlesAre
  <2>. QED BY <1>4, <2>1, <2>2
<1>8. absContent'[id] = <<>>
  BY <1>2, <1>3, <1>5, <1>6, KnowsContentNext DEF ContentKnown
<1>9. ASSUME NEW i \in Ids, i # id PROVE absContent'[i] = absContent[i]
  <2>1. \A x2 \in Entries : /\ sizeOf(table[x2])' = sizeOf(table[x2])
                            /\ startOf(table[x2])' = startOf(table[x2])
    BY <1>1, <1>2, <1>3, Nothing, NotWriting DEF WriteKinds
  <2>2. \A kind : op'.kind = kind /\ op'.id = i /\ kind \in {"rewrite", "delete"}
                  <=> op.kind = kind /\ op.id = i /\ kind \in {"rewrite", "delete"}
    BY <1>1, <1>3, <1>9, Nothing
  <2>. QED BY <1>1, <1>2, <2>1, <2>2, ContentSame
<1> HIDE DEF id
<1>10. absContent' = [absContent EXCEPT ![id] = <<>>]
  BY <1>5, <1>8, <1>9, ContentsAre
<1>. QED BY <1>1, <1>7, <1>10 DEF FS!Next, FS!Rewrite

\* and DeleteFile has deleted it then.
LEMMA StartDeleteAbstract ==
    ASSUME IInv, IInv', NEW id \in Ids, StartDelete(id) PROVE [FS!Next]_(FS!vars)
<1>1. /\ mounted /\ op = Idle /\ UNCHANGED <<disk, super, mounted, fs, handle, out>>
      /\ found(id) /\ op'.kind = "delete" /\ op'.id = id
  BY DEF StartDelete, Idle
<1>2. table' = table /\ absHandle' = absHandle
  BY <1>1, HandlesSame DEF table, fs
<1>3. PICK x \in Entries : table[x].id = id
  BY <1>1, EntryFound DEF table
<1>4. absContent[id] # <<-1>>
  BY <1>1, <1>3, Nothing, ContentPresent DEF Freeing
<1>5. absContent'[id] = <<-1>>
  BY <1>1, KnowsContentNext DEF ContentKnown
<1>6. ASSUME NEW i \in Ids, i # id PROVE absContent'[i] = absContent[i]
  <2>1. \A x2 \in Entries : /\ sizeOf(table[x2])' = sizeOf(table[x2])
                            /\ startOf(table[x2])' = startOf(table[x2])
    BY <1>1, <1>2, Nothing, NotWriting DEF WriteKinds
  <2>2. \A kind : op'.kind = kind /\ op'.id = i /\ kind \in {"rewrite", "delete"}
                  <=> op.kind = kind /\ op.id = i /\ kind \in {"rewrite", "delete"}
    BY <1>1, <1>6, Nothing
  <2>. QED BY <1>1, <1>2, <2>1, <2>2, ContentSame
<1>7. absContent' = [absContent EXCEPT ![id] = <<-1>>]
  BY <1>5, <1>6, ContentsAre
<1>. QED BY <1>1, <1>2, <1>4, <1>7 DEF FS!Next, FS!Delete, FS!Absent

\* Read begins with nothing in the buffer,
LEMMA StartReadAbstract ==
    ASSUME IInv, IInv', NEW h \in Handles, NEW n \in 1 .. MaxN, StartRead(h, n)
    PROVE  [FS!Next]_(FS!vars)
<1>1. /\ op = Idle /\ UNCHANGED <<disk, super, mounted, fs, handle>> /\ out' = <<>>
      /\ op'.kind = "read"
  BY DEF StartRead, Idle
<1>2. table' = table /\ absHandle' = absHandle
  BY <1>1, HandlesSame DEF table, fs
<1>3. absContent' = absContent
  BY <1>1, <1>2, Nothing, NotWriting, ContentsSame DEF WriteKinds
<1>. QED BY <1>1, <1>2, <1>3 DEF FS!Next, FS!StartRead

\* and what it returns is no more of its concern.
LEMMA ReadReturnsAbstract == ASSUME IInv, IInv', ReadReturns PROVE [FS!Next]_(FS!vars)
<1>1. /\ op.kind = "read" /\ op' = Idle /\ UNCHANGED <<disk, super, mounted, fs, handle>> /\ out' = <<>>
  BY DEF ReadReturns
<1>2. table' = table /\ absHandle' = absHandle
  BY <1>1, HandlesSame DEF table, fs
<1>3. absContent' = absContent
  BY <1>1, <1>2, Nothing, NotWriting, ContentsSame DEF WriteKinds
<1>. QED BY <1>1, <1>2, <1>3 DEF FS!Next, FS!StartRead

-----------------------------------------------------------------------------
\* Write has written nothing when it is called,
LEMMA StartWriteAbstract ==
    ASSUME IInv, IInv', NEW h \in Handles, NEW n \in 1 .. MaxN, NEW c \in Chars, StartWrite(h, n, c)
    PROVE  [FS!Next]_(FS!vars)
<1>1. /\ op = Idle /\ UNCHANGED <<disk, super, mounted, fs, handle, out>> /\ handle[h].id # 0
      /\ op'.kind = "write" /\ op'.h = h
  BY DEF StartWrite, Idle
<1>2. table' = table /\ absHandle' = absHandle
  BY <1>1, HandlesSame DEF table, fs
<1>3. ASSUME NEW x \in Entries
      PROVE  sizeOf(table[x])' = sizeOf(table[x]) /\ startOf(table[x])' = startOf(table[x])
  <2>1. CASE table[x].id = handle[h].id
    <3>1. sizeOf(table[x])' = handle[h].size /\ startOf(table[x])' = handle[h].start
      BY <1>1, <1>2, <2>1, Sizes DEF sizeOf, startOf, Writing, Growing
    <3>. QED BY <1>1, <2>1, <3>1, EntryOfHandle
  <2>2. CASE table[x].id # handle[h].id
    BY <1>1, <1>2, <2>2, Nothing DEF sizeOf, startOf, Writing, Growing
  <2>. QED BY <2>1, <2>2
<1>4. absContent' = absContent
  BY <1>1, <1>2, <1>3, Nothing, ContentsSame
<1>. QED BY <1>1, <1>2, <1>4, Hidden

\* goes on with nothing once it hangs,
LEMMA DiskFullAbstract == ASSUME IInv, IInv', DiskFull PROVE [FS!Next]_(FS!vars)
<1>1. /\ op.kind = "write" /\ UNCHANGED <<disk, super, mounted, fs, handle, out>>
      /\ op' = [op EXCEPT !.kind = "hang"]
  BY DEF DiskFull
<1>2. op'.kind = "hang" /\ op'.h = op.h
  BY <1>1 DEF IInv, OpSound
<1>3. table' = table /\ absHandle' = absHandle
  BY <1>1, HandlesSame DEF table, fs
<1>4. \A x \in Entries : /\ sizeOf(table[x])' = sizeOf(table[x])
                         /\ startOf(table[x])' = startOf(table[x])
  BY <1>1, <1>2, <1>3 DEF sizeOf, startOf, Writing, Growing
<1>5. absContent' = absContent
  BY <1>1, <1>2, <1>3, <1>4, ContentsSame
<1>. QED BY <1>1, <1>3, <1>5, Hidden

\* and has written all before the entry knows of it.
LEMMA WriteReturnsAbstract == ASSUME IInv, IInv', WriteReturns PROVE [FS!Next]_(FS!vars)
<1> DEFINE f == handle[op.h]
<1>1. /\ op.kind = "write" /\ op' = Idle /\ file_data' = FlushFile(f.id, f.size, f.start)
      /\ UNCHANGED <<disk, super, mounted, free_block, number_of_files, handle, out>>
  BY DEF WriteReturns
<1>2. mounted /\ mounted' = TRUE /\ table = file_data /\ table' = file_data'
  BY <1>1, Nothing DEF IInv, Members, table
<1>3. op.h \in Handles /\ op.h # 0 /\ f.id # 0
  BY <1>1 DEF IInv, OpSound
<1>4. PICK x \in Entries : table[x].id = f.id /\ sizeOf(table[x]) = f.size
                           /\ startOf(table[x]) = f.start
  BY <1>3 DEF IInv, HandlesFit
<1>5. found(f.id) /\ entry(f.id) = x
  BY <1>2, <1>3, <1>4, EntryIs
<1>6. /\ table'[x] = [id |-> f.id, size |-> f.size, start |-> f.start]
      /\ \A y \in Entries \ {x} : table'[y] = table[y]
  BY <1>1, <1>2, <1>5 DEF FlushFile, IInv, Files
<1>7. \A y \in Entries : table'[y].id = table[y].id /\ (y # x => table[y].id # f.id)
  BY <1>3, <1>4, <1>6 DEF IInv, Files
<1>8. \A y \in Entries : /\ sizeOf(table[y])' = sizeOf(table[y])
                         /\ startOf(table[y])' = startOf(table[y])
  <2>1. \A y \in Entries : sizeOf(table[y])' = table'[y].size /\ startOf(table[y])' = table'[y].start
    BY <1>1, Nothing DEF sizeOf, startOf, Writing, Growing
  <2>2. \A y \in Entries \ {x} : sizeOf(table[y]) = table[y].size /\ startOf(table[y]) = table[y].start
    BY <1>7 DEF sizeOf, startOf, Writing, Growing
  <2>. QED BY <1>4, <1>6, <2>1, <2>2
<1>9. absContent' = absContent
  BY <1>1, <1>7, <1>8, Nothing, ContentsSame
<1>10. absHandle' = absHandle
  BY <1>1, HandlesSame
<1>. QED BY <1>1, <1>9, <1>10, Hidden

-----------------------------------------------------------------------------
\* A block that is freed is one of the file that is erased.
LEMMA FreeStepAbstract == ASSUME IInv, IInv', FreeStep PROVE [FS!Next]_(FS!vars)
<1> DEFINE b == op.block
<1>1. /\ op.kind \in {"rewrite", "delete"} /\ b # Last
      /\ disk' = [disk EXCEPT ![b] = [disk[b] EXCEPT !.link = free_block]]
      /\ op' = [op EXCEPT !.block = disk[b].link]
      /\ UNCHANGED <<super, mounted, number_of_files, file_data, handle, out>>
  BY DEF FreeStep, write, read, freedLink, nextToFree
<1>2. op'.kind = op.kind /\ op'.id = op.id /\ op'.h = op.h
  BY <1>1 DEF IInv, OpSound
<1>3. table' = table /\ absHandle' = absHandle
  BY <1>1, HandlesSame DEF table
<1>4. op.id # 0 /\ \E x \in Entries : table[x].id = op.id
  <2>1. CASE op.kind = "rewrite"
    <3>1. op.h \in Handles /\ op.id = handle[op.h].id /\ handle[op.h].id # 0
      BY <2>1 DEF IInv, OpSound
    <3>. QED BY <3>1 DEF IInv, HandlesFit
  <2>2. CASE op.kind = "delete"
    BY <2>2 DEF IInv, OpSound
  <2>. QED BY <1>1, <2>1, <2>2
<1>5. PICK x \in Entries : table[x].id = op.id
  BY <1>4
<1>6. ASSUME NEW id \in Ids PROVE absContent'[id] = absContent[id]
  <2>1. CASE id = op.id
    <3>1. \A kind : op'.kind = kind /\ op'.id = id /\ kind \in {"rewrite", "delete"}
                    <=> op.kind = kind /\ op.id = id /\ kind \in {"rewrite", "delete"}
      BY <1>2
    <3>2. \A e \in Entries : table'[e].id = id <=> table[e].id = id
      BY <1>3
    <3>3. Freeing(id)
      BY <1>1, <2>1 DEF Freeing
    <3>. QED BY <3>1, <3>2, <3>3, ContentSame
  <2>2. CASE id # op.id
    <3>1. \A kind : op'.kind = kind /\ op'.id = id /\ kind \in {"rewrite", "delete"}
                    <=> op.kind = kind /\ op.id = id /\ kind \in {"rewrite", "delete"}
      BY <1>2
    <3>2. \A e \in Entries : table'[e].id = id <=> table[e].id = id
      BY <1>3
    <3>3. ASSUME NEW y \in Entries, table[y].id = id, NEW at, NEW lo, NEW hi, Layout(at, lo, hi),
                 NEW i \in lo[y] .. hi[y]
          PROVE  disk'[at[y][i]] = disk[at[y][i]]
      <4>1. Laid(at, lo, hi) /\ x \in Chains /\ y \in Chains /\ x # 0 /\ x # y
        BY <1>5, <2>2, <3>3, EntriesAre DEF Layout
      <4>2. at[x][lo[x]] = b
        BY <1>1, <1>4, <1>5, <3>3, <4>1 DEF Layout, first, Freeing
      <4>3. lo[x] \in lo[x] .. hi[x]
        <5>1. hi[x] - lo[x] + 1 # 0
          BY <1>1, <4>1, <4>2, FirstTyped
        <5>. QED BY <4>1, <5>1 DEF Laid
      <4>4. at[y][i] # b /\ at[y][i] \in DataBlocks
        BY <3>3, <4>1, <4>2, <4>3 DEF Laid
      <4>. QED BY <1>1, <4>4, DataBlocksAre DEF IInv, DiskTyped
    <3>4. \A y \in Entries : /\ sizeOf(table[y])' = sizeOf(table[y])
                             /\ startOf(table[y])' = startOf(table[y])
      BY <1>1, <1>2, <1>3, NotWriting DEF WriteKinds
    <3>. QED BY <3>1, <3>2, <3>3, <3>4, ContentSame
  <2>. QED BY <2>1, <2>2
<1>7. absContent' = absContent
  BY <1>6, ContentsAre
<1>. QED BY <1>1, <1>3, <1>7, Hidden

\* No block is left: the file was empty or gone before.
LEMMA ErasedAbstract ==
    ASSUME IInv, IInv', op.kind \in {"rewrite", "delete"}, op' = Idle, UNCHANGED <<disk, out, mounted>>,
           NEW x \in Entries, table[x].id = op.id, op.id \in Ids,
           \A y \in Entries \ {x} : table'[y] = table[y],
           op.kind = "rewrite" => table'[x].id = op.id /\ table'[x].size = 0,
           op.kind = "delete" => table'[x].id = 0
    PROVE  absContent' = absContent
<1>0. op.id # 0 /\ \A y \in Entries \ {x} : table[y].id # op.id
  BY Sizes DEF IInv, Files
<1>1. PICK id \in Ids : id = op.id
  OBVIOUS
<1>2. ASSUME op.kind = "rewrite" PROVE absContent'[id] = absContent[id]
  <2>1. absContent[id] = <<>>
    BY <1>1, <1>2, KnowsContent DEF ContentKnown
  <2>2. LaidOut'
    BY DEF IInv
  <2>3. PICK at, lo, hi : Layout(at, lo, hi)'
    BY <2>2 DEF LaidOut
  <2>4. sizeOf(table[x])' = 0 /\ (~Freeing(table[x].id))' /\ table'[x].id = id
    BY <1>1, <1>2, Nothing DEF sizeOf, Writing, Growing, Freeing
  <2>5. absContent'[id] = Characters(at, lo, x, disk', 0)
    BY <2>3, <2>4, KnowsContentNext DEF ContentKnown
  <2>6. Characters(at, lo, x, disk', 0) = <<>>
    BY DEF Characters
  <2>. QED BY <2>1, <2>5, <2>6
<1>3. ASSUME op.kind = "delete" PROVE absContent'[id] = absContent[id]
  <2>1. absContent[id] = <<-1>>
    BY <1>1, <1>3, KnowsContent DEF ContentKnown
  <2>2. \A e \in Entries : table'[e].id # id
    BY <1>0, <1>1, <1>3
  <2>3. absContent'[id] = <<-1>>
    BY <2>2, KnowsContentNext DEF ContentKnown
  <2>. QED BY <2>1, <2>3
<1>4. ASSUME NEW i \in Ids, i # id PROVE absContent'[i] = absContent[i]
  <2>1. \A e \in Entries : table'[e].id = i <=> table[e].id = i
    BY <1>0, <1>1, <1>4, Sizes
  <2>2. \A kind : op'.kind = kind /\ op'.id = i /\ kind \in {"rewrite", "delete"}
                  <=> op.kind = kind /\ op.id = i /\ kind \in {"rewrite", "delete"}
    BY <1>1, <1>4, Nothing
  <2>3. ASSUME NEW y \in Entries, table[y].id = i
        PROVE  sizeOf(table[y])' = sizeOf(table[y]) /\ startOf(table[y])' = startOf(table[y])
    <3>1. table'[y] = table[y]
      BY <1>1, <1>4, <2>3
    <3>. QED BY <3>1, Nothing DEF sizeOf, startOf, Writing, Growing
  <2>. QED BY <2>1, <2>2, <2>3, ContentSame
<1>5. \A i \in Ids : absContent'[i] = absContent[i]
  BY <1>2, <1>3, <1>4
<1>. QED BY <1>5, ContentsAre

\* The entry of a deleted file becomes a hole.
LEMMA DeleteReturnsAbstract == ASSUME IInv, IInv', DeleteReturns PROVE [FS!Next]_(FS!vars)
<1>1. /\ op.kind = "delete" /\ op.block = Last /\ op' = Idle
      /\ file_data' = [file_data EXCEPT ![entry(op.id)] = Hole]
      /\ UNCHANGED <<disk, super, mounted, free_block, number_of_files, handle, out>>
  BY DEF DeleteReturns
<1>2. mounted /\ table = file_data /\ table' = file_data' /\ op.id \in Ids /\ op.id # 0
  BY <1>1, AllFreed DEF table
<1>3. PICK x \in Entries : table[x].id = op.id
  BY <1>1, AllFreed
<1>4. entry(op.id) = x
  BY <1>2, <1>3, EntryIs
<1>5. table'[x].id = 0 /\ \A y \in Entries \ {x} : table'[y] = table[y]
  BY <1>1, <1>2, <1>4, Nothing DEF IInv, Files
<1>6. absContent' = absContent
  BY <1>1, <1>2, <1>3, <1>5, ErasedAbstract
<1>7. absHandle' = absHandle
  BY <1>1, HandlesSame
<1>. QED BY <1>1, <1>6, <1>7, Hidden

\* The entry of a rewritten file becomes that of an empty one.
LEMMA RewriteReturnsAbstract == ASSUME IInv, IInv', RewriteReturns PROVE [FS!Next]_(FS!vars)
<1> DEFINE f == handle[op.h]
           g == [f EXCEPT !.start = 0, !.size = 0]
<1>1. /\ op.kind = "rewrite" /\ op.block = Last /\ op' = Idle
      /\ handle' = [handle EXCEPT ![op.h].start = 0, ![op.h].size = 0]
      /\ file_data' = FlushFile(op.id, 0, 0)
      /\ UNCHANGED <<disk, super, mounted, free_block, number_of_files, out>>
  BY DEF RewriteReturns
<1>2. mounted /\ table = file_data /\ table' = file_data' /\ op.id \in Ids /\ op.id # 0
  BY <1>1, AllFreed DEF table
<1>3. PICK x \in Entries : table[x].id = op.id
  BY <1>1, AllFreed
<1>4. found(op.id) /\ entry(op.id) = x
  BY <1>2, <1>3, EntryIs
<1>5. /\ table'[x].id = op.id /\ table'[x].size = 0
      /\ \A y \in Entries \ {x} : table'[y] = table[y]
  BY <1>1, <1>2, <1>4 DEF FlushFile, IInv, Files
<1>6. absContent' = absContent
  BY <1>1, <1>2, <1>3, <1>5, ErasedAbstract
<1>7. absHandle' = absHandle
  <2>1. op.h \in Handles /\ f \in FileType
    BY <1>1 DEF IInv, OpSound, HandlesTyped, FileType
  <2>2. \A h \in Handles : handle'[h].id = handle[h].id /\ handle'[h].pos = handle[h].pos
    BY <1>1, <2>1 DEF IInv, HandlesTyped
  <2>. QED BY <2>2, HandlesAre
<1>. QED BY <1>1, <1>6, <1>7, Hidden

-----------------------------------------------------------------------------
\* A hole of the table becomes an empty file.
LEMMA EntryAbstract ==
    ASSUME IInv, IInv', mounted, op = Idle, op' = op, UNCHANGED <<disk, super, mounted>>,
           NEW id \in Ids, ~found(id), found(0), newEntry(id)
    PROVE  absContent' = FS!Created(id)
<1>1. /\ \A e \in Entries : /\ sizeOf(table[e])' = sizeOf(table[e])
                            /\ startOf(table[e])' = startOf(table[e])
                            /\ ~Freeing(table[e].id)
      /\ \E x \in Entries : /\ table[x].id = 0 /\ table'[x].id = id
                            /\ sizeOf(table[x])' = 0 /\ startOf(table[x])' = 0
                            /\ \A y \in Entries \ {x} : table'[y] = table[y]
  BY EntryMade
<1>2. PICK x \in Entries : /\ table[x].id = 0 /\ table'[x].id = id
                           /\ sizeOf(table[x])' = 0
                           /\ \A y \in Entries \ {x} : table'[y] = table[y]
  BY <1>1
<1>3. absContent[id] = <<-1>>
  <2>1. \A e \in Entries : table[e].id # id
    BY DEF found, EntriesOf, table
  <2>. QED BY <2>1, KnowsContent DEF ContentKnown
<1>4. absContent'[id] = <<>>
  <2>1. LaidOut'
    BY DEF IInv
  <2>2. PICK at, lo, hi : Layout(at, lo, hi)'
    BY <2>1 DEF LaidOut
  <2>3. (~Freeing(table[x].id))'
    BY Nothing DEF Freeing
  <2>4. absContent'[id] = Characters(at, lo, x, disk', 0)
    BY <1>2, <2>2, <2>3, KnowsContentNext DEF ContentKnown
  <2>5. Characters(at, lo, x, disk', 0) = <<>>
    BY DEF Characters
  <2>. QED BY <2>4, <2>5
<1>5. ASSUME NEW i \in Ids, i # id PROVE absContent'[i] = absContent[i]
  <2>1. \A e \in Entries : table'[e].id = i <=> table[e].id = i
    BY <1>2, <1>5, Sizes
  <2>2. \A kind : op'.kind = kind /\ op'.id = i /\ kind \in {"rewrite", "delete"}
                  <=> op.kind = kind /\ op.id = i /\ kind \in {"rewrite", "delete"}
    OBVIOUS
  <2>. QED BY <1>1, <2>1, <2>2, ContentSame
<1>6. absContent' = [absContent EXCEPT ![id] = <<>>]
  BY <1>4, <1>5, ContentsAre
<1>. QED BY <1>3, <1>6 DEF FS!Created, FS!Absent

\* A call that finds nothing to do, or hangs.
LEMMA NothingAbstract ==
    ASSUME IInv, IInv', op = Idle, UNCHANGED <<disk, super, mounted, fs, handle, out>>,
           op' = Idle \/ op' = [Idle EXCEPT !.kind = "hang"]
    PROVE  [FS!Next]_(FS!vars)
<1>1. table' = table /\ absHandle' = absHandle
  BY HandlesSame DEF table, fs
<1>2. op'.kind \notin {"rewrite", "delete", "write", "linked", "ended"} /\ op'.h = 0 /\ op.kind = "idle"
  BY DEF Idle
<1>3. absContent' = absContent
  BY <1>1, <1>2, NotWriting, ContentsSame DEF WriteKinds
<1>. QED BY <1>1, <1>3, Hidden

\* CreateFile creates the file unless it is there.
LEMMA CreateFileAbstract ==
    ASSUME IInv, IInv', RulesKept, NEW id \in Ids, CreateFile(id) PROVE [FS!Next]_(FS!vars)
<1>1. /\ mounted /\ op = Idle /\ UNCHANGED <<disk, super, mounted, handle, out>>
      /\ \/ exists(id) /\ UNCHANGED <<fs, op>>
         \/ ~exists(id) /\ found(0) /\ newEntry(id) /\ UNCHANGED op
         \/ /\ ~exists(id) /\ ~found(0)
            /\ op' = [Idle EXCEPT !.kind = "hang"]
            /\ UNCHANGED fs
  BY DEF CreateFile
<1>2. CASE UNCHANGED <<fs, op>>
  BY <1>1, <1>2, NothingAbstract
<1>3. CASE ~exists(id) /\ found(0) /\ newEntry(id) /\ UNCHANGED op
  <2>1. ~found(id)
    <3>1. "fresh" \in Rules => ~found(id)
      BY DEF CreateFile
    <3>2. CASE MaxCreated <= Unchecked + 1
      <4>1. number_of_files < MaxCreated /\ number_of_files \in 0 .. MaxCreated
        BY <1>1, <1>3 DEF newEntry, IInv, Members, created
      <4>2. number_of_files <= Unchecked
        BY <3>2, <4>1, Sizes
      <4>. QED BY <1>3, <4>2 DEF exists
    <3>. QED BY <3>1, <3>2 DEF RulesKept
  <2>2. absContent' = FS!Created(id)
    BY <1>1, <1>3, <2>1, EntryAbstract
  <2>3. absHandle' = absHandle
    BY <1>1, HandlesSame
  <2>. QED BY <1>1, <2>2, <2>3 DEF FS!Next, FS!Create
<1>4. CASE op' = [Idle EXCEPT !.kind = "hang"] /\ UNCHANGED fs
  BY <1>1, <1>4, NothingAbstract
<1>. QED BY <1>1, <1>2, <1>3, <1>4

\* The constructor File(id) opens the file, and creates it where it is not.
LEMMA OpenAbstract ==
    ASSUME IInv, IInv', RulesKept, NEW h \in Handles, NEW id \in Ids, Open(h, id)
    PROVE  [FS!Next]_(FS!vars)
<1>1. /\ mounted /\ op = Idle /\ handle[h].id = 0 /\ UNCHANGED <<disk, super, mounted, out>>
      /\ \/ /\ found(id)
            /\ handle' = [handle EXCEPT ![h] =
                            opened(id, file_data[entry(id)].size, file_data[entry(id)].start)]
            /\ UNCHANGED <<fs, op>>
         \/ /\ ~found(id) /\ found(0) /\ newEntry(id)
            /\ handle' = [handle EXCEPT ![h] = opened(id, 0, 0)]
            /\ UNCHANGED op
         \/ /\ op' = [Idle EXCEPT !.kind = "hang"]
            /\ UNCHANGED <<fs, handle>>
  BY DEF Open, RulesKept
<1>2. handle[h] = Closed
  BY <1>1 DEF IInv, HandlesTyped, FileTyped
<1>3. ASSUME NEW s, NEW b, handle' = [handle EXCEPT ![h] = opened(id, s, b)]
      PROVE  /\ absHandle[h] = [id |-> 0, pos |-> 0]
             /\ absHandle' = [absHandle EXCEPT ![h] = [id |-> id, pos |-> 0]]
  <2>1. opened(id, s, b).id = id /\ opened(id, s, b).pos = 0
    BY DEF opened
  <2>2. PICK f : f = opened(id, s, b)
    OBVIOUS
  <2>3. /\ absHandle[h] = [id |-> handle[h].id, pos |-> handle[h].pos]
        /\ absHandle' = [absHandle EXCEPT ![h] = [id |-> f.id, pos |-> f.pos]]
    BY <1>3, <2>2, HandleStep
  <2>. QED BY <1>2, <2>1, <2>2, <2>3, Nothing
<1>4. CASE /\ found(id)
           /\ handle' = [handle EXCEPT ![h] =
                           opened(id, file_data[entry(id)].size, file_data[entry(id)].start)]
           /\ UNCHANGED <<fs, op>>
  <2>1. table' = table
    BY <1>1, <1>4 DEF table, fs
  <2>2. absContent' = absContent
    BY <1>1, <1>4, <2>1, Nothing, NotWriting, ContentsSame DEF WriteKinds
  <2>3. PICK x \in Entries : table[x].id = id
    BY <1>1, <1>4, EntryFound DEF table
  <2>4. absContent[id] # <<-1>>
    BY <1>1, <2>3, Nothing, ContentPresent DEF Freeing
  <2>5. /\ absHandle[h] = [id |-> 0, pos |-> 0]
        /\ absHandle' = [absHandle EXCEPT ![h] = [id |-> id, pos |-> 0]]
    BY <1>3, <1>4
  <2>. QED BY <1>1, <2>2, <2>4, <2>5
            DEF FS!Next, FS!Open, FS!Created, FS!Absent, FS!Closed, FS!NoFile
<1>5. CASE /\ ~found(id) /\ found(0) /\ newEntry(id)
           /\ handle' = [handle EXCEPT ![h] = opened(id, 0, 0)]
           /\ UNCHANGED op
  <2>1. absContent' = FS!Created(id)
    BY <1>1, <1>5, EntryAbstract
  <2>2. /\ absHandle[h] = [id |-> 0, pos |-> 0]
        /\ absHandle' = [absHandle EXCEPT ![h] = [id |-> id, pos |-> 0]]
    BY <1>3, <1>5
  <2>. QED BY <1>1, <2>1, <2>2 DEF FS!Next, FS!Open, FS!Closed, FS!NoFile
<1>6. CASE op' = [Idle EXCEPT !.kind = "hang"] /\ UNCHANGED <<fs, handle>>
  BY <1>1, <1>6, NothingAbstract
<1>. QED BY <1>1, <1>4, <1>5, <1>6

-----------------------------------------------------------------------------
\* An iteration of the loop of Read hands over the next characters of the file.
LEMMA ReadStepAbstract == ASSUME IInv, IInv', OutSound, ReadStep PROVE [FS!Next]_(FS!vars)
<1> DEFINE h == op.h
           f == handle[h]
           off == f.pos % P
           k == Least({op.n, P - off, f.size - f.pos})
           g == advanced(f, k, f.size, disk)
           s == [i \in 1 .. k |-> disk[f.block].data[off + i - 1]]
<1>1. /\ op.kind = "read" /\ op.n > 0 /\ handle' = [handle EXCEPT ![h] = g]
      /\ op' = [op EXCEPT !.n = @ - k] /\ out' = out \o s
      /\ UNCHANGED <<disk, super, mounted, fs>>
  BY DEF ReadStep, read
<1>2. op'.kind = "read" /\ op'.id = op.id
  BY <1>1 DEF IInv, OpSound
<1>3. table' = table
  BY <1>1 DEF table, fs
<1>4. absContent' = absContent
  BY <1>1, <1>2, <1>3, NotWriting, ContentsSame DEF WriteKinds
<1>5. /\ h \in Handles /\ f \in FileType /\ FileTyped(f) /\ f.id # 0 /\ op.n \in Nat
      /\ (f.start # 0 => f.block # 0)
  <2>1. OpSound
    BY DEF IInv
  <2>2. op.kind = "read" /\ op.kind # "idle" /\ h # 0 /\ h \in Handles \cup {0} /\ op.n \in 0 .. MaxN
    BY <1>1, <2>1 DEF OpSound
  <2>3. f.id # 0 /\ (f.start # 0 => f.block # 0)
    BY <2>1, <2>2 DEF OpSound
  <2>4. h \in Handles /\ op.n \in Nat
    BY <2>2, Sizes
  <2>. QED BY <2>3, <2>4 DEF IInv, HandlesTyped, FileType
<1>6. f.pos \in Nat /\ f.size \in Nat /\ f.pos <= f.size /\ off \in 0 .. P - 1 /\ P \in Nat /\ P > 0
  <2>1. f.pos \in Nat /\ f.size \in Nat /\ f.pos <= f.size
    BY <1>5, Sizes DEF FileType, FileTyped
  <2>. QED BY <2>1, DivMod, Sizes
<1>7. k \in Nat /\ k <= P - off /\ k <= f.size - f.pos /\ k <= op.n
  <2> DEFINE T == {op.n, P - off, f.size - f.pos}
  <2>1. T \in SUBSET Nat /\ T # {} /\ op.n \in T /\ P - off \in T /\ f.size - f.pos \in T
    BY <1>5, <1>6
  <2>2. PICK T2 \in SUBSET Nat : T2 = T
    BY <2>1
  <2>3. Least(T2) \in T2 /\ \A y \in T2 : Least(T2) <= y
    BY <2>1, <2>2, MinOf
  <2>. QED BY <2>1, <2>2, <2>3
<1>8. g.id = f.id /\ g.pos = f.pos + k
  <2> HIDE DEF k
  <2>. QED BY <1>5 DEF advanced, FileType
<1> HIDE DEF g, k
<1>9. absHandle' = [absHandle EXCEPT ![h].pos = f.pos + k] /\ h \in FS!Opened
      /\ absHandle[h].pos = f.pos /\ absHandle[h].id = f.id
  <2>1. absHandle' = [absHandle EXCEPT ![h].pos = g.pos] /\ h \in FS!Opened
    BY <1>1, <1>5, <1>8, HandleStep
  <2>2. absHandle[h].pos = f.pos /\ absHandle[h].id = f.id
    BY <1>5, HandlesAre
  <2>. QED BY <1>8, <2>1, <2>2
<1>10. CASE k = 0
  <2>1. s = <<>>
    BY <1>10
  <2>2. out' = out
    BY <1>1, <2>1, ConcatEmptySeq DEF OutSound
  <2>3. absHandle' = absHandle
    <3>1. \A i \in Handles : handle'[i].id = handle[i].id /\ handle'[i].pos = handle[i].pos
      <4>1. handle'[h] = g /\ \A i \in Handles \ {h} : handle'[i] = handle[i]
        BY <1>1, <1>5 DEF IInv, HandlesTyped
      <4>. QED BY <1>6, <1>8, <1>10, <4>1
    <3>. QED BY <3>1, HandlesAre
  <2>. QED BY <1>1, <1>4, <2>2, <2>3, Hidden
<1>11. CASE k > 0
  <2>1. PICK x \in Entries : table[x].id = f.id /\ sizeOf(table[x]) = f.size
                             /\ startOf(table[x]) = f.start
    BY <1>5 DEF IInv, HandlesFit
  <2>2. PICK at, lo, hi : Layout(at, lo, hi)
    BY DEF IInv, LaidOut
  <2>3. f.id \in Ids /\ ~Freeing(f.id)
    BY <1>1, <1>5 DEF FileType, Freeing
  <2>4. absContent[f.id] = Characters(at, lo, x, disk, f.size)
    BY <2>1, <2>2, <2>3, ContentIs
  <2>5. f.size # 0 /\ f.start # 0 /\ f.block # 0
    BY <1>5, <1>6, <1>7, <1>11 DEF FileTyped
  <2>6. f.block = at[x][lo[x] + f.pos \div P]
    <3>1. f.block = at[x][lo[x] + blockOf(f)]
      BY <1>5, <2>1, <2>2, <2>5 DEF Layout
    <3>2. f.size # f.pos
      BY <1>6, <1>7, <1>11
    <3>3. blockOf(f) = f.pos \div P
      BY <3>2 DEF blockOf, EoF
    <3>. QED BY <3>1, <3>3
  <2> DEFINE c == Characters(at, lo, x, disk, f.size)
  <2>7. Len(c) = f.size
    <3> DEFINE S == {c[i] : i \in 1 .. f.size}
    <3>1. c \in [1 .. f.size -> S]
      BY DEF Characters
    <3> HIDE DEF c, S
    <3>2. c \in Seq(S)
      BY <1>6, <3>1, SeqDef
    <3>. QED BY <1>6, <3>1, <3>2, LenProperties
  <2>8. ASSUME NEW i \in 1 .. k PROVE c[f.pos + i] = s[i]
    <3>1. f.pos + i \in 1 .. f.size /\ i \in Nat /\ off + i - 1 \in 0 .. P - 1
      BY <1>6, <1>7, <2>8
    <3>2. PICK j \in 1 .. f.size : j = f.pos + i
      BY <3>1
    <3>20. c[j] = disk[at[x][lo[x] + (j - 1) \div P]].data[(j - 1) % P]
      BY DEF Characters
    <3>3. /\ f.pos \div P \in Nat /\ f.pos = P * (f.pos \div P) + off
      BY <1>6, DivMod
    <3>40. j - 1 \in Nat /\ j - 1 = f.pos + i - 1
      BY <1>6, <3>1, <3>2
    <3>41. PICK q \in Nat : q = f.pos \div P
      BY <3>3
    <3>42. PICK r \in 0 .. P - 1 : r = off + i - 1
      BY <3>1
    <3>43. PICK y \in Nat : y = j - 1
      BY <3>40
    <3>4. y = j - 1 /\ y = f.pos + i - 1 /\ q = f.pos \div P /\ r = off + i - 1
      BY <3>40, <3>41, <3>42, <3>43
    <3>5. y = P * q + r
      <4>1. PICK m \in Int : m = P * q
        BY <1>6, <3>4
      <4>. QED BY <1>6, <3>1, <3>3, <3>4, <4>1
    <3>6. y \div P = q /\ y % P = r
      BY <3>5, DivUnique
    <3>7. c[f.pos + i] = disk[at[x][lo[x] + q]].data[r]
      BY <3>2, <3>20, <3>4, <3>6
    <3>. QED BY <2>6, <2>8, <3>4, <3>7
  <2> HIDE DEF c
  <2>9. SubSeq(c, f.pos + 1, f.pos + k) = s
    <3> DEFINE S == {c[i] : i \in f.pos + 1 .. f.pos + k}
               u == SubSeq(c, f.pos + 1, f.pos + k)
    <3>1. f.pos + 1 \in Int /\ f.pos + k \in Int /\ (f.pos + k) - (f.pos + 1) + 1 = k
      BY <1>6, <1>7
    <3>2. \A i \in f.pos + 1 .. f.pos + k : c[i] \in S
      OBVIOUS
    <3>3. /\ u \in Seq(S) /\ Len(u) = k
          /\ \A i \in 1 .. k : u[i] = c[f.pos + 1 + i - 1]
      <4> HIDE DEF S
      <4>. QED BY <1>6, <1>7, <1>11, <3>1, <3>2, SubSeqProperties
    <3> HIDE DEF u, S
    <3>4. u = [i \in 1 .. k |-> u[i]]
      BY <1>7, <3>3, LenProperties
    <3>5. \A i \in 1 .. k : u[i] = s[i]
      <4>1. \A i \in 1 .. k : f.pos + 1 + i - 1 = f.pos + i
        BY <1>6
      <4>. QED BY <2>8, <3>3, <4>1
    <3>. QED BY <3>4, <3>5 DEF u
  <2>10. k \in 1 .. P /\ f.pos + k <= Len(c)
    BY SMTT(30), <1>6, <1>7, <1>11, <2>7
  <2>11. FS!File(h) = c
    BY <1>9, <2>4 DEF FS!File, c
  <2>12. FS!Read(h, k)
    BY <1>1, <1>4, <1>9, <2>9, <2>10, <2>11 DEF FS!Read
  <2>. QED BY <1>9, <2>10, <2>12 DEF FS!Next
<1>. QED BY <1>7, <1>10, <1>11

-----------------------------------------------------------------------------
\* k characters from position p on become c; the file has then size characters.
Overwritten(ch, p, k, c, size) ==
    [i \in 1 .. size |-> IF i \in p + 1 .. p + k THEN c ELSE ch[i]]

\* What the disk has to do for that.
Overwrites(at, lo, d, at2, lo2, d2, x, p, k, c, size) ==
    LET b == at2[x][lo2[x] + p \div P]
    IN  /\ \A q \in 0 .. BlocksFor(size) - 1 :
             /\ at2[x][lo2[x] + q] = at[x][lo[x] + q]
             /\ q # p \div P => d2[at[x][lo[x] + q]].data = d[at[x][lo[x] + q]].data
        /\ \A r \in p % P .. (p % P) + k - 1 : d2[b].data[r] = c
        /\ p \div P \in 0 .. BlocksFor(size) - 1 =>
             \A r \in 0 .. P - 1 : r \notin p % P .. (p % P) + k - 1 => d2[b].data[r] = d[b].data[r]

\* Characters of a file before and after k of them, from position p on, are written into
\* one block: they are the new ones there and the old ones elsewhere.
LEMMA CharactersWritten ==
    ASSUME NEW at, NEW lo, NEW d, NEW at2, NEW lo2, NEW d2, NEW x,
           NEW p \in Nat, NEW k \in Nat, k > 0, k <= P - (p % P), NEW c,
           NEW size \in Nat, p <= size, NEW size2 \in Nat,
           size2 = IF p + k > size THEN p + k ELSE size,
           Overwrites(at, lo, d, at2, lo2, d2, x, p, k, c, size)
    PROVE  Characters(at2, lo2, x, d2, size2)
             = Overwritten(Characters(at, lo, x, d, size), p, k, c, size2)
<1>1. PICK b : b = at2[x][lo2[x] + p \div P]
  OBVIOUS
<1>2. \A q \in 0 .. BlocksFor(size) - 1 :
         /\ at2[x][lo2[x] + q] = at[x][lo[x] + q]
         /\ q # p \div P => d2[at[x][lo[x] + q]].data = d[at[x][lo[x] + q]].data
  BY DEF Overwrites
<1>3. \A r \in p % P .. (p % P) + k - 1 : d2[b].data[r] = c
  BY <1>1 DEF Overwrites
<1>4. p \div P \in 0 .. BlocksFor(size) - 1 =>
        \A r \in 0 .. P - 1 : r \notin p % P .. (p % P) + k - 1 => d2[b].data[r] = d[b].data[r]
  BY <1>1 DEF Overwrites
<1>5. PICK q0 \in Nat, off \in 0 .. P - 1 : q0 = p \div P /\ off = p % P /\ p = P * q0 + off
  BY DivMod
<1>6. ASSUME NEW i \in 1 .. size2
      PROVE  d2[at2[x][lo2[x] + (i - 1) \div P]].data[(i - 1) % P]
               = IF i \in p + 1 .. p + k THEN c ELSE Characters(at, lo, x, d, size)[i]
  <2>1. PICK y \in Nat : y = i - 1
    OBVIOUS
  <2>2. PICK q \in Nat, r \in 0 .. P - 1 : q = y \div P /\ r = y % P /\ y = P * q + r
    BY DivMod
  <2>3. CASE i \in p + 1 .. p + k
    <3>1. y - p \in 0 .. k - 1 /\ off + (y - p) \in 0 .. P - 1
      BY <1>5, <2>1, <2>3, Sizes
    <3>2. y = P * q0 + (off + (y - p))
      <4>1. PICK m \in Int : m = P * q0
        BY <1>5, Sizes
      <4>. QED BY <1>5, <2>1, <4>1
    <3>3. q = q0 /\ r = off + (y - p)
      <4>1. PICK r2 \in 0 .. P - 1 : r2 = off + (y - p)
        BY <3>1
      <4>2. y = P * q0 + r2
        BY <3>2, <4>1
      <4>3. y \div P = q0 /\ y % P = r2
        BY <4>2, DivUnique
      <4>. QED BY <2>2, <4>1, <4>3
    <3>4. r \in off .. off + k - 1
      <4>1. PICK t \in 0 .. k - 1 : t = y - p
        BY <3>1
      <4>2. r = off + t
        BY <3>3, <4>1
      <4>. QED BY <4>1, <4>2
    <3>5. d2[b].data[r] = c
      <4>1. r \in p % P .. (p % P) + k - 1
        BY <1>5, <3>4
      <4>. QED BY <1>3, <4>1
    <3>6. at2[x][lo2[x] + q] = b
      BY <1>1, <1>5, <3>3
    <3>. QED BY <2>1, <2>2, <2>3, <3>5, <3>6
  <2>4. CASE i \notin p + 1 .. p + k
    <3>1. i \in 1 .. size
      BY <2>4
    <3>2. q \in 0 .. BlocksFor(size) - 1
      <4>1. (i - 1) \div P + 1 <= BlocksFor(size)
        BY <3>1, CharacterIn
      <4>2. BlocksFor(size) \in Nat
        BY BlocksForIs
      <4>. QED BY <2>1, <2>2, <4>1, <4>2
    <3>3. at2[x][lo2[x] + q] = at[x][lo[x] + q]
      BY <1>2, <3>2
    <3>4. Characters(at, lo, x, d, size)[i] = d[at[x][lo[x] + q]].data[r]
      BY <2>1, <2>2, <3>1 DEF Characters
    <3>5. d2[at[x][lo[x] + q]].data[r] = d[at[x][lo[x] + q]].data[r]
      <4>1. CASE q # q0
        BY <1>5, <1>2, <3>2, <4>1
      <4>2. CASE q = q0
        <5>1. r \notin off .. off + k - 1
          <6>1. PICK m \in Int : m = P * q0
            BY <1>5, Sizes
          <6>. QED BY <1>5, <2>1, <2>2, <2>4, <4>2, <6>1
        <5>2. at[x][lo[x] + q] = b
          BY <1>1, <1>5, <3>3, <4>2
        <5>. QED BY <1>5, <1>4, <3>2, <4>2, <5>1, <5>2
      <4>. QED BY <4>1, <4>2
    <3>. QED BY <2>1, <2>2, <2>4, <3>3, <3>4, <3>5
  <2>. QED BY <2>3, <2>4
<1> DEFINE ch == Characters(at, lo, x, d, size)
<1> HIDE DEF ch
<1>7. ASSUME NEW i \in 1 .. size2
      PROVE  d2[at2[x][lo2[x] + (i - 1) \div P]].data[(i - 1) % P]
               = IF i \in p + 1 .. p + k THEN c ELSE ch[i]
  BY <1>6 DEF ch
<1>8. Characters(at2, lo2, x, d2, size2) = [i \in 1 .. size2 |-> IF i \in p + 1 .. p + k THEN c ELSE ch[i]]
  BY <1>7 DEF Characters
<1>. QED BY <1>8 DEF ch, Overwritten

-----------------------------------------------------------------------------
\* Of the writes to the disk that take a block FileStore sees nothing: along the chains
\* of the files, as far as their characters go, nothing changes.
LEMMA WriteHidden ==
    ASSUME IInv \/ GInv, (IInv \/ GInv)', Underway,
           op'.h = op.h, op'.kind \in WriteKinds,
           table' = table, mounted' = mounted, out' = out,
           NEW g, handle' = [handle EXCEPT ![op.h] = g],
           g.id = handle[op.h].id, g.pos = handle[op.h].pos, g.size = handle[op.h].size,
           g.size # 0 => g.start = handle[op.h].start,
           NEW at, NEW lo, NEW hi, Pictured(at, lo, hi),
           \A y \in Entries : KeptAlong(y, at, lo, BlocksFor(sizeOf(table[y])))
    PROVE  [FS!Next]_(FS!vars)
<1> DEFINE h == op.h
<1>1. /\ h \in Handles /\ h # 0 /\ op.kind \in WriteKinds /\ handle \in [Handles -> FileType]
  BY Sizes DEF Underway
<1>2. handle'[h] = g
  BY <1>1
<1>3. \A id : /\ Writing(id) <=> id = handle[h].id
              /\ Writing(id)' <=> id = handle[h].id
  BY <1>1, <1>2 DEF Writing, Growing, WriteKinds
<1>4. \A y \in Entries : /\ sizeOf(table[y])' = sizeOf(table[y])
                         /\ sizeOf(table[y]) # 0 => startOf(table[y])' = startOf(table[y])
  BY <1>2, <1>3 DEF sizeOf, startOf
<1>5. ASSUME NEW id \in Ids PROVE absContent'[id] = absContent[id]
  <2>1. \A e \in Entries : table'[e].id = id <=> table[e].id = id
    OBVIOUS
  <2>2. \A kind : op'.kind = kind /\ op'.id = id /\ kind \in {"rewrite", "delete"}
                  <=> op.kind = kind /\ op.id = id /\ kind \in {"rewrite", "delete"}
    BY <1>1 DEF WriteKinds
  <2>. QED BY <1>4, <2>1, <2>2, ContentKept
<1>6. absContent' = absContent
  BY <1>5, ContentsAre
<1>7. absHandle' = absHandle
  <2>1. /\ absHandle[h] = [id |-> handle[h].id, pos |-> handle[h].pos]
        /\ absHandle' = [absHandle EXCEPT ![h] = [id |-> g.id, pos |-> g.pos]]
    BY <1>1, HandleStep
  <2>2. absHandle = [i \in Handles |-> absHandle[i]]
    BY HandlesAre
  <2>. QED BY <2>1, <2>2
<1>. QED BY <1>6, <1>7, Hidden

\* The new link is behind the last block of the file, and in the block that was free.
LEMMA LinksAbstract == ASSUME IInv, GInv', WriteLinks PROVE [FS!Next]_(FS!vars)
<1> DEFINE h == op.h
<1>1. PICK f, b : f = handle[h] /\ b = free_block
  OBVIOUS
<1> DEFINE g == IF f.block = 0 THEN [f EXCEPT !.start = b] ELSE f
<1>2. /\ op.kind = "write" /\ Underway
      /\ handle' = IF f.block = 0 THEN [handle EXCEPT ![h].start = b] ELSE handle
      /\ UNCHANGED <<super, mounted, file_data, out>>
  BY <1>1, UnderwayNow DEF WriteLinks
<1>3. PICK x \in Entries : table[x].id = f.id
  BY <1>1, <1>2 DEF Underway, HandlesFit
<1>4. PICK at, lo, hi : Layout(at, lo, hi)
  BY DEF IInv, LaidOut
<1>5. /\ h \in Handles /\ f \in FileType /\ f.block \in DataBlocks \cup {0}
      /\ (f.block = 0 <=> f.start = 0) /\ (f.start = 0 <=> f.size = 0)
      /\ Laid(at, lo, hi) /\ x \in Chains /\ x # 0 /\ lo[x] \in Int /\ hi[x] \in Int
      /\ at[0][lo[0]] = b /\ b \in DataBlocks /\ lo[0] \in lo[0] .. hi[0]
      /\ f.block # 0 => lo[x] <= hi[x] /\ f.block = at[x][hi[x]]
      /\ \A y \in Entries : ~Freeing(table[y].id)
      /\ op'.kind = "linked" /\ op'.h = h
  BY <1>1, <1>3, <1>4, LinksWhere
<1>6. /\ \A c \in DataBlocks : disk'[c].data = disk[c].data
      /\ \A c \in DataBlocks \ {f.block, b} : chained'[c].link = disk[c].link
  BY <1>1, <1>3, <1>4, LinksWhere
<1>7. chained = disk
  BY Unlinked DEF IInv
<1>8. /\ g \in FileType /\ g.id = f.id /\ g.pos = f.pos /\ g.size = f.size
      /\ g.start = IF f.block = 0 THEN b ELSE f.start
  BY <1>5, Started
<1>9. handle' = [handle EXCEPT ![h] = g]
  <2>1. CASE f.block = 0
    BY <1>1, <1>2, <2>1
  <2>2. CASE f.block # 0
    <3>1. handle \in [Handles -> FileType] /\ handle' = handle /\ g = handle[h]
      BY <1>1, <1>2, <2>2 DEF Underway
    <3> HIDE DEF g
    <3>. QED BY <1>5, <3>1
  <2>. QED BY <2>1, <2>2
<1> HIDE DEF g
<1>10. ASSUME NEW y \in Entries PROVE KeptAlong(y, at, lo, BlocksFor(sizeOf(table[y])))
  <2>1. PICK n \in Nat : n = BlocksFor(sizeOf(table[y]))
    BY SizeIs, BlocksForIs
  <2>2. y \in Chains /\ y # 0 /\ 0 \in Chains /\ lo[y] \in Int /\ hi[y] \in Int
        /\ hi[y] - lo[y] + 1 = n
    BY <1>4, <1>5, <2>1, EntriesAre DEF Layout, Laid, Chains
  <2>3. \A k \in 0 .. n - 1 : lo[y] + k \in lo[y] .. hi[y] /\ (k # n - 1 => lo[y] + k # hi[y])
    BY <2>2
  <2>4. \A k \in 0 .. n - 1 : at[y][lo[y] + k] \in DataBlocks
    BY <1>5, <2>2, <2>3 DEF Laid
  <2>5. ASSUME NEW k \in 0 .. n - 2 PROVE chained'[at[y][lo[y] + k]].link = disk[at[y][lo[y] + k]].link
    <3>1. k \in 0 .. n - 1 /\ k # n - 1
      BY <2>1
    <3>2. at[y][lo[y] + k] # b
      BY <1>5, <2>2, <2>3, <3>1 DEF Laid
    <3>3. at[y][lo[y] + k] # f.block
      <4>1. ASSUME f.block # 0 PROVE at[y][lo[y] + k] # f.block
        <5>1. hi[x] \in lo[x] .. hi[x] /\ f.block = at[x][hi[x]]
          BY <1>5, <4>1
        <5>2. \A i \in lo[y] .. hi[y] : at[y][i] = at[x][hi[x]] => y = x /\ i = hi[x]
          BY <1>5, <2>2, <5>1 DEF Laid
        <5>. QED BY <2>3, <3>1, <5>1, <5>2
      <4>. QED BY <2>4, <3>1, <4>1, DataBlocksAre
    <3>. QED BY <1>6, <2>4, <3>1, <3>2, <3>3
  <2>. QED BY <1>6, <1>7, <2>1, <2>4, <2>5 DEF KeptAlong
<1>11. Pictured(at, lo, hi)
  BY <1>4, LayoutPictures
<1>12. table' = table /\ mounted' = mounted /\ out' = out /\ op'.h = op.h /\ op'.kind \in WriteKinds
  BY <1>2, <1>5 DEF table, WriteKinds
<1>13. PICK g2 : g2 = g
  OBVIOUS
<1>14. /\ handle' = [handle EXCEPT ![op.h] = g2]
       /\ g2.id = handle[op.h].id /\ g2.pos = handle[op.h].pos /\ g2.size = handle[op.h].size
       /\ g2.size # 0 => g2.start = handle[op.h].start
  BY <1>1, <1>5, <1>8, <1>9, <1>13
<1>. QED BY <1>2, <1>10, <1>11, <1>12, <1>14, WriteHidden

\* The new block is behind those of the file's characters.
LEMMA EndsAbstract == ASSUME GInv, GInv', WriteEnds PROVE [FS!Next]_(FS!vars)
<1> DEFINE h == op.h
<1>1. PICK f, b : f = handle[h] /\ b = op.block
  OBVIOUS
<1>2. /\ op.kind = "linked" /\ Underway
      /\ handle' = [handle EXCEPT ![h].block = b]
      /\ UNCHANGED <<super, mounted, file_data, out>>
  BY <1>1 DEF WriteEnds, fs, GInv
<1>3. PICK at, lo, hi : \E x \in Entries :
                /\ Grown(at, lo, hi, x)
                /\ \A e \in Chains : at[e][lo[e]] = first(e)
                /\ \A y \in Entries \ {x} : table[y].id # handle[op.h].id
                /\ sizeOf(table[x]) = handle[op.h].size /\ startOf(table[x]) = handle[op.h].start
  BY GrowingFile
<1>4. PICK x \in Entries :
                /\ Grown(at, lo, hi, x)
                /\ \A e \in Chains : at[e][lo[e]] = first(e)
                /\ sizeOf(table[x]) = handle[op.h].size
  BY <1>3
<1>5. Pictured(at, lo, hi)
  BY <1>4, GrownPicture
<1>6. /\ f \in FileType /\ f.size \in Nat /\ f.size = f.pos /\ f.pos % P = 0 /\ h \in Handles
  <2>1. f \in FileType /\ f.size = f.pos /\ f.pos % P = 0 /\ h \in Handles
    BY <1>1, <1>2 DEF Underway, GInv, Extends, EoF
  <2>. QED BY <2>1, Sizes DEF FileType
<1>7. f.pos \div P = BlocksFor(f.size) /\ BlocksFor(f.size + 1) = BlocksFor(f.size) + 1
      /\ BlocksFor(f.size) \in Nat
  <2>1. 1 <= P
    BY Sizes
  <2>. QED BY <1>6, <2>1, OneBlockMore, BlocksForIs
<1>8. PICK m \in Nat : m = BlocksFor(f.size)
  BY <1>7
<1>9. /\ Laid(at, lo, hi) /\ b = at[x][lo[x] + m] /\ hi[x] - lo[x] + 1 = m + 1
      /\ x \in Chains /\ lo[x] \in Int /\ hi[x] \in Int
      /\ \A y \in Entries \ {x} : hi[y] - lo[y] + 1 = BlocksFor(sizeOf(table[y]))
      /\ sizeOf(table[x]) = f.size
  BY <1>1, <1>2, <1>4, <1>7, <1>8, EntriesAre DEF Grown, Ready, Laid
<1>10. /\ \A a \in DataBlocks \ {b} : disk'[a] = disk[a]
       /\ \A a \in DataBlocks : chained'[a].link = chained[a].link
       /\ op'.kind = "ended" /\ op'.h = h
  BY <1>1, EndsBlock
<1>11. ASSUME NEW y \in Entries PROVE KeptAlong(y, at, lo, BlocksFor(sizeOf(table[y])))
  <2>1. PICK n \in Nat : n = BlocksFor(sizeOf(table[y]))
    BY SizeIs, BlocksForIs
  <2>2. y \in Chains /\ lo[y] \in Int /\ hi[y] \in Int /\ lo[y] + n <= hi[y] + 1
        /\ (y = x => n = m)
    <3>1. y \in Chains /\ lo[y] \in Int /\ hi[y] \in Int
      BY <1>9, EntriesAre DEF Laid
    <3>2. CASE y = x
      <4>1. n = m
        BY <1>8, <1>9, <2>1, <3>2
      <4>. QED BY <1>9, <3>1, <3>2, <4>1
    <3>3. CASE y # x
      <4>1. hi[y] - lo[y] + 1 = n
        BY <1>9, <2>1, <3>3
      <4>. QED BY <3>1, <3>3, <4>1
    <3>. QED BY <3>2, <3>3
  <2>3. \A k \in 0 .. n - 1 : lo[y] + k \in lo[y] .. hi[y]
    BY <2>2
  <2>4. \A k \in 0 .. n - 1 : at[y][lo[y] + k] \in DataBlocks
    BY <1>9, <2>2, <2>3 DEF Laid
  <2>5. ASSUME NEW k \in 0 .. n - 1 PROVE at[y][lo[y] + k] # b
    <3>1. lo[x] + m \in lo[x] .. hi[x]
      BY <1>9
    <3>2. at[y][lo[y] + k] = b => y = x /\ lo[y] + k = lo[x] + m
      BY <1>9, <2>2, <2>3, <3>1 DEF Laid
    <3>3. y = x => lo[x] + k # lo[x] + m
      BY <1>9, <2>2
    <3>. QED BY <3>2, <3>3
  <2>6. \A k \in 0 .. n - 2 : k \in 0 .. n - 1
    BY <2>1
  <2>. QED BY <1>10, <2>1, <2>4, <2>5, <2>6 DEF KeptAlong
<1>12. table' = table /\ mounted' = mounted /\ out' = out /\ op'.h = op.h /\ op'.kind \in WriteKinds
  BY <1>2, <1>10 DEF table, WriteKinds
<1>13. PICK g : g = [f EXCEPT !.block = b]
  OBVIOUS
<1>14. handle' = [handle EXCEPT ![op.h] = g]
  BY <1>1, <1>2, <1>13
<1>15. g.id = f.id /\ g.pos = f.pos /\ g.size = f.size /\ g.start = f.start
  BY <1>6, <1>13 DEF FileType
<1>. QED BY <1>1, <1>2, <1>5, <1>11, <1>12, <1>14, <1>15, WriteHidden

-----------------------------------------------------------------------------
\* Where on the disk Write puts characters: at least n blocks of the file are there.
Stands(at, lo, hi, x, f, n) ==
    /\ Pictured(at, lo, hi) /\ table[x].id = f.id /\ n = hi[x] - lo[x] + 1
    /\ f.start = at[x][lo[x]] /\ f.block = at[x][lo[x] + f.pos \div P]

LEMMA WriteStepWhere ==
    ASSUME IInv \/ GInv, WriteStep,
           NEW f, f = handle[op.h], NEW k, k = Least({op.n, P - (f.pos % P)})
    PROVE  /\ Underway /\ op.h \in Handles /\ f \in FileType /\ f.id \in Ids /\ f.id # 0
           /\ f.start # 0 /\ f.block \in DataBlocks
           /\ k \in Nat /\ k > 0 /\ k <= P - (f.pos % P)
           /\ f.pos \in Nat /\ f.size \in Nat /\ f.pos <= f.size
           /\ newSize(f, k) \in Nat /\ f.pos < newSize(f, k) /\ f.size <= newSize(f, k)
           /\ chained = disk
           /\ \A y \in Entries : ~Freeing(table[y].id)
           /\ \A y \in Entries : table[y].id = f.id => sizeOf(table[y]) = f.size
           /\ \E at, lo, hi : \E x \in Entries : Stands(at, lo, hi, x, f, BlocksFor(newSize(f, k)))
<1>1. /\ Underway /\ f.start # 0 /\ f.block \in DataBlocks /\ op.h \in Handles
      /\ k \in Nat /\ k > 0 /\ k <= P - (f.pos % P) /\ chained = disk
      /\ \E at, lo, hi : \E x \in Entries :
           /\ table[x].id = f.id /\ at[0][lo[0]] = free_block
           /\ Ready(at, lo, hi, disk, f, f.block, x, newSize(f, k))
  BY WriteStands
<1>2. f \in FileType /\ f.id # 0 /\ f.id \in Ids /\ op.kind \in WriteKinds /\ mounted /\ op.h # 0
  BY <1>1, Sizes DEF Underway, FileType
<1>3. f.pos \in Nat /\ f.size \in Nat /\ f.pos <= f.size
  <2>1. f.pos \in Nat /\ f.size \in Nat
    BY <1>2, Sizes DEF FileType
  <2>2. f.pos <= f.size
    <3>1. CASE IInv
      BY <1>1, <3>1 DEF IInv, HandlesTyped, FileTyped
    <3>2. CASE GInv
      BY <2>1, <3>2 DEF GInv, Extends, EoF
    <3>. QED BY <3>1, <3>2
  <2>. QED BY <2>1, <2>2
<1>4. newSize(f, k) \in Nat /\ f.pos < newSize(f, k) /\ f.size <= newSize(f, k)
  BY <1>1, <1>3 DEF newSize
<1>5. \A y \in Entries : ~Freeing(table[y].id)
  BY <1>2 DEF Freeing, WriteKinds
<1>6. \A y \in Entries : table[y].id = f.id =>
        sizeOf(table[y]) = f.size /\ startOf(table[y]) = f.start
  BY <1>2 DEF sizeOf, startOf, Writing, Growing, WriteKinds
<1>7. PICK at, lo, hi : \E x \in Entries :
           /\ table[x].id = f.id /\ at[0][lo[0]] = free_block
           /\ Ready(at, lo, hi, disk, f, f.block, x, newSize(f, k))
  BY <1>1
<1>8. PICK x \in Entries : /\ table[x].id = f.id /\ at[0][lo[0]] = free_block
                           /\ Ready(at, lo, hi, disk, f, f.block, x, newSize(f, k))
  BY <1>7
<1>9. /\ Laid(at, lo, hi) /\ Followed(at, lo, hi, disk) /\ x # 0
      /\ hi[x] - lo[x] + 1 = BlocksFor(newSize(f, k))
      /\ f.start = at[x][lo[x]] /\ f.block = at[x][lo[x] + f.pos \div P]
      /\ \A y \in Entries \ {x} : /\ at[y][lo[y]] = first(y)
                                  /\ hi[y] - lo[y] + 1 = BlocksFor(sizeOf(table[y]))
  BY <1>8, EntriesAre DEF Ready
<1>10. \A e \in Chains : at[e][lo[e]] = first(e)
  <2>1. at[0][lo[0]] = first(0)
    BY <1>2, <1>8 DEF first
  <2>2. at[x][lo[x]] = first(x)
    BY <1>1, <1>5, <1>6, <1>8, <1>9 DEF first
  <2>. QED BY <1>9, <2>1, <2>2 DEF Chains
<1>11. ASSUME NEW e \in Entries PROVE BlocksFor(sizeOf(table[e])) <= hi[e] - lo[e] + 1
  <2>1. CASE e = x
    <3>1. BlocksFor(f.size) <= BlocksFor(newSize(f, k))
      BY <1>3, <1>4, BlocksMonotone
    <3>. QED BY <1>6, <1>8, <1>9, <2>1, <3>1
  <2>2. CASE e # x
    <3>1. hi[e] - lo[e] + 1 \in 0 .. NB - 1
      BY <1>9, ChainBlocks, EntriesAre
    <3>2. hi[e] - lo[e] + 1 = BlocksFor(sizeOf(table[e]))
      BY <1>9, <2>2
    <3>. QED BY <3>1, <3>2, Sizes
  <2>. QED BY <2>1, <2>2
<1>12. Pictured(at, lo, hi)
  BY <1>1, <1>9, <1>10, <1>11 DEF Pictured
<1>13. Stands(at, lo, hi, x, f, BlocksFor(newSize(f, k)))
  BY <1>8, <1>9, <1>12 DEF Stands
<1>. QED BY <1>1, <1>2, <1>3, <1>4, <1>5, <1>6, <1>13

\* A step of Write changes characters of the block the handle is on, and nothing else.
LEMMA WriteStepLeaves ==
    ASSUME IInv \/ GInv, WriteStep,
           NEW f, f = handle[op.h], NEW k, k = Least({op.n, P - (f.pos % P)})
    PROVE  /\ \A a \in DataBlocks : chained'[a].link = chained[a].link
           /\ \A a \in DataBlocks \ {f.block} : disk'[a] = disk[a]
           /\ \A r \in 0 .. P - 1 :
                disk'[f.block].data[r]
                  = IF r \in f.pos % P .. (f.pos % P) + k - 1 THEN op.c ELSE disk[f.block].data[r]
           /\ op.kind \in WriteKinds /\ op'.kind = "write" /\ op'.h = op.h
           /\ table' = table /\ mounted' = mounted /\ out' = out
           /\ handle'[op.h].id = f.id /\ handle'[op.h].pos = f.pos + k
           /\ handle'[op.h].size = newSize(f, k) /\ handle'[op.h].start = f.start
           /\ handle' = [handle EXCEPT ![op.h] = handle'[op.h]]
<1>1. /\ Underway /\ op.h \in Handles /\ f \in FileType /\ f.block \in DataBlocks
      /\ chained = disk /\ op.c \in Chars
  BY WriteStepWhere DEF Underway
<1>2. /\ disk' = written(disk, f.block, f.pos % P, k, op.c)
      /\ handle' = [handle EXCEPT ![op.h] = advanced(f, k, newSize(f, k), disk')]
      /\ op' = [op EXCEPT !.kind = "write", !.n = @ - k]
      /\ UNCHANGED <<super, mounted, file_data, out>>
  BY DEF WriteStep, fs
<1>3. op.kind \in WriteKinds /\ op'.kind = "write" /\ op'.h = op.h
  BY <1>1, <1>2 DEF Underway
<1>4. chained' = disk'
  BY <1>3 DEF chained
<1>5. PICK o, d2 : o = f.pos % P /\ d2 = disk'
  OBVIOUS
<1>6. /\ \A a \in Blocks : d2[a].link = disk[a].link
      /\ \A a \in Blocks \ {f.block} : d2[a] = disk[a]
      /\ \A r \in 0 .. P - 1 :
           d2[f.block].data[r] = IF r \in o .. o + k - 1 THEN op.c ELSE disk[f.block].data[r]
  <2>1. f.block \in Blocks /\ disk \in [Blocks -> BlockType] /\ op.c \in Chars \cup {0}
    BY <1>1, DataBlocksAre DEF Underway, DiskTyped, BlockType
  <2>2. PICK b, c, d : b = f.block /\ c = op.c /\ d = disk
    OBVIOUS
  <2>3. d2 = written(d, b, o, k, c)
    BY <1>2, <1>5, <2>2
  <2>4. /\ \A a \in Blocks : d2[a].link = d[a].link
        /\ \A a \in Blocks \ {b} : d2[a] = d[a]
        /\ \A r \in 0 .. P - 1 :
             d2[b].data[r] = IF r \in o .. o + k - 1 THEN c ELSE d[b].data[r]
    <3>1. b \in Blocks /\ d \in [Blocks -> BlockType] /\ c \in Chars \cup {0}
      BY <2>1, <2>2
    <3>2. PICK e : e = written(d, b, o, k, c)
      OBVIOUS
    <3>3. /\ \A a \in Blocks : e[a].link = d[a].link
          /\ \A a \in Blocks \ {b} : e[a] = d[a]
          /\ \A r \in 0 .. P - 1 :
               e[b].data[r] = IF r \in o .. o + k - 1 THEN c ELSE d[b].data[r]
      BY <3>1, <3>2, WrittenLinks
    <3>. QED BY <2>3, <3>2, <3>3
  <2>. QED BY <2>2, <2>4
<1>7. PICK s : s = newSize(f, k)
  OBVIOUS
<1>8. PICK g : g = advanced(f, k, s, d2)
  OBVIOUS
<1>9. g.id = f.id /\ g.start = f.start /\ g.size = s /\ g.pos = f.pos + k
  BY <1>1, <1>8 DEF advanced, FileType
<1>10. handle' = [handle EXCEPT ![op.h] = g] /\ handle'[op.h] = g
  BY <1>1, <1>2, <1>5, <1>7, <1>8 DEF Underway
<1>11. table' = table
  BY <1>2 DEF table
<1>. QED BY <1>1, <1>2, <1>3, <1>4, <1>5, <1>6, <1>7, <1>9, <1>10, <1>11, DataBlocksAre

\* What the file holds after a step of Write.
LEMMA WriteContent ==
    ASSUME IInv \/ GInv, IInv', WriteStep, NEW f, f = handle[op.h],
           NEW k, k = Least({op.n, P - (f.pos % P)})
    PROVE  absContent'[f.id]
             = Overwritten(absContent[f.id], f.pos, k, op.c, newSize(f, k))
<1>1. /\ op.h \in Handles /\ f.id \in Ids /\ f.id # 0 /\ f.start # 0 /\ op.h # 0
      /\ k \in Nat /\ k > 0 /\ k <= P - (f.pos % P)
      /\ f.pos \in Nat /\ f.size \in Nat /\ f.pos <= f.size
      /\ newSize(f, k) \in Nat /\ f.pos < newSize(f, k) /\ f.size <= newSize(f, k)
      /\ \A y \in Entries : ~Freeing(table[y].id)
      /\ \A y \in Entries : table[y].id = f.id => sizeOf(table[y]) = f.size
      /\ \E at, lo, hi : \E x \in Entries : Stands(at, lo, hi, x, f, BlocksFor(newSize(f, k)))
  BY WriteStepWhere, Sizes
<1>2. /\ \A a \in DataBlocks : chained'[a].link = chained[a].link
      /\ \A a \in DataBlocks \ {f.block} : disk'[a] = disk[a]
      /\ \A r \in 0 .. P - 1 :
           disk'[f.block].data[r]
             = IF r \in f.pos % P .. (f.pos % P) + k - 1 THEN op.c ELSE disk[f.block].data[r]
      /\ op'.kind = "write" /\ op'.h = op.h /\ table' = table
      /\ handle'[op.h].id = f.id /\ handle'[op.h].size = newSize(f, k)
      /\ handle'[op.h].start = f.start
  BY WriteStepLeaves
<1>3. PICK s \in Nat : s = newSize(f, k)
  BY <1>1
<1>4. PICK n \in Nat : n = BlocksFor(s)
  BY BlocksForIs
<1>5. PICK at, lo, hi : \E x \in Entries : Stands(at, lo, hi, x, f, n)
  BY <1>1, <1>3, <1>4
<1>6. PICK x \in Entries : Stands(at, lo, hi, x, f, n)
  BY <1>5
<1>7. /\ Pictured(at, lo, hi) /\ table[x].id = f.id /\ n = hi[x] - lo[x] + 1
      /\ f.start = at[x][lo[x]] /\ f.block = at[x][lo[x] + f.pos \div P]
      /\ Laid(at, lo, hi) /\ Followed(at, lo, hi, chained) /\ x \in Chains /\ x # 0
      /\ lo[x] \in Int /\ hi[x] \in Int /\ sizeOf(table[x]) = f.size
  BY <1>1, <1>6, EntriesAre DEF Stands, Pictured, Laid
<1>8. Pictures'
  BY PicturesNext
<1>9. PICK at2, lo2, hi2 : Pictured(at2, lo2, hi2)'
  BY <1>8 DEF Pictures
<1>10. absContent[f.id] = Characters(at, lo, x, disk, f.size)
  BY <1>1, <1>7, PictureIs
<1>11. /\ \A y \in Entries : table[y].id = f.id =>
            sizeOf(table[y])' = s /\ startOf(table[y])' = f.start
       /\ \A y \in Entries : ~Freeing(table[y].id)'
  BY <1>1, <1>2, <1>3 DEF sizeOf, startOf, Writing, Growing, Freeing
<1>12. absContent'[f.id] = Characters(at2, lo2, x, disk', s)
  <2>1. table'[x].id = f.id
    BY <1>2, <1>7
  <2>. QED BY <1>1, <1>7, <1>9, <1>11, <2>1, SeesContentNext DEF ContentSeen
<1>13. at2[x][lo2[x]] = at[x][lo[x]]
  <2>1. at2[x][lo2[x]] = first(x)'
    BY <1>7, <1>9 DEF Pictured
  <2>2. first(x)' = f.start
    BY <1>1, <1>7, <1>11 DEF first
  <2>. QED BY <1>7, <2>1, <2>2
<1>14. \A q \in 0 .. n - 1 : lo[x] + q \in lo[x] .. hi[x] /\ at[x][lo[x] + q] \in DataBlocks
  <2>1. \A q \in 0 .. n - 1 : lo[x] + q \in lo[x] .. hi[x]
    BY <1>7
  <2>. QED BY <1>7, <2>1 DEF Laid
<1>15. \A q \in 0 .. n - 1 : at2[x][lo2[x] + q] = at[x][lo[x] + q]
  <2>1. PICK d, d2 : d = chained /\ d2 = chained'
    OBVIOUS
  <2>2. \A q \in 0 .. n - 2 : d2[at[x][lo[x] + q]].link = d[at[x][lo[x] + q]].link
    <3>1. \A q \in 0 .. n - 2 : q \in 0 .. n - 1
      OBVIOUS
    <3>. QED BY <1>2, <1>14, <2>1, <3>1
  <2>3. lo[x] + n <= hi[x] + 1
    BY <1>7
  <2>4. Laid(at2, lo2, hi2) /\ Followed(at2, lo2, hi2, d2)
    BY <1>9, <2>1 DEF Pictured
  <2>5. SameStart(x, n, at, lo, hi, d, at2, lo2, hi2, d2)
    BY <1>7, <1>13, <2>1, <2>2, <2>3, <2>4 DEF SameStart
  <2>. QED BY <1>7, <2>5, SameChain
<1>16. PICK q0 \in 0 .. n - 1 : q0 = f.pos \div P
  <2>1. f.pos \div P \in Nat
    BY <1>1, DivMod
  <2>2. f.pos \div P + 1 <= n
    BY <1>1, <1>3, <1>4, BlockOfPosition
  <2>. QED BY <2>1, <2>2
<1>17. ASSUME NEW q \in 0 .. n - 1, q # q0
       PROVE  disk'[at[x][lo[x] + q]].data = disk[at[x][lo[x] + q]].data
  <2>1. at[x][lo[x] + q] = at[x][lo[x] + q0] => lo[x] + q = lo[x] + q0
    BY <1>7, <1>14 DEF Laid
  <2>2. lo[x] + q # lo[x] + q0
    BY <1>7, <1>17
  <2>3. at[x][lo[x] + q] # f.block
    BY <1>7, <1>16, <2>1, <2>2
  <2>. QED BY <1>2, <1>14, <2>3
<1>18. \A q \in 0 .. BlocksFor(f.size) - 1 : q \in 0 .. n - 1
  <2>1. BlocksFor(f.size) \in Nat /\ BlocksFor(f.size) <= n
    BY <1>1, <1>3, <1>4, BlocksMonotone, BlocksForIs
  <2>. QED BY <2>1
<1>19. f.pos % P \in 0 .. P - 1
  BY <1>1, DivMod
<1>20. PICK d, d2, c : d = disk /\ d2 = disk' /\ c = op.c
  OBVIOUS
<1>21. PICK p \in Nat, size \in Nat : p = f.pos /\ size = f.size
  BY <1>1
<1>22. Overwrites(at, lo, d, at2, lo2, d2, x, p, k, c, size)
  <2>1. PICK b : b = at2[x][lo2[x] + p \div P]
    OBVIOUS
  <2>2. b = f.block
    BY <1>7, <1>15, <1>16, <1>21, <2>1
  <2>3. \A r \in p % P .. (p % P) + k - 1 : d2[b].data[r] = c
    <3>1. \A r \in p % P .. (p % P) + k - 1 : r \in 0 .. P - 1
      BY <1>1, <1>19, <1>21, Sizes
    <3>. QED BY <1>2, <1>20, <1>21, <2>2, <3>1
  <2>4. \A r \in 0 .. P - 1 : r \notin p % P .. (p % P) + k - 1 => d2[b].data[r] = d[b].data[r]
    BY <1>2, <1>20, <1>21, <2>2
  <2>5. \A q \in 0 .. BlocksFor(size) - 1 :
          /\ at2[x][lo2[x] + q] = at[x][lo[x] + q]
          /\ q # p \div P => d2[at[x][lo[x] + q]].data = d[at[x][lo[x] + q]].data
    BY <1>15, <1>16, <1>17, <1>18, <1>20, <1>21
  <2>. QED BY <2>1, <2>3, <2>4, <2>5 DEF Overwrites
<1>23. Characters(at2, lo2, x, d2, s) = Overwritten(Characters(at, lo, x, d, size), p, k, c, s)
  <2>1. /\ p <= size /\ s = IF p + k > size THEN p + k ELSE size
        /\ k <= P - (p % P) /\ k \in Nat /\ k > 0
    BY <1>1, <1>3, <1>21 DEF newSize
  <2>. QED BY <1>22, <2>1, CharactersWritten
<1>. QED BY <1>3, <1>10, <1>12, <1>20, <1>21, <1>23

\* An iteration of the loop of Write writes the next characters of the file.
LEMMA WriteStepAbstract == ASSUME IInv \/ GInv, IInv', WriteStep PROVE [FS!Next]_(FS!vars)
<1> DEFINE h == op.h
<1>1. PICK f : f = handle[h]
  OBVIOUS
<1>2. PICK k : k = Least({op.n, P - (f.pos % P)})
  OBVIOUS
<1>3. /\ Underway /\ h \in Handles /\ f.id \in Ids /\ f.id # 0
      /\ k \in Nat /\ k > 0 /\ k <= P - (f.pos % P)
      /\ f.pos \in Nat /\ f.size \in Nat /\ f.pos <= f.size
      /\ \A y \in Entries : ~Freeing(table[y].id)
      /\ \A y \in Entries : table[y].id = f.id => sizeOf(table[y]) = f.size
      /\ \E at, lo, hi : \E x \in Entries : Stands(at, lo, hi, x, f, BlocksFor(newSize(f, k)))
  BY <1>1, <1>2, WriteStepWhere
<1>4. /\ \A a \in DataBlocks : chained'[a].link = chained[a].link
      /\ \A a \in DataBlocks \ {f.block} : disk'[a] = disk[a]
      /\ op.kind \in WriteKinds /\ op'.kind = "write" /\ op'.h = h
      /\ table' = table /\ mounted' = mounted /\ out' = out
      /\ handle'[h].id = f.id /\ handle'[h].pos = f.pos + k
      /\ handle' = [handle EXCEPT ![h] = handle'[h]]
  BY <1>1, <1>2, WriteStepLeaves
<1>5. h # 0 /\ op.c \in Chars
  BY <1>3, Sizes DEF Underway
<1>6. PICK n \in Nat : n = BlocksFor(newSize(f, k))
  <2>1. newSize(f, k) \in Nat
    BY <1>3 DEF newSize
  <2>. QED BY <2>1, BlocksForIs
<1>7. PICK at, lo, hi : \E x \in Entries : Stands(at, lo, hi, x, f, n)
  BY <1>3, <1>6
<1>8. PICK x \in Entries : Stands(at, lo, hi, x, f, n)
  BY <1>7
<1>9. /\ Pictured(at, lo, hi) /\ Laid(at, lo, hi) /\ table[x].id = f.id /\ x \in Chains
      /\ n = hi[x] - lo[x] + 1 /\ lo[x] \in Int /\ hi[x] \in Int
      /\ f.block = at[x][lo[x] + f.pos \div P] /\ sizeOf(table[x]) = f.size
  BY <1>3, <1>8, EntriesAre DEF Stands, Pictured, Laid
<1>10. absContent'[f.id] = Overwritten(absContent[f.id], f.pos, k, op.c, newSize(f, k))
  BY <1>1, <1>2, WriteContent
<1>11. ASSUME NEW id \in Ids, id # f.id PROVE absContent'[id] = absContent[id]
  <2>1. ASSUME NEW y \in Entries, table[y].id = id
        PROVE  sizeOf(table[y])' = sizeOf(table[y]) /\ startOf(table[y])' = startOf(table[y])
    BY <1>1, <1>4, <1>11, <2>1 DEF sizeOf, startOf, Writing, Growing
  <2>2. ASSUME NEW y \in Entries, table[y].id = id
        PROVE  KeptAlong(y, at, lo, BlocksFor(sizeOf(table[y])))
    <3>1. PICK m \in Nat : m = BlocksFor(sizeOf(table[y]))
      BY SizeIs, BlocksForIs
    <3>2. y \in Chains /\ lo[y] \in Int /\ hi[y] \in Int /\ y # x /\ m <= hi[y] - lo[y] + 1
      BY <1>3, <1>9, <1>11, <2>2, <3>1, EntriesAre DEF Pictured, Laid
    <3>3. \A q \in 0 .. m - 1 : lo[y] + q \in lo[y] .. hi[y]
      BY <3>2
    <3>4. \A q \in 0 .. m - 1 : at[y][lo[y] + q] \in DataBlocks
      BY <1>9, <3>2, <3>3 DEF Laid
    <3>5. PICK j \in lo[x] .. hi[x] : f.block = at[x][j]
      <4>1. f.pos < newSize(f, k) /\ newSize(f, k) \in Nat
        BY <1>3 DEF newSize
      <4>2. f.pos \div P \in Nat /\ f.pos \div P + 1 <= n
        BY <1>3, <1>6, <4>1, DivMod, BlockOfPosition
      <4>3. lo[x] + f.pos \div P \in lo[x] .. hi[x]
        BY <1>9, <4>2
      <4>. QED BY <1>9, <4>3
    <3>6. \A q \in 0 .. m - 1 : at[y][lo[y] + q] # f.block
      BY <1>9, <3>2, <3>3, <3>5 DEF Laid
    <3>7. \A q \in 0 .. m - 2 : q \in 0 .. m - 1
      OBVIOUS
    <3>. QED BY <1>4, <3>1, <3>4, <3>6, <3>7 DEF KeptAlong
  <2>3. \A e \in Entries : table'[e].id = id <=> table[e].id = id
    BY <1>4
  <2>4. \A kind : op'.kind = kind /\ op'.id = id /\ kind \in {"rewrite", "delete"}
                  <=> op.kind = kind /\ op.id = id /\ kind \in {"rewrite", "delete"}
    BY <1>4 DEF WriteKinds
  <2>. QED BY <1>9, <2>1, <2>2, <2>3, <2>4, ContentKept
<1>12. absContent' = [absContent EXCEPT ![f.id] =
                        Overwritten(absContent[f.id], f.pos, k, op.c, newSize(f, k))]
  BY <1>3, <1>10, <1>11, ContentsAre
<1>13. /\ absHandle' = [absHandle EXCEPT ![h].pos = f.pos + k] /\ h \in FS!Opened
       /\ absHandle[h].pos = f.pos /\ absHandle[h].id = f.id
  <2>1. PICK g : g = handle'[h]
    OBVIOUS
  <2>4. handle' = [handle EXCEPT ![h] = g] /\ g.id = handle[h].id /\ handle[h].id # 0
    BY <1>1, <1>3, <1>4, <2>1
  <2>2. absHandle' = [absHandle EXCEPT ![h].pos = g.pos] /\ h \in FS!Opened
    BY <1>3, <2>4, HandleStep
  <2>3. absHandle[h].pos = f.pos /\ absHandle[h].id = f.id
    BY <1>1, <1>3, HandlesAre
  <2>. QED BY <1>4, <2>1, <2>2, <2>3
<1>14. absContent[f.id] = Characters(at, lo, x, disk, f.size)
  BY <1>3, <1>9, PictureIs
<1>15. Len(absContent[f.id]) = f.size
  <2> DEFINE c == Characters(at, lo, x, disk, f.size)
             S == {c[i] : i \in 1 .. f.size}
  <2>1. c \in [1 .. f.size -> S]
    BY DEF Characters
  <2> HIDE DEF c, S
  <2>2. c \in Seq(S)
    BY <1>3, <2>1, SeqDef
  <2>3. Len(c) = f.size
    BY <1>3, <2>1, <2>2, LenProperties
  <2>. QED BY <1>14, <2>3 DEF c
<1>16. newSize(f, k) = IF f.pos + k > Len(absContent[f.id]) THEN f.pos + k
                       ELSE Len(absContent[f.id])
  BY <1>3, <1>15 DEF newSize
<1>17. FS!File(h) = absContent[f.id]
  BY <1>13 DEF FS!File
<1>18. k \in 1 .. P
  BY <1>3, DivMod, Sizes
<1>19. FS!Write(h, k, op.c)
  BY <1>4, <1>12, <1>13, <1>16, <1>17 DEF FS!Write, Overwritten
<1>. QED BY <1>3, <1>5, <1>13, <1>18, <1>19 DEF FS!Next

-----------------------------------------------------------------------------
\* The characters that Read returns are in the file.
LEMMA ReadStepOut == ASSUME IInv, OutSound, ReadStep PROVE OutSound'
<1> DEFINE f == handle[op.h]
           off == f.pos % P
           k == Least({op.n, P - off, f.size - f.pos})
           s == [i \in 1 .. k |-> disk[f.block].data[off + i - 1]]
<1>1. op.kind = "read" /\ out' = out \o s
  BY DEF ReadStep, read
<1>2. /\ op.h \in Handles /\ f \in FileType /\ FileTyped(f) /\ op.n \in Nat
      /\ (f.start # 0 => f.block # 0)
  <2>1. OpSound
    BY DEF IInv
  <2>2. /\ op.kind \in {"read", "write"} /\ op.h # 0 /\ op.h \in Handles \cup {0}
        /\ op.n \in 0 .. MaxN
    BY <1>1, <2>1 DEF OpSound
  <2>3. f.start # 0 => f.block # 0
    BY <2>1, <2>2 DEF OpSound
  <2>4. op.h \in Handles /\ op.n \in Nat
    BY <2>2, Sizes
  <2>. QED BY <2>3, <2>4 DEF IInv, HandlesTyped, FileType
<1>3. f.pos \in Nat /\ f.size \in Nat /\ f.pos <= f.size /\ off \in 0 .. P - 1 /\ P \in Nat
  <2>1. f.pos \in Nat /\ f.size \in Nat /\ f.pos <= f.size
    BY <1>2, Sizes DEF FileType, FileTyped
  <2>. QED BY <2>1, DivMod, Sizes
<1>4. k \in Nat /\ k <= P - off /\ k <= f.size - f.pos
  <2> DEFINE T == {op.n, P - off, f.size - f.pos}
  <2>1. T \in SUBSET Nat /\ T # {} /\ op.n \in T /\ P - off \in T /\ f.size - f.pos \in T
    BY <1>2, <1>3
  <2>2. PICK T2 \in SUBSET Nat : T2 = T
    BY <2>1
  <2>3. Least(T2) \in T2 /\ \A y \in T2 : Least(T2) <= y
    BY <2>1, <2>2, MinOf
  <2>. QED BY <2>1, <2>2, <2>3
<1> HIDE DEF k
<1>5. \A i \in 1 .. k : disk[f.block].data[off + i - 1] \in Chars \cup {0}
  <2>1. SUFFICES ASSUME NEW i \in 1 .. k
                 PROVE  disk[f.block].data[off + i - 1] \in Chars \cup {0}
    OBVIOUS
  <2>2. f.size # 0 /\ f.block \in DataBlocks
    BY <1>2, <1>3, <1>4, <2>1 DEF FileType, FileTyped
  <2>3. off + i - 1 \in 0 .. P - 1 /\ f.block \in Blocks
    BY <1>3, <1>4, <2>1, <2>2, DataBlocksAre
  <2>4. disk[f.block].data \in [0 .. P - 1 -> Chars \cup {0}]
    BY <2>3 DEF IInv, DiskTyped
  <2>. QED BY <2>3, <2>4
<1>6. s \in Seq(Chars \cup {0})
  <2> DEFINE S == Chars \cup {0}
  <2>1. s \in [1 .. k -> S]
    BY <1>5
  <2> HIDE DEF s, S
  <2>2. s \in Seq(S)
    BY <1>4, <2>1, SeqDef
  <2>. QED BY <2>2 DEF S
<1> HIDE DEF s
<1>7. out \o s \in Seq(Chars \cup {0})
  BY <1>6, ConcatProperties DEF OutSound
<1>. QED BY <1>1, <1>7 DEF OutSound

\* What Read has returned is characters.
LEMMA OutputSound == ASSUME FInv, OutSound, [Next]_vars PROVE OutSound'
<1>1. out' = out \/ out' = <<>> \/ ReadStep
  BY DEF Next, Call, Continue, vars, Format, Mount, Unmount, CreateFile, StartDelete, Open,
         Close, Reset, StartRewrite, StartRead, StartWrite, ReadReturns, WriteLinks, WriteEnds,
         WriteStep, DiskFull, WriteReturns, FreeStep, RewriteReturns, DeleteReturns
<1>2. <<>> \in Seq(Chars \cup {0})
  BY EmptySeq
<1>3. ReadStep => IInv
  BY DEF FInv, GInv, Growing, ReadStep
<1>. QED BY <1>1, <1>2, <1>3, ReadStepOut DEF OutSound

\* What changes nothing changes no file.
LEMMA StutterAbstract == ASSUME UNCHANGED vars PROVE [FS!Next]_(FS!vars)
<1>1. absContent' = absContent
  BY DEF vars, absContent, table, named, Freeing, sizeOf, startOf, Writing, Growing, chained, Walk
<1>2. absHandle' = absHandle /\ out' = out /\ mounted' = mounted
  BY HandlesSame DEF vars
<1>. QED BY <1>1, <1>2, Hidden

\* Every call is one of FileStore or invisible there,
LEMMA CallAbstract ==
    ASSUME IInv, OutSound, RulesKept, Call PROVE [FS!Next]_(FS!vars)
<1>1. CASE Format
  BY <1>1, FormatSound, FormatAbstract
<1>2. CASE Mount \/ Unmount
  BY <1>2, MountSound, UnmountSound, MountAbstract
<1>3. ASSUME NEW id \in Ids, CreateFile(id) \/ StartDelete(id) PROVE [FS!Next]_(FS!vars)
  BY <1>3, CreateFileSound, StartDeleteSound, CreateFileAbstract, StartDeleteAbstract
<1>4. ASSUME NEW h \in Handles, NEW id \in Ids, Open(h, id) PROVE [FS!Next]_(FS!vars)
  BY <1>4, OpenSound, OpenAbstract
<1>5. ASSUME NEW h \in Handles, Close(h) \/ Reset(h) \/ StartRewrite(h)
      PROVE  [FS!Next]_(FS!vars)
  BY <1>5, CloseSound, ResetSound, StartRewriteSound, CloseAbstract, ResetAbstract,
     StartRewriteAbstract
<1>6. ASSUME NEW h \in Handles, NEW n \in 1 .. MaxN, StartRead(h, n)
      PROVE  [FS!Next]_(FS!vars)
  BY <1>6, StartReadSound, StartReadAbstract
<1>7. ASSUME NEW h \in Handles, NEW n \in 1 .. MaxN, NEW c \in Chars, StartWrite(h, n, c)
      PROVE  [FS!Next]_(FS!vars)
  BY <1>7, StartWriteSound, StartWriteAbstract
<1>. QED BY <1>1, <1>2, <1>3, <1>4, <1>5, <1>6, <1>7 DEF Call

\* and so is every step of an operation.
LEMMA ContinueAbstract ==
    ASSUME IInv, OutSound, Continue PROVE [FS!Next]_(FS!vars)
<1>1. CASE ReadStep \/ ReadReturns
  BY <1>1, ReadStepSound, ReadReturnsSound, ReadStepAbstract, ReadReturnsAbstract
<1>2. CASE WriteLinks
  BY <1>2, LinksSound, LinksAbstract
<1>3. ~WriteEnds
  BY Unlinked DEF IInv, WriteEnds, Growing
<1>4. CASE WriteStep
  BY <1>4, WriteStepSound, WriteStepAbstract
<1>5. CASE DiskFull \/ WriteReturns
  BY <1>5, DiskFullSound, WriteReturnsSound, DiskFullAbstract, WriteReturnsAbstract
<1>6. CASE FreeStep \/ RewriteReturns \/ DeleteReturns
  BY <1>6, FreeStepSound, RewriteReturnsSound, DeleteReturnsSound, FreeStepAbstract,
     RewriteReturnsAbstract, DeleteReturnsAbstract
<1>. QED BY <1>1, <1>2, <1>3, <1>4, <1>5, <1>6 DEF Continue

\* Between the writes of a block, too, every step is.
LEMMA NextAbstract ==
    ASSUME FInv, OutSound, RulesKept, [Next]_vars PROVE [FS!Next]_(FS!vars)
<1>1. CASE UNCHANGED vars
  BY <1>1, StutterAbstract
<1>2. CASE IInv /\ Next
  BY <1>2, CallAbstract, ContinueAbstract DEF Next
<1>3. CASE GInv /\ WriteEnds
  BY <1>3, EndsSound, EndsAbstract
<1>4. CASE GInv /\ WriteStep
  BY <1>4, WriteStepSound, WriteStepAbstract
<1>. QED BY <1>1, <1>2, <1>3, <1>4, GrowingOnly DEF FInv

\* What is read from a file is what was last written to it. No block has to be thought of:
\* for clients that keep the rules, every step of the file system on its blocks, links,
\* table and handles is a step of FileStore on sequences of characters, or invisible there.
THEOREM BehavesLikeFiles == ASSUME RulesKept PROVE Safe => ReadsWhatWasWritten
<1>1. Init => OutSound
  BY EmptySeq DEF Init, OutSound
<1>2. FInv /\ OutSound /\ [Next]_vars => OutSound'
  BY OutputSound
<1>3. Init => FS!Init
  BY InitInvariant, InitAbstract
<1>4. FInv /\ OutSound /\ [Next]_vars => [FS!Next]_(FS!vars)
  BY NextAbstract
<1>5. Safe => []FInv
  BY FileInvariant
<1>. QED BY <1>1, <1>2, <1>3, <1>4, <1>5, PTL DEF Safe, ReadsWhatWasWritten, FS!Spec
=============================================================================
