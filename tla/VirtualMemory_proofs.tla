------------------------ MODULE VirtualMemory_proofs ------------------------
(***************************************************************************)
(* The paging kernel behaves like memory, for all sizes of pages, pools,   *)
(* regions and memory, and clients that keep the rules of RulesKept.       *)
(*                                                                         *)
(* The regions of the pools keep out of each other's way, so a page that   *)
(* is released is in no other region.  Sound then says which frames there  *)
(* are: those behind pages, those behind page tables and the free ones, no *)
(* two alike.  Neither a fault nor the release of a page makes a frame     *)
(* free: each takes up to two of those that were (the word that release    *)
(* means to clear is in a stray page), and nothing that is mapped is       *)
(* unmapped or moved (Grows).  To release a region is a recursive function *)
(* over its pages, which FreedExists and FreedGrows follow by induction    *)
(* over the numbers.                                                       *)
(***************************************************************************)
EXTENDS VirtualMemory, SequenceTheorems, FiniteSetTheorems, WellFoundedInduction, TLAPS

\* A set of numbers that is not empty has a least element.
LEMMA LeastElement ==
    ASSUME NEW A \in SUBSET Nat, A # {}
    PROVE  \E x \in A : \A y \in A : x <= y
<1> DEFINE R == OpToRel(<, Nat)
<1>1. IsWellFoundedOn(R, Nat)
  BY NatLessThanWellFounded
<1>2. \A x, y \in Nat : <<x, y>> \in R <=> x < y
  BY DEF OpToRel
<1> HIDE DEF R
<1>3. PICK x \in A : \A y \in A : <<y, x>> \notin R
  BY <1>1, WFMin, Zenon
<1>4. ASSUME NEW y \in A PROVE x <= y
  <2>1. x \in Nat /\ y \in Nat
    OBVIOUS
  <2>2. ~(y < x)
    BY <1>2, <1>3, <2>1
  <2>. QED BY <2>1, <2>2
<1>. QED BY <1>4

\* A set that has 0, and with each number the next, has all of them: induction
\* in a form that takes a set and not a predicate.
LEMMA Induction ==
    ASSUME NEW S, 0 \in S, \A n \in Nat : n \in S => n + 1 \in S
    PROVE  Nat \subseteq S
<1> DEFINE A == Nat \ S
<1>1. SUFFICES ASSUME A # {} PROVE FALSE
  OBVIOUS
<1>2. PICK x \in A : \A y \in A : x <= y
  BY <1>1, LeastElement
<1>3. x \in Nat \ {0} /\ x - 1 \in Nat /\ x - 1 \notin A
  BY <1>2
<1>. QED BY <1>3

LEMMA Layout ==
    /\ Base[1] \in Nat /\ Base[2] \in Nat /\ Size \in Nat
    /\ Base[1] + Size <= Base[2]
    /\ Sizes \subseteq Nat \ {0}
BY LayoutAssumption DEF Base

LEMMA RegionIsNats ==
    \A r \in Region : r.start \in Nat /\ r.size \in Nat /\ r.size > 0 /\ r.size \in Sizes
<1>1. \A n \in Sizes : n \in Nat /\ n > 0
  BY Layout
<1>2. \A r \in Region : r.start \in Nat /\ r.size \in Sizes
  BY DEF Region
<1>. QED BY <1>1, <1>2

LEMMA FreedExists ==
    ASSUME NEW m, NEW s, Len(s) \in Nat
    PROVE  \E f : /\ f = [j \in 0 .. Len(s) |-> IF j = 0 THEN m
                                                  ELSE free_page(f[j - 1], s[j])]
                  /\ Freed(m, s) = f[Len(s)]
<1> DEFINE Step(h, k) == [j \in 0 .. k |-> IF j = 0 THEN m
                                             ELSE free_page(h[j - 1], s[j])]
           Built == {k \in Nat : \E h : h = Step(h, k)}
<1>1. 0 \in Built
  <2> DEFINE h == [j \in {0} |-> m]
  <2>1. 0 .. 0 = {0}
    OBVIOUS
  <2>2. h = Step(h, 0)
    BY <2>1
  <2>. QED BY <2>2
<1>2. ASSUME NEW k \in Nat, k \in Built PROVE k + 1 \in Built
  <2>1. PICK h : h = Step(h, k)
    BY <1>2
  <2> DEFINE g == [j \in 0 .. k + 1 |-> IF j = k + 1 THEN free_page(h[k], s[k + 1])
                                                    ELSE h[j]]
  <2>2. \A j \in 0 .. k : g[j] = h[j]
    OBVIOUS
  <2>3. \A j \in 0 .. k + 1 : g[j] = IF j = 0 THEN m ELSE free_page(g[j - 1], s[j])
    <3>1. ASSUME NEW j \in 0 .. k PROVE g[j] = IF j = 0 THEN m ELSE free_page(g[j - 1], s[j])
      <4>1. h[j] = IF j = 0 THEN m ELSE free_page(h[j - 1], s[j])
        BY <2>1
      <4>. QED BY <2>2, <4>1
    <3>2. g[k + 1] = free_page(g[k], s[k + 1])
      BY <2>2
    <3>3. \A j \in 0 .. k + 1 : j \in 0 .. k \/ j = k + 1
      OBVIOUS
    <3>4. k + 1 # 0 /\ (k + 1) - 1 = k
      OBVIOUS
    <3> HIDE DEF g
    <3>. QED BY <3>1, <3>2, <3>3, <3>4
  <2>4. g = Step(g, k + 1)
    BY <2>3
  <2>5. k + 1 \in Nat
    OBVIOUS
  <2> HIDE DEF g, Step
  <2>. QED BY <2>4, <2>5
<1>3. Len(s) \in Built
  <2> HIDE DEF Built
  <2>. QED BY <1>1, <1>2, Induction
<1>4. PICK h : h = Step(h, Len(s))
  BY <1>3
<1> DEFINE f == CHOOSE g : g = Step(g, Len(s))
<1>5. f = Step(f, Len(s))
  BY <1>4
<1>6. Freed(m, s) = f[Len(s)]
  BY DEF Freed
<1>. QED BY <1>5, <1>6

LEMMA InitOrdered == Init => RegionsOrdered
<1>. SUFFICES ASSUME Init PROVE RegionsOrdered
  OBVIOUS
<1>1. regions = [i \in Pools |-> <<>>]
  BY DEF Init
<1>2. \A i \in Pools : regions[i] = <<>> /\ Len(regions[i]) = 0
  BY <1>1
<1>3. regions \in [Pools -> Seq(Region)]
  BY <1>1
<1>. QED BY <1>2, <1>3 DEF RegionsOrdered

\* A region is placed behind those of its pool.
LEMMA StartBehind ==
    ASSUME RegionsOrdered, NEW i \in Pools
    PROVE  /\ start_address(i) \in Nat /\ Base[i] <= start_address(i)
           /\ \A k \in 1 .. Len(regions[i]) :
                regions[i][k].start + regions[i][k].size <= start_address(i)
<1>1. regions[i] \in Seq(Region) /\ Base[i] \in Nat
  BY Layout DEF RegionsOrdered, Pools
<1>2. /\ Len(regions[i]) \in Nat
      /\ \A k \in 1 .. Len(regions[i]) : regions[i][k] \in Region
  BY <1>1, ElementOfSeq, LenProperties
<1>3. CASE Len(regions[i]) = 0
  BY <1>1, <1>3 DEF start_address
<1>4. CASE Len(regions[i]) # 0
  <2> DEFINE n == Len(regions[i])
  <2>1. start_address(i) = regions[i][n].start + regions[i][n].size
    BY <1>4 DEF start_address
  <2>2. n \in 1 .. n /\ regions[i][n] \in Region
    BY <1>2, <1>4
  <2>3. start_address(i) \in Nat /\ Base[i] <= start_address(i)
    BY <1>1, <2>1, <2>2, RegionIsNats DEF RegionsOrdered
  <2>4. ASSUME NEW k \in 1 .. n
        PROVE  regions[i][k].start + regions[i][k].size <= start_address(i)
    <3>1. k = n \/ k \in 1 .. n - 1
      BY <1>2
    <3>2. regions[i][k] \in Region
      BY <1>2
    <3>3. CASE k \in 1 .. n - 1
      <4>1. regions[i][k].start + regions[i][k].size <= regions[i][n].start
        BY <2>2, <3>3 DEF RegionsOrdered
      <4>. QED BY <2>1, <2>2, <3>2, <4>1, RegionIsNats
    <3>4. CASE k = n
      BY <2>1, <2>2, <3>4, RegionIsNats
    <3>. QED BY <3>1, <3>3, <3>4
  <2>. QED BY <2>3, <2>4
<1>. QED BY <1>3, <1>4

LEMMA AllocateKeeps ==
    ASSUME "inside" \in Rules, RegionsOrdered,
           NEW i \in Pools, NEW size \in Sizes, allocate(i, size)
    PROVE  RegionsOrdered'
<1> DEFINE r == [start |-> start_address(i), size |-> size, valid |-> TRUE]
           n == Len(regions[i])
<1>1. /\ regions' = [regions EXCEPT ![i] = Append(@, r)]
      /\ start_address(i) + size <= Base[i] + Size
  BY DEF allocate
<1>2. r \in Region
  BY StartBehind, Layout DEF Region
<1>3. regions[i] \in Seq(Region) /\ n \in Nat /\ regions \in [Pools -> Seq(Region)]
  BY LenProperties DEF RegionsOrdered
<1>4. /\ Append(regions[i], r) \in Seq(Region) /\ Len(Append(regions[i], r)) = n + 1
      /\ \A k \in 1 .. n : Append(regions[i], r)[k] = regions[i][k]
      /\ Append(regions[i], r)[n + 1] = r
  BY <1>2, <1>3, AppendProperties
<1>5. /\ regions' \in [Pools -> Seq(Region)]
      /\ regions'[i] = Append(regions[i], r)
      /\ \A j \in Pools \ {i} : regions'[j] = regions[j]
  BY <1>1, <1>3, <1>4
<1>6. /\ Base[i] <= r.start /\ r.start + r.size <= Base[i] + Size
      /\ \A k \in 1 .. n : regions[i][k].start + regions[i][k].size <= r.start
  BY <1>1, StartBehind
<1> HIDE DEF r
<1>7. /\ \A k \in 1 .. n : regions'[i][k] = regions[i][k]
      /\ regions'[i][n + 1] = r /\ Len(regions'[i]) = n + 1
  BY <1>4, <1>5
<1>8. PICK m \in Nat : m = n
  BY <1>3
<1>9. /\ \A k \in 1 .. m + 1 : k \in 1 .. m \/ k = m + 1
      /\ \A l \in 1 .. m : \A k \in 1 .. l - 1 : k \in 1 .. m
      /\ \A k \in 1 .. (m + 1) - 1 : k \in 1 .. m
  OBVIOUS
<1>10. ASSUME NEW j \in Pools, NEW k \in 1 .. Len(regions'[j])
       PROVE  /\ Base[j] <= regions'[j][k].start
              /\ regions'[j][k].start + regions'[j][k].size <= Base[j] + Size
  <2>1. CASE j = i
    <3>1. k \in 1 .. m \/ k = m + 1
      BY <1>7, <1>8, <1>9, <2>1
    <3>2. CASE k = m + 1
      <4>1. regions'[j][k] = r
        BY <1>7, <1>8, <2>1, <3>2
      <4>. QED BY <1>6, <2>1, <4>1
    <3>3. CASE k \in 1 .. m
      <4>1. regions'[j][k] = regions[i][k] /\ k \in 1 .. Len(regions[i])
        BY <1>7, <1>8, <2>1, <3>3
      <4>. QED BY <2>1, <4>1 DEF RegionsOrdered
    <3>. QED BY <3>1, <3>2, <3>3
  <2>2. CASE j # i
    BY <1>5, <2>2 DEF RegionsOrdered
  <2>. QED BY <2>1, <2>2
<1>11. ASSUME NEW j \in Pools, NEW l \in 1 .. Len(regions'[j]), NEW k \in 1 .. l - 1
       PROVE  regions'[j][k].start + regions'[j][k].size <= regions'[j][l].start
  <2>1. CASE j = i
    <3>1. l \in 1 .. m \/ l = m + 1
      BY <1>7, <1>8, <1>9, <2>1
    <3>2. CASE l = m + 1
      <4>1. k \in 1 .. m
        BY <1>9, <3>2
      <4>2. regions'[j][l] = r /\ regions'[j][k] = regions[i][k]
        BY <1>7, <1>8, <2>1, <3>2, <4>1
      <4>. QED BY <1>6, <1>8, <4>1, <4>2
    <3>3. CASE l \in 1 .. m
      <4>1. k \in 1 .. m
        BY <1>9, <3>3
      <4>2. /\ regions'[j][l] = regions[i][l] /\ regions'[j][k] = regions[i][k]
            /\ l \in 1 .. Len(regions[i])
        BY <1>7, <1>8, <2>1, <3>3, <4>1
      <4>. QED BY <4>2 DEF RegionsOrdered
    <3>. QED BY <3>1, <3>2, <3>3
  <2>2. CASE j # i
    BY <1>5, <2>2 DEF RegionsOrdered
  <2>. QED BY <2>1, <2>2
<1>. QED BY <1>5, <1>10, <1>11 DEF RegionsOrdered

\* Releasing a region does not move it.
LEMMA ReleaseKeeps ==
    ASSUME RegionsOrdered, NEW i \in Pools, release(i) PROVE RegionsOrdered'
<1>1. PICK k \in Live(i) : regions' = [regions EXCEPT ![i][k].valid = FALSE]
  BY DEF release
<1>2. /\ regions \in [Pools -> Seq(Region)] /\ regions[i] \in Seq(Region)
      /\ k \in 1 .. Len(regions[i]) /\ regions[i][k] \in Region
  BY ElementOfSeq DEF RegionsOrdered, Live
<1> DEFINE r == [regions[i][k] EXCEPT !.valid = FALSE]
           s == [regions[i] EXCEPT ![k] = r]
<1>3. r \in Region /\ r.start = regions[i][k].start /\ r.size = regions[i][k].size
  BY <1>2 DEF Region
<1>4. /\ s \in Seq(Region) /\ Len(s) = Len(regions[i])
      /\ \A l \in 1 .. Len(s) : s[l] = IF l = k THEN r ELSE regions[i][l]
  BY <1>2, <1>3, ExceptSeq
<1>5. regions' = [regions EXCEPT ![i] = s]
  BY <1>1
<1>6. /\ regions' \in [Pools -> Seq(Region)] /\ regions'[i] = s
      /\ \A j \in Pools \ {i} : regions'[j] = regions[j]
  BY <1>2, <1>4, <1>5
<1>7. \A j \in Pools : /\ Len(regions'[j]) = Len(regions[j])
                       /\ \A l \in 1 .. Len(regions[j]) :
                            /\ regions'[j][l].start = regions[j][l].start
                            /\ regions'[j][l].size = regions[j][l].size
  BY ZenonT(60), <1>3, <1>4, <1>6
<1>8. \A j \in Pools : \A l \in 1 .. Len(regions'[j]) :
         /\ Base[j] <= regions'[j][l].start
         /\ regions'[j][l].start + regions'[j][l].size <= Base[j] + Size
  BY <1>7 DEF RegionsOrdered
<1>9. ASSUME NEW j \in Pools, NEW l \in 1 .. Len(regions'[j]), NEW m \in 1 .. l - 1
      PROVE  regions'[j][m].start + regions'[j][m].size <= regions'[j][l].start
  <2>1. Len(regions[j]) \in Nat
    BY LenProperties DEF RegionsOrdered
  <2>2. l \in 1 .. Len(regions[j]) /\ m \in 1 .. Len(regions[j])
    BY <1>7, <2>1
  <2>. QED BY <1>7, <2>2 DEF RegionsOrdered
<1>. QED BY <1>6, <1>8, <1>9 DEF RegionsOrdered

LEMMA NextOrdered ==
    ASSUME "inside" \in Rules, RegionsOrdered, [Next]_vars PROVE RegionsOrdered'
<1>1. ASSUME UNCHANGED regions PROVE RegionsOrdered'
  BY <1>1 DEF RegionsOrdered
<1>2. CASE UNCHANGED vars
  BY <1>1, <1>2 DEF vars
<1>3. ASSUME NEW i \in Pools, NEW size \in Sizes, new(i, size) PROVE RegionsOrdered'
  BY <1>3, AllocateKeeps DEF new
<1>4. ASSUME NEW i \in Pools, delete(i) PROVE RegionsOrdered'
  BY <1>4, ReleaseKeeps DEF delete
<1>5. ASSUME NEW i \in Pools, is_legitimate(i) \/ read(i) PROVE RegionsOrdered'
  BY <1>1, <1>5 DEF is_legitimate, read
<1>6. ASSUME NEW i \in Pools, NEW v \in Values, write(i, v) PROVE RegionsOrdered'
  BY <1>1, <1>6 DEF write
<1>. QED BY <1>2, <1>3, <1>4, <1>5, <1>6 DEF Next

LEMMA OrderedDisjoint == RegionsOrdered => RegionsDisjoint
<1>. SUFFICES ASSUME RegionsOrdered,
                     NEW i \in Pools, NEW j \in Pools,
                     NEW k \in 1 .. Len(regions[i]), NEW l \in 1 .. Len(regions[j]),
                     <<i, k>> # <<j, l>>
              PROVE  \/ regions[i][k].start + regions[i][k].size <= regions[j][l].start
                     \/ regions[j][l].start + regions[j][l].size <= regions[i][k].start
  BY DEF RegionsDisjoint
<1>1. /\ regions[i][k] \in Region /\ regions[j][l] \in Region
      /\ Len(regions[i]) \in Nat /\ Len(regions[j]) \in Nat
  BY ElementOfSeq, LenProperties DEF RegionsOrdered
<1>2. CASE i = j
  <2>1. k \in 1 .. l - 1 \/ l \in 1 .. k - 1
    BY <1>1, <1>2
  <2>2. \A n \in 1 .. Len(regions[i]) : \A m \in 1 .. n - 1 :
          regions[i][m].start + regions[i][m].size <= regions[i][n].start
    BY DEF RegionsOrdered
  <2>3. CASE k \in 1 .. l - 1
    BY <1>2, <2>2, <2>3
  <2>4. CASE l \in 1 .. k - 1
    BY <1>2, <2>2, <2>4
  <2>. QED BY <2>1, <2>3, <2>4
<1>3. CASE i # j
  <2> DEFINE b == Base[i]
             c == Base[j]
             x == regions[i][k].start
             m == regions[i][k].size
             y == regions[j][l].start
             n == regions[j][l].size
  <2>1. (i = 1 /\ j = 2) \/ (i = 2 /\ j = 1)
    BY <1>3 DEF Pools
  <2>2. b <= x /\ c <= y /\ x + m <= b + Size /\ y + n <= c + Size
    BY DEF RegionsOrdered
  <2>3. x \in Nat /\ m \in Nat /\ y \in Nat /\ n \in Nat
    BY <1>1, RegionIsNats
  <2>4. b \in Nat /\ c \in Nat /\ Size \in Nat
    BY <2>1, Layout
  <2>5. b + Size <= c \/ c + Size <= b
    BY <2>1, Layout
  <2> HIDE DEF b, c, x, m, y, n
  <2>6. x + m <= y \/ y + n <= x
    BY <2>2, <2>3, <2>4, <2>5
  <2>. QED BY <2>6 DEF x, m, y, n
<1>. QED BY <1>2, <1>3

-----------------------------------------------------------------------------
\* The addresses of two regions differ, of the same pool or not, released or not,
\* however many have been asked for, as long as a pool is not asked for more than
\* it has.
THEOREM RegionsKeepApart ==
    ASSUME "inside" \in Rules PROVE Spec => []RegionsDisjoint
<1>1. RegionsOrdered /\ [Next]_vars => RegionsOrdered'
  BY NextOrdered
<1>. QED BY <1>1, InitOrdered, OrderedDisjoint, PTL DEF Spec

-----------------------------------------------------------------------------
(* The frames.  Sound(m) is what TypeOK and FramesDistinct say of a bitmap  *)
(* and its page tables; a step of the client replaces them by ones that     *)
(* Grow from them: nothing mapped is unmapped or moved, and what is newly   *)
(* mapped is mapped to frames that were free.                               *)
Sound(m) ==
    /\ m = [taken |-> m.taken, table |-> m.table, pte |-> m.pte]
    /\ m.taken \subseteq Frames
    /\ \A p \in DOMAIN m.pte : m.pte[p] \in m.taken /\ p \div T \in DOMAIN m.table
    /\ \A d \in DOMAIN m.table : m.table[d] \in m.taken
    /\ \A p, r \in DOMAIN m.pte : m.pte[p] = m.pte[r] => p = r
    /\ \A d, e \in DOMAIN m.table : m.table[d] = m.table[e] => d = e
    /\ \A p \in DOMAIN m.pte, d \in DOMAIN m.table : m.pte[p] # m.table[d]

Grows(m, n) ==
    /\ Free(n) \subseteq Free(m)
    /\ \A p \in DOMAIN m.pte : p \in DOMAIN n.pte /\ n.pte[p] = m.pte[p]
    /\ \A p \in DOMAIN n.pte \ DOMAIN m.pte : n.pte[p] \in Free(m)

\* With k frames free, at least.
Room(m, k) == Cardinality(Free(m)) >= k

LEMMA FreeIsFinite ==
    ASSUME NEW m PROVE IsFiniteSet(Free(m)) /\ Cardinality(Free(m)) \in Nat
<1>1. nframes \in Int /\ 0 \in Int
  BY LayoutAssumption
<1>2. IsFiniteSet(Frames)
  BY <1>1, FS_Interval DEF Frames
<1>3. IsFiniteSet(Free(m))
  BY <1>2, FS_Subset DEF Free
<1>. QED BY <1>3, FS_CardinalityType

\* get_frame() finds the lowest free frame.
LEMMA FrameIsFree ==
    ASSUME NEW m, Free(m) # {} PROVE frame(m) \in Free(m)
<1>1. Free(m) \in SUBSET Nat
  BY LayoutAssumption DEF Free, Frames
<1>2. \E f \in Free(m) : \A g \in Free(m) : f <= g
  BY <1>1, LeastElement
<1>. QED BY <1>2 DEF frame, Min

\* It takes that frame and no other.
LEMMA FrameTaken ==
    ASSUME NEW m, Sound(m), NEW k \in Nat, Room(m, k + 1)
    PROVE  /\ frame(m) \in Frames \ m.taken
           /\ get_frame(m) = [taken |-> m.taken \cup {frame(m)},
                              table |-> m.table, pte |-> m.pte]
           /\ Sound(get_frame(m)) /\ Room(get_frame(m), k)
           /\ Free(get_frame(m)) = Free(m) \ {frame(m)}
<1>1. Free(m) # {}
  <2>1. Cardinality({}) = 0
    BY FS_EmptySet
  <2>. QED BY <2>1, FreeIsFinite DEF Room
<1>2. frame(m) \in Frames \ m.taken /\ frame(m) \in Free(m)
  BY <1>1, FrameIsFree DEF Free
<1>3. get_frame(m) = [taken |-> m.taken \cup {frame(m)},
                      table |-> m.table, pte |-> m.pte]
  <2>1. m = [taken |-> m.taken, table |-> m.table, pte |-> m.pte]
    BY DEF Sound
  <2>2. Free(m) \cap {frame(m)} = {frame(m)}
    BY <1>2
  <2> DEFINE taken == m.taken
             table == m.table
             pte == m.pte
  <2>3. get_frame(m) = [m EXCEPT !.taken = m.taken \cup {frame(m)}]
    BY <2>2 DEF get_frame
  <2> HIDE DEF taken, table, pte
  <2>4. m = [taken |-> taken, table |-> table, pte |-> pte]
    BY <2>1 DEF taken, table, pte
  <2>5. get_frame(m) = [taken |-> taken \cup {frame(m)}, table |-> table, pte |-> pte]
    BY <2>3, <2>4
  <2>. QED BY <2>5 DEF taken, table, pte
<1>4. Sound(get_frame(m))
  BY <1>2, <1>3 DEF Sound
<1>5. Free(get_frame(m)) = Free(m) \ {frame(m)}
  BY <1>2, <1>3 DEF Free
<1>6. Cardinality(Free(m) \ {frame(m)}) = Cardinality(Free(m)) - 1
  BY <1>2, FreeIsFinite, FS_RemoveElement
<1>7. Room(get_frame(m), k)
  BY <1>5, <1>6, FreeIsFinite DEF Room
<1>. QED BY <1>2, <1>3, <1>4, <1>5, <1>7

\* A page table that is missing takes a frame of its own.
LEMMA TableMapped ==
    ASSUME NEW m, Sound(m), NEW d, NEW k \in Nat, Room(m, k + 1)
    PROVE  /\ Sound(with_table(m, d)) /\ Room(with_table(m, d), k)
           /\ d \in DOMAIN with_table(m, d).table
           /\ with_table(m, d).pte = m.pte /\ m.taken \subseteq with_table(m, d).taken
<1>1. CASE d \in DOMAIN m.table
  BY <1>1, FreeIsFinite DEF with_table, Room
<1>2. CASE d \notin DOMAIN m.table
  <2> DEFINE g == get_frame(m)
             n == [taken |-> m.taken \cup {frame(m)},
                   table |-> Extended(m.table, d, frame(m)), pte |-> m.pte]
  <2>1. /\ frame(m) \in Frames \ m.taken
        /\ g = [taken |-> m.taken \cup {frame(m)}, table |-> m.table, pte |-> m.pte]
        /\ Room(g, k)
    BY FrameTaken
  <2>2. with_table(m, d) = n
    <3>1. with_table(m, d) = [g EXCEPT !.table = Extended(@, d, frame(m))]
      BY <1>2 DEF with_table
    <3> DEFINE taken == m.taken \cup {frame(m)}
               table == m.table
               pte == m.pte
    <3>2. g = [taken |-> taken, table |-> table, pte |-> pte]
      BY <2>1
    <3> HIDE DEF taken, table, pte, g
    <3>3. with_table(m, d) = [taken |-> taken, table |-> Extended(table, d, frame(m)),
                              pte |-> pte]
      BY <3>1, <3>2
    <3>. QED BY <3>3 DEF taken, table, pte
  <2>3. /\ DOMAIN n.table = DOMAIN m.table \cup {d} /\ n.table[d] = frame(m)
        /\ \A e \in DOMAIN m.table : n.table[e] = m.table[e]
    BY <1>2 DEF Extended
  <2>4. /\ n = [taken |-> n.taken, table |-> n.table, pte |-> n.pte]
        /\ n.taken = m.taken \cup {frame(m)} /\ n.pte = m.pte
    OBVIOUS
  <2>5. Room(n, k)
    BY <2>1 DEF Room, Free
  <2> HIDE DEF n, g
  <2>6. Sound(n)
    BY <1>2, <2>1, <2>3, <2>4 DEF Sound
  <2>. QED BY <2>2, <2>3, <2>4, <2>5, <2>6
<1>. QED BY <1>1, <1>2

\* An access to a page takes two frames at most, and maps the page.
LEMMA AccessGrows ==
    ASSUME NEW m, Sound(m), NEW p, NEW k \in Nat, Room(m, k + 2)
    PROVE  /\ Sound(access(m, p)) /\ Grows(m, access(m, p)) /\ Room(access(m, p), k)
           /\ p \in DOMAIN access(m, p).pte
<1>1. CASE p \in DOMAIN m.pte
  BY <1>1, FreeIsFinite DEF access, Grows, Room
<1>2. CASE p \notin DOMAIN m.pte
  <2> DEFINE g == get_frame(m)
             h == with_table(g, p \div T)
             n == [taken |-> h.taken, table |-> h.table,
                   pte |-> Extended(m.pte, p, frame(m))]
  <2>0. k + 1 \in Nat /\ (k + 1) + 1 = k + 2
    OBVIOUS
  <2>1. /\ frame(m) \in Frames \ m.taken /\ g.taken = m.taken \cup {frame(m)}
        /\ g.table = m.table /\ g.pte = m.pte /\ Sound(g) /\ Room(g, k + 1)
    BY <2>0, FrameTaken
  <2> HIDE DEF g
  <2>2. /\ Sound(h) /\ Room(h, k) /\ p \div T \in DOMAIN h.table
        /\ h.pte = m.pte /\ g.taken \subseteq h.taken
    BY <2>1, TableMapped
  <2>3. ASSUME NEW d \in DOMAIN h.table PROVE h.table[d] # frame(m)
    <3>1. CASE p \div T \in DOMAIN g.table
      BY <2>1, <3>1 DEF with_table, Sound
    <3>2. CASE p \div T \notin DOMAIN g.table
      <4>1. frame(g) \in Frames \ g.taken /\ get_frame(g).table = m.table
        BY <2>1, FrameTaken
      <4>2. h = [get_frame(g) EXCEPT !.table = Extended(@, p \div T, frame(g))]
        BY <3>2 DEF with_table
      <4>3. h.table = Extended(m.table, p \div T, frame(g))
        <5>1. get_frame(g) = [taken |-> g.taken \cup {frame(g)},
                              table |-> g.table, pte |-> g.pte]
          BY <2>1, FrameTaken
        <5>. QED BY <2>1, <4>2, <5>1
      <4>. QED BY <2>1, <4>1, <4>3 DEF Extended, Sound
    <3>. QED BY <3>1, <3>2
  <2>4. access(m, p) = n
    <3>1. access(m, p) = [h EXCEPT !.pte = Extended(@, p, frame(m))]
      BY <1>2 DEF access, handle_fault, g
    <3>2. h = [taken |-> h.taken, table |-> h.table, pte |-> m.pte]
      BY <2>2 DEF Sound
    <3> DEFINE taken == h.taken
               table == h.table
    <3> HIDE DEF taken, table, h
    <3>3. h = [taken |-> taken, table |-> table, pte |-> m.pte]
      BY <3>2 DEF taken, table
    <3>4. access(m, p) = [taken |-> taken, table |-> table,
                          pte |-> Extended(m.pte, p, frame(m))]
      BY <3>1, <3>3
    <3>. QED BY <3>4 DEF taken, table
  <2>5. /\ DOMAIN n.pte = DOMAIN m.pte \cup {p} /\ n.pte[p] = frame(m)
        /\ \A r \in DOMAIN m.pte : n.pte[r] = m.pte[r]
    BY <1>2 DEF Extended
  <2>6. /\ n = [taken |-> n.taken, table |-> n.table, pte |-> n.pte]
        /\ n.taken = h.taken /\ n.table = h.table
    OBVIOUS
  <2>7. Room(n, k)
    BY <2>2 DEF Room, Free
  <2> HIDE DEF n, h
  <2>8. Sound(n)
    BY <1>2, <2>1, <2>2, <2>3, <2>5, <2>6 DEF Sound
  <2>9. Grows(m, n)
    BY <2>1, <2>2, <2>5, <2>6 DEF Grows, Free
  <2>. QED BY <2>4, <2>5, <2>7, <2>8, <2>9
<1>. QED BY <1>1, <1>2

\* The release of a page that is mapped maps one page at most.
LEMMA FreePageGrows ==
    ASSUME NEW m, Sound(m), NEW a, a \div PG \in DOMAIN m.pte,
           NEW k \in Nat, Room(m, k + 2)
    PROVE  /\ Sound(free_page(m, a)) /\ Grows(m, free_page(m, a))
           /\ Room(free_page(m, a), k)
<1> DEFINE p == a \div PG
<1>1. with_table(m, p \div T) = m
  BY DEF with_table, Sound
<1>2. m.pte[p] # Phys0
  BY LayoutAssumption DEF Sound, Frames, Phys0
<1>3. free_page(m, a) = access(m, stray_page(m.pte[p]))
  BY <1>1, <1>2 DEF free_page, release_frame
<1>. QED BY <1>3, AccessGrows

LEMMA GrowsFurther ==
    ASSUME NEW m, NEW n, NEW o, Grows(m, n), Grows(n, o) PROVE Grows(m, o)
BY DEF Grows

\* The release of a region of mapped pages moves none of them.
LEMMA FreedGrows ==
    ASSUME NEW m, Sound(m), NEW s, Len(s) \in Nat, Room(m, 2 * Len(s)),
           \A j \in 1 .. Len(s) : s[j] \div PG \in DOMAIN m.pte
    PROVE  Sound(Freed(m, s)) /\ Grows(m, Freed(m, s))
<1>1. PICK f : /\ f = [j \in 0 .. Len(s) |-> IF j = 0 THEN m
                                               ELSE free_page(f[j - 1], s[j])]
               /\ Freed(m, s) = f[Len(s)]
  BY FreedExists
<1> DEFINE Good(n) == n <= Len(s) =>
                        /\ Sound(f[n]) /\ Grows(m, f[n])
                        /\ Room(f[n], 2 * (Len(s) - n))
           G == {n \in Nat : Good(n)}
<1>2. 0 \in G
  <2>1. f[0] = m
    BY <1>1
  <2>2. Grows(m, m)
    BY DEF Grows
  <2>. QED BY <2>1, <2>2
<1>3. ASSUME NEW n \in Nat, n \in G PROVE n + 1 \in G
  <2>1. SUFFICES ASSUME n + 1 <= Len(s) PROVE Good(n + 1)
    OBVIOUS
  <2> DEFINE k == 2 * (Len(s) - (n + 1))
  <2>2. k \in Nat /\ k + 2 = 2 * (Len(s) - n) /\ n + 1 \in 1 .. Len(s)
        /\ n + 1 \in 0 .. Len(s) /\ (n + 1) - 1 = n /\ n + 1 # 0
    BY <2>1
  <2> HIDE DEF k
  <2>3. Sound(f[n]) /\ Grows(m, f[n]) /\ Room(f[n], k + 2)
    BY <1>3, <2>1, <2>2
  <2>4. f[n + 1] = free_page(f[n], s[n + 1])
    BY <1>1, <2>2
  <2>5. s[n + 1] \div PG \in DOMAIN f[n].pte
    BY <2>2, <2>3 DEF Grows
  <2>6. /\ Sound(f[n + 1]) /\ Grows(f[n], f[n + 1]) /\ Room(f[n + 1], k)
    BY <2>2, <2>3, <2>4, <2>5, FreePageGrows
  <2>7. Grows(m, f[n + 1])
    BY <2>3, <2>6, GrowsFurther
  <2>. QED BY <2>6, <2>7 DEF k
<1>4. Len(s) \in G
  <2> HIDE DEF G
  <2>. QED BY <1>2, <1>3, Induction
<1>. QED BY <1>1, <1>4

-----------------------------------------------------------------------------
\* What IInv says of the frames is Sound(mm).
LEMMA SoundFrames ==
    ASSUME TypeOK, FramesDistinct
    PROVE  Sound(mm) /\ memory \in [Frames \cup {Phys0} -> Values \cup {0}]
BY DEF TypeOK, FramesDistinct, Sound

LEMMA SoundAfter ==
    ASSUME Sound(mm'), memory' \in [Frames \cup {Phys0} -> Values \cup {0}]
    PROVE  TypeOK' /\ FramesDistinct'
BY DEF TypeOK, FramesDistinct, Sound

LEMMA InitSound == Init => IInv
<1>. SUFFICES ASSUME Init PROVE IInv
  OBVIOUS
<1> DEFINE m == mark_inaccessible(PageTable)
           k == nframes - Inaccessible - 2
<1>1. m = [taken |-> 0 .. Inaccessible - 1, table |-> <<>>, pte |-> <<>>]
  BY DEF mark_inaccessible, PageTable
<1>2. k \in Nat /\ (k + 1) + 1 = nframes - Inaccessible /\ k + 1 \in Nat
      /\ Inaccessible \in Nat /\ nframes \in Nat /\ Inaccessible <= nframes - 1
  BY LayoutAssumption
<1>3. Free(m) = Inaccessible .. nframes - 1
  BY <1>1, <1>2 DEF Free, Frames
<1>4. Room(m, (k + 1) + 1)
  <2>1. Cardinality(Inaccessible .. nframes - 1) = nframes - 1 - Inaccessible + 1
    BY <1>2, FS_Interval
  <2>. QED BY <1>2, <1>3, <2>1 DEF Room
<1>5. Sound(m)
  BY <1>1, <1>2 DEF Sound, Frames
<1> HIDE DEF m, k
<1>6. Sound(VMPool(m)) /\ Room(VMPool(m), k + 1)
  BY <1>2, <1>4, <1>5, FrameTaken DEF VMPool
<1>7. Sound(VMPool(VMPool(m)))
  BY <1>2, <1>6, FrameTaken DEF VMPool
<1>8. mm = VMPool(VMPool(m)) /\ memory = [f \in Frames \cup {Phys0} |-> 0]
  BY DEF Init, m
<1>9. TypeOK /\ FramesDistinct
  BY <1>7, <1>8 DEF Sound, TypeOK, FramesDistinct
<1>10. FreshFrames
  BY <1>8 DEF FreshFrames, Free
<1>. QED BY <1>9, <1>10, InitOrdered DEF IInv

\* The pages a release passes to free_page are those Touched speaks of, and RulesKept
\* leaves two frames for each.
LEMMA ReleaseFits ==
    ASSUME RulesKept, IInv, EnoughFrames, NEW r \in Region, Touched(r)
    PROVE  /\ Len(Released(r)) \in Nat /\ Room(mm, 2 * Len(Released(r)))
           /\ \A j \in 1 .. Len(Released(r)) : Released(r)[j] \div PG \in DOMAIN mm.pte
<1>1. r.size \in Sizes /\ r.size \in Nat /\ PG \in Nat \ {0}
  BY RegionIsNats, LayoutAssumption
<1>2. r.size \div PG \in Nat
  BY <1>1
<1>3. Len(Released(r)) = r.size \div PG
  BY <1>2 DEF Released
<1>4. Reserve >= 2 * (r.size \div PG) /\ Reserve \in Nat
  BY <1>1 DEF RulesKept
<1>5. Cardinality(Free(mm)) >= Reserve /\ Cardinality(Free(mm)) \in Nat
  BY FreeIsFinite DEF RulesKept, EnoughFrames
<1>. QED BY <1>2, <1>3, <1>4, <1>5 DEF Room, RulesKept, Touched

LEMMA AccessFits ==
    ASSUME RulesKept, IInv, EnoughFrames, NEW p
    PROVE  /\ Sound(access(mm, p)) /\ Grows(mm, access(mm, p))
           /\ p \in DOMAIN access(mm, p).pte
<1>1. Room(mm, 0 + 2)
  BY FreeIsFinite DEF RulesKept, EnoughFrames, Room
<1>. QED BY <1>1, SoundFrames, AccessGrows DEF IInv

\* Every step keeps what is mapped where it is, and writes to one mapped page of a
\* region, or to none.
Written == \E i \in Pools, v \in Values : \E p \in LivePages(i) :
              p \in DOMAIN mm'.pte /\ memory' = [memory EXCEPT ![mm'.pte[p]] = v]

LEMMA StepGrows ==
    ASSUME RulesKept, IInv, [Next]_vars
    PROVE  Sound(mm') /\ Grows(mm, mm') /\ (memory' = memory \/ Written)
<1>1. CASE UNCHANGED vars
  BY <1>1, SoundFrames DEF vars, IInv, Grows
<1>2. ASSUME NEW i \in Pools, NEW size \in Sizes, new(i, size)
      PROVE  Sound(mm') /\ Grows(mm, mm') /\ memory' = memory
  BY <1>2, AccessFits DEF new, allocate
<1>3. ASSUME NEW i \in Pools, delete(i)
      PROVE  Sound(mm') /\ Grows(mm, mm') /\ memory' = memory
  <2>1. PICK k \in Live(i) : /\ EnoughFrames /\ Touched(regions[i][k])
                             /\ mm' = Freed(mm, Released(regions[i][k]))
                             /\ memory' = memory
    BY <1>3 DEF delete, release
  <2>2. regions[i][k] \in Region
    BY ElementOfSeq DEF IInv, RegionsOrdered, Live
  <2>. QED BY <2>1, <2>2, ReleaseFits, SoundFrames, FreedGrows DEF IInv
<1>4. ASSUME NEW i \in Pools, is_legitimate(i) \/ read(i)
      PROVE  Sound(mm') /\ Grows(mm, mm') /\ memory' = memory
  BY <1>4, AccessFits DEF is_legitimate, read
<1>5. ASSUME NEW i \in Pools, NEW v \in Values, write(i, v)
      PROVE  Sound(mm') /\ Grows(mm, mm') /\ Written
  BY <1>5, AccessFits DEF write, Written
<1>. QED BY <1>1, <1>2, <1>3, <1>4, <1>5 DEF Next

LEMMA NextSound ==
    ASSUME RulesKept, IInv, [Next]_vars PROVE IInv'
<1>1. Sound(mm') /\ Grows(mm, mm') /\ (memory' = memory \/ Written)
  BY StepGrows
<1>2. memory \in [Frames \cup {Phys0} -> Values \cup {0}]
  BY DEF IInv, TypeOK
<1>3. memory' \in [Frames \cup {Phys0} -> Values \cup {0}]
  BY <1>1, <1>2 DEF Written
<1>4. TypeOK' /\ FramesDistinct'
  BY <1>1, <1>3, SoundAfter
<1>5. RegionsOrdered'
  BY NextOrdered DEF RulesKept, IInv
<1>6. ASSUME NEW f \in Free(mm') PROVE memory'[f] = 0
  <2>1. f \in Free(mm) /\ memory[f] = 0 /\ f \in Frames
    BY <1>1 DEF Grows, IInv, FreshFrames, Free
  <2>2. \A p \in DOMAIN mm'.pte : mm'.pte[p] # f
    BY <1>1 DEF Sound, Free
  <2>. QED BY <1>1, <1>2, <2>1, <2>2 DEF Written
<1>7. FreshFrames'
  BY <1>6 DEF FreshFrames
<1>. QED BY <1>4, <1>5, <1>7 DEF IInv

-----------------------------------------------------------------------------
LEMMA DivMonotone ==
    ASSUME NEW a \in Nat, NEW b \in Nat, a <= b PROVE a \div PG <= b \div PG
<1> DEFINE x == a \div PG
           y == b \div PG
<1>1. PG \in Nat /\ PG > 0
  BY LayoutAssumption
<1>2. x \in Int /\ y \in Int /\ PG * x <= a /\ b < PG * y + PG
  BY <1>1
<1> HIDE DEF x, y
<1>3. ASSUME x > y PROVE FALSE
  <2>1. x >= y + 1
    BY <1>2, <1>3
  <2>2. PG * x >= PG * (y + 1)
    BY <1>1, <1>2, <2>1
  <2>3. PG * (y + 1) = PG * y + PG
    BY <1>1, <1>2
  <2>4. PG * x \in Int /\ PG * y \in Int
    BY <1>1, <1>2
  <2>. QED BY <1>1, <1>2, <2>2, <2>3, <2>4
<1>4. x <= y
  BY <1>2, <1>3
<1>. QED BY <1>4 DEF x, y

\* A page of a region is one of the client's.
LEMMA LivePagesOfClient ==
    ASSUME RegionsOrdered, NEW i \in Pools, NEW p \in LivePages(i)
    PROVE  p \in ClientPages
<1>1. PICK k \in Live(i) : p \in PagesOf(regions[i][k])
  BY DEF LivePages
<1> DEFINE r == regions[i][k]
<1>2. r \in Region /\ Base[i] <= r.start /\ r.start + r.size <= Base[i] + Size
  BY ElementOfSeq DEF RegionsOrdered, Live
<1>3. /\ Base[i] \in Nat /\ Size \in Nat /\ PG \in Nat \ {0}
      /\ r.start \in Nat /\ r.size \in Nat /\ r.size > 0
  BY <1>2, Layout, LayoutAssumption, RegionIsNats DEF Pools
<1>4. /\ r.start + r.size - 1 \in Nat /\ Base[i] + Size - 1 \in Nat
      /\ r.start + r.size - 1 <= Base[i] + Size - 1
  BY <1>2, <1>3
<1>5. /\ Base[i] \div PG <= r.start \div PG
      /\ (r.start + r.size - 1) \div PG <= (Base[i] + Size - 1) \div PG
  BY <1>2, <1>3, <1>4, DivMonotone
<1>6. /\ Base[i] \div PG \in Int /\ r.start \div PG \in Int
      /\ (r.start + r.size - 1) \div PG \in Int /\ (Base[i] + Size - 1) \div PG \in Int
  BY <1>3, <1>4
<1>7. p \in (r.start \div PG) .. ((r.start + r.size - 1) \div PG)
  BY <1>1 DEF PagesOf
<1> HIDE DEF r
<1>8. p \in (Base[i] \div PG) .. ((Base[i] + Size - 1) \div PG)
  BY <1>5, <1>6, <1>7
<1>. QED BY <1>8 DEF ClientPages

LEMMA StepHolds ==
    ASSUME RulesKept, IInv, [Next]_vars
    PROVE  \/ content' = content
           \/ \E p \in ClientPages, v \in Values :
                content' = [content EXCEPT ![p] = v] /\ memory' # memory
<1>1. Sound(mm') /\ Grows(mm, mm') /\ (memory' = memory \/ Written)
  BY StepGrows
<1>2. /\ Sound(mm) /\ memory \in [Frames \cup {Phys0} -> Values \cup {0}]
      /\ \A f \in Free(mm) : memory[f] = 0
  BY SoundFrames DEF IInv, FreshFrames
<1>3. \A p \in DOMAIN mm'.pte :
         memory[mm'.pte[p]] = IF p \in DOMAIN mm.pte THEN memory[mm.pte[p]] ELSE 0
  BY <1>1, <1>2 DEF Grows
<1>4. \A p \in DOMAIN mm.pte : p \in DOMAIN mm'.pte
  BY <1>1 DEF Grows
<1>5. content = [p \in ClientPages |->
                    IF p \in DOMAIN mm'.pte THEN memory[mm'.pte[p]] ELSE 0]
  BY <1>3, <1>4 DEF content
<1>6. content' = [p \in ClientPages |->
                    IF p \in DOMAIN mm'.pte THEN memory'[mm'.pte[p]] ELSE 0]
  BY DEF content, ClientPages
<1>7. CASE memory' = memory
  BY <1>5, <1>6, <1>7
<1>8. CASE memory' # memory
  <2>1. PICK i \in Pools, v \in Values : \E p \in LivePages(i) :
            p \in DOMAIN mm'.pte /\ memory' = [memory EXCEPT ![mm'.pte[p]] = v]
    BY <1>1, <1>8 DEF Written
  <2>2. PICK p \in LivePages(i) :
            p \in DOMAIN mm'.pte /\ memory' = [memory EXCEPT ![mm'.pte[p]] = v]
    BY <2>1
  <2>3. p \in ClientPages
    BY LivePagesOfClient DEF IInv
  <2>4. mm'.pte[p] \in Frames \cup {Phys0}
    BY <1>1, <2>2 DEF Sound
  <2>5. memory'[mm'.pte[p]] = v
    BY <1>2, <2>2, <2>4
  <2>6. ASSUME NEW r \in DOMAIN mm'.pte, r # p
        PROVE  memory'[mm'.pte[r]] = memory[mm'.pte[r]]
    <3>1. mm'.pte[r] # mm'.pte[p] /\ mm'.pte[r] \in Frames \cup {Phys0}
      BY <1>1, <2>2, <2>6 DEF Sound
    <3>. QED BY <1>2, <2>2, <3>1
  <2>7. content' = [content EXCEPT ![p] = v]
    BY <1>5, <1>6, <2>2, <2>3, <2>5, <2>6
  <2>. QED BY <1>8, <2>3, <2>7
<1>. QED BY <1>7, <1>8

-----------------------------------------------------------------------------
\* For clients that keep the rules, the inductive invariant holds,
THEOREM MemoryInvariant ==
    ASSUME RulesKept PROVE Spec => []IInv
BY InitSound, NextSound, PTL DEF Spec

\* the bitmap, the page tables and the contents of frames keep their types,
THEOREM TypeCorrect ==
    ASSUME RulesKept PROVE Spec => []TypeOK
<1>1. IInv => TypeOK
  BY DEF IInv
<1>. QED BY <1>1, MemoryInvariant, PTL

\* no frame is ever behind two pages, or behind a page and a page table, or free
\* while it is in use,
THEOREM NoFrameShared ==
    ASSUME RulesKept PROVE Spec => []FramesDistinct
<1>1. IInv => FramesDistinct
  BY DEF IInv
<1>. QED BY <1>1, MemoryInvariant, PTL

\* and virtual memory behaves like memory: through all the faults, requests and
\* releases a page holds what was last written to it, and 0 before that.
THEOREM BehavesLikeMemory ==
    ASSUME RulesKept PROVE Spec => MemoryHolds
<1>1. IInv /\ [Next]_vars =>
        [\/ content' = content
         \/ \E p \in ClientPages, v \in Values :
              content' = [content EXCEPT ![p] = v] /\ memory' # memory]_vars
  BY StepHolds
<1>. QED BY <1>1, MemoryInvariant, PTL DEF Spec, MemoryHolds
=============================================================================
