--------------------------- MODULE Rqueue_proofs ---------------------------
(***************************************************************************)
(* What enqueue, dequeue and remove do to a queue that is packed, in       *)
(* bounds and without duplicates, for every MAX_THREADS.                   *)
(***************************************************************************)
EXTENDS Rqueue, FiniteSetTheorems, SequenceTheorems, TLAPS

\* Adding a thread that is not waiting keeps the queue free of duplicates.
LEMMA EnqueueAdds ==
    ASSUME NEW S, NEW q \in Queues(S), NEW t \in S,
           q.tail \in 0 .. MAX_THREADS - 1, Distinct(q), t \notin Waiting(q)
    PROVE  /\ enqueue(q, t) \in Queues(S)
           /\ enqueue(q, t).tail = q.tail + 1
           /\ Waiting(enqueue(q, t)) = Waiting(q) \cup {t}
           /\ Distinct(enqueue(q, t))
<1> DEFINE r == enqueue(q, t)
<1>0. q.tail \in Slots /\ MAX_THREADS \in Nat
  BY MaxThreadsAssumption DEF Slots
<1>1. r \in Queues(S) /\ r.tail = q.tail + 1
  BY <1>0 DEF enqueue, Queues
<1>2. \A i \in Window(q) : r.queue[i] = q.queue[i]
  BY <1>0 DEF enqueue, Queues, Window, Slots
<1>3. r.queue[q.tail] = t
  BY <1>0 DEF enqueue, Queues
<1>4. Window(r) = Window(q) \cup {q.tail}
  BY <1>1 DEF Window, Queues
<1>5. Waiting(r) = Waiting(q) \cup {t}
  BY <1>2, <1>3, <1>4 DEF Waiting
<1>6. Distinct(r)
  BY <1>2, <1>3, <1>4 DEF Distinct, Waiting
<1>. QED BY <1>1, <1>5, <1>6

\* dequeue takes out the thread at the front and keeps the others.
LEMMA DequeueTakesFirst ==
    ASSUME NEW S, NEW q \in Queues(S), NULL \in S, Junk \in S,
           q.tail \in 1 .. MAX_THREADS, Distinct(q)
    PROVE  /\ dequeue(q) \in Queues(S)
           /\ dequeue(q).tail = q.tail - 1
           /\ first(q) \in Waiting(q)
           /\ Waiting(dequeue(q)) = Waiting(q) \ {first(q)}
           /\ Distinct(dequeue(q))
<1> DEFINE r == dequeue(q)
<1>0. MAX_THREADS \in Nat /\ q.tail \in Int /\ q.queue \in [Slots -> S]
  BY MaxThreadsAssumption DEF Queues
<1>1. r.tail = q.tail - 1
  BY <1>0 DEF dequeue
<1>2. \A i \in Slots : cell(q, i + 1) \in S
  BY <1>0 DEF cell
<1>3. r \in Queues(S)
  BY <1>0, <1>2 DEF dequeue, Queues
<1>4. \A i \in Window(r) : r.queue[i] = q.queue[i + 1]
  BY <1>0, <1>1 DEF dequeue, Window, cell, Slots
<1>5. first(q) = q.queue[0] /\ 0 \in Window(q)
  BY <1>0 DEF first, cell, Slots, Window
<1>6. first(q) \in Waiting(q)
  BY <1>5 DEF Waiting
<1>7. \A i \in Window(q) : i = 0 \/ i - 1 \in Window(r)
  BY <1>0, <1>1 DEF Window
<1>8. \A i \in Window(r) : i + 1 \in Window(q) \ {0}
  BY <1>0, <1>1 DEF Window
<1>9. Waiting(r) = Waiting(q) \ {first(q)}
  <2>1. ASSUME NEW i \in Window(r) PROVE r.queue[i] \in Waiting(q) \ {first(q)}
    BY <1>4, <1>5, <1>8 DEF Waiting, Distinct
  <2>2. ASSUME NEW i \in Window(q), q.queue[i] # first(q)
        PROVE  q.queue[i] \in Waiting(r)
    <3>1. i # 0 /\ i - 1 \in Window(r) /\ (i - 1) + 1 = i
      BY <1>5, <1>7, <2>2 DEF Window
    <3>. QED BY <1>4, <3>1 DEF Waiting
  <2>. QED BY <2>1, <2>2 DEF Waiting
<1>10. Distinct(r)
  <2>1. ASSUME NEW i \in Window(r), NEW j \in Window(r), r.queue[i] = r.queue[j]
        PROVE  i = j
    <3>1. i + 1 = j + 1
      BY <1>4, <1>8, <2>1 DEF Distinct
    <3>. QED BY <3>1 DEF Window
  <2>. QED BY <2>1 DEF Distinct
<1>. QED BY <1>1, <1>3, <1>6, <1>9, <1>10

\* Where a thread stands in the queue are finitely many places.
LEMMA PlacesFinite ==
    ASSUME NEW q, q.tail \in Int, NEW t
    PROVE  IsFiniteSet(Places(q, t)) /\ Cardinality(Places(q, t)) \in Nat
<1>1. IsFiniteSet(Window(q))
  BY FS_Interval DEF Window
<1>2. Places(q, t) \in SUBSET Window(q)
  BY DEF Places
<1>. QED BY <1>1, <1>2, FS_Subset, FS_CardinalityType

\* enqueue gives a thread one more place,
LEMMA EnqueueCounts ==
    ASSUME NEW S, NEW q \in Queues(S), NEW t \in S, q.tail \in 0 .. MAX_THREADS - 1
    PROVE  /\ enqueue(q, t) \in Queues(S)
           /\ enqueue(q, t).tail = q.tail + 1
           /\ Waiting(enqueue(q, t)) = Waiting(q) \cup {t}
           /\ Cardinality(Places(enqueue(q, t), t)) = Cardinality(Places(q, t)) + 1
           /\ \A u : u # t => Places(enqueue(q, t), u) = Places(q, u)
<1> DEFINE r == enqueue(q, t)
<1>0. q.tail \in Slots /\ MAX_THREADS \in Nat /\ q.tail \in Int
  BY MaxThreadsAssumption DEF Slots
<1>1. r \in Queues(S) /\ r.tail = q.tail + 1
  BY <1>0 DEF enqueue, Queues
<1>2. \A i \in Window(q) : r.queue[i] = q.queue[i]
  BY <1>0 DEF enqueue, Queues, Window, Slots
<1>3. r.queue[q.tail] = t
  BY <1>0 DEF enqueue, Queues
<1>4. Window(r) = Window(q) \cup {q.tail} /\ q.tail \notin Window(q)
  BY <1>0, <1>1 DEF Window, Queues
<1> HIDE DEF r
<1>5. Waiting(r) = Waiting(q) \cup {t}
  BY <1>2, <1>3, <1>4 DEF Waiting
<1>6. Places(r, t) = Places(q, t) \cup {q.tail} /\ q.tail \notin Places(q, t)
  BY <1>2, <1>3, <1>4 DEF Places
<1>7. Cardinality(Places(r, t)) = Cardinality(Places(q, t)) + 1
  BY <1>0, <1>6, PlacesFinite, FS_AddElement
<1>8. \A u : u # t => Places(r, u) = Places(q, u)
  BY <1>2, <1>3, <1>4 DEF Places
<1>. QED BY <1>1, <1>5, <1>7, <1>8 DEF r

\* and dequeue takes one from the thread at the front, all places moving down by one.
LEMMA DequeueCounts ==
    ASSUME NEW S, NEW q \in Queues(S), NULL \in S, Junk \in S, q.tail \in 1 .. MAX_THREADS
    PROVE  /\ dequeue(q) \in Queues(S)
           /\ dequeue(q).tail = q.tail - 1
           /\ first(q) \in Waiting(q)
           /\ Waiting(dequeue(q)) \subseteq Waiting(q)
           /\ Cardinality(Places(q, first(q))) =
                Cardinality(Places(dequeue(q), first(q))) + 1
           /\ \A u : u # first(q) =>
                Cardinality(Places(dequeue(q), u)) = Cardinality(Places(q, u))
<1> DEFINE r == dequeue(q)
<1>0. MAX_THREADS \in Nat /\ q.tail \in Int /\ q.queue \in [Slots -> S]
  BY MaxThreadsAssumption DEF Queues
<1>1. r.tail = q.tail - 1
  BY <1>0 DEF dequeue
<1>2. \A i \in Slots : cell(q, i + 1) \in S
  BY <1>0 DEF cell
<1>3. r \in Queues(S)
  BY <1>0, <1>2 DEF dequeue, Queues
<1>4. \A i \in Window(r) : r.queue[i] = q.queue[i + 1]
  BY <1>0, <1>1 DEF dequeue, Window, cell, Slots
<1>5. first(q) = q.queue[0] /\ 0 \in Window(q)
  BY <1>0 DEF first, cell, Slots, Window
<1>6. first(q) \in Waiting(q)
  BY <1>5 DEF Waiting
<1>7. \A i \in Window(q) \ {0} : i \in Int /\ i - 1 \in Window(r) /\ (i - 1) + 1 = i
  BY <1>0, <1>1 DEF Window
<1>8. \A i \in Window(r) : i \in Int /\ i + 1 \in Window(q) \ {0} /\ (i + 1) - 1 = i
  BY <1>0, <1>1 DEF Window
<1> HIDE DEF r
<1>9. Waiting(r) \subseteq Waiting(q)
  BY <1>4, <1>8 DEF Waiting
<1>10. ASSUME NEW u
       PROVE  Cardinality(Places(r, u)) = Cardinality(Places(q, u) \ {0})
  <2> DEFINE f == [i \in Places(r, u) |-> i + 1]
  <2>1. \A i \in Places(r, u) : i \in Window(r) /\ f[i] = i + 1 /\ f[i] \in Places(q, u) \ {0}
    BY <1>4, <1>8 DEF Places
  <2>2. \A i, j \in Places(r, u) : f[i] = f[j] => i = j
    BY <1>8, <2>1
  <2>3. \A k \in Places(q, u) \ {0} : \E i \in Places(r, u) : f[i] = k
    <3>1. TAKE k \in Places(q, u) \ {0}
    <3>2. k \in Int /\ k - 1 \in Window(r) /\ (k - 1) + 1 = k /\ q.queue[k] = u
      BY <1>7 DEF Places
    <3>3. k - 1 \in Places(r, u)
      BY <1>4, <3>2 DEF Places
    <3>4. f[k - 1] = k
      BY <3>2, <3>3
    <3>. QED BY <3>3, <3>4
  <2>4. f \in [Places(r, u) -> Places(q, u) \ {0}]
    BY <2>1
  <2> HIDE DEF f
  <2>5. f \in Bijection(Places(r, u), Places(q, u) \ {0})
    BY <2>2, <2>3, <2>4 DEF Bijection, Injection, Surjection, IsInjective
  <2>6. IsFiniteSet(Places(r, u))
    <3>1. r.tail \in Int
      BY <1>0, <1>1
    <3>. QED BY <3>1, PlacesFinite
  <2>. QED BY <2>5, <2>6, FS_Bijection DEF ExistsBijection
<1>11. Cardinality(Places(q, first(q))) = Cardinality(Places(r, first(q))) + 1
  <2>1. 0 \in Places(q, first(q))
    BY <1>5 DEF Places
  <2>2. Cardinality(Places(q, first(q)) \ {0}) = Cardinality(Places(q, first(q))) - 1
    BY <1>0, <2>1, PlacesFinite, FS_RemoveElement
  <2>. QED BY <1>0, <1>10, <2>2, PlacesFinite
<1>12. ASSUME NEW u, u # first(q)
       PROVE  Cardinality(Places(r, u)) = Cardinality(Places(q, u))
  <2>1. 0 \notin Places(q, u)
    BY <1>5, <1>12 DEF Places
  <2>2. Places(q, u) \ {0} = Places(q, u)
    BY <2>1
  <2>. QED BY <1>10, <2>2
<1>. QED BY <1>1, <1>3, <1>6, <1>9, <1>11, <1>12 DEF r

\* A thread without a place does not wait.
LEMMA NoPlace ==
    ASSUME NEW q, q.tail \in Int, NEW t
    PROVE  t \in Waiting(q) <=> Cardinality(Places(q, t)) # 0
<1>1. t \in Waiting(q) <=> Places(q, t) # {}
  BY DEF Waiting, Places
<1>. QED BY <1>1, PlacesFinite, FS_EmptySet

\* A queue without duplicates is no longer than the set of its threads.
LEMMA TailBound ==
    ASSUME NEW S, IsFiniteSet(S), NEW T, NEW q \in Queues(T), q.tail \in 0 .. MAX_THREADS,
           Distinct(q), Waiting(q) \subseteq S
    PROVE  q.tail <= Cardinality(S)
<1>0. MAX_THREADS \in Nat
  BY MaxThreadsAssumption
<1> DEFINE f == [i \in Window(q) |-> q.queue[i]]
<1>1. f \in [Window(q) -> S] /\ \A i, j \in Window(q) : f[i] = f[j] => i = j
  BY DEF Waiting, Distinct
<1>2. Cardinality(Window(q)) = q.tail
  <2>1. q.tail \in Nat /\ 0 \in Int /\ q.tail - 1 \in Int
    BY <1>0
  <2>2. Cardinality(0 .. q.tail - 1) = IF 0 > q.tail - 1 THEN 0 ELSE (q.tail - 1) - 0 + 1
    BY <2>1, FS_Interval
  <2>. QED BY <2>1, <2>2 DEF Window
<1>3. Cardinality(Window(q)) <= Cardinality(S)
  BY <1>1, FS_Injection DEF Injection, IsInjective
<1>. QED BY <1>2, <1>3

\* remove, called for a thread that is not waiting, changes nothing as long
\* as somebody else is.
LEMMA RemoveOfAbsent ==
    ASSUME NEW q, q.tail \in Nat \ {0}, NEW t, t \notin Waiting(q)
    PROVE  remove(q, t) = q
<1>1. 0 \in Window(q) /\ 0 \in Slots
  BY MaxThreadsAssumption DEF Window, Slots
<1>2. cell(q, 0) # t
  BY <1>1 DEF cell, Waiting
<1>. QED BY <1>2 DEF remove, not_present

-----------------------------------------------------------------------------
(* The queue as a line: its first n threads as a sequence.                  *)
Line(q, n) == [i \in 1 .. n |-> cell(q, i - 1)]

LEMMA LineIsSeq ==
    ASSUME NEW S, NEW q \in Queues(S), Junk \in S, NEW n \in Nat
    PROVE  /\ Line(q, n) \in Seq(S) /\ Len(Line(q, n)) = n
           /\ \A i \in 1 .. n : Line(q, n)[i] = cell(q, i - 1)
<1>1. \A i \in 1 .. n : cell(q, i - 1) \in S
  BY DEF cell, Queues
<1>. QED BY <1>1 DEF Line

\* The last one of a line stands behind the others.
LEMMA LastOfLine ==
    ASSUME NEW S, NEW q \in Queues(S), Junk \in S, NEW n \in Nat \ {0}
    PROVE  Line(q, n) = Append(Line(q, n - 1), cell(q, n - 1))
<1> DEFINE s == Line(q, n)
           t == Line(q, n - 1)
           c == cell(q, n - 1)
<1>1. /\ s \in Seq(S) /\ Len(s) = n /\ \A i \in 1 .. n : s[i] = cell(q, i - 1)
      /\ t \in Seq(S) /\ Len(t) = n - 1
      /\ \A i \in 1 .. n - 1 : t[i] = cell(q, i - 1)
  BY LineIsSeq
<1>2. c \in S
  BY DEF cell, Queues
<1> HIDE DEF s, t, c
<1>3. /\ Append(t, c) \in Seq(S) /\ Len(Append(t, c)) = n
      /\ \A i \in 1 .. n - 1 : Append(t, c)[i] = t[i]
      /\ Append(t, c)[n] = c
  <2>1. Len(t) + 1 = n
    BY <1>1
  <2>. QED BY <1>1, <1>2, <2>1, AppendProperties
<1>4. \A i \in 1 .. Len(s) : s[i] = Append(t, c)[i]
  BY <1>1, <1>3 DEF c
<1>5. s = Append(t, c)
  BY <1>1, <1>3, <1>4, SeqEqual
<1>. QED BY <1>5 DEF s, t, c

\* enqueue puts a thread at the end of the line,
LEMMA EnqueueAtEnd ==
    ASSUME NEW S, NEW q \in Queues(S), Junk \in S, NEW t \in S,
           q.tail \in 0 .. MAX_THREADS - 1
    PROVE  /\ Line(enqueue(q, t), q.tail) = Line(q, q.tail)
           /\ Line(enqueue(q, t), q.tail + 1) = Append(Line(q, q.tail), t)
<1> DEFINE r == enqueue(q, t)
<1>0. q.tail \in Slots /\ MAX_THREADS \in Nat /\ q.tail \in Nat
  BY MaxThreadsAssumption DEF Slots
<1>1. r \in Queues(S) /\ r.tail = q.tail + 1
  BY <1>0 DEF enqueue, Queues
<1>2. cell(r, q.tail) = t
  BY <1>0 DEF enqueue, Queues, cell
<1>3. \A i \in 1 .. q.tail : cell(r, i - 1) = cell(q, i - 1)
  BY <1>0 DEF enqueue, Queues, cell, Slots
<1>4. Line(r, q.tail) = Line(q, q.tail)
  BY <1>3 DEF Line
<1>5. q.tail + 1 \in Nat \ {0} /\ (q.tail + 1) - 1 = q.tail
  BY <1>0
<1>6. Line(r, q.tail + 1) = Append(Line(r, q.tail), cell(r, q.tail))
  <2>1. Line(r, q.tail + 1) = Append(Line(r, (q.tail + 1) - 1), cell(r, (q.tail + 1) - 1))
    BY <1>1, <1>5, LastOfLine
  <2>. QED BY <1>5, <2>1
<1>. QED BY <1>2, <1>4, <1>6

\* and dequeue takes one from its front.
LEMMA DequeueAtFront ==
    ASSUME NEW S, NEW q \in Queues(S), Junk \in S, NULL \in S,
           q.tail \in 1 .. MAX_THREADS, NEW n \in 1 .. q.tail
    PROVE  /\ Line(q, n) # <<>>
           /\ Head(Line(q, n)) = first(q)
           /\ Line(dequeue(q), n - 1) = Tail(Line(q, n))
<1> DEFINE r == dequeue(q)
           s == Line(q, n)
           t == Line(r, n - 1)
<1>0. MAX_THREADS \in Nat /\ q.tail \in Nat /\ n \in Nat /\ n - 1 \in Nat
  BY MaxThreadsAssumption
<1>1. r \in Queues(S)
  <2>1. \A i \in Slots : cell(q, i + 1) \in S
    BY DEF cell, Queues
  <2>. QED BY <1>0, <2>1 DEF dequeue, Queues
<1>2. \A i \in 1 .. n - 1 : cell(r, i - 1) = cell(q, i)
  BY <1>0 DEF dequeue, cell, Slots
<1>3. /\ s \in Seq(S) /\ Len(s) = n /\ \A i \in 1 .. n : s[i] = cell(q, i - 1)
  BY <1>0, LineIsSeq
<1>4. t \in Seq(S) /\ Len(t) = n - 1 /\ \A i \in 1 .. n - 1 : t[i] = cell(r, i - 1)
  BY <1>0, <1>1, LineIsSeq
<1> HIDE DEF s, t, r
<1>5. s # <<>>
  BY <1>0, <1>3, EmptySeq
<1>6. /\ Tail(s) \in Seq(S) /\ Len(Tail(s)) = n - 1
      /\ \A i \in 1 .. Len(Tail(s)) : Tail(s)[i] = s[i + 1]
  BY <1>3, <1>5, HeadTailProperties
<1>7. Head(s) = first(q)
  <2>1. Head(s) = s[1]
    BY <1>3
  <2>2. s[1] = cell(q, 0)
    BY <1>0, <1>3
  <2>. QED BY <1>0, <2>1, <2>2 DEF first
<1>8. \A i \in 1 .. Len(t) : t[i] = Tail(s)[i]
  <2>1. ASSUME NEW i \in 1 .. n - 1 PROVE t[i] = Tail(s)[i]
    <3>1. i \in Nat /\ i + 1 \in 1 .. n /\ (i + 1) - 1 = i
      BY <1>0
    <3>. QED BY <1>2, <1>3, <1>4, <1>6, <3>1
  <2>. QED BY <1>4, <2>1
<1>9. t = Tail(s)
  BY <1>4, <1>6, <1>8, SeqEqual
<1>. QED BY <1>5, <1>7, <1>9 DEF s, t, r
=============================================================================
