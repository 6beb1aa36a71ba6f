----------------------- MODULE ThreadScheduler_proofs -----------------------
(***************************************************************************)
(* Theorems about ThreadScheduler, for every number of threads, every      *)
(* choice of terminating and cooperating threads and every timer frequency.*)
(* Interrupts may come at every instruction.  TypeOK and TypeSound survive *)
(* all of them.  The rest of IInv is inductive as long as none has been    *)
(* fatal, which the variable struck records: that ReadyExactlyOnce holds   *)
(* when turns end between resume() or terminate() and the store of esp is  *)
(* part of what is proved.                                                 *)
(***************************************************************************)
EXTENDS ThreadScheduler, Rqueue_proofs

Stacks == Threads \cup {Main}

\* The boot thread is no thread, and the queue has two cells for each of them.
LEMMA Numbers ==
    /\ N \in Nat /\ N >= 1 /\ MAX_THREADS \in Nat /\ 2 * N <= MAX_THREADS
    /\ NULL \notin Threads /\ Junk \notin Threads /\ Main \notin Threads
    /\ 1 \in Threads /\ \A t \in Threads : t \in Int
    /\ IsFiniteSet(Threads) /\ IsFiniteSet(Stacks)
<1>1. N \in Nat /\ N >= 1 /\ MAX_THREADS \in Nat /\ 2 * N <= MAX_THREADS
  BY CountAssumption, MaxThreadsAssumption
<1>2. IsFiniteSet(1 .. N)
  <2>1. 1 \in Int /\ N \in Int
    BY <1>1
  <2>. QED BY <2>1, FS_Interval
<1>3. IsFiniteSet(Stacks)
  BY <1>2, FS_AddElement DEF Stacks, Threads
<1>. QED BY <1>1, <1>2, <1>3 DEF Threads, NULL, Junk, Main

\* Counting holders and places: the sets are finite, and small sets have few elements.
LEMMA Counted ==
    ASSUME NEW S \in SUBSET Stacks
    PROVE  /\ IsFiniteSet(S) /\ Cardinality(S) \in Nat
           /\ \A x \in Stacks \ S : Cardinality(S \cup {x}) = Cardinality(S) + 1
           /\ \A x \in S : Cardinality(S \ {x}) = Cardinality(S) - 1
<1>1. IsFiniteSet(S) /\ Cardinality(S) \in Nat
  BY Numbers, FS_Subset, FS_CardinalityType
<1>. QED BY <1>1, FS_AddElement, FS_RemoveElement

LEMMA AtMostOne ==
    ASSUME NEW S, IsFiniteSet(S), Cardinality(S) <= 1, NEW a \in S, NEW b \in S
    PROVE  a = b
<1>1. SUFFICES ASSUME a # b PROVE FALSE
  OBVIOUS
<1>2. /\ Cardinality(S) \in Nat /\ IsFiniteSet(S \ {a})
      /\ Cardinality(S \ {a}) = Cardinality(S) - 1 /\ Cardinality(S \ {a}) \in Nat
  BY FS_CardinalityType, FS_RemoveElement
<1>3. Cardinality(S \ {a}) = 0
  BY <1>2
<1>4. S \ {a} = {}
  BY <1>2, <1>3, FS_EmptySet
<1>. QED BY <1>1, <1>4

LEMMA AtMostTwo ==
    ASSUME NEW S, IsFiniteSet(S), Cardinality(S) <= 2,
           NEW a \in S, NEW b \in S \ {a}, NEW c \in S \ {a}
    PROVE  b = c
<1>1. /\ Cardinality(S) \in Nat /\ IsFiniteSet(S \ {a})
      /\ Cardinality(S \ {a}) = Cardinality(S) - 1
  BY FS_CardinalityType, FS_RemoveElement
<1>2. Cardinality(S \ {a}) <= 1
  BY <1>1
<1>. QED BY <1>1, <1>2, AtMostOne

(* A queue in which no thread has more than two places, and one at most one, *)
(* has a cell left: the places of t are numbered t and N + t.                *)
LEMMA RoomFor ==
    ASSUME NEW r, r.tail \in 0 .. MAX_THREADS, Waiting(r) \subseteq Threads,
           \A t \in Threads : Cardinality(Places(r, t)) <= 2,
           NEW s \in Threads, Cardinality(Places(r, s)) <= 1
    PROVE  r.tail \in 0 .. MAX_THREADS - 1
<1> USE Numbers
<1>1. SUFFICES ASSUME r.tail = MAX_THREADS PROVE FALSE
  OBVIOUS
<1> DEFINE p(t) == CHOOSE i \in Places(r, t) : TRUE
           f == [i \in Window(r) |-> IF i = p(r.queue[i]) THEN r.queue[i]
                                                          ELSE N + r.queue[i]]
           T == (1 .. 2 * N) \ {N + s}
<1>2. \A i \in Window(r) : /\ r.queue[i] \in Threads /\ i \in Places(r, r.queue[i])
                           /\ p(r.queue[i]) \in Places(r, r.queue[i])
  BY DEF Waiting, Places
<1>3. \A t : IsFiniteSet(Places(r, t))
  BY PlacesFinite
<1>4. ASSUME NEW i \in Window(r) PROVE f[i] \in T
  <2>1. r.queue[i] \in 1 .. N /\ s \in 1 .. N /\ N \in Nat
    BY <1>2 DEF Threads
  <2>2. CASE i = p(r.queue[i])
    BY <2>1, <2>2
  <2>3. CASE i # p(r.queue[i])
    <3>1. f[i] = N + r.queue[i]
      BY <2>3
    <3>2. r.queue[i] # s
      BY <1>2, <1>3, <2>3, AtMostOne
    <3>. QED BY <2>1, <3>1, <3>2
  <2>. QED BY <2>2, <2>3
<1>5. ASSUME NEW i \in Window(r), NEW j \in Window(r), f[i] = f[j] PROVE i = j
  <2> DEFINE t == r.queue[i]
             u == r.queue[j]
  <2>1. t \in 1 .. N /\ u \in 1 .. N /\ N \in Nat
    BY <1>2 DEF Threads
  <2>2. CASE i = p(t)
    <3>1. f[i] = t
      BY <2>2
    <3>2. j = p(u)
      BY <1>5, <2>1, <3>1
    <3>. QED BY <1>5, <2>2, <3>1, <3>2
  <2>3. CASE i # p(t)
    <3>1. f[i] = N + t
      BY <2>3
    <3>2. j # p(u)
      BY <1>5, <2>1, <3>1
    <3>3. f[j] = N + u
      BY <3>2
    <3>4. t = u
      BY <1>5, <2>1, <3>1, <3>3
    <3>5. /\ p(t) \in Places(r, t) /\ i \in Places(r, t) \ {p(t)}
          /\ j \in Places(r, t) \ {p(t)}
      BY <1>2, <2>3, <3>2, <3>4
    <3>6. IsFiniteSet(Places(r, t)) /\ Cardinality(Places(r, t)) <= 2
      BY <1>2, <1>3
    <3> HIDE DEF p, t
    <3>. QED BY <3>5, <3>6, AtMostTwo
  <2>. QED BY <2>2, <2>3
<1>6. f \in [Window(r) -> T]
  BY <1>4
<1> HIDE DEF f
<1>7. IsFiniteSet(Window(r)) /\ Cardinality(Window(r)) = MAX_THREADS
  <2>1. 0 \in Int /\ r.tail - 1 \in Int /\ MAX_THREADS >= 1
    BY <1>1
  <2>2. /\ IsFiniteSet(0 .. r.tail - 1)
        /\ Cardinality(0 .. r.tail - 1)
             = IF 0 > r.tail - 1 THEN 0 ELSE r.tail - 1 - 0 + 1
    BY <2>1, FS_Interval
  <2>. QED BY <1>1, <2>1, <2>2 DEF Window
<1>8. IsFiniteSet(T) /\ Cardinality(T) = 2 * N - 1
  <2>1. 1 \in Int /\ 2 * N \in Int /\ 2 * N >= 1 /\ N + s \in 1 .. 2 * N
    BY DEF Threads
  <2>2. IsFiniteSet(1 .. 2 * N) /\ Cardinality(1 .. 2 * N) = 2 * N
    <3>1. /\ IsFiniteSet(1 .. 2 * N)
          /\ Cardinality(1 .. 2 * N) = IF 1 > 2 * N THEN 0 ELSE 2 * N - 1 + 1
      BY <2>1, FS_Interval
    <3>. QED BY <2>1, <3>1
  <2> DEFINE I == 1 .. 2 * N
             x == N + s
  <2>3. x \in I /\ IsFiniteSet(I) /\ T = I \ {x} /\ Cardinality(I) = 2 * N
    BY <2>1, <2>2
  <2> HIDE DEF I, x, T
  <2>4. IsFiniteSet(I \ {x}) /\ Cardinality(I \ {x}) = Cardinality(I) - 1
    BY <2>3, FS_RemoveElement
  <2>. QED BY <2>3, <2>4
<1> HIDE DEF T
<1>9. Cardinality(T) < Cardinality(Window(r))
  BY <1>7, <1>8
<1>10. \E i, j \in Window(r) : i # j /\ f[i] = f[j]
  BY <1>6, <1>7, <1>8, <1>9, FS_PigeonHole
<1>. QED BY <1>5, <1>10 DEF f

-----------------------------------------------------------------------------
(* Where everybody is.                                                      *)

\* Whoever has the processor is in his own context.
LEMMA Where ==
    ASSUME IInv, Intact
    PROVE  /\ cpu \in Context /\ cpu.stack \in Stacks
           /\ cpu.at \in {"boot", "start", "body", "shutdown", "yield", "save", "load"}
           /\ cpu.at # "load" => cpu.stack = current_thread
           /\ cpu.at # "load" /\ cpu.stack # Main =>
                /\ cpu.stack \in Threads /\ ctx(cpu.stack) = cpu
                /\ Running(cpu.stack) /\ SoundContext(cpu, cpu.stack)
           /\ cpu.at # "load" /\ cpu.stack = Main =>
                /\ cpu.at = "boot" \/ (cpu.at = "save" /\ cpu.thr = 1)
                /\ cpu.ints
           /\ cpu.at = "load" => cpu.thr \in Threads /\ current_thread = cpu.thr
           /\ \A t \in Threads : /\ SoundContext(ctx(t), t) /\ frame[t].stack = t
                                 /\ ~Running(t) => ctx(t) = frame[t]
<1> USE Numbers
<1>1. CpuSound /\ ContextsSound /\ TypeSound /\ TypeOK
  BY DEF IInv
<1>2. cpu \in Context /\ cpu.stack \in Stacks
  BY <1>1 DEF TypeOK, Context, Stacks
<1>3. /\ cpu.at # "load" => cpu.stack = current_thread
      /\ cpu.at = "load" => cpu.thr \in Threads /\ current_thread = cpu.thr
      /\ cpu.at # "load" /\ cpu.stack = Main =>
                /\ cpu.at = "boot" \/ (cpu.at = "save" /\ cpu.thr = 1)
                /\ cpu.ints
  BY <1>1 DEF CpuSound, TypeSound
<1>4. \A t \in Threads : /\ SoundContext(ctx(t), t) /\ frame[t].stack = t
                         /\ ~Running(t) => ctx(t) = frame[t]
  BY <1>1 DEF ContextsSound, ctx, Between, esp
<1>5. cpu.at # "load" /\ cpu.stack # Main =>
         /\ cpu.stack \in Threads /\ ctx(cpu.stack) = cpu
         /\ Running(cpu.stack) /\ SoundContext(cpu, cpu.stack)
  BY <1>2, <1>4 DEF Running, ctx, Stacks
<1>6. cpu.at \in {"boot", "start", "body", "shutdown", "yield", "save", "load"}
  BY <1>1, <1>3, <1>5 DEF CpuSound, SoundContext
<1>. QED BY <1>2, <1>3, <1>4, <1>5, <1>6

\* The books of the queue as they stand.
LEMMA Books ==
    ASSUME IInv, Intact
    PROVE  /\ q \in Queues(Threads \cup {NULL, Junk}) /\ q.tail \in 0 .. MAX_THREADS
           /\ q.tail \in Int /\ Waiting(q) \subseteq Threads
           /\ \A t \in Threads :
                /\ Cardinality(Places(q, t)) \in Nat /\ Cardinality(Holders(t)) \in Nat
                /\ Cardinality(Places(q, t)) + Cardinality(Holders(t)) = Turns(t)
                /\ Turns(t) \in 0 .. 2
                /\ Cardinality(Places(q, t)) <= 2
<1>1. /\ q \in Queues(Threads \cup {NULL, Junk}) /\ q.tail \in 0 .. MAX_THREADS
      /\ q.tail \in Int /\ Waiting(q) \subseteq Threads
      /\ \A t \in Threads : Cardinality(Places(q, t)) + Cardinality(Holders(t)) = Turns(t)
  BY Numbers DEF IInv, TypeOK, ReadyExactlyOnce
<1>2. \A t : Cardinality(Places(q, t)) \in Nat
  BY <1>1, PlacesFinite
<1>3. \A t : Cardinality(Holders(t)) \in Nat
  <2>1. \A t : Holders(t) \in SUBSET Stacks
    BY DEF Holders, Stacks
  <2>. QED BY <2>1, Counted
<1>4. \A t \in Threads : Turns(t) \in 0 .. 2
  BY DEF Turns, One
<1>. QED BY <1>1, <1>2, <1>3, <1>4

\* After boot every thread is admitted.
LEMMA AllAdmitted ==
    ASSUME IInv, Intact, cpu.at # "boot"
    PROVE  Admitted = Threads /\ next = N + 1 /\ finished \subseteq Terminating
<1>1. next = N + 1 /\ finished \subseteq Terminating
  BY DEF IInv, MainlineSound
<1>. QED BY <1>1, Numbers DEF Admitted, Threads

(* Before a thread passes the processor on, somebody waits: a thread that    *)
(* never terminates is to get at least one turn; those that are to get one   *)
(* and do not wait have been dequeued, by threads that are to get one        *)
(* themselves and are as many; so they are all of them, and hold one each,   *)
(* which leaves out whoever runs and the second turn of one that asks twice. *)
LEMMA SomebodyWaits ==
    ASSUME IInv, Intact, cpu.at \in {"yield", "shutdown"}, cpu.stack \in Threads
    PROVE  q.tail \in 1 .. MAX_THREADS
<1> USE Numbers
<1>1. SUFFICES ASSUME q.tail = 0 PROVE FALSE
  BY Books
<1>2. \A t : Cardinality(Places(q, t)) = 0
  <2>1. \A t : Places(q, t) = {}
    BY <1>1 DEF Places, Window
  <2>. QED BY <2>1, FS_EmptySet
<1> DEFINE A == {t \in Threads : Turns(t) >= 1}
           B == {t \in Threads : ctx(t).at = "save"}
<1>3. \A t \in Threads : Cardinality(Holders(t)) = Turns(t) /\ Turns(t) \in 0 .. 2
  <2>1. TAKE t \in Threads
  <2>2. /\ Cardinality(Places(q, t)) + Cardinality(Holders(t)) = Turns(t)
        /\ Cardinality(Holders(t)) \in Nat /\ Turns(t) \in 0 .. 2
    BY Books
  <2>. QED BY <1>2, <2>2
<1>4. \A t \in Threads : Holders(t) \subseteq B
  <2>1. ctx(Main).at \notin {"save", "load"}
    BY DEF ctx, Running, Between, esp, Gone
  <2>2. \A s \in Threads : ctx(s).at # "load"
    BY Where DEF SoundContext
  <2>. QED BY <2>1, <2>2 DEF Holders, Holds
<1>5. \A t, u \in Threads : \A s : s \in Holders(t) /\ s \in Holders(u) => t = u
  BY DEF Holders, Holds
<1>6. Running(cpu.stack) /\ ctx(cpu.stack) = cpu /\ \A t \in Threads : Running(t) => t = cpu.stack
  BY Where DEF Running
<1>7. \A t \in B : Turns(t) >= 1 /\ ~Running(t)
  <2>1. TAKE t \in B
  <2>2. ~Running(t) /\ ctx(t).at = "save"
    BY <1>6
  <2>. QED BY <2>2, AllAdmitted DEF Turns, One
<1>8. PICK v \in Threads : v \notin Terminating
  BY RolesAssumption
<1>9. v \notin finished
  BY <1>8, AllAdmitted
<1>10. v \in A /\ (v \in B => Turns(v) = 2)
  <2>1. CASE Running(v)
    <3>1. ctx(v) = cpu /\ cpu.at = "yield"
      BY <1>6, <1>8, <2>1, Where DEF SoundContext
    <3>2. Turns(v) = 1
      BY <1>9, <2>1, <3>1, AllAdmitted DEF Turns, One, Asking
    <3>. QED BY <3>1, <3>2
  <2>2. CASE ~Running(v)
    <3>1. ctx(v).at # "gone"
      BY <1>9, Where DEF SoundContext
    <3>2. Turns(v) = 1 + One(Asking(v))
      BY <2>2, <3>1, AllAdmitted DEF Turns, One
    <3>3. Turns(v) >= 1 /\ (ctx(v).at = "save" => Turns(v) = 2)
      BY <1>9, <3>2 DEF One, Asking
    <3>. QED BY <3>3
  <2>. QED BY <2>1, <2>2
<1>11. /\ A \in SUBSET Stacks /\ B \in SUBSET A
       /\ IsFiniteSet(A) /\ Cardinality(A) \in Nat /\ IsFiniteSet(B)
       /\ Cardinality(B) \in Nat /\ Cardinality(B) <= Cardinality(A)
  <2>1. A \in SUBSET Stacks /\ B \in SUBSET A
    BY <1>7 DEF Stacks
  <2>. QED BY <2>1, Counted, FS_Subset, FS_CardinalityType
<1> HIDE DEF A, B
<1>12. \A t \in A : Holders(t) # {} /\ Holders(t) \subseteq B /\ t \in Threads
  <2>1. TAKE t \in A
  <2>2. t \in Threads /\ Cardinality(Holders(t)) # 0
    BY <1>3 DEF A
  <2>. QED BY <1>4, <2>2, FS_EmptySet
<1>13. ASSUME NEW T \in SUBSET B, NEW f \in [A -> T], \A t \in A : f[t] \in Holders(t),
              Cardinality(T) < Cardinality(A)
       PROVE  FALSE
  <2>1. IsFiniteSet(T)
    BY <1>11, FS_Subset
  <2>2. \E t, u \in A : t # u /\ f[t] = f[u]
    BY <1>11, <1>13, <2>1, FS_PigeonHole
  <2>. QED BY <1>5, <1>12, <1>13, <2>2
<1>14. CASE v \notin B
  <2> DEFINE f == [t \in A |-> CHOOSE s \in Holders(t) : TRUE]
  <2>1. \A t \in A : f[t] \in Holders(t)
    BY <1>12
  <2>2. f \in [A -> B]
    BY <1>12, <2>1
  <2>3. Cardinality(B) < Cardinality(A)
    <3>1. Cardinality(A) # Cardinality(B)
      BY <1>10, <1>11, <1>14, FS_Subset
    <3>. QED BY <1>11, <3>1
  <2> HIDE DEF f
  <2>. QED BY <1>13, <2>1, <2>2, <2>3
<1>15. CASE v \in B
  <2>1. Cardinality(Holders(v)) = 2 /\ Holders(v) \subseteq B
    BY <1>3, <1>4, <1>10, <1>15
  <2>2. PICK w \in Holders(v) : TRUE
    BY <1>10, <1>12
  <2>3. PICK x \in Holders(v) : x # w
    <3>1. SUFFICES ASSUME Holders(v) = {w} PROVE FALSE
      BY <2>2
    <3>2. Cardinality(Holders(v)) = 1
      BY <3>1, FS_Singleton
    <3>. QED BY <2>1, <3>2
  <2> DEFINE f == [t \in A |-> IF t = v THEN x ELSE CHOOSE s \in Holders(t) : TRUE]
             T == B \ {w}
  <2>4. \A t \in A : f[t] \in Holders(t)
    BY <1>12, <2>3
  <2>5. \A t \in A : f[t] # w
    BY <1>5, <1>12, <2>2, <2>3, <2>4
  <2>6. f \in [A -> T]
    BY <1>12, <2>4, <2>5
  <2>7. Cardinality(T) < Cardinality(A)
    <3>1. Cardinality(T) = Cardinality(B) - 1
      BY <1>11, <2>1, <2>2, FS_RemoveElement
    <3>. QED BY <1>11, <3>1
  <2> HIDE DEF f
  <2>. QED BY <1>13, <2>4, <2>6, <2>7
<1>. QED BY <1>14, <1>15

-----------------------------------------------------------------------------
(* What no interrupt can spoil: types, and who runs as current_thread.      *)

TCBs == Threads \cup {NULL, Junk}

LEMMA QueueTypes ==
    ASSUME NEW r \in Queues(TCBs), NEW t \in TCBs
    PROVE  /\ enqueue(r, t) \in Queues(TCBs) /\ dequeue(r) \in Queues(TCBs)
           /\ remove(r, t) \in Queues(TCBs) /\ first(r) \in TCBs
<1>1. NULL \in TCBs /\ Junk \in TCBs
  BY DEF TCBs
<1>2. \A i : cell(r, i) \in TCBs
  BY <1>1 DEF cell, Queues
<1>3. enqueue(r, t) \in Queues(TCBs)
  <2>1. r.queue \in [Slots -> TCBs] /\ r.tail + 1 \in Int
    BY DEF Queues
  <2>. QED BY <2>1 DEF enqueue, Queues
<1>4. dequeue(r) \in Queues(TCBs)
  BY <1>1, <1>2 DEF dequeue, Queues
<1>5. remove(r, t) \in Queues(TCBs)
  BY <1>1, <1>2 DEF remove, take_out, Queues
<1>. QED BY <1>1, <1>2, <1>3, <1>4, <1>5 DEF first

LEMMA TypesKept ==
    ASSUME TypeOK, TypeSound, [Next]_vars PROVE TypeOK' /\ TypeSound'
<1> USE Numbers, RolesAssumption
<1>1. /\ q \in Queues(TCBs) /\ current_thread \in TCBs /\ cpu \in Context
      /\ frame \in [Threads -> Context]
  BY DEF TypeOK, TCBs
<1>2. ASSUME NEW t PROVE esp(frame, t) \in Context
  BY <1>1 DEF esp, Gone, Context, Positions
<1>3. CASE add
  <2>1. next \in TCBs /\ next' \in 2 .. N + 1
    BY <1>3 DEF add, TypeOK, TCBs, Threads
  <2>2. q' \in Queues(TCBs)
    BY <1>1, <1>3, <2>1, QueueTypes DEF add
  <2>. QED BY <1>3, <2>1, <2>2 DEF add, TypeOK, TypeSound, TCBs
<1>4. CASE kick_off \/ thread_start \/ function_returns
  <2>1. cpu' \in Context /\ cpu'.at \in {"save", "body", "shutdown"}
        /\ (cpu'.at # "save" => cpu.at \in {"start", "body"})
    BY <1>1, <1>4 DEF kick_off, thread_start, function_returns, enable_interrupts,
       Context, Positions
  <2>. QED BY <1>4, <2>1 DEF kick_off, thread_start, function_returns, TypeOK, TypeSound
<1>5. CASE pass_on_CPU
  <2>1. q' \in Queues(TCBs)
    BY <1>1, <1>5, QueueTypes DEF pass_on_CPU
  <2>2. cpu' \in Context /\ cpu'.at = "yield" /\ burst' \in [Threads -> 0 .. Bursts]
    BY <1>1, <1>5 DEF pass_on_CPU, CountBurst, MoreBursts, TypeOK, Context, Positions
  <2>. QED BY <1>5, <2>1, <2>2 DEF pass_on_CPU, TypeOK, TypeSound, TCBs
<1>6. CASE next_burst
  <2>1. burst' \in [Threads -> 0 .. Bursts]
    BY <1>6 DEF next_burst, CountBurst, MoreBursts, TypeOK
  <2>. QED BY <1>6, <2>1 DEF next_burst, TypeOK, TypeSound
<1>7. CASE thread_shutdown
  <2>1. q' \in Queues(TCBs)
    BY <1>1, <1>7, QueueTypes DEF thread_shutdown, terminate
  <2>2. cpu' \in Context /\ cpu'.at = "yield" /\ current_thread \in Threads
    BY <1>1, <1>7 DEF thread_shutdown, TypeSound, Context, Positions
  <2>. QED BY <1>7, <2>1, <2>2 DEF thread_shutdown, TypeOK, TypeSound, TCBs
<1>8. CASE yield
  <2>1. q' \in Queues(TCBs) /\ first(q) \in TCBs
    BY <1>1, <1>8, QueueTypes DEF yield
  <2>2. cpu' \in Context /\ cpu'.at = "save"
    BY <1>1, <1>8, <2>1 DEF yield, Context, Positions, TCBs
  <2>. QED BY <1>8, <2>1, <2>2 DEF yield, TypeOK, TypeSound, TCBs
<1>9. CASE save_context
  <2>1. Resumption \in Context /\ Resumption.at \in {"body", "gone"}
    BY <1>1 DEF Resumption, Context, Positions
  <2>2. /\ frame' \in [Threads -> Context]
        /\ \A t \in Threads : frame'[t] = frame[t] \/ frame'[t] = Resumption
    BY <1>1, <1>9, <2>1 DEF save_context, Saved, tcb
  <2>3. /\ cpu' \in Context /\ cpu'.at = "load" /\ cpu'.thr = cpu.thr
        /\ current_thread' = cpu.thr /\ cpu.thr \in TCBs
    BY <1>1, <1>9 DEF save_context, Context, Positions, TCBs
  <2>4. TypeOK'
    BY <1>9, <2>2, <2>3 DEF save_context, TypeOK, TCBs
  <2>5. \A t \in Threads : /\ frame'[t].at # "boot"
                           /\ frame'[t].at = "load" => frame'[t].thr = t
    BY <2>1, <2>2 DEF TypeSound
  <2>. QED BY <2>3, <2>4, <2>5 DEF TypeSound
<1>10. CASE load_context
  <2>1. cpu' = esp(frame, cpu.thr) /\ current_thread = cpu.thr
    BY <1>10 DEF load_context, TypeSound
  <2>2. TypeOK'
    BY <1>2, <1>10, <2>1 DEF load_context, TypeOK
  <2>3. /\ cpu'.at \in {"start", "body", "shutdown"} => current_thread \in Threads
        /\ cpu'.at # "boot"
        /\ cpu'.at = "load" => current_thread = cpu'.thr
    BY <2>1 DEF esp, Gone, TypeSound
  <2>. QED BY <1>10, <2>2, <2>3 DEF load_context, TypeSound
<1>11. ASSUME NEW c \in Interrupted
       PROVE  /\ c \in Context /\ c.stack = cpu.stack /\ c.thr = cpu.thr
              /\ c.at = cpu.at \/ (c.at = "smashed" /\ cpu.at = "save")
  BY <1>1, <1>11 DEF Interrupted, Context, Positions
<1>12. CASE tick
  <2>1. ticks' \in 0 .. hz - 1 /\ struck' \in SUBSET {"passing", "fatal"}
    BY <1>12 DEF tick, SecondOver, TypeOK
  <2>2. cpu' \in Context /\ (cpu'.at = cpu.at \/ cpu'.at = "smashed") /\ cpu'.thr = cpu.thr
    BY <1>11, <1>12 DEF tick
  <2>. QED BY <1>12, <2>1, <2>2 DEF tick, TypeOK, TypeSound
<1>13. CASE preempt
  <2> DEFINE n == first(Resumed)
  <2>1. Resumed \in Queues(TCBs)
    BY <1>1, QueueTypes DEF Resumed
  <2>2. q' \in Queues(TCBs) /\ current_thread' = n /\ n \in TCBs
    BY <1>1, <1>13, <2>1, QueueTypes DEF preempt
  <2>3. PICK c \in Interrupted : /\ frame' = Saved(c)
                                 /\ struck' = IF c.at \in {"body", "shutdown"} THEN struck
                                              ELSE struck \cup {Hit(c)}
    BY <1>13 DEF preempt
  <2>4. /\ frame' \in [Threads -> Context]
        /\ \A t \in Threads : /\ frame'[t].at # "boot"
                              /\ frame'[t].at = "load" => frame'[t].thr = t
    <3>1. CASE current_thread \in Threads
      <4>0. TypeSound
        OBVIOUS
      <4>1. frame' = [frame EXCEPT ![current_thread] = c]
        BY <2>3, <3>1 DEF Saved, tcb
      <4>2. c.at # "boot" /\ (c.at = "load" => c.thr = current_thread)
        BY <1>11, <3>1 DEF TypeSound
      <4>3. c \in Context
        BY <1>11
      <4>. QED BY <1>1, <4>1, <4>2, <4>3 DEF TypeSound
    <3>2. CASE current_thread \notin Threads
      BY <1>1, <2>3, <3>2 DEF Saved, tcb, TypeSound
    <3>. QED BY <3>1, <3>2
  <2>5. /\ cpu' = esp(frame', n) /\ cpu' \in Context
        /\ cpu'.at \in {"start", "body", "shutdown"} => n \in Threads
        /\ cpu'.at # "boot"
        /\ cpu'.at = "load" => n = cpu'.thr
    <3>1. cpu' = esp(frame', n)
      BY <1>13 DEF preempt
    <3>2. CASE n \in Threads
      BY <2>4, <3>1, <3>2 DEF esp
    <3>3. CASE n \notin Threads
      <4>1. cpu' = Gone
        BY <3>1, <3>3 DEF esp
      <4>. QED BY <3>1, <4>1 DEF Gone, Context, Positions
    <3>. QED BY <3>1, <3>2, <3>3
  <2>6. ticks' \in 0 .. hz - 1 /\ struck' \in SUBSET {"passing", "fatal"}
    BY <1>13, <2>3 DEF preempt, TypeOK, Hit
  <2> HIDE DEF n
  <2>7. TypeOK'
    BY <1>13, <2>2, <2>4, <2>5, <2>6 DEF preempt, TypeOK, TCBs
  <2>. QED BY <2>2, <2>4, <2>5, <2>7 DEF TypeSound
<1>14. CASE UNCHANGED vars
  BY <1>14 DEF vars, TypeOK, TypeSound
<1>. QED BY <1>3, <1>4, <1>5, <1>6, <1>7, <1>8, <1>9, <1>10, <1>12, <1>13, <1>14
         DEF Next, Mainline, Timer

LEMMA InitHolds == Init => IInv
<1> SUFFICES ASSUME Init PROVE IInv
  OBVIOUS
<1> USE Numbers, RolesAssumption
<1>1. TypeOK
  BY DEF Init, TypeOK, newRqueue, Queues, Slots, setup_context, Context,
         Positions, Threads
<1>2. TypeSound
  BY DEF Init, TypeSound, setup_context
<1>3. /\ \A t \in Threads : /\ ctx(t) = setup_context(t) /\ t \notin Admitted
                            /\ ctx(t).at = "start" /\ frame[t] = setup_context(t)
      /\ ctx(Main) = cpu /\ cpu.at = "boot" /\ finished = {}
  BY DEF Init, ctx, Running, Between, esp, Admitted, setup_context, Threads, Main
<1>4. Window(q) = {} /\ q.tail = 0
  BY DEF Init, newRqueue, Window
<1>5. ASSUME NEW t \in Threads
      PROVE  /\ Cardinality(Places(q, t)) = 0 /\ Cardinality(Holders(t)) = 0
             /\ Turns(t) = 0
  <2>1. Places(q, t) = {}
    BY <1>4 DEF Places
  <2>2. Holders(t) = {}
    BY <1>3 DEF Holders, Holds
  <2>3. Turns(t) = 0
    BY <1>3 DEF Turns
  <2>. QED BY <2>1, <2>2, <2>3, FS_EmptySet
<1>6. ReadyExactlyOnce
  BY <1>4, <1>5 DEF ReadyExactlyOnce, Waiting
<1>7. ContextsSound
  <2>1. ASSUME NEW t \in Threads
        PROVE  SoundContext(setup_context(t), t) /\ setup_context(t).stack = t
    BY <1>3 DEF SoundContext, setup_context
  <2>. QED BY <1>3, <2>1 DEF ContextsSound
<1>8. CpuSound /\ MainlineSound
  <2>1. /\ cpu.ints /\ cpu.at = "boot" /\ cpu.stack = Main /\ current_thread = Main
        /\ finished = {}
    BY DEF Init, Main, NULL
  <2>. QED BY <1>3, <2>1 DEF CpuSound, MainlineSound, setup_context
<1>. QED BY <1>1, <1>2, <1>6, <1>7, <1>8 DEF IInv

-----------------------------------------------------------------------------
(* One lemma per action: unless an interrupt is fatal, it preserves the rest *)
(* of IInv.                                                                  *)

Sound == ReadyExactlyOnce /\ ContextsSound /\ CpuSound /\ MainlineSound

\* A step that stays on its stack and leaves the control blocks alone.
LEMMA SameStack ==
    ASSUME IInv, Intact, cpu.at # "load", cpu'.at # "load", cpu'.stack = cpu.stack,
           frame' = frame
    PROVE  /\ \A u : u # cpu.stack => ctx(u)' = ctx(u)
           /\ \A u : u = cpu.stack => ctx(u) = cpu /\ ctx(u)' = cpu'
           /\ \A u : Running(u)' = Running(u) /\ (Running(u) <=> u = cpu.stack)
BY DEF ctx, Running, Between

\* It is sound if what it makes of its own context is.
LEMMA SoundStep ==
    ASSUME IInv, Intact, cpu.at # "load", cpu'.at # "load", cpu'.stack = cpu.stack,
           frame' = frame,
           \A t \in Threads : t # cpu.stack => (t \in finished' <=> t \in finished),
           \A t \in Threads : t = cpu.stack => SoundContext(ctx(t), t)'
    PROVE  ContextsSound'
<1>1. ASSUME NEW t \in Threads PROVE SoundContext(ctx(t), t)' /\ frame'[t].stack = t
  <2>1. SoundContext(ctx(t), t) /\ frame[t].stack = t
    BY Where
  <2>2. CASE t # cpu.stack
    <3>1. ctx(t)' = ctx(t) /\ (t \in finished' <=> t \in finished)
      BY <2>2, SameStack
    <3>2. SoundContext(ctx(t), t)'
      BY <2>1, <3>1 DEF SoundContext
    <3>. QED BY <2>1, <3>2
  <2>3. CASE t = cpu.stack
    BY <2>1, <2>3
  <2>. QED BY <2>2, <2>3
<1>. QED BY <1>1 DEF ContextsSound

(* Nothing in the books changes while a thread neither queues nor dequeues  *)
(* anybody and neither begins nor ceases to ask for a turn.                 *)
LEMMA QuietBooks ==
    ASSUME IInv, Intact, Intact', q' = q, next' = next, finished' = finished,
           cpu.at = "boot" <=> cpu'.at = "boot",
           \A u \in Stacks : /\ Running(u)' = Running(u)
                             /\ \/ ctx(u)' = ctx(u)
                                \/ /\ ctx(u).at \in {"start", "body", "shutdown"}
                                   /\ ctx(u)'.at \in {"start", "body", "shutdown"}
    PROVE  ReadyExactlyOnce'
<1>1. ASSUME NEW t \in Threads
      PROVE  Holders(t)' = Holders(t) /\ Turns(t)' = Turns(t)
  <2>1. \A s \in Stacks : Holds(s, t)' <=> Holds(s, t)
    BY DEF Holds
  <2>2. Holders(t)' = Holders(t)
    BY <2>1 DEF Holders, Stacks
  <2>3. Admitted' = Admitted /\ t \in Stacks
    BY DEF Admitted, Stacks
  <2>4. (ctx(t).at = "gone" <=> ctx(t)'.at = "gone") /\ (Asking(t)' <=> Asking(t))
    BY <2>3 DEF Asking
  <2>5. Running(t)' <=> Running(t)
    BY <2>3
  <2>. QED BY <2>2, <2>3, <2>4, <2>5 DEF Turns, One
<1>2. ReadyExactlyOnce
  BY DEF IInv
<1>. QED BY <1>1, <1>2 DEF ReadyExactlyOnce

LEMMA addKeeps ==
    ASSUME IInv, Intact, Intact', add PROVE Sound'
<1> USE Numbers
<1>1. /\ cpu.at = "boot" /\ cpu' = cpu /\ frame' = frame /\ finished' = finished
      /\ q' = enqueue(q, next) /\ next' = next + 1 /\ next \in 2 .. N /\ next \in Threads
      /\ cpu.stack = Main /\ current_thread' = current_thread
  BY DEF add, IInv, TypeOK, CpuSound, Threads
<1>2. \A u : ctx(u)' = ctx(u) /\ (Running(u)' <=> Running(u)) /\ (Asking(u)' <=> Asking(u))
  BY <1>1 DEF ctx, Running, Between, Asking
<1>3. \A t : Holders(t)' = Holders(t)
  BY <1>2 DEF Holders, Holds
<1>4. next \notin Admitted /\ Admitted' = Admitted \cup {next}
  BY <1>1 DEF Admitted
<1>5. ctx(next).at = "start" /\ ~Running(next)
  BY <1>1 DEF ctx, Running, Between, esp, IInv, MainlineSound
<1>6. /\ Cardinality(Places(q, next)) = 0 /\ Cardinality(Holders(next)) = 0
  <2>1. Turns(next) = 0
    BY <1>4 DEF Turns
  <2>. QED BY <1>1, <2>1, Books
<1>7. q.tail \in 0 .. MAX_THREADS - 1
  BY <1>1, <1>6, Books, RoomFor
<1>8. /\ q'.tail = q.tail + 1 /\ Waiting(q') = Waiting(q) \cup {next}
      /\ Cardinality(Places(q', next)) = 1
      /\ \A u : u # next => Places(q', u) = Places(q, u)
  BY <1>1, <1>6, <1>7, Books, EnqueueCounts
<1>9. ASSUME NEW t \in Threads
      PROVE  Cardinality(Places(q', t)) + Cardinality(Holders(t)') = Turns(t)'
  <2>1. CASE t = next
    <3>1. Turns(t)' = 1
      BY <1>2, <1>4, <1>5, <2>1 DEF Turns, One, Asking
    <3>. QED BY <1>3, <1>6, <1>8, <2>1, <3>1
  <2>2. CASE t # next
    <3>1. Turns(t)' = Turns(t)
      BY <1>2, <1>4, <2>2 DEF Turns, One
    <3>. QED BY <1>3, <1>8, <2>2, <3>1, Books
  <2>. QED BY <2>1, <2>2
<1>10. ReadyExactlyOnce'
  BY <1>1, <1>7, <1>8, <1>9, Books DEF ReadyExactlyOnce
<1>11. ContextsSound' /\ CpuSound' /\ MainlineSound'
  BY <1>1, <1>2 DEF IInv, ContextsSound, SoundContext, CpuSound, MainlineSound
<1>. QED BY <1>10, <1>11 DEF Sound

LEMMA kick_offKeeps ==
    ASSUME IInv, Intact, Intact', kick_off PROVE Sound'
<1> USE Numbers
<1>1. /\ cpu.at = "boot" /\ cpu.stack = Main /\ next = N + 1 /\ cpu.ints
      /\ current_thread = Main
  <2>1. cpu.at = "boot" /\ next > N /\ next \in 2 .. N + 1
    BY DEF kick_off, IInv, TypeOK
  <2>. QED BY <2>1, Where DEF IInv, CpuSound, SoundContext
<1>2. /\ cpu'.at = "save" /\ cpu'.thr = 1 /\ cpu'.stack = Main /\ cpu'.ints
      /\ q' = q /\ frame' = frame /\ finished' = finished /\ next' = next
      /\ current_thread' = Main
  BY <1>1, Where DEF kick_off, Context
<1>3. /\ \A u : u # Main => ctx(u)' = ctx(u)
      /\ ctx(Main) = cpu /\ ctx(Main)' = cpu'
      /\ \A u : (Running(u)' <=> Running(u)) /\ (u # Main => ~Running(u))
  BY <1>1, <1>2, SameStack
<1>4. 1 \notin Admitted /\ Admitted' = Admitted \cup {1}
  BY <1>1, <1>2 DEF Admitted
<1>5. ctx(1).at = "start" /\ ~Running(1)
  BY <1>1 DEF ctx, Running, Between, esp, IInv, MainlineSound
<1>6. Cardinality(Places(q, 1)) = 0 /\ Cardinality(Holders(1)) = 0
  <2>1. Turns(1) = 0
    BY <1>4 DEF Turns
  <2>. QED BY <2>1, Books
<1>7. \A s \in Threads : \A t : Holds(s, t)' <=> Holds(s, t)
  BY <1>3 DEF Holds
<1>8. \A t : (Holds(Main, t)' <=> t = 1) /\ ~Holds(Main, t)
  BY <1>1, <1>2, <1>3 DEF Holds
<1>9. /\ Holders(1)' = Holders(1) \cup {Main} /\ Main \notin Holders(1)
      /\ \A t : t # 1 => Holders(t)' = Holders(t)
  BY <1>7, <1>8 DEF Holders
<1>10. Cardinality(Holders(1)') = 1
  <2>1. Holders(1) \in SUBSET Stacks /\ Main \in Stacks
    BY DEF Holders, Stacks
  <2>. QED BY <1>6, <1>9, <2>1, Counted
<1>11. ASSUME NEW t \in Threads
       PROVE  Cardinality(Places(q, t)) + Cardinality(Holders(t)') = Turns(t)'
  <2>1. CASE t = 1
    <3>1. Turns(t)' = 1
      BY <1>3, <1>4, <1>5, <2>1 DEF Turns, One, Asking
    <3>. QED BY <1>6, <1>10, <2>1, <3>1
  <2>2. CASE t # 1
    <3>1. Turns(t)' = Turns(t)
      BY <1>2, <1>3, <1>4, <2>2 DEF Turns, One, Asking
    <3>. QED BY <1>9, <2>2, <3>1, Books
  <2>. QED BY <2>1, <2>2
<1>12. ReadyExactlyOnce'
  BY <1>2, <1>11, Books DEF ReadyExactlyOnce
<1>13. ContextsSound'
  BY <1>2, <1>3 DEF IInv, ContextsSound, SoundContext
<1>14. CpuSound' /\ MainlineSound'
  BY <1>1, <1>2 DEF IInv, CpuSound, MainlineSound
<1>. QED BY <1>12, <1>13, <1>14 DEF Sound

LEMMA thread_startKeeps ==
    ASSUME IInv, Intact, Intact', thread_start PROVE Sound'
<1> USE Numbers
<1>1. /\ cpu.at = "start" /\ cpu.stack \in Threads /\ SoundContext(cpu, cpu.stack)
      /\ cpu.stack = current_thread
  BY Where DEF thread_start
<1>2. /\ cpu'.at = "body" /\ cpu'.stack = cpu.stack /\ cpu'.ints
      /\ q' = q /\ frame' = frame /\ finished' = finished /\ next' = next
      /\ current_thread' = current_thread
  BY Where DEF thread_start, enable_interrupts, Context
<1>3. ReadyExactlyOnce'
  BY <1>1, <1>2, SameStack, QuietBooks
<1>4. ContextsSound'
  <2>1. ASSUME NEW t \in Threads, t = cpu.stack PROVE SoundContext(ctx(t), t)'
    <3>1. ctx(t)' = cpu'
      BY <1>1, <1>2, <2>1, SameStack
    <3>. QED BY <1>1, <1>2, <2>1, <3>1 DEF SoundContext
  <2>. QED BY <1>1, <1>2, <2>1, SoundStep
<1>5. CpuSound' /\ MainlineSound'
  BY <1>1, <1>2 DEF IInv, CpuSound, MainlineSound
<1>. QED BY <1>3, <1>4, <1>5 DEF Sound

LEMMA function_returnsKeeps ==
    ASSUME IInv, Intact, Intact', function_returns PROVE Sound'
<1> USE Numbers
<1>1. /\ cpu.at = "body" /\ cpu.stack \in Threads /\ SoundContext(cpu, cpu.stack)
      /\ cpu.stack = current_thread /\ cpu.stack \in Terminating
  BY Where DEF function_returns, MoreBursts
<1>2. /\ cpu'.at = "shutdown" /\ cpu'.stack = cpu.stack /\ cpu'.ints = cpu.ints
      /\ q' = q /\ frame' = frame /\ finished' = finished /\ next' = next
      /\ current_thread' = current_thread
  BY Where DEF function_returns, Context
<1>3. ReadyExactlyOnce'
  BY <1>1, <1>2, SameStack, QuietBooks
<1>4. ContextsSound'
  <2>1. ASSUME NEW t \in Threads, t = cpu.stack PROVE SoundContext(ctx(t), t)'
    <3>1. ctx(t)' = cpu'
      BY <1>1, <1>2, <2>1, SameStack
    <3>. QED BY <1>1, <1>2, <2>1, <3>1 DEF SoundContext
  <2>. QED BY <1>1, <1>2, <2>1, SoundStep
<1>5. CpuSound' /\ MainlineSound'
  BY <1>1, <1>2 DEF IInv, CpuSound, MainlineSound
<1>. QED BY <1>3, <1>4, <1>5 DEF Sound

\* Nothing but counters changes.
LEMMA CounterStep ==
    ASSUME IInv, Intact, Intact', UNCHANGED <<q, current_thread, cpu, frame, next, finished>>
    PROVE  Sound'
<1>1. \A u : ctx(u)' = ctx(u) /\ (Running(u)' <=> Running(u))
  BY DEF ctx, Running, Between
<1>2. ReadyExactlyOnce'
  <2>1. \A u \in Stacks : Running(u)' = Running(u)
    BY DEF Running
  <2>. QED BY <1>1, <2>1, QuietBooks
<1>3. ContextsSound' /\ CpuSound' /\ MainlineSound'
  BY <1>1 DEF IInv, ContextsSound, SoundContext, CpuSound, MainlineSound
<1>. QED BY <1>2, <1>3 DEF Sound

LEMMA pass_on_CPUKeeps ==
    ASSUME IInv, Intact, Intact', pass_on_CPU
    PROVE  /\ Sound' /\ q.tail \in 0 .. MAX_THREADS - 1
           /\ cpu.stack \in Threads \ finished /\ q' = enqueue(q, cpu.stack)
           /\ cpu'.at = "yield" /\ cpu'.stack = cpu.stack
<1> USE Numbers
<1> DEFINE s == cpu.stack
<1>1. /\ cpu.at = "body" /\ s \in Threads /\ SoundContext(cpu, s) /\ s = current_thread
      /\ s \notin finished /\ cpu.ints
  BY Where, RolesAssumption DEF pass_on_CPU, SoundContext
<1>2. /\ cpu'.at = "yield" /\ cpu'.stack = s /\ cpu'.ints
      /\ q' = enqueue(q, s) /\ frame' = frame /\ finished' = finished /\ next' = next
      /\ current_thread' = current_thread
  BY <1>1, Where DEF pass_on_CPU, Context
<1>3. /\ \A u : u # s => ctx(u)' = ctx(u)
      /\ \A u : u = s => ctx(u) = cpu /\ ctx(u)' = cpu'
      /\ \A u : Running(u)' = Running(u) /\ (Running(u) <=> u = s)
  BY <1>1, <1>2, SameStack
<1>4. \A t : Holders(t)' = Holders(t)
  <2>1. \A u, t : Holds(u, t)' <=> Holds(u, t)
    BY <1>1, <1>2, <1>3 DEF Holds
  <2>. QED BY <2>1 DEF Holders
<1>5. Admitted' = Admitted /\ s \in Admitted
  BY <1>1, <1>2, AllAdmitted DEF Admitted
<1>6. Turns(s) = 0
  BY <1>1, <1>3 DEF Turns, One, Asking
<1>7. Cardinality(Places(q, s)) = 0 /\ Cardinality(Holders(s)) = 0
  BY <1>1, <1>6, Books
<1>8. q.tail \in 0 .. MAX_THREADS - 1
  BY <1>1, <1>7, Books, RoomFor
<1>9. /\ q'.tail = q.tail + 1 /\ Waiting(q') = Waiting(q) \cup {s}
      /\ Cardinality(Places(q', s)) = 1
      /\ \A u : u # s => Places(q', u) = Places(q, u)
  BY <1>1, <1>2, <1>7, <1>8, Books, EnqueueCounts
<1>10. ASSUME NEW t \in Threads
       PROVE  Cardinality(Places(q', t)) + Cardinality(Holders(t)') = Turns(t)'
  <2>1. CASE t = s
    <3>1. ctx(t)' = cpu' /\ Running(t)'
      BY <1>3, <2>1
    <3>2. Turns(t)' = 1
      BY <1>1, <1>2, <1>5, <2>1, <3>1 DEF Turns, One, Asking
    <3>. QED BY <1>4, <1>7, <1>9, <2>1, <3>2
  <2>2. CASE t # s
    <3>1. Turns(t)' = Turns(t)
      BY <1>2, <1>3, <1>5, <2>2 DEF Turns, One, Asking
    <3>. QED BY <1>4, <1>9, <2>2, <3>1, Books
  <2>. QED BY <2>1, <2>2
<1>11. ReadyExactlyOnce'
  BY <1>1, <1>8, <1>9, <1>10, Books DEF ReadyExactlyOnce
<1>12. ContextsSound'
  <2>1. ASSUME NEW t \in Threads, t = s PROVE SoundContext(ctx(t), t)'
    BY <1>1, <1>2, <1>3, <2>1 DEF SoundContext
  <2>. QED BY <1>1, <1>2, <2>1, SoundStep
<1>13. CpuSound' /\ MainlineSound'
  BY <1>1, <1>2 DEF IInv, CpuSound, MainlineSound
<1>. QED BY <1>1, <1>2, <1>8, <1>11, <1>12, <1>13 DEF Sound

LEMMA thread_shutdownKeeps ==
    ASSUME IInv, Intact, Intact', thread_shutdown
    PROVE  /\ Sound' /\ q' = q
           /\ cpu.stack \in Threads \ finished /\ current_thread = cpu.stack
           /\ cpu'.at = "yield" /\ cpu'.stack = cpu.stack
<1> USE Numbers
<1> DEFINE s == cpu.stack
<1>1. /\ cpu.at = "shutdown" /\ s \in Threads /\ SoundContext(cpu, s) /\ s = current_thread
      /\ s \notin finished /\ s \in Terminating /\ cpu.ints
  BY Where DEF thread_shutdown, SoundContext
<1>2. /\ cpu'.at = "yield" /\ cpu'.stack = s /\ cpu'.ints
      /\ q' = remove(q, s) /\ frame' = frame /\ next' = next
      /\ finished' = finished \cup {s} /\ current_thread' = current_thread
  BY <1>1, Where DEF thread_shutdown, terminate, Context
<1>3. /\ \A u : u # s => ctx(u)' = ctx(u)
      /\ \A u : u = s => ctx(u) = cpu /\ ctx(u)' = cpu'
      /\ \A u : Running(u)' = Running(u) /\ (Running(u) <=> u = s)
  BY <1>1, <1>2, SameStack
<1>4. \A t : Holders(t)' = Holders(t)
  <2>1. \A u, t : Holds(u, t)' <=> Holds(u, t)
    BY <1>1, <1>2, <1>3 DEF Holds
  <2>. QED BY <2>1 DEF Holders
<1>5. Admitted' = Admitted
  BY <1>1, <1>2 DEF Admitted
<1>6. Turns(s) = 0
  BY <1>1, <1>3 DEF Turns, One, Asking
<1>7. q' = q
  <2>1. Cardinality(Places(q, s)) = 0
    BY <1>1, <1>6, Books
  <2>2. s \notin Waiting(q)
    BY <2>1, NoPlace, Books
  <2>3. q.tail \in Nat \ {0}
    BY <1>1, SomebodyWaits
  <2>. QED BY <1>2, <2>2, <2>3, RemoveOfAbsent
<1>8. ASSUME NEW t \in Threads PROVE Turns(t)' = Turns(t)
  <2>1. CASE t = s
    <3>1. ctx(t)' = cpu' /\ Running(t)' /\ t \in finished'
      BY <1>2, <1>3, <2>1
    <3>2. Turns(t)' = 0
      BY <3>1 DEF Turns, One, Asking
    <3>. QED BY <1>6, <2>1, <3>2
  <2>2. CASE t # s
    BY <1>2, <1>3, <1>5, <2>2 DEF Turns, One, Asking
  <2>. QED BY <2>1, <2>2
<1>9. ReadyExactlyOnce'
  BY <1>4, <1>7, <1>8, Books DEF ReadyExactlyOnce
<1>10. ContextsSound'
  <2>1. ASSUME NEW t \in Threads, t = s PROVE SoundContext(ctx(t), t)'
    BY <1>1, <1>2, <1>3, <2>1 DEF SoundContext
  <2>. QED BY <1>1, <1>2, <2>1, SoundStep
<1>11. CpuSound' /\ MainlineSound'
  BY <1>1, <1>2 DEF IInv, CpuSound, MainlineSound
<1>. QED BY <1>1, <1>2, <1>7, <1>9, <1>10, <1>11 DEF Sound

\* What is left when the thread at the front of the queue is taken out.
LEMMA NextInLine ==
    ASSUME NEW r \in Queues(Threads \cup {NULL, Junk}),
           r.tail \in 1 .. MAX_THREADS, Waiting(r) \subseteq Threads
    PROVE  /\ dequeue(r).tail \in 0 .. MAX_THREADS /\ dequeue(r).tail = r.tail - 1
           /\ first(r) \in Threads
           /\ Waiting(dequeue(r)) \subseteq Threads
           /\ Cardinality(Places(r, first(r))) =
                Cardinality(Places(dequeue(r), first(r))) + 1
           /\ \A u : u # first(r) =>
                Cardinality(Places(dequeue(r), u)) = Cardinality(Places(r, u))
           /\ Cardinality(Places(dequeue(r), first(r))) \in Nat
           /\ Cardinality(Places(r, first(r))) # 0
<1> DEFINE S == Threads \cup {NULL, Junk}
<1>1. NULL \in S /\ Junk \in S
  OBVIOUS
<1>2. /\ dequeue(r).tail = r.tail - 1
      /\ first(r) \in Waiting(r) /\ Waiting(dequeue(r)) \subseteq Waiting(r)
      /\ Cardinality(Places(r, first(r))) =
           Cardinality(Places(dequeue(r), first(r))) + 1
      /\ \A u : u # first(r) =>
           Cardinality(Places(dequeue(r), u)) = Cardinality(Places(r, u))
  BY <1>1, DequeueCounts
<1>3. dequeue(r).tail \in Int
  BY <1>2, Numbers
<1>4. Cardinality(Places(dequeue(r), first(r))) \in Nat
  BY <1>3, PlacesFinite
<1>. QED BY <1>2, <1>4, Numbers

LEMMA yieldKeeps ==
    ASSUME IInv, Intact, Intact', yield
    PROVE  /\ Sound' /\ q.tail \in 1 .. MAX_THREADS
           /\ cpu.stack \in Threads /\ cpu'.at = "save" /\ cpu'.thr = first(q)
           /\ cpu'.stack = cpu.stack
<1> USE Numbers
<1>1. /\ cpu.at = "yield" /\ cpu.stack \in Threads /\ cpu.stack = current_thread
      /\ cpu.ints
  BY Where DEF yield, SoundContext
<1>2. q.tail \in 1 .. MAX_THREADS
  BY <1>1, SomebodyWaits
<1>3. PICK s \in Threads : s = cpu.stack
  BY <1>1
<1>4. PICK n \in Threads : n = first(q)
  BY <1>2, Books, NextInLine
<1>5. /\ q' = dequeue(q) /\ q'.tail \in 0 .. MAX_THREADS
      /\ Waiting(q') \subseteq Threads
      /\ Cardinality(Places(q, n)) = Cardinality(Places(q', n)) + 1
      /\ \A u : u # n => Cardinality(Places(q', u)) = Cardinality(Places(q, u))
      /\ Cardinality(Places(q', n)) \in Nat
  BY <1>2, <1>4, Books, NextInLine DEF yield
<1>6. /\ cpu'.at = "save" /\ cpu'.stack = s /\ cpu'.ints /\ cpu'.thr = n
      /\ frame' = frame /\ finished' = finished /\ next' = next
      /\ current_thread' = current_thread
  BY <1>1, <1>3, <1>4, Where DEF yield, Context
<1>7. /\ \A u : u # s => ctx(u)' = ctx(u)
      /\ ctx(s) = cpu /\ ctx(s)' = cpu'
      /\ \A u : Running(u)' = Running(u) /\ (Running(u) <=> u = s)
  BY <1>1, <1>3, <1>6, SameStack
<1>8. /\ Holders(n)' = Holders(n) \cup {s} /\ s \notin Holders(n)
      /\ \A t : t # n => Holders(t)' = Holders(t)
  <2>1. \A u : u # s => \A t : Holds(u, t)' <=> Holds(u, t)
    BY <1>7 DEF Holds
  <2>2. \A t : ~Holds(s, t) /\ (Holds(s, t)' <=> t = n)
    BY <1>1, <1>6, <1>7 DEF Holds
  <2>. QED BY <2>1, <2>2 DEF Holders
<1>9. Cardinality(Holders(n)') = Cardinality(Holders(n)) + 1
  <2>1. Holders(n) \in SUBSET Stacks /\ s \in Stacks
    BY DEF Holders, Stacks
  <2>. QED BY <1>8, <2>1, Counted
<1>10. ASSUME NEW t \in Threads PROVE Turns(t)' = Turns(t)
  <2>1. Admitted' = Admitted
    BY <1>1, <1>6 DEF Admitted
  <2>2. CASE t = s
    BY <1>1, <1>6, <1>7, <2>1, <2>2 DEF Turns, One, Asking
  <2>3. CASE t # s
    BY <1>6, <1>7, <2>1, <2>3 DEF Turns, One, Asking
  <2>. QED BY <2>2, <2>3
<1>11. ASSUME NEW t \in Threads
       PROVE  Cardinality(Places(q', t)) + Cardinality(Holders(t)') = Turns(t)'
  <2>1. /\ Cardinality(Places(q, t)) + Cardinality(Holders(t)) = Turns(t)
        /\ Cardinality(Holders(t)) \in Nat /\ Turns(t)' = Turns(t)
    BY <1>10, Books
  <2>2. CASE t = n
    BY <1>5, <1>9, <2>1, <2>2
  <2>3. CASE t # n
    BY <1>5, <1>8, <2>1, <2>3
  <2>. QED BY <2>2, <2>3
<1>12. ReadyExactlyOnce'
  BY <1>5, <1>11 DEF ReadyExactlyOnce
<1>13. ContextsSound'
  <2>1. ASSUME NEW t \in Threads, t = cpu.stack PROVE SoundContext(ctx(t), t)'
    BY <1>1, <1>3, <1>6, <1>7, <2>1, Where DEF SoundContext
  <2>. QED BY <1>1, <1>3, <1>6, <2>1, SoundStep
<1>14. CpuSound' /\ MainlineSound'
  BY <1>1, <1>3, <1>6 DEF IInv, CpuSound, MainlineSound
<1>. QED BY <1>1, <1>2, <1>3, <1>4, <1>6, <1>12, <1>13, <1>14 DEF Sound

\* Whoever saves his context leaves the thread he has dequeued to the switch.
LEMMA save_contextKeeps ==
    ASSUME IInv, Intact, Intact', save_context
    PROVE  /\ Sound'
           /\ \A t \in Threads : frame'[t] = frame[t] \/ frame'[t].at \in {"body", "gone"}
<1> USE Numbers
<1>1. /\ cpu.at = "save" /\ cpu.stack \in Stacks /\ cpu.stack = current_thread
      /\ cpu.ints
      /\ cpu.stack \in Threads => SoundContext(cpu, cpu.stack)
      /\ cpu.stack \notin Threads => cpu.stack = Main /\ cpu.thr = 1
  BY Where DEF save_context, SoundContext, Stacks
<1>2. PICK s \in Stacks : s = cpu.stack
  BY <1>1
<1>3. PICK n \in Threads : n = cpu.thr
  BY <1>1 DEF SoundContext
<1>4. /\ cpu'.at = "load" /\ cpu'.thr = n /\ cpu'.ints /\ current_thread' = n
      /\ q' = q /\ finished' = finished /\ next' = next
  BY <1>1, <1>3, Where DEF save_context, Context
<1>5. /\ Resumption.stack = s /\ Resumption.ints
      /\ Resumption.at = IF s \in finished THEN "gone" ELSE "body"
  BY <1>1, <1>2, Where DEF Resumption, Context
<1>6. frame' = IF s \in Threads THEN [frame EXCEPT ![s] = Resumption] ELSE frame
  BY <1>1, <1>2 DEF save_context, Saved, tcb
<1>7. \A t \in Threads : frame'[t] = IF t = s THEN Resumption ELSE frame[t]
  BY <1>6 DEF IInv, TypeOK
<1>8. /\ \A u \in Threads : /\ ctx(u)' = frame'[u] /\ ~Running(u)'
                            /\ u # s => ctx(u) = frame[u] /\ ctx(u)' = ctx(u) /\ ~Running(u)
      /\ ctx(s) = cpu /\ Running(s) /\ ctx(Main)' = cpu'
      /\ s # Main => ctx(Main) = Gone
  BY <1>1, <1>2, <1>4, <1>7 DEF ctx, Running, Between, esp
<1>9. Admitted' = Admitted
  BY <1>1, <1>4 DEF Admitted
<1>10. ASSUME NEW t \in Threads PROVE Turns(t)' = Turns(t)
  <2>1. CASE t = s
    <3>1. ctx(t)' = Resumption /\ t \in Admitted
      BY <1>1, <1>7, <1>8, <2>1, AllAdmitted
    <3>2. CASE t \in finished
      <4>1. Turns(t)' = 0
        BY <1>5, <2>1, <3>1, <3>2 DEF Turns
      <4>2. Turns(t) = 0
        BY <1>8, <2>1, <3>2 DEF Turns, One, Asking
      <4>. QED BY <4>1, <4>2
    <3>3. CASE t \notin finished
      <4>1. Turns(t)' = 1
        BY <1>4, <1>5, <1>8, <1>9, <2>1, <3>1, <3>3 DEF Turns, One, Asking
      <4>2. Turns(t) = 1
        BY <1>1, <1>8, <2>1, <3>1, <3>3 DEF Turns, One, Asking
      <4>. QED BY <4>1, <4>2
    <3>. QED BY <3>2, <3>3
  <2>2. CASE t # s
    BY <1>4, <1>8, <1>9, <2>2 DEF Turns, One, Asking
  <2>. QED BY <2>1, <2>2
<1>11. /\ \A t : Holds(s, t) <=> t = n
       /\ \A t : Holds(Main, t)' <=> t = n
       /\ \A t : s # Main => ~Holds(Main, t) /\ ~Holds(s, t)'
       /\ \A u \in Threads : u # s => \A t : Holds(u, t)' <=> Holds(u, t)
  <2>1. \A t : (Holds(s, t) <=> t = n) /\ (Holds(Main, t)' <=> t = n)
    BY <1>1, <1>3, <1>4, <1>8 DEF Holds
  <2>2. ASSUME s # Main PROVE \A t : ~Holds(Main, t) /\ ~Holds(s, t)'
    <3>1. ctx(Main) = Gone /\ s \in Threads /\ ctx(s)' = Resumption
      BY <1>7, <1>8, <2>2 DEF Stacks
    <3>. QED BY <1>5, <3>1 DEF Holds, Gone
  <2>3. \A u \in Threads : u # s => \A t : Holds(u, t)' <=> Holds(u, t)
    BY <1>8 DEF Holds
  <2>. QED BY <2>1, <2>2, <2>3
<1>12. /\ \A t : t # n => Holders(t)' = Holders(t)
       /\ s \in Holders(n) /\ Holders(n)' = (Holders(n) \ {s}) \cup {Main}
       /\ s # Main => Main \notin Holders(n)
  BY <1>11 DEF Holders, Stacks
<1>13. \A t : Cardinality(Holders(t)') = Cardinality(Holders(t))
  <2>1. CASE s = Main
    <3>1. \A t : Holders(t)' = Holders(t)
      BY <1>12, <2>1
    <3>. QED BY <3>1
  <2>2. CASE s # Main
    <3>1. /\ Holders(n) \in SUBSET Stacks /\ Holders(n) \ {s} \in SUBSET Stacks
          /\ Main \in Stacks \ (Holders(n) \ {s})
      BY <1>12, <2>2 DEF Holders, Stacks
    <3>2. Cardinality(Holders(n) \ {s}) = Cardinality(Holders(n)) - 1
      BY <1>12, <3>1, Counted
    <3>3. Cardinality(Holders(n)') = Cardinality(Holders(n) \ {s}) + 1
      BY <1>12, <3>1, Counted
    <3>4. Cardinality(Holders(n)') = Cardinality(Holders(n))
      BY <3>1, <3>2, <3>3, Counted
    <3>. QED BY <1>12, <3>4
  <2>. QED BY <2>1, <2>2
<1>14. ReadyExactlyOnce'
  BY <1>4, <1>10, <1>13, Books DEF ReadyExactlyOnce
<1>15. ContextsSound'
  <2>1. ASSUME NEW t \in Threads PROVE SoundContext(ctx(t), t)' /\ frame'[t].stack = t
    <3>1. CASE t = s
      <4>1. ctx(t)' = Resumption /\ frame'[t] = Resumption
        BY <1>7, <1>8, <3>1
      <4>2. SoundContext(cpu, t) /\ t \in Terminating \cup (Threads \ finished)
        BY <1>1, <1>2, <3>1, AllAdmitted
      <4>. QED BY <1>4, <1>5, <3>1, <4>1, <4>2 DEF SoundContext
    <3>2. CASE t # s
      <4>1. ctx(t)' = ctx(t) /\ frame'[t] = frame[t]
        BY <1>7, <1>8, <3>2
      <4>. QED BY <1>4, <4>1, Where DEF SoundContext
    <3>. QED BY <3>1, <3>2
  <2>. QED BY <2>1 DEF ContextsSound
<1>16. CpuSound' /\ MainlineSound'
  BY <1>1, <1>4 DEF IInv, CpuSound, MainlineSound
<1>17. \A t \in Threads : frame'[t] = frame[t] \/ frame'[t].at \in {"body", "gone"}
  BY <1>5, <1>7
<1>. QED BY <1>14, <1>15, <1>16, <1>17 DEF Sound

\* The thread switched to is the one that was dequeued.
LEMMA load_contextKeeps ==
    ASSUME IInv, Intact, Intact', load_context
    PROVE  /\ Sound' /\ cpu'.stack = cpu.thr /\ cpu.thr \in Threads
           /\ cpu' = frame[cpu.thr] /\ cpu'.at \notin {"load", "boot"}
           /\ SoundContext(cpu', cpu'.stack)
<1> USE Numbers
<1>1. PICK n \in Threads : n = cpu.thr
  BY Where DEF load_context
<1>2. /\ cpu.at = "load" /\ current_thread = n /\ cpu' = frame[n] /\ frame' = frame
      /\ q' = q /\ current_thread' = current_thread /\ next' = next
      /\ finished' = finished
  BY <1>1, Where DEF load_context, esp
<1>3. \A u \in Threads : ctx(u) = frame[u] /\ ~Running(u)
  BY <1>2, Where DEF Running
<1>4. SoundContext(cpu', n) /\ cpu'.stack = n /\ cpu'.at \notin {"load", "boot"}
  <2>1. SoundContext(frame[n], n)
    BY <1>3, Where
  <2>. QED BY <1>2, <2>1 DEF SoundContext
<1>5. /\ \A u \in Threads : /\ ctx(u)' = ctx(u) /\ (Running(u)' <=> u = n)
      /\ ctx(Main)' = Gone /\ ctx(Main) = cpu
  BY <1>2, <1>3, <1>4 DEF ctx, Running, Between, esp
<1>6. /\ \A u \in Threads : \A t : Holds(u, t)' <=> Holds(u, t)
      /\ \A t : ~Holds(Main, t)' /\ (Holds(Main, t) <=> t = n)
  BY <1>1, <1>2, <1>5 DEF Holds, Gone
<1>7. /\ Holders(n)' = Holders(n) \ {Main} /\ Main \in Holders(n)
      /\ \A t : t # n => Holders(t)' = Holders(t)
  BY <1>6 DEF Holders
<1>8. /\ Cardinality(Holders(n)') = Cardinality(Holders(n)) - 1
      /\ Cardinality(Holders(n)) # 0
  <2>1. Holders(n) \in SUBSET Stacks
    BY DEF Holders, Stacks
  <2>2. Cardinality(Holders(n)) # 0
    BY <1>7, <2>1, Counted, FS_EmptySet
  <2>. QED BY <1>7, <2>1, <2>2, Counted
<1>9. Admitted' = Admitted /\ Admitted = Threads
  BY <1>2, <1>4, AllAdmitted DEF Admitted
<1>10. Turns(n) >= 1
  BY <1>8, Books
<1>11. ctx(n).at # "gone"
  BY <1>10 DEF Turns
<1>12. ASSUME NEW t \in Threads PROVE Turns(t)' = IF t = n THEN Turns(n) - 1 ELSE Turns(t)
  <2>1. Asking(t)' <=> Asking(t)
    BY <1>2, <1>5 DEF Asking
  <2>2. CASE t = n
    BY <1>3, <1>5, <1>9, <1>11, <2>1, <2>2 DEF Turns, One
  <2>3. CASE t # n
    BY <1>3, <1>5, <1>9, <2>1, <2>3 DEF Turns, One
  <2>. QED BY <2>2, <2>3
<1>13. ASSUME NEW t \in Threads
       PROVE  Cardinality(Places(q, t)) + Cardinality(Holders(t)') = Turns(t)'
  <2>1. /\ Cardinality(Places(q, t)) + Cardinality(Holders(t)) = Turns(t)
        /\ Cardinality(Holders(t)) \in Nat /\ Cardinality(Places(q, t)) \in Nat
        /\ Turns(t) \in 0 .. 2
    BY Books
  <2>2. CASE t = n
    BY <1>8, <1>12, <2>1, <2>2
  <2>3. CASE t # n
    BY <1>7, <1>12, <2>1, <2>3
  <2>. QED BY <2>2, <2>3
<1>14. ReadyExactlyOnce'
  BY <1>2, <1>13, Books DEF ReadyExactlyOnce
<1>15. ContextsSound'
  <2>1. ASSUME NEW t \in Threads PROVE SoundContext(ctx(t), t)' /\ frame'[t].stack = t
    BY <1>2, <1>5, Where DEF SoundContext
  <2>. QED BY <2>1 DEF ContextsSound
<1>16. CpuSound'
  <2>1. ctx(n) = frame[n] /\ cpu'.at # "gone"
    BY <1>2, <1>3, <1>11
  <2>2. /\ cpu'.stack = current_thread' /\ cpu'.stack # Main
        /\ cpu'.ints = (cpu'.at # "start")
    BY <1>2, <1>4 DEF SoundContext
  <2>. QED BY <1>4, <2>1, <2>2 DEF CpuSound
<1>17. MainlineSound'
  <2>1. next = N + 1 /\ finished \subseteq Terminating
    BY <1>2, AllAdmitted
  <2>. QED BY <1>2, <1>4, <2>1 DEF MainlineSound
<1>. QED BY <1>1, <1>2, <1>4, <1>14, <1>15, <1>16, <1>17 DEF Sound

\* A tick that is not fatal is noticed by nobody.
LEMMA tickKeeps ==
    ASSUME IInv, Intact, Intact', tick PROVE Sound' /\ cpu' = cpu
<1>1. cpu' = cpu
  <2>1. cpu' = cpu \/ cpu' = [cpu EXCEPT !.at = "smashed"]
    BY DEF tick, Interrupted
  <2>2. cpu' = [cpu EXCEPT !.at = "smashed"] => cpu'.at = "smashed"
    BY Where DEF Context
  <2>. QED BY <2>1, <2>2 DEF tick, Intact
<1>2. UNCHANGED <<q, current_thread, cpu, frame, next, finished>>
  BY <1>1 DEF tick
<1>. QED BY <1>1, <1>2, CounterStep

\* Where a turn can end.
LEMMA EndOfTurn ==
    ASSUME IInv, Intact, Intact', preempt
    PROVE  /\ cpu.at \in {"body", "shutdown", "yield", "save"}
           /\ cpu.stack \in Threads /\ current_thread = cpu.stack
           /\ SoundContext(cpu, cpu.stack)
           /\ frame' = [frame EXCEPT ![cpu.stack] = cpu]
           /\ struck' = {} => cpu.at \in {"body", "shutdown"}
<1>1. PICK c \in Interrupted : /\ frame' = Saved(c)
                               /\ struck' = IF c.at \in {"body", "shutdown"} THEN struck
                                            ELSE struck \cup {Hit(c)}
  BY DEF preempt
<1>2. \/ c.at \in {"body", "shutdown"} /\ struck' = struck
      \/ /\ c.stack # Main /\ c.at \in {"yield", "save"}
         /\ struck' = struck \cup {"passing"}
  BY <1>1 DEF Hit, Intact
<1>3. c = cpu
  <2>1. c = cpu \/ c = [cpu EXCEPT !.at = "smashed"]
    BY DEF Interrupted
  <2>2. c = [cpu EXCEPT !.at = "smashed"] => c.at = "smashed"
    BY Where DEF Context
  <2>. QED BY <1>2, <2>1, <2>2
<1>4. /\ cpu.at \in {"body", "shutdown", "yield", "save"} /\ cpu.stack # Main
      /\ struck' = {} => cpu.at \in {"body", "shutdown"}
  BY <1>2, <1>3, Where
<1>5. cpu.stack \in Threads /\ current_thread = cpu.stack /\ SoundContext(cpu, cpu.stack)
  BY <1>4, Where
<1>. QED BY <1>1, <1>3, <1>4, <1>5 DEF Saved, tcb

\* A turn that ends, even while its thread passes the processor on, gives the thread
\* another one and the processor to the thread in front.
LEMMA preemptKeeps ==
    ASSUME IInv, Intact, Intact', preempt
    PROVE  /\ Sound' /\ q.tail \in 0 .. MAX_THREADS - 1
           /\ q' = dequeue(enqueue(q, cpu.stack))
           /\ cpu'.stack = first(enqueue(q, cpu.stack))
           /\ cpu'.stack \in Threads /\ cpu' = frame'[cpu'.stack]
           /\ cpu'.at \notin {"load", "boot"} /\ SoundContext(cpu', cpu'.stack)
<1> USE Numbers
<1>1. PICK s \in Threads : s = cpu.stack
  BY EndOfTurn
<1> DEFINE r == enqueue(q, s)
<1>2. /\ cpu.at \in {"body", "shutdown", "yield", "save"} /\ current_thread = s
      /\ SoundContext(cpu, s) /\ frame' = [frame EXCEPT ![s] = cpu]
      /\ q' = dequeue(r) /\ current_thread' = first(r) /\ cpu' = esp(frame', first(r))
      /\ next' = next /\ finished' = finished
  BY <1>1, EndOfTurn DEF preempt, Resumed
<1>3. /\ ctx(s) = cpu /\ Running(s)
      /\ \A u \in Threads : /\ ctx(u) = frame'[u] /\ (Running(u) <=> u = s)
      /\ ctx(Main) = Gone
  <2>1. frame \in [Threads -> Context]
    BY DEF IInv, TypeOK
  <2>. QED BY <1>1, <1>2, <2>1 DEF ctx, Running, Between, esp
<1>4. Cardinality(Places(q, s)) <= 1
  <2>1. Turns(s) <= 1
    BY <1>3 DEF Turns, One
  <2>. QED BY <2>1, Books
<1>5. q.tail \in 0 .. MAX_THREADS - 1
  BY <1>4, Books, RoomFor
<1>6. /\ r \in Queues(Threads \cup {NULL, Junk}) /\ r.tail = q.tail + 1
      /\ Waiting(r) \subseteq Threads
      /\ Cardinality(Places(r, s)) = Cardinality(Places(q, s)) + 1
      /\ \A u : u # s => Places(r, u) = Places(q, u)
  BY <1>5, Books, EnqueueCounts
<1>7. r.tail \in 1 .. MAX_THREADS
  BY <1>5, <1>6
<1> HIDE DEF r
<1>8. PICK n \in Threads : n = first(r)
  BY <1>6, <1>7, NextInLine
<1>9. /\ q'.tail \in 0 .. MAX_THREADS /\ Waiting(q') \subseteq Threads
      /\ Cardinality(Places(r, n)) = Cardinality(Places(q', n)) + 1
      /\ \A u : u # n => Cardinality(Places(q', u)) = Cardinality(Places(r, u))
      /\ Cardinality(Places(q', n)) \in Nat /\ Cardinality(Places(r, n)) # 0
  BY <1>2, <1>6, <1>7, <1>8, NextInLine
<1>10. /\ cpu' = frame'[n] /\ SoundContext(cpu', n) /\ cpu'.stack = n
       /\ cpu'.at \notin {"load", "boot"}
  <2>1. cpu' = frame'[n]
    BY <1>2, <1>8 DEF esp
  <2>2. SoundContext(frame'[n], n)
    BY <1>3, Where
  <2>. QED BY <2>1, <2>2 DEF SoundContext
<1>11. /\ \A u \in Threads : ctx(u)' = ctx(u) /\ (Running(u)' <=> u = n)
       /\ ctx(Main)' = Gone
  BY <1>3, <1>10 DEF ctx, Running, Between, esp
<1>12. \A t : Holders(t)' = Holders(t)
  <2>1. \A u \in Stacks : \A t : Holds(u, t)' <=> Holds(u, t)
    BY <1>3, <1>11 DEF Holds, Stacks
  <2>. QED BY <2>1 DEF Holders, Stacks
<1>13. Admitted' = Admitted /\ Admitted = Threads /\ finished \subseteq Terminating
       /\ next = N + 1
  BY <1>2, <1>10, AllAdmitted DEF Admitted
<1>14. ctx(n).at # "gone"
  <2>1. CASE n = s
    BY <1>2, <1>3, <2>1
  <2>2. CASE n # s
    <3>1. Cardinality(Places(q, n)) # 0
      BY <1>6, <1>9, <2>2
    <3>2. Turns(n) # 0
      BY <3>1, Books
    <3>. QED BY <3>2 DEF Turns
  <2>. QED BY <2>1, <2>2
<1>15. \A t \in Threads : Asking(t)' <=> Asking(t)
  BY <1>2, <1>11 DEF Asking
<1>16. ASSUME NEW t \in Threads
       PROVE  Turns(t)' = IF s = n THEN Turns(t)
                          ELSE IF t = s THEN Turns(t) + 1
                          ELSE IF t = n THEN Turns(t) - 1 ELSE Turns(t)
  <2>1. ctx(t)' = ctx(t) /\ (Asking(t)' <=> Asking(t)) /\ t \in Admitted /\ t \in Admitted'
    BY <1>11, <1>13, <1>15
  <2>2. (Running(t) <=> t = s) /\ (Running(t)' <=> t = n)
    BY <1>3, <1>11
  <2>3. ctx(s).at # "gone"
    BY <1>2, <1>3
  <2>. QED BY <1>14, <2>1, <2>2, <2>3 DEF Turns, One
<1>17. ASSUME NEW t \in Threads
       PROVE  Cardinality(Places(q', t)) + Cardinality(Holders(t)') = Turns(t)'
  <2>1. /\ Cardinality(Places(q, t)) + Cardinality(Holders(t)) = Turns(t)
        /\ Cardinality(Holders(t)) \in Nat /\ Cardinality(Places(q, t)) \in Nat
        /\ Turns(t) \in 0 .. 2 /\ Cardinality(Holders(t)') = Cardinality(Holders(t))
    BY <1>12, Books
  <2>2. CASE s = n
    <3>1. Turns(t)' = Turns(t)
      BY <1>16, <2>2
    <3>2. Cardinality(Places(q', t)) = Cardinality(Places(q, t))
      BY <1>6, <1>9, <2>1, <2>2
    <3>. QED BY <2>1, <3>1, <3>2
  <2>3. CASE s # n /\ t = s
    <3>1. Turns(t)' = Turns(t) + 1
      BY <1>16, <2>3
    <3>2. Cardinality(Places(q', t)) = Cardinality(Places(q, t)) + 1
      BY <1>6, <1>9, <2>3
    <3>. QED BY <2>1, <3>1, <3>2
  <2>4. CASE s # n /\ t = n
    <3>1. Turns(t)' = Turns(t) - 1
      BY <1>16, <2>4
    <3>2. Cardinality(Places(q, t)) = Cardinality(Places(q', t)) + 1
      BY <1>6, <1>9, <2>4
    <3>3. Cardinality(Places(q', t)) = Cardinality(Places(q, t)) - 1
      BY <1>9, <2>4, <3>2
    <3>. QED BY <2>1, <3>1, <3>3
  <2>5. CASE t # s /\ t # n
    <3>1. Turns(t)' = Turns(t)
      BY <1>16, <2>5
    <3>2. Cardinality(Places(q', t)) = Cardinality(Places(q, t))
      BY <1>6, <1>9, <2>5
    <3>. QED BY <2>1, <3>1, <3>2
  <2>. QED BY <2>2, <2>3, <2>4, <2>5
<1>18. ReadyExactlyOnce'
  BY <1>9, <1>17 DEF ReadyExactlyOnce
<1>19. ContextsSound'
  <2>1. ASSUME NEW t \in Threads PROVE SoundContext(ctx(t), t)' /\ frame'[t].stack = t
    <3>1. SoundContext(ctx(t), t)
      BY Where
    <3>2. ctx(t)' = ctx(t) /\ frame'[t] = ctx(t) /\ finished' = finished
      BY <1>2, <1>3, <1>11
    <3>. QED BY <3>1, <3>2 DEF SoundContext
  <2>. QED BY <2>1 DEF ContextsSound
<1>20. CpuSound'
  <2>1. cpu'.at # "gone"
    BY <1>3, <1>10, <1>14
  <2>2. /\ cpu'.stack = current_thread' /\ cpu'.stack # Main
        /\ cpu'.ints = (cpu'.at # "start")
    BY <1>2, <1>8, <1>10 DEF SoundContext
  <2>. QED BY <1>10, <2>1, <2>2 DEF CpuSound
<1>21. MainlineSound'
  BY <1>2, <1>10, <1>13 DEF MainlineSound
<1>. QED BY <1>1, <1>2, <1>5, <1>8, <1>10, <1>18, <1>19, <1>20, <1>21 DEF Sound, r

\* What an interrupt has once spoilt stays spoilt.
LEMMA StruckGrows == ASSUME [Next]_vars PROVE struck \subseteq struck'
BY DEF Next, Mainline, Timer, vars, add, kick_off, thread_start, pass_on_CPU,
   next_burst, function_returns, thread_shutdown, yield, save_context, load_context,
   tick, preempt

LEMMA NextKeeps ==
    ASSUME IInv, [Next]_vars PROVE IInv'
<1>1. TypeOK' /\ TypeSound'
  BY TypesKept DEF IInv
<1>2. ASSUME Intact' PROVE Sound'
  <2>1. Intact
    BY <1>2, StruckGrows DEF Intact
  <2>2. CASE add \/ kick_off \/ thread_start \/ function_returns
    BY <1>2, <2>1, <2>2, addKeeps, kick_offKeeps, thread_startKeeps, function_returnsKeeps
  <2>3. CASE pass_on_CPU \/ thread_shutdown \/ yield \/ save_context \/ load_context
    BY <1>2, <2>1, <2>3, pass_on_CPUKeeps, thread_shutdownKeeps, yieldKeeps,
       save_contextKeeps, load_contextKeeps
  <2>4. CASE tick \/ preempt
    BY <1>2, <2>1, <2>4, tickKeeps, preemptKeeps
  <2>5. CASE next_burst \/ UNCHANGED vars
    <3>1. UNCHANGED <<q, current_thread, cpu, frame, next, finished>>
      BY <2>5 DEF next_burst, vars
    <3>. QED BY <1>2, <2>1, <3>1, CounterStep
  <2>. QED BY <2>2, <2>3, <2>4, <2>5 DEF Next, Mainline, Timer
<1>3. CASE Intact'
  BY <1>1, <1>2, <1>3 DEF IInv, Sound
<1>4. CASE ~Intact'
  BY <1>1, <1>4 DEF IInv, ReadyExactlyOnce
<1>. QED BY <1>3, <1>4

-----------------------------------------------------------------------------
\* The inductive invariant holds in every reachable state.
THEOREM Invariance == Safe => []IInv
BY InitHolds, NextKeeps, PTL DEF Safe

\* Every variable keeps its type, whatever instruction interrupts come at: the
\* positions, the queue cells and the tick counter of the timer stay in their ranges.
THEOREM TypeCorrect == Safe => []TypeOK
<1>1. IInv => TypeOK
  BY DEF IInv
<1>. QED BY <1>1, Invariance, PTL

\* The scheduler neither loses nor duplicates a thread and its queue of MAX_THREADS
\* cells never overflows, also when turns end in the middle of yield(), between
\* resume() or terminate() and the store of esp; what would break it is an interrupt
\* that smashes a return address, ends a turn between the two loads or ends main().
THEOREM NoThreadLostOrDoubled == Safe => []ReadyExactlyOnce
<1>1. IInv => ReadyExactlyOnce
  BY DEF IInv
<1>. QED BY <1>1, Invariance, PTL

\* Up to such an interrupt, a thread's control block holds a stack pointer into
\* its own stack, and the processor is on the stack of current_thread.
THEOREM StacksNotMixed == Safe => []OwnStack
<1>1. IInv => OwnStack
  BY Where DEF OwnStack
<1>. QED BY <1>1, Invariance, PTL

\* Up to such an interrupt, a thread that has terminated gets the processor only to
\* pass it on: the stale pointers a turn ending after terminate() leaves in the queue
\* never make it return from thread_shutdown().
THEOREM DeadStayDead == Safe => FinishedForGood
<1>1. ASSUME IInv, IInv', [Next]_vars
      PROVE  [Intact' => \A t \in finished : cpu.stack # t /\ cpu'.stack = t =>
                                              cpu'.at \in {"yield", "save"}]_vars
  <2>1. SUFFICES ASSUME Intact', Next, NEW t \in finished, cpu.stack # t, cpu'.stack = t
                 PROVE  cpu'.at \in {"yield", "save"}
    BY <1>1
  <2>2. Intact /\ cpu \in Context /\ finished \subseteq Threads
    BY <1>1, <2>1, StruckGrows DEF Intact, IInv, TypeOK
  <2>3. load_context \/ preempt
    <3>1. ASSUME ~load_context, ~preempt PROVE cpu'.stack = cpu.stack
      BY <2>1, <2>2, <3>1 DEF Next, Mainline, Timer, add, kick_off, thread_start,
         pass_on_CPU, next_burst, function_returns, thread_shutdown, yield,
         save_context, tick, Interrupted, Context
    <3>. QED BY <2>1, <3>1
  <2>4. cpu'.at # "load" /\ SoundContext(cpu', t) /\ t \in finished'
    BY <1>1, <2>1, <2>2, <2>3, load_contextKeeps, preemptKeeps DEF load_context, preempt
  <2>5. /\ ctx(t)' = cpu' /\ cpu'.at # "gone" /\ SoundContext(ctx(t), t)'
    BY <1>1, <2>1, <2>2, <2>4 DEF IInv, CpuSound, ContextsSound, ctx, Running
  <2>. QED BY <2>4, <2>5 DEF SoundContext
<1>. QED BY <1>1, Invariance, PTL DEF Safe, FinishedForGood

-----------------------------------------------------------------------------
(* The scheduler implements RoundRobin.  First LineSound, then what each    *)
(* step is in RoundRobin, as long as no turn ends inside yield().           *)

LEMMA Calm ==
    ASSUME Undisturbed', [Next]_vars PROVE Undisturbed /\ Intact /\ Intact'
BY StruckGrows DEF Undisturbed, Intact

LEMMA LineSoundInit == Init => LineSound
BY DEF Init, LineSound, newRqueue, Yielding, setup_context

LEMMA LineSoundKept ==
    ASSUME IInv, LineSound, [Next]_vars PROVE LineSound'
<1> USE Numbers
<1>1. SUFFICES ASSUME Undisturbed'
               PROVE  /\ cpu'.at = "boot" => q'.tail = next' - 2
                      /\ Yielding' => q'.tail >= 1 /\ cell(q', q'.tail - 1) = cpu'.stack
                      /\ \A t \in Threads :
                           frame'[t].at \in {"start", "body", "shutdown", "gone"}
  BY DEF LineSound
<1>2. /\ Intact /\ Intact' /\ cpu \in Context /\ q \in Queues(Threads \cup {NULL, Junk})
      /\ next \in Int /\ frame \in [Threads -> Context]
      /\ cpu.at = "boot" => q.tail = next - 2
      /\ Yielding => q.tail >= 1 /\ cell(q, q.tail - 1) = cpu.stack
      /\ \A t \in Threads : frame[t].at \in {"start", "body", "shutdown", "gone"}
  BY <1>1, Calm DEF LineSound, IInv, TypeOK
<1>3. CASE add
  BY <1>2, <1>3 DEF add, Yielding, enqueue, Queues
<1>4. CASE pass_on_CPU
  <2>1. /\ q' = enqueue(q, cpu.stack) /\ cpu'.at = "yield" /\ cpu'.stack = cpu.stack
        /\ q.tail \in 0 .. MAX_THREADS - 1 /\ frame' = frame
    BY <1>2, <1>4, pass_on_CPUKeeps DEF pass_on_CPU
  <2>2. q'.tail = q.tail + 1 /\ cell(q', q.tail) = cpu.stack
    BY <1>2, <2>1 DEF enqueue, cell, Queues, Slots
  <2>3. q'.tail >= 1 /\ q'.tail - 1 = q.tail
    BY <2>1, <2>2
  <2>. QED BY <1>2, <2>1, <2>2, <2>3
<1>5. CASE thread_shutdown
  <2>1. /\ cpu'.at = "yield" /\ cpu'.stack = cpu.stack /\ cpu'.stack \in finished'
        /\ frame' = frame
    BY <1>2, <1>5, thread_shutdownKeeps DEF thread_shutdown
  <2>. QED BY <1>2, <2>1 DEF Yielding
<1>6. CASE yield \/ kick_off \/ thread_start \/ function_returns
  <2>1. cpu'.at \notin {"boot", "yield"} /\ frame' = frame
    BY <1>2, <1>6 DEF yield, kick_off, thread_start, function_returns, Context
  <2>. QED BY <1>2, <2>1 DEF Yielding
<1>7. CASE save_context
  <2>1. cpu'.at = "load"
    BY <1>2, <1>7 DEF save_context, Context
  <2>. QED BY <1>2, <1>7, <2>1, save_contextKeeps DEF Yielding
<1>8. CASE next_burst \/ tick \/ UNCHANGED vars
  <2>1. cpu' = cpu /\ q' = q /\ next' = next /\ finished' = finished /\ frame' = frame
    <3>1. CASE tick
      BY <1>2, <3>1, tickKeeps DEF tick
    <3>2. CASE next_burst \/ UNCHANGED vars
      BY <3>2 DEF next_burst, vars
    <3>. QED BY <1>8, <3>1, <3>2
  <2>. QED BY <1>2, <2>1 DEF Yielding
<1>9. CASE load_context
  <2>1. cpu'.at \notin {"boot", "yield"} /\ frame' = frame
    BY <1>2, <1>9, load_contextKeeps DEF load_context
  <2>. QED BY <1>2, <2>1 DEF Yielding
<1>10. CASE preempt
  <2>1. /\ cpu.at \in {"body", "shutdown"} /\ frame' = [frame EXCEPT ![cpu.stack] = cpu]
        /\ cpu'.stack \in Threads /\ cpu' = frame'[cpu'.stack]
    BY <1>1, <1>2, <1>10, EndOfTurn, preemptKeeps DEF Undisturbed
  <2>2. \A t \in Threads : frame'[t].at \in {"start", "body", "shutdown", "gone"}
    BY <1>2, <2>1
  <2>3. cpu'.at \notin {"boot", "yield"}
    BY <2>1, <2>2
  <2>. QED BY <2>2, <2>3 DEF Yielding
<1>. QED BY <1>3, <1>4, <1>5, <1>6, <1>7, <1>8, <1>9, <1>10 DEF Next, Mainline, Timer

\* The line of RoundRobin is that of the queue, up to a runner that has put itself
\* at its end.
LEMMA Contents ==
    ASSUME NEW r, r.tail \in Int, NEW n \in Int, n <= r.tail
    PROVE  [i \in 1 .. n |-> [j \in 1 .. r.tail |-> cell(r, j - 1)][i]] = Line(r, n)
<1> DEFINE f == [j \in 1 .. r.tail |-> cell(r, j - 1)]
<1>1. \A i \in 1 .. n : f[i] = cell(r, i - 1)
  OBVIOUS
<1> HIDE DEF f
<1>2. [i \in 1 .. n |-> f[i]] = [i \in 1 .. n |-> cell(r, i - 1)]
  BY <1>1
<1>. QED BY <1>2 DEF Line, f

LEMMA AbsReady ==
    ASSUME q.tail \in Int, q'.tail \in Int
    PROVE  /\ absReady = Line(q, IF Yielding THEN q.tail - 1 ELSE q.tail)
           /\ absReady' = Line(q', IF Yielding' THEN q'.tail - 1 ELSE q'.tail)
<1>1. ASSUME NEW r, r.tail \in Int
      PROVE  [i \in 1 .. r.tail - 1 |-> [j \in 1 .. r.tail |-> cell(r, j - 1)][i]]
             = Line(r, r.tail - 1)
  <2>1. r.tail - 1 \in Int /\ r.tail - 1 <= r.tail
    BY <1>1
  <2>. QED BY <1>1, <2>1, Contents
<1>2. absReady = IF Yielding THEN Line(q, q.tail - 1) ELSE Line(q, q.tail)
  BY <1>1 DEF absReady, Content, Line
<1>3. absReady' = IF Yielding' THEN Line(q', q'.tail - 1) ELSE Line(q', q'.tail)
  BY <1>1 DEF absReady, Content, Line
<1>. QED BY <1>2, <1>3

LEMMA Changes ==
    ASSUME Undisturbed', IInv, LineSound, [Next]_vars
    PROVE  /\ q \in Queues(Threads \cup {NULL, Junk}) /\ q.tail \in 0 .. MAX_THREADS
           /\ q' \in Queues(Threads \cup {NULL, Junk}) /\ q'.tail \in 0 .. MAX_THREADS
           /\ cpu \in Context /\ next \in 2 .. N + 1 /\ IInv' /\ LineSound'
           /\ Intact /\ Intact'
           /\ absReady = Line(q, IF Yielding THEN q.tail - 1 ELSE q.tail)
           /\ absReady' = Line(q', IF Yielding' THEN q'.tail - 1 ELSE q'.tail)
<1>1. IInv' /\ LineSound' /\ Intact /\ Intact'
  BY NextKeeps, LineSoundKept, Calm
<1>2. /\ q \in Queues(Threads \cup {NULL, Junk}) /\ q.tail \in 0 .. MAX_THREADS
      /\ q' \in Queues(Threads \cup {NULL, Junk}) /\ q'.tail \in 0 .. MAX_THREADS
      /\ cpu \in Context /\ next \in 2 .. N + 1
  BY <1>1 DEF IInv, TypeOK, ReadyExactlyOnce
<1>3. q.tail \in Int /\ q'.tail \in Int
  BY <1>2, Numbers
<1>. QED BY <1>1, <1>2, <1>3, AbsReady

\* The turn passes to the front of the line from a runner at its end, the last of
\* the m + 1 in the queue.
LEMMA TurnPasses ==
    ASSUME NEW S, NEW r \in Queues(S), Junk \in S, NULL \in S, NEW t,
           NEW m \in 0 .. MAX_THREADS - 1, r.tail = m + 1, cell(r, m) = t
    PROVE  /\ Line(dequeue(r), m) = Tail(Append(Line(r, m), t))
           /\ first(r) = Head(Append(Line(r, m), t))
           /\ m = 0 => first(r) = t /\ Line(dequeue(r), m) = Line(r, m)
           /\ m # 0 => /\ Line(r, m) # <<>>
                       /\ first(r) = Head(Line(r, m))
                       /\ Line(dequeue(r), m) = Append(Tail(Line(r, m)), t)
<1>1. m \in Nat /\ m + 1 \in Nat \ {0} /\ (m + 1) - 1 = m /\ m + 1 \in 1 .. MAX_THREADS
  BY Numbers
<1>2. Line(r, m + 1) = Append(Line(r, m), t)
  <2>1. Line(r, m + 1) = Append(Line(r, (m + 1) - 1), cell(r, (m + 1) - 1))
    BY <1>1, LastOfLine
  <2>. QED BY <1>1, <2>1
<1>3. /\ Head(Line(r, m + 1)) = first(r)
      /\ Line(dequeue(r), (m + 1) - 1) = Tail(Line(r, m + 1))
  BY <1>1, DequeueAtFront
<1>4. Line(r, m) \in Seq(S) /\ Len(Line(r, m)) = m
  BY <1>1, LineIsSeq
<1>5. /\ Head(Append(Line(r, m), t))
            = IF Line(r, m) = <<>> THEN t ELSE Head(Line(r, m))
      /\ Tail(Append(Line(r, m), t))
            = IF Line(r, m) = <<>> THEN <<>> ELSE Append(Tail(Line(r, m)), t)
  BY <1>4, HeadTailAppend
<1>6. Line(r, m) = <<>> <=> m = 0
  BY <1>1, <1>4, EmptySeq
<1>. QED BY <1>1, <1>2, <1>3, <1>5, <1>6

LEMMA StartMaps == Init => RR!Init
<1>1. ASSUME Init PROVE RR!Init
  <2>1. q.tail = 0 /\ q.tail \in Int
    BY <1>1 DEF Init, newRqueue
  <2>2. Content = <<>> /\ ~Yielding
    BY <1>1, <2>1 DEF Init, Content, Yielding
  <2>. QED BY <1>1, <2>2 DEF Init, RR!Init, RR!Nobody, Main, absReady, absRunner, absDone
<1>. QED BY <1>1

\* main() adds at the end of the line, and passes the processor to thread 1.
LEMMA BootMaps ==
    ASSUME Undisturbed', IInv, LineSound, add \/ kick_off
    PROVE  RR!Next
<1> USE Numbers
<1>0. [Next]_vars
  BY DEF Next, Mainline
<1>1. /\ cpu.at = "boot" /\ cpu.stack = Main /\ ~Yielding /\ q.tail = next - 2
  BY <1>0, Changes DEF add, kick_off, IInv, CpuSound, LineSound, Yielding, Undisturbed
<1>2. ~Yielding'
  BY <1>0, Changes DEF add, kick_off, Yielding, Context
<1>3. absReady = Line(q, q.tail) /\ absReady' = Line(q', q'.tail) /\ q.tail \in Nat
  BY <1>0, <1>1, <1>2, Changes
<1>4. Len(absReady) = next - 2
  BY <1>0, <1>1, <1>3, Changes, LineIsSeq
<1>5. absRunner = RR!Nobody /\ absDone = finished
  BY <1>1 DEF absRunner, absDone, RR!Nobody, Main
<1>6. CASE add
  <2>1. q' = enqueue(q, next) /\ q'.tail = q.tail + 1 /\ next <= N
        /\ q.tail \in 0 .. MAX_THREADS - 1 /\ next \in Threads
    BY <1>0, <1>1, <1>6, Changes DEF add, enqueue, Threads
  <2>2. absReady' = Append(absReady, Len(absReady) + 2)
    <3>1. Line(q', q.tail + 1) = Append(Line(q, q.tail), next)
      BY SMTT(30), <1>0, <2>1, Changes, EnqueueAtEnd
    <3>2. Len(absReady) + 2 = next
      BY <1>0, <1>4, Changes
    <3>. QED BY <1>3, <2>1, <3>1, <3>2
  <2>3. absRunner' = absRunner /\ absDone' = absDone
    BY <1>6 DEF add, absRunner, absDone
  <2>4. Len(absReady) < N - 1
    BY <1>0, <1>4, <2>1, Changes
  <2>. QED BY <1>5, <2>2, <2>3, <2>4 DEF RR!Next, RR!Add
<1>7. CASE kick_off
  <2>1. absRunner' = 1 /\ absDone' = absDone /\ absReady' = absReady
    BY <1>0, <1>1, <1>3, <1>7, Changes DEF kick_off, absRunner, absDone, Context
  <2>2. Len(absReady) = N - 1
    BY <1>0, <1>4, <1>7, Changes DEF kick_off
  <2>. QED BY <1>5, <2>1, <2>2 DEF RR!Next, RR!KickOff
<1>. QED BY <1>6, <1>7

\* A thread that has put itself last passes the turn on, if only to itself, and one
\* that has terminated leaves it for good.
LEMMA YieldMaps ==
    ASSUME Undisturbed', IInv, LineSound, yield
    PROVE  [RR!Next]_(RR!vars)
<1> USE Numbers
<1>0. [Next]_vars
  BY DEF Next, Mainline
<1>1. /\ cpu.at = "yield" /\ cpu.stack \in Threads /\ q' = dequeue(q)
      /\ cpu'.at = "save" /\ cpu'.thr = first(q) /\ finished' = finished
  BY <1>0, Changes, yieldKeeps DEF yield
<1>2. /\ absRunner = cpu.stack /\ absRunner' = first(q) /\ absRunner # RR!Nobody
      /\ absDone = finished \ {cpu.stack} /\ absDone' = finished
  BY <1>1 DEF absRunner, absDone, RR!Nobody, Main
<1>3. 1 <= q.tail /\ q.tail <= MAX_THREADS
  BY <1>0, Changes, yieldKeeps
<1>4. ~Yielding' /\ absReady' = Line(dequeue(q), q.tail - 1)
  <2>1. ~Yielding'
    BY <1>1 DEF Yielding
  <2>2. dequeue(q).tail = q.tail - 1
    BY <1>0, <1>3, Changes DEF dequeue
  <2>. QED BY <1>0, <1>1, <2>1, <2>2, Changes
<1>5. CASE Yielding
  <2>1. /\ absReady = Line(q, q.tail - 1) /\ cell(q, q.tail - 1) = cpu.stack
        /\ absDone' = absDone
    <3>1. absReady = Line(q, q.tail - 1)
      BY <1>0, <1>5, Changes
    <3>2. cell(q, q.tail - 1) = cpu.stack
      BY <1>0, <1>5, Calm DEF LineSound
    <3>3. absDone' = absDone
      BY <1>2, <1>5 DEF Yielding
    <3>. QED BY <3>1, <3>2, <3>3
  <2>2. q.tail - 1 \in 0 .. MAX_THREADS - 1 /\ q.tail = (q.tail - 1) + 1
    BY <1>0, <1>3, Changes
  <2>3. /\ q.tail - 1 = 0 => absRunner' = absRunner /\ absReady' = absReady
        /\ q.tail - 1 # 0 => /\ absReady # <<>>
                             /\ absRunner' = Head(absReady)
                             /\ absReady' = Append(Tail(absReady), absRunner)
    <3>1. ASSUME NEW m \in 0 .. MAX_THREADS - 1, q.tail = m + 1, cell(q, m) = cpu.stack
          PROVE  /\ m = 0 => first(q) = cpu.stack /\ Line(dequeue(q), m) = Line(q, m)
                 /\ m # 0 => /\ Line(q, m) # <<>>
                             /\ first(q) = Head(Line(q, m))
                             /\ Line(dequeue(q), m) = Append(Tail(Line(q, m)), cpu.stack)
      BY SMTT(30), <1>0, <3>1, Changes, TurnPasses
    <3>. QED BY <1>2, <1>4, <2>1, <2>2, <3>1
  <2>. QED BY <1>2, <2>1, <2>3 DEF RR!Next, RR!Rotate, RR!vars
<1>6. CASE ~Yielding
  <2>1. absReady = Line(q, q.tail) /\ cpu.stack \in Terminating
    BY <1>0, <1>1, <1>6, Changes DEF IInv, MainlineSound, Yielding
  <2>2. /\ absReady # <<>> /\ absRunner' = Head(absReady) /\ absReady' = Tail(absReady)
    <3>1. q.tail \in 1 .. MAX_THREADS /\ q.tail \in 1 .. q.tail
      BY <1>0, <1>3, Changes
    <3>2. /\ Line(q, q.tail) # <<>>
          /\ Head(Line(q, q.tail)) = first(q)
          /\ Line(dequeue(q), q.tail - 1) = Tail(Line(q, q.tail))
      <4>1. q \in Queues(Threads \cup {NULL, Junk})
        BY <1>0, Changes
      <4>2. Junk \in Threads \cup {NULL, Junk} /\ NULL \in Threads \cup {NULL, Junk}
        OBVIOUS
      <4>. QED BY <3>1, <4>1, <4>2, DequeueAtFront
    <3>. QED BY <1>2, <1>4, <2>1, <3>2
  <2>3. absDone' = absDone \cup {absRunner}
    BY <1>1, <1>2, <1>6 DEF Yielding
  <2>. QED BY <1>2, <2>1, <2>2, <2>3 DEF RR!Next, RR!Finish
<1>. QED BY <1>5, <1>6

\* The interrupt that ends a second puts the runner last and passes the turn on.
LEMMA PreemptMaps ==
    ASSUME Undisturbed', IInv, LineSound, preempt
    PROVE  [RR!Next]_(RR!vars)
<1> USE Numbers
<1> DEFINE r == enqueue(q, cpu.stack)
<1>0. [Next]_vars
  BY DEF Next, Timer
<1>1. /\ cpu.at \in {"body", "shutdown"} /\ q' = dequeue(r) /\ cpu'.stack = first(r)
      /\ cpu'.at \in {"start", "body", "shutdown"} /\ finished' = finished
  <2>1. /\ cpu.at \in {"body", "shutdown"} /\ q' = dequeue(r) /\ cpu'.stack = first(r)
        /\ cpu'.stack \in Threads /\ cpu' = frame'[cpu'.stack]
    BY <1>0, Changes, EndOfTurn, preemptKeeps DEF Undisturbed
  <2>2. cpu'.at \in {"start", "body", "shutdown", "gone"}
    BY <1>0, <2>1, Changes DEF LineSound
  <2>3. cpu'.at # "gone"
    BY <1>0, <2>2, Changes DEF IInv, CpuSound
  <2>. QED BY <2>1, <2>2, <2>3 DEF preempt
<1>2. cpu.stack \in Threads /\ q.tail \in 0 .. MAX_THREADS - 1
  BY <1>0, Changes, EndOfTurn, preemptKeeps
<1>3. /\ absRunner = cpu.stack /\ absRunner' = first(r) /\ absRunner # RR!Nobody
      /\ absDone = finished /\ absDone' = finished /\ ~Yielding /\ ~Yielding'
  BY <1>1, <1>2 DEF absRunner, absDone, RR!Nobody, Main, Yielding
<1>4. /\ r \in Queues(Threads \cup {NULL, Junk}) /\ r.tail = q.tail + 1
      /\ cell(r, q.tail) = cpu.stack
  BY <1>0, <1>2, Changes DEF enqueue, cell, Queues, Slots
<1>5. dequeue(r).tail = q.tail
  BY <1>2, <1>4 DEF dequeue
<1>6. Line(r, q.tail) = Line(q, q.tail)
  BY <1>0, <1>2, Changes, EnqueueAtEnd
<1>7. absReady = Line(r, q.tail) /\ absReady' = Line(dequeue(r), q.tail)
  BY <1>0, <1>1, <1>3, <1>5, <1>6, Changes
<1> HIDE DEF r
<1>8. /\ q.tail = 0 => absRunner' = absRunner /\ absReady' = absReady
      /\ q.tail # 0 => /\ absReady # <<>>
                       /\ absRunner' = Head(absReady)
                       /\ absReady' = Append(Tail(absReady), absRunner)
  BY <1>2, <1>3, <1>4, <1>7, TurnPasses
<1>. QED BY <1>3, <1>8 DEF RR!Next, RR!Rotate, RR!vars

\* No other step passes the turn on.
LEMMA OthersStutter ==
    ASSUME Undisturbed', IInv, LineSound, [Next]_vars,
           ~(add \/ kick_off \/ yield \/ preempt)
    PROVE  UNCHANGED RR!vars
<1> USE Numbers
<1>1. CASE pass_on_CPU
  <2>1. /\ cpu.at = "body" /\ cpu.stack \in Threads \ finished
        /\ q.tail \in 0 .. MAX_THREADS - 1
    BY <1>1, Changes, pass_on_CPUKeeps DEF pass_on_CPU
  <2>2. /\ q' = enqueue(q, cpu.stack) /\ cpu'.at = "yield" /\ cpu'.stack = cpu.stack
        /\ finished' = finished
    BY <1>1, Changes, pass_on_CPUKeeps DEF pass_on_CPU
  <2>3. absRunner' = absRunner /\ absDone' = absDone /\ ~Yielding /\ Yielding'
    BY <2>1, <2>2 DEF absRunner, absDone, Yielding
  <2>4. q'.tail - 1 = q.tail
    BY <2>1, <2>2 DEF enqueue
  <2>5. Line(q', q.tail) = Line(q, q.tail)
    BY <2>1, <2>2, Changes, EnqueueAtEnd
  <2>6. absReady' = absReady
    BY <2>3, <2>4, <2>5, Changes
  <2>. QED BY <2>3, <2>6 DEF RR!vars
<1>2. CASE thread_shutdown
  <2>1. /\ cpu.at = "shutdown" /\ cpu.stack \in Threads \ finished
        /\ current_thread = cpu.stack /\ q' = q
    BY <1>2, Changes, thread_shutdownKeeps DEF thread_shutdown
  <2>2. cpu'.at = "yield" /\ cpu'.stack = cpu.stack /\ finished' = finished \cup {cpu.stack}
    BY <1>2, <2>1, Changes, thread_shutdownKeeps DEF thread_shutdown
  <2>3. absRunner' = absRunner /\ absDone' = absDone /\ ~Yielding /\ ~Yielding'
    BY <2>1, <2>2 DEF absRunner, absDone, Yielding
  <2>. QED BY <2>1, <2>3, Changes DEF RR!vars
<1>3. CASE thread_start \/ function_returns \/ save_context
  <2>1. /\ q' = q /\ finished' = finished /\ cpu.at # "yield" /\ cpu'.at # "yield"
        /\ absRunner' = absRunner
    BY <1>3, Changes, Where DEF thread_start, function_returns, save_context, Context, absRunner
  <2>2. ~Yielding /\ ~Yielding' /\ absDone' = absDone
    BY <2>1 DEF Yielding, absDone
  <2>. QED BY <2>1, <2>2, Changes DEF RR!vars
<1>4. CASE load_context
  <2>1. /\ cpu.at = "load" /\ cpu'.stack = cpu.thr /\ q' = q /\ finished' = finished
        /\ cpu'.at \in {"start", "body", "shutdown", "gone"}
    BY <1>4, Changes, load_contextKeeps DEF load_context, LineSound
  <2>2. ~Yielding /\ ~Yielding' /\ absDone' = absDone /\ absRunner' = absRunner
    BY <2>1 DEF Yielding, absDone, absRunner
  <2>. QED BY <2>1, <2>2, Changes DEF RR!vars
<1>5. CASE next_burst \/ tick \/ UNCHANGED vars
  <2>1. cpu' = cpu /\ q' = q /\ finished' = finished
    <3>1. CASE tick
      BY <3>1, Changes, tickKeeps DEF tick
    <3>2. CASE next_burst \/ UNCHANGED vars
      BY <3>2 DEF next_burst, vars
    <3>. QED BY <1>5, <3>1, <3>2
  <2>. QED BY <2>1 DEF RR!vars, absReady, Content, absRunner, absDone, Yielding
<1>. QED BY <1>1, <1>2, <1>3, <1>4, <1>5 DEF Next, Mainline, Timer

\* As long as no turn ends inside yield(), every step of the scheduler, its stacks,
\* context frames and interrupts hidden, is one of RoundRobin or none: the turn goes
\* round in the order of the line, from the first thread of main() on, through
\* voluntary and forced switches alike.
THEOREM TurnsInOrder == Safe => RoundRobinOrder
<1>1. Init => RR!Init
  BY StartMaps
<1>2. ASSUME IInv, LineSound, [Next]_vars PROVE [Undisturbed' => RR!Next]_(RR!vars)
  <2>1. SUFFICES ASSUME Undisturbed' PROVE [RR!Next]_(RR!vars)
    OBVIOUS
  <2>. QED BY <1>2, <2>1, BootMaps, YieldMaps, PreemptMaps, OthersStutter
<1>3. IInv /\ LineSound /\ [Next]_vars => LineSound'
  BY LineSoundKept
<1>. QED BY <1>1, <1>2, <1>3, LineSoundInit, Invariance, PTL
         DEF Safe, RoundRobinOrder

=============================================================================
