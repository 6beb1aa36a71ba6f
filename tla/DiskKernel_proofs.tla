-------------------------- MODULE DiskKernel_proofs --------------------------
(***************************************************************************)
(* Theorems about DiskKernel for every number of threads, every set of disk*)
(* users and every set of blocks: IInv is inductive as long as one thread  *)
(* never waits for the disk (SomebodyNeverWaits).                          *)
(***************************************************************************)
EXTENDS DiskKernel, Rqueue_proofs

Cells == Threads \cup {NULL, Junk}

\* Threads are numbers above those of NULL and Junk, and both queues have
\* room for all of them.
LEMMA Numbers ==
    /\ N \in Nat /\ N >= 1 /\ MAX_THREADS \in Nat /\ N <= MAX_THREADS
    /\ NULL \notin Threads /\ Junk \notin Threads /\ 1 \in Threads
    /\ IsFiniteSet(Threads) /\ Cardinality(Threads) = N
<1>1. N \in Nat /\ N >= 1 /\ MAX_THREADS \in Nat /\ N <= MAX_THREADS
  BY CountAssumption, MaxThreadsAssumption
<1>2. IsFiniteSet(1 .. N) /\ Cardinality(1 .. N) = N
  <2>1. 1 \in Int /\ N \in Int
    BY <1>1
  <2>2. /\ IsFiniteSet(1 .. N)
        /\ Cardinality(1 .. N) = IF 1 > N THEN 0 ELSE N - 1 + 1
    BY <2>1, FS_Interval
  <2>. QED BY <1>1, <2>2
<1>. QED BY <1>1, <1>2 DEF Threads, NULL, Junk

\* A thread goes into either queue without overflowing it.
LEMMA Admits ==
    ASSUME NEW r \in Queues(Cells), r.tail \in 0 .. N, Distinct(r),
           Waiting(r) \subseteq Threads, NEW t \in Threads, t \notin Waiting(r)
    PROVE  /\ enqueue(r, t) \in Queues(Cells)
           /\ enqueue(r, t).tail \in 1 .. N
           /\ Waiting(enqueue(r, t)) = Waiting(r) \cup {t}
           /\ Distinct(enqueue(r, t))
<1> DEFINE S == Threads \ {t}
<1>1. IsFiniteSet(S) /\ Cardinality(S) = N - 1 /\ Waiting(r) \subseteq S
  BY Numbers, FS_RemoveElement
<1>2. r.tail \in 0 .. MAX_THREADS
  BY Numbers
<1>3. r.tail <= N - 1
  BY <1>1, <1>2, TailBound
<1>4. r.tail \in 0 .. MAX_THREADS - 1 /\ t \in Cells
  BY <1>3, Numbers DEF Cells
<1>5. /\ enqueue(r, t) \in Queues(Cells)
      /\ enqueue(r, t).tail = r.tail + 1
      /\ Waiting(enqueue(r, t)) = Waiting(r) \cup {t}
      /\ Distinct(enqueue(r, t))
  BY <1>4, EnqueueAdds
<1>. QED BY <1>3, <1>5, Numbers

\* In the states the invariant allows, a thread inside the scheduler or
\* stopped is the running one, and there is only one of those.
LEMMA OnlyRunner ==
    ASSUME IInv, NEW t \in Threads, t = current_thread
    PROVE  /\ Gone     <=> at[t] = "gone"
           /\ Yielding <=> at[t] = "yield"
BY DEF IInv, PositionsSound, Gone, Yielding, Runs

\* The same for the next state.
LEMMA OnlyRunnerNext ==
    ASSUME IInv', NEW t \in Threads, t = current_thread'
    PROVE  /\ Gone'     <=> at'[t] = "gone"
           /\ Yielding' <=> at'[t] = "yield"
BY DEF IInv, PositionsSound, Gone, Yielding, Runs

\* With a single user of the disk, two users are the same thread.
LEMMA OneUser ==
    ASSUME Cardinality(DiskUsers) = 1, NEW t \in DiskUsers, NEW u \in DiskUsers
    PROVE  t = u
<1>1. IsFiniteSet(DiskUsers)
  BY Numbers, RolesAssumption, FS_Subset
<1>2. PICK x : DiskUsers = {x}
  BY <1>1, FS_Singleton
<1>. QED BY <1>2

LEMMA InitHolds == Init => IInv
<1> SUFFICES ASSUME Init PROVE IInv
  OBVIOUS
<1> USE Numbers
<1>1. /\ ~Gone /\ ~Yielding /\ current_thread \in Threads
      /\ bq.tail = 0 /\ bq.tail # Junk
  BY DEF Init, Gone, Yielding, Runs, newRqueue, Junk
<1>2. TypeOK
  <2>1. q \in Queues(Threads \cup {NULL, Junk}) /\ q.tail \in 0 .. N
    BY DEF Init, Added, newRqueue, Queues, Slots, Threads
  <2>2. bq \in Queues(Threads \cup {NULL, Junk})
    BY DEF Init, newRqueue, Queues, Slots
  <2>. QED BY <1>1, <2>1, <2>2 DEF Init, TypeOK, None
<1>3. /\ Window(bq) = {} /\ Waiting(bq) = {} /\ Distinct(bq)
  BY <1>1 DEF Window, Waiting, Distinct
<1>4. /\ Window(q) = 0 .. N - 2 /\ \A i \in Window(q) : q.queue[i] = i + 2
  <2>1. q.tail - 1 = N - 2
    BY DEF Init, Added
  <2>2. \A i \in 0 .. N - 2 : i \in Slots /\ q.queue[i] = i + 2
    BY DEF Init, Added, Slots
  <2>. QED BY <2>1, <2>2 DEF Window
<1>5. Distinct(q)
  BY <1>4 DEF Distinct
<1>6. Waiting(q) = Threads \ {1}
  <2>1. \A t \in Threads \ {1} : t - 2 \in Window(q) /\ q.queue[t - 2] = t
    BY <1>4 DEF Threads
  <2>2. \A i \in Window(q) : q.queue[i] \in Threads \ {1}
    BY <1>4 DEF Threads
  <2>. QED BY <2>1, <2>2 DEF Waiting
<1>7. PlacedOnce
  BY <1>1, <1>3, <1>5, <1>6 DEF PlacedOnce, Init
<1>8. PositionsSound /\ DriveSound
  BY <1>3, RolesAssumption DEF Init, PositionsSound, DriveSound
<1>. QED BY <1>1, <1>2, <1>7, <1>8 DEF IInv

-----------------------------------------------------------------------------
(* One lemma per action: it preserves IInv.                                 *)

LEMMA pass_on_CPUKeeps ==
    ASSUME IInv, NEW t \in Threads, pass_on_CPU(t) PROVE IInv'
<1>1. /\ t = current_thread /\ at[t] = "body" /\ ~Gone /\ ~Yielding
  BY OnlyRunner DEF pass_on_CPU, Runs
<1>2. /\ q \in Queues(Cells) /\ q.tail \in 0 .. N /\ Distinct(q)
      /\ Waiting(q) \cap Waiting(bq) = {}
      /\ Waiting(q) \cup Waiting(bq) = Threads \ {t}
  BY <1>1 DEF IInv, TypeOK, PlacedOnce, Cells
<1>3. /\ q' \in Queues(Cells) /\ q'.tail \in 0 .. N
      /\ Waiting(q') = Waiting(q) \cup {t} /\ Distinct(q')
  <2>1. q' = enqueue(q, t)
    BY DEF pass_on_CPU, resume
  <2>. QED BY <1>2, <2>1, Admits, Numbers
<1>4. at' = [at EXCEPT ![t] = "yield"] /\ at'[t] = "yield"
  BY DEF pass_on_CPU, IInv, TypeOK
<1>5. Yielding' /\ ~Gone'
  BY <1>1, <1>4 DEF pass_on_CPU, Yielding, Gone, Runs, IInv, TypeOK
<1>6. TypeOK'
  BY <1>3, <1>4 DEF pass_on_CPU, IInv, TypeOK, Cells
<1>7. PlacedOnce'
  BY <1>1, <1>2, <1>3, <1>5 DEF pass_on_CPU, IInv, PlacedOnce
<1>8. PositionsSound' /\ DriveSound'
  BY <1>1, <1>4 DEF pass_on_CPU, IInv, PositionsSound, DriveSound, TypeOK
<1>. QED BY <1>1, <1>5, <1>6, <1>7, <1>8 DEF pass_on_CPU, IInv

LEMMA function_returnsKeeps ==
    ASSUME IInv, NEW t \in Threads, function_returns(t) PROVE IInv'
<1>1. /\ t = current_thread /\ at[t] = "body" /\ ~Gone /\ ~Yielding
  BY OnlyRunner DEF function_returns, Runs
<1>2. at' = [at EXCEPT ![t] = "stopped"] /\ at'[t] = "stopped"
  BY DEF function_returns, IInv, TypeOK
<1>3. ~Yielding' /\ ~Gone'
  BY <1>1, <1>2 DEF function_returns, Yielding, Gone, Runs, IInv, TypeOK
<1>4. TypeOK'
  BY <1>2 DEF function_returns, IInv, TypeOK
<1>5. PlacedOnce'
  BY <1>1, <1>3 DEF function_returns, IInv, PlacedOnce
<1>6. PositionsSound' /\ DriveSound'
  BY <1>1, <1>2 DEF function_returns, IInv, PositionsSound, DriveSound, TypeOK
<1>. QED BY <1>1, <1>4, <1>5, <1>6 DEF function_returns, IInv

LEMMA issue_operationKeeps ==
    ASSUME IInv, NEW t \in Threads, issue_operation(t) PROVE IInv'
<1>1. /\ t = current_thread /\ at[t] = "body" /\ ~Gone /\ ~Yielding
      /\ t \in DiskUsers /\ req[t] = None
  BY OnlyRunner DEF issue_operation, Runs, IInv, PositionsSound
<1>2. PICK o \in Operations :
         /\ req' = [req EXCEPT ![t] = o]
         /\ \/ drive' = [does |-> o, ready |-> FALSE]
            \/ drive.does # None /\ UNCHANGED drive
  BY DEF issue_operation
<1>3. o # None
  BY DEF Operations, None
<1>4. /\ at' = [at EXCEPT ![t] = "poll"] /\ at'[t] = "poll" /\ req'[t] = o
  BY <1>2 DEF issue_operation, IInv, TypeOK
<1>5. ~Yielding' /\ ~Gone'
  BY <1>1, <1>4 DEF issue_operation, Yielding, Gone, Runs, IInv, TypeOK
<1>6. TypeOK'
  <2>1. drive' \in [does : Operations \cup {None}, ready : BOOLEAN]
    <3>1. CASE drive' = [does |-> o, ready |-> FALSE]
      BY <3>1
    <3>2. CASE UNCHANGED drive
      BY <3>2 DEF IInv, TypeOK
    <3>. QED BY <1>2, <3>1, <3>2
  <2>2. req' \in [Threads -> Operations \cup {None}]
    BY <1>2 DEF IInv, TypeOK
  <2>. QED BY <1>4, <2>1, <2>2 DEF issue_operation, IInv, TypeOK
<1>7. PlacedOnce'
  BY <1>1, <1>5 DEF issue_operation, IInv, PlacedOnce
<1>8. PositionsSound'
  BY <1>1, <1>2, <1>3, <1>4 DEF issue_operation, IInv, PositionsSound, TypeOK
<1>9. DriveSound'
  <2>1. drive'.ready => drive'.does # None
    BY <1>2 DEF IInv, DriveSound
  <2>2. ASSUME Cardinality(DiskUsers) = 1, NEW u \in DiskUsers
        PROVE  drive'.does = req'[u]
    <3>1. u = t
      BY <1>1, <2>2, OneUser
    <3>2. drive.does = None
      BY <1>1, <2>2 DEF IInv, DriveSound
    <3>. QED BY <1>2, <1>4, <3>1, <3>2
  <2>. QED BY <2>1, <2>2 DEF DriveSound
<1>. QED BY <1>1, <1>6, <1>7, <1>8, <1>9 DEF issue_operation, IInv

LEMMA transferKeeps ==
    ASSUME IInv, NEW t \in Threads, transfer(t) PROVE IInv'
<1>1. /\ t = current_thread /\ at[t] = "poll" /\ ~Gone /\ ~Yielding
      /\ t \in DiskUsers
  BY OnlyRunner DEF transfer, Runs, IInv, PositionsSound
<1>2. /\ at' = [at EXCEPT ![t] = "body"] /\ at'[t] = "body"
      /\ req' = [req EXCEPT ![t] = None] /\ req'[t] = None
      /\ drive' = [does |-> None, ready |-> FALSE]
  BY DEF transfer, IInv, TypeOK
<1>3. ~Yielding' /\ ~Gone'
  BY <1>1, <1>2 DEF transfer, Yielding, Gone, Runs, IInv, TypeOK
<1>4. TypeOK'
  BY <1>2 DEF transfer, IInv, TypeOK
<1>5. PlacedOnce'
  BY <1>1, <1>3 DEF transfer, IInv, PlacedOnce
<1>6. PositionsSound'
  BY <1>1, <1>2 DEF transfer, IInv, PositionsSound, TypeOK
<1>7. DriveSound'
  BY <1>1, <1>2, OneUser DEF DriveSound
<1>. QED BY <1>1, <1>4, <1>5, <1>6, <1>7 DEF transfer, IInv

LEMMA not_readyKeeps ==
    ASSUME IInv, NEW t \in Threads, not_ready(t) PROVE IInv'
<1>1. /\ t = current_thread /\ at[t] = "poll" /\ ~Gone /\ ~Yielding
      /\ t \in DiskUsers
  BY OnlyRunner DEF not_ready, Runs, IInv, PositionsSound
<1>2. /\ bq \in Queues(Cells) /\ bq.tail \in 0 .. N /\ Distinct(bq)
      /\ Waiting(q) \cap Waiting(bq) = {}
      /\ Waiting(q) \cup Waiting(bq) = Threads \ {t}
  BY <1>1 DEF IInv, TypeOK, PlacedOnce, Cells
<1>3. /\ bq' \in Queues(Cells) /\ bq'.tail \in 0 .. N /\ bq'.tail # Junk
      /\ Waiting(bq') = Waiting(bq) \cup {t} /\ Distinct(bq')
  <2>1. bq' = enqueue(bq, t)
    BY DEF not_ready, add
  <2>2. /\ bq' \in Queues(Cells) /\ bq'.tail \in 1 .. N
        /\ Waiting(bq') = Waiting(bq) \cup {t} /\ Distinct(bq')
    BY <1>2, <2>1, Admits
  <2>. QED BY <2>2, Numbers DEF Junk
<1>4. at' = [at EXCEPT ![t] = "yield"] /\ at'[t] = "yield"
  BY DEF not_ready, IInv, TypeOK
<1>5. Yielding' /\ ~Gone'
  BY <1>1, <1>4 DEF not_ready, Yielding, Gone, Runs, IInv, TypeOK
<1>6. TypeOK'
  BY <1>3, <1>4 DEF not_ready, IInv, TypeOK, Cells
<1>7. PlacedOnce'
  BY <1>1, <1>2, <1>3, <1>5 DEF not_ready, IInv, PlacedOnce
<1>8. PositionsSound'
  BY <1>1, <1>3, <1>4 DEF not_ready, IInv, PositionsSound, TypeOK
<1>9. DriveSound'
  BY DEF not_ready, IInv, DriveSound
<1>. QED BY <1>1, <1>3, <1>6, <1>7, <1>8, <1>9 DEF not_ready, IInv

LEMMA yield_to_disk_threadKeeps ==
    ASSUME IInv, NEW t \in Threads, yield_to_disk_thread(t) PROVE IInv'
<1>1. t = current_thread /\ at[t] = "yield"
  BY DEF yield_to_disk_thread, Runs
<1>2. at' = [at EXCEPT ![t] = "gone"] /\ at'[t] = "gone"
  BY DEF yield_to_disk_thread, IInv, TypeOK
<1>3. Gone'
  BY <1>2 DEF Gone
<1>4. bq'.queue = bq.queue /\ bq'.tail = Junk /\ bq' \in Queues(Cells)
  BY DEF yield_to_disk_thread, del, IInv, TypeOK, Queues, Cells, Junk
<1>5. Waiting(bq') = {}
  BY <1>4 DEF Waiting, Window, Junk
<1>6. TypeOK'
  BY <1>2, <1>4 DEF yield_to_disk_thread, IInv, TypeOK, Cells
<1>7. PlacedOnce'
  BY <1>3 DEF PlacedOnce
<1>8. PositionsSound' /\ DriveSound'
  BY <1>1, <1>2, <1>5
     DEF yield_to_disk_thread, IInv, PositionsSound, DriveSound, TypeOK
<1>. QED BY <1>1, <1>3, <1>6, <1>7, <1>8 DEF yield_to_disk_thread, IInv

\* A thread that yields leaves at least one thread in the ready queue.
LEMMA SomebodyReady ==
    ASSUME SomebodyNeverWaits, IInv, ~Gone, Yielding PROVE q.tail \in 1 .. N
<1>1. PICK w \in PassOn \ DiskUsers : TRUE
  BY DEF SomebodyNeverWaits
<1>2. w \in Threads /\ w \notin Waiting(bq)
  BY <1>1, RolesAssumption DEF IInv, PositionsSound
<1>3. w \in Waiting(q)
  BY <1>2 DEF IInv, PlacedOnce
<1>4. PICK i \in Window(q) : TRUE
  BY <1>3 DEF Waiting
<1>. QED BY <1>4, Numbers DEF Window, IInv, TypeOK

LEMMA yieldKeeps ==
    ASSUME SomebodyNeverWaits, IInv, NEW t \in Threads, yield(t) PROVE IInv'
<1> DEFINE n == first(q)
<1>1. /\ t = current_thread /\ at[t] = "yield" /\ ~Gone /\ Yielding
  BY OnlyRunner DEF yield, Runs
<1>2. /\ q \in Queues(Cells) /\ q.tail \in 1 .. N /\ Distinct(q) /\ Distinct(bq)
      /\ Waiting(q) \cap Waiting(bq) = {}
      /\ Waiting(q) \cup Waiting(bq) = Threads
  BY <1>1, SomebodyReady DEF IInv, TypeOK, PlacedOnce, Cells
<1>3. /\ q' \in Queues(Cells) /\ q'.tail \in 0 .. N
      /\ n \in Waiting(q) /\ Waiting(q') = Waiting(q) \ {n} /\ Distinct(q')
  <2>1. q.tail \in 1 .. MAX_THREADS /\ NULL \in Cells /\ Junk \in Cells
    BY <1>2, Numbers DEF Cells
  <2>2. q' = dequeue(q)
    BY DEF yield
  <2>. QED BY <1>2, <2>1, <2>2, DequeueTakesFirst, Numbers
<1>4. current_thread' = n /\ n \in Threads
  BY <1>2, <1>3 DEF yield
<1>5. /\ at' = [at EXCEPT ![t] = Return(t)] /\ at'[t] = Return(t)
      /\ Return(t) \in {"body", "poll"}
      /\ at'[t] = "body" => req[t] = None
      /\ at'[t] = "poll" => req[t] # None
  BY DEF yield, Return, IInv, TypeOK
<1>6. \A u \in Threads : at'[u] \in {"body", "poll"}
  BY <1>1, <1>5 DEF IInv, TypeOK, PositionsSound
<1>7. ~Yielding' /\ ~Gone'
  BY <1>6 DEF Yielding, Gone, Runs
<1>8. TypeOK'
  BY <1>3, <1>4, <1>5 DEF yield, IInv, TypeOK, Cells
<1>9. PlacedOnce'
  BY <1>2, <1>3, <1>4, <1>7 DEF yield, PlacedOnce
<1>10. PositionsSound' /\ DriveSound'
  BY <1>5, <1>6 DEF yield, IInv, PositionsSound, DriveSound, TypeOK
<1>. QED BY <1>1, <1>4, <1>8, <1>9, <1>10 DEF yield, IInv

LEMMA data_requestKeeps ==
    ASSUME IInv, data_request PROVE IInv'
<1>1. TypeOK' /\ DriveSound'
  BY DEF data_request, IInv, TypeOK, DriveSound
<1>. QED
  BY <1>1 DEF data_request, IInv, PlacedOnce, Gone, Yielding, Runs, PositionsSound

LEMMA NextKeeps ==
    ASSUME SomebodyNeverWaits, IInv, [Next]_vars PROVE IInv'
<1>1. CASE UNCHANGED vars
  BY <1>1 DEF vars, IInv, TypeOK, PlacedOnce, Gone, Yielding, Runs,
     PositionsSound, DriveSound
<1>2. ASSUME NEW t \in Threads, Thread(t) PROVE IInv'
  BY <1>2, pass_on_CPUKeeps, function_returnsKeeps, issue_operationKeeps,
     transferKeeps, not_readyKeeps, yield_to_disk_threadKeeps, yieldKeeps
     DEF Thread
<1>3. CASE data_request
  BY <1>3, data_requestKeeps
<1>. QED BY <1>1, <1>2, <1>3 DEF Next

-----------------------------------------------------------------------------
\* The inductive invariant holds in every reachable state.
THEOREM Invariance ==
    ASSUME SomebodyNeverWaits PROVE Spec => []IInv
BY InitHolds, NextKeeps, PTL DEF Spec

\* Every variable keeps its type; neither queue outgrows MAX_THREADS cells.
THEOREM TypeCorrect ==
    ASSUME SomebodyNeverWaits PROVE Spec => []TypeOK
<1>1. IInv => TypeOK
  BY DEF IInv
<1>. QED BY <1>1, Invariance, PTL

\* The scheduler and the blocking disk neither lose nor duplicate a thread
\* before del() is called with a thread to take out.
THEOREM EveryThreadPlacedOnce ==
    ASSUME SomebodyNeverWaits PROVE Spec => []PlacedOnce
<1>1. IInv => PlacedOnce
  BY DEF IInv
<1>. QED BY <1>1, Invariance, PTL

\* yield() never dispatches the null pointer of an empty queue.
THEOREM AlwaysSomebodyToRun ==
    ASSUME SomebodyNeverWaits PROVE Spec => []NeverIdle
<1>1. IInv => NeverIdle
  BY DEF IInv, NeverIdle
<1>. QED BY <1>1, Invariance, PTL

\* A single user of the disk gets the block it asked for.
THEOREM SingleUserGetsItsBlocks ==
    ASSUME SomebodyNeverWaits PROVE Spec => TransfersOwn
<1>1. ASSUME IInv, [Next]_vars
      PROVE  [\A t \in Threads :
                Cardinality(DiskUsers) = 1 /\ at[t] = "poll" /\ at'[t] = "body" =>
                  drive = [does |-> req[t], ready |-> TRUE]]_vars
  <2>1. ASSUME Next, NEW t \in Threads, Cardinality(DiskUsers) = 1,
               at[t] = "poll", at'[t] = "body"
        PROVE  drive = [does |-> req[t], ready |-> TRUE]
    <3>1. t \in DiskUsers
      BY <1>1, <2>1 DEF IInv, PositionsSound
    <3>2. transfer(t)
      <4>1. ASSUME NEW u \in Threads, Thread(u) PROVE transfer(u) /\ u = t
        BY <1>1, <2>1, <4>1 DEF Thread, pass_on_CPU, function_returns, issue_operation,
           transfer, not_ready, yield_to_disk_thread, yield, Runs, IInv, TypeOK
      <4>2. ~data_request
        BY <2>1 DEF data_request
      <4>. QED BY <2>1, <4>1, <4>2 DEF Next
    <3>3. drive.ready /\ drive.does = req[t]
      BY <1>1, <2>1, <3>1, <3>2 DEF transfer, is_ready, IInv, DriveSound
    <3>4. drive = [does |-> drive.does, ready |-> drive.ready]
      BY <1>1 DEF IInv, TypeOK
    <3>. QED BY <1>1, <3>3, <3>4 DEF IInv, TypeOK
  <2>. QED BY <1>1, <2>1
<1>. QED BY <1>1, Invariance, PTL DEF Spec, TransfersOwn
=============================================================================
