---------------------- MODULE InterruptDispatch_proofs ----------------------
(***************************************************************************)
(* For every set of threads and of devices, in all four kernels: the timer *)
(* is always captured, no stack grows with the interrupts, and every line  *)
(* in service is somebody's.  All three follow from DispatchSound, which   *)
(* is inductive: the tables are complete by the step of main() that lets   *)
(* interrupts in, every gate closes them, only the activation they have    *)
(* interrupted opens them again, and so there is one dispatcher at most    *)
(* between a line's request and its signal.                                *)
(*                                                                         *)
(* The second part is about what main() leaves behind: the timer's rate,   *)
(* the tables, and the heap.  StartSound is inductive with DispatchSound:  *)
(* what is placed lies behind all there is, the disk's array behind its    *)
(* queue, and seventeen steps do not fill the pool.                        *)
(***************************************************************************)
EXTENDS InterruptDispatch, SequenceTheorems, TLAPS

\* What comes after the part that the four kernels have in common: no step of that
\* part, the timer in the fourth place, and interrupts are enabled after it.
Names == {"GDT", "IDT", "exceptions", "IRQ", "interrupts", "catch 0", "catch 14",
          "frames", "pool", "rate", "timer", "scheduler", "disk", "enable", "thread",
          "paging"}

OwnSteps(s) ==
    /\ s \in Seq(Names) /\ (Len(s) = 5 \/ Len(s) = 10 \/ Len(s) = 11) /\ s[4] = "timer"
    /\ \A i \in 1 .. Len(s) :
         /\ s[i] \notin {"GDT", "IDT", "exceptions", "IRQ", "interrupts"}
         /\ i # 4 => s[i] # "timer"
         /\ i \in 1 .. 4 => s[i] # "enable"

LEMMA ThreadsMainShape == OwnSteps(ThreadsMain)
<1>1. Len(ThreadsMain) = 10
  BY DEF ThreadsMain
<1>2. /\ ThreadsMain[1] = "frames" /\ ThreadsMain[2] = "pool" /\ ThreadsMain[3] = "rate"
      /\ ThreadsMain[4] = "timer" /\ ThreadsMain[5] = "scheduler" /\ ThreadsMain[6] = "enable"
      /\ ThreadsMain[7] = "thread" /\ ThreadsMain[8] = "thread" /\ ThreadsMain[9] = "thread"
      /\ ThreadsMain[10] = "thread"
  BY DEF ThreadsMain
<1>3. ASSUME NEW i \in 1 .. 10 PROVE \/ i = 1 \/ i = 2 \/ i = 3 \/ i = 4 \/ i = 5 \/ i = 6
                                     \/ i = 7 \/ i = 8 \/ i = 9 \/ i = 10
  OBVIOUS
<1>4. ASSUME NEW i \in 1 .. 10
      PROVE  ThreadsMain[i] \notin {"GDT", "IDT", "exceptions", "IRQ", "interrupts"}
  BY <1>2, <1>3, Zenon
<1>5. ASSUME NEW i \in 1 .. 10, i # 4 PROVE ThreadsMain[i] # "timer"
  BY <1>2, <1>3, <1>5, Zenon
<1>6. ASSUME NEW i \in 1 .. 4 PROVE ThreadsMain[i] # "enable"
  <2>1. i = 1 \/ i = 2 \/ i = 3 \/ i = 4
    OBVIOUS
  <2>. QED BY <1>2, <2>1, Zenon
<1>7. ThreadsMain \in Seq(Names)
  BY DEF ThreadsMain, Names
<1>. QED BY <1>1, <1>2, <1>4, <1>5, <1>6, <1>7 DEF OwnSteps

LEMMA DiskMainShape == OwnSteps(DiskMain)
<1>1. Len(DiskMain) = 11
  BY DEF DiskMain
<1>2. /\ DiskMain[1] = "frames" /\ DiskMain[2] = "pool" /\ DiskMain[3] = "rate"
      /\ DiskMain[4] = "timer" /\ DiskMain[5] = "scheduler" /\ DiskMain[6] = "disk"
      /\ DiskMain[7] = "enable" /\ DiskMain[8] = "thread" /\ DiskMain[9] = "thread"
      /\ DiskMain[10] = "thread" /\ DiskMain[11] = "thread"
  BY DEF DiskMain
<1>3. ASSUME NEW i \in 1 .. 11 PROVE \/ i = 1 \/ i = 2 \/ i = 3 \/ i = 4 \/ i = 5 \/ i = 6
                                     \/ i = 7 \/ i = 8 \/ i = 9 \/ i = 10 \/ i = 11
  OBVIOUS
<1>4. ASSUME NEW i \in 1 .. 11
      PROVE  DiskMain[i] \notin {"GDT", "IDT", "exceptions", "IRQ", "interrupts"}
  BY <1>2, <1>3, Zenon
<1>5. ASSUME NEW i \in 1 .. 11, i # 4 PROVE DiskMain[i] # "timer"
  BY <1>2, <1>3, <1>5, Zenon
<1>6. ASSUME NEW i \in 1 .. 4 PROVE DiskMain[i] # "enable"
  <2>1. i = 1 \/ i = 2 \/ i = 3 \/ i = 4
    OBVIOUS
  <2>. QED BY <1>2, <2>1, Zenon
<1>7. DiskMain \in Seq(Names)
  BY DEF DiskMain, Names
<1>. QED BY <1>1, <1>2, <1>4, <1>5, <1>6, <1>7 DEF OwnSteps

LEMMA PagingMainShape == OwnSteps(PagingMain)
<1>1. Len(PagingMain) = 5
  BY DEF PagingMain
<1>2. /\ PagingMain[1] = "paging" /\ PagingMain[2] = "catch 14" /\ PagingMain[3] = "rate"
      /\ PagingMain[4] = "timer" /\ PagingMain[5] = "enable"
  BY DEF PagingMain
<1>3. ASSUME NEW i \in 1 .. 5 PROVE i = 1 \/ i = 2 \/ i = 3 \/ i = 4 \/ i = 5
  OBVIOUS
<1>4. ASSUME NEW i \in 1 .. 5
      PROVE  PagingMain[i] \notin {"GDT", "IDT", "exceptions", "IRQ", "interrupts"}
  BY <1>2, <1>3, Zenon
<1>5. ASSUME NEW i \in 1 .. 5, i # 4 PROVE PagingMain[i] # "timer"
  BY <1>2, <1>3, <1>5, Zenon
<1>6. ASSUME NEW i \in 1 .. 4 PROVE PagingMain[i] # "enable"
  <2>1. i = 1 \/ i = 2 \/ i = 3 \/ i = 4
    OBVIOUS
  <2>. QED BY <1>2, <2>1, Zenon
<1>7. PagingMain \in Seq(Names)
  BY DEF PagingMain, Names
<1>. QED BY <1>1, <1>2, <1>4, <1>5, <1>6, <1>7 DEF OwnSteps

LEMMA FramesMainShape == OwnSteps(FramesMain)
<1>1. Len(FramesMain) = 5
  BY DEF FramesMain
<1>2. /\ FramesMain[1] = "catch 14" /\ FramesMain[2] = "paging" /\ FramesMain[3] = "rate"
      /\ FramesMain[4] = "timer" /\ FramesMain[5] = "enable"
  BY DEF FramesMain
<1>3. ASSUME NEW i \in 1 .. 5 PROVE i = 1 \/ i = 2 \/ i = 3 \/ i = 4 \/ i = 5
  OBVIOUS
<1>4. ASSUME NEW i \in 1 .. 5
      PROVE  FramesMain[i] \notin {"GDT", "IDT", "exceptions", "IRQ", "interrupts"}
  BY <1>2, <1>3, Zenon
<1>5. ASSUME NEW i \in 1 .. 5, i # 4 PROVE FramesMain[i] # "timer"
  BY <1>2, <1>3, <1>5, Zenon
<1>6. ASSUME NEW i \in 1 .. 4 PROVE FramesMain[i] # "enable"
  <2>1. i = 1 \/ i = 2 \/ i = 3 \/ i = 4
    OBVIOUS
  <2>. QED BY <1>2, <2>1, Zenon
<1>7. FramesMain \in Seq(Names)
  BY DEF FramesMain, Names
<1>. QED BY <1>1, <1>2, <1>4, <1>5, <1>6, <1>7 DEF OwnSteps

LEMMA OwnShape == ASSUME kernel \in Kernels PROVE OwnSteps(Own)
BY ThreadsMainShape, DiskMainShape, PagingMainShape, FramesMainShape DEF Own, Kernels

LEMMA OrderIs ==
    ASSUME kernel \in Kernels
    PROVE  /\ Len(Order) = 6 + Len(Own)
           /\ \A i \in 1 .. 6 : Order[i] = Common[i]
           /\ \A i \in 7 .. 6 + Len(Own) : Order[i] = Own[i - 6]
<1>1. Len(Common) = 6
  BY DEF Common
<1>2. Common \in Seq(Names)
  BY DEF Common, Names
<1>3. Own \in Seq(Names)
  BY OwnShape DEF OwnSteps
<1>4. Len(Own) \in Nat
  BY <1>3, LenProperties
<1>5. /\ Len(Common \o Own) = Len(Common) + Len(Own)
      /\ \A i \in 1 .. Len(Common) + Len(Own) :
           (Common \o Own)[i] = IF i <= Len(Common) THEN Common[i]
                                ELSE Own[i - Len(Common)]
  BY <1>2, <1>3, ConcatProperties, Zenon
<1>. QED BY <1>1, <1>4, <1>5 DEF Order

\* main() takes the steps that matter here at the same places in all four kernels,
\* and enables interrupts after all of them.
LEMMA OrderShape ==
    ASSUME kernel \in Kernels, NEW i \in 1 .. Len(Order)
    PROVE  /\ i # 1 => Order[i] # "GDT"
           /\ i # 2 => Order[i] # "IDT"
           /\ i # 3 => Order[i] # "exceptions"
           /\ i # 4 => Order[i] # "IRQ"
           /\ i # 5 => Order[i] # "interrupts"
           /\ i # 10 => Order[i] # "timer"
           /\ i \in 1 .. 10 => Order[i] # "enable"
<1>1. /\ Common[1] = "GDT" /\ Common[2] = "IDT" /\ Common[3] = "exceptions"
      /\ Common[4] = "IRQ" /\ Common[5] = "interrupts" /\ Common[6] = "catch 0"
  BY DEF Common
<1>2. CASE i \in 1 .. 6
  <2>1. i = 1 \/ i = 2 \/ i = 3 \/ i = 4 \/ i = 5 \/ i = 6
    BY <1>2
  <2>2. Order[i] = Common[i]
    BY <1>2, OrderIs
  <2>. QED BY <1>1, <2>1, <2>2, Zenon
<1>3. CASE i \notin 1 .. 6
  <2>1. /\ i - 6 \in 1 .. Len(Own) /\ Order[i] = Own[i - 6]
        /\ i # 10 => i - 6 # 4
        /\ i \in 1 .. 10 => i - 6 \in 1 .. 4
    BY <1>3, OrderIs, OwnShape DEF OwnSteps
  <2>. QED BY <2>1, OwnShape DEF OwnSteps
<1>. QED BY <1>2, <1>3

\* The places of these steps.
LEMMA OrderPlaces ==
    ASSUME kernel \in Kernels
    PROVE  /\ Len(Order) \in Nat /\ Len(Order) > 10
           /\ Order[1] = "GDT" /\ Order[2] = "IDT" /\ Order[3] = "exceptions"
           /\ Order[4] = "IRQ" /\ Order[5] = "interrupts" /\ Order[10] = "timer"
<1>1. /\ Common[1] = "GDT" /\ Common[2] = "IDT" /\ Common[3] = "exceptions"
      /\ Common[4] = "IRQ" /\ Common[5] = "interrupts"
  BY DEF Common
<1>2. Len(Own) \in Nat /\ Len(Own) > 4
  <2> DEFINE n == Len(Own)
  <2>1. n = 5 \/ n = 10 \/ n = 11
    BY OwnShape, Zenon DEF OwnSteps
  <2> HIDE DEF n
  <2>2. n \in Nat /\ n > 4
    BY <2>1
  <2>. QED BY <2>2 DEF n
<1>3. Own[4] = "timer"
  BY OwnShape DEF OwnSteps
<1>4. /\ Order[1] = Common[1] /\ Order[2] = Common[2] /\ Order[3] = Common[3]
      /\ Order[4] = Common[4] /\ Order[5] = Common[5]
  BY OrderIs
<1>5. Order[10] = Own[4]
  <2>1. 10 \in 7 .. 6 + Len(Own)
    BY <1>2
  <2>2. Order[10] = Own[10 - 6]
    BY <2>1, OrderIs
  <2>. QED BY <2>2
<1>6. Len(Order) \in Nat /\ Len(Order) > 10
  BY <1>2, OrderIs
<1>. QED BY <1>1, <1>2, <1>3, <1>4, <1>5, <1>6

LEMMA CodeSegment ==
    ASSUME gdt = SegmentTable PROVE Flat(Segment(8)) /\ Kind(Segment(8)) = 3
<1>1. Segment(8) = descriptor(None, All, 154, 207)
  BY DEF Segment, SegmentTable
<1>2. descriptor(None, All, 154, 207) =
        [limit_low |-> 65535, base_low |-> 0, base_middle |-> 0, access |-> 154,
         granularity |-> 207, base_high |-> 0]
  BY DEF descriptor, None, All
<1>. QED BY <1>1, <1>2 DEF Flat, Kind, Present, BaseOf, LimitOf

-----------------------------------------------------------------------------
\* The top of the running stack, and what the three operations make of it.
LEMMA TopIs ==
    ASSUME StacksSound
    PROVE  /\ Top = stack[run][Len(stack[run])] /\ Top \in Activation
           /\ Top.at \in {"start", "code"} <=> Len(stack[run]) = 1
           /\ Top.at \notin {"start", "code"} <=> Len(stack[run]) = 2
<1>1. /\ run \in Stacks /\ stack[run] \in Seq(Activation)
      /\ Len(stack[run]) = 1 \/ Len(stack[run]) = 2
      /\ stack[run][1].at \in {"start", "code"}
      /\ Len(stack[run]) = 2 => stack[run][2].at \notin {"start", "code"}
  BY Zenon DEF StacksSound
<1>2. Top = stack[run][Len(stack[run])]
  BY DEF Top, Last
<1>3. CASE Len(stack[run]) = 1
  <2>1. stack[run][1] \in Activation
    BY <1>1, <1>3, ElementOfSeq
  <2>. QED BY <1>1, <1>2, <1>3, <2>1
<1>4. CASE Len(stack[run]) = 2
  <2>1. stack[run][2] \in Activation
    BY <1>1, <1>4, ElementOfSeq
  <2>. QED BY <1>1, <1>2, <1>4, <2>1
<1>. QED BY <1>1, <1>3, <1>4

\* The same for any sequence.
LEMMA OneAppended ==
    ASSUME NEW S, NEW s \in Seq(S), Len(s) = 1, NEW e \in S
    PROVE  /\ Append(s, e) \in Seq(S) /\ Len(Append(s, e)) = 2
           /\ Append(s, e)[1] = s[1] /\ Append(s, e)[2] = e
<1>1. Append(s, e) \in Seq(S)
  BY AppendProperties
<1>2. Len(Append(s, e)) = 2
  OBVIOUS
<1>3. Append(s, e)[1] = s[1]
  BY AppendProperties
<1>4. Append(s, e)[2] = e
  BY AppendProperties
<1>. QED BY <1>1, <1>2, <1>3, <1>4

LEMMA OneLeft ==
    ASSUME NEW S, NEW s \in Seq(S), Len(s) = 2
    PROVE  /\ SubSeq(s, 1, Len(s) - 1) \in Seq(S) /\ Len(SubSeq(s, 1, Len(s) - 1)) = 1
           /\ SubSeq(s, 1, Len(s) - 1)[1] = s[1]
<1>1. 1 \in 1 .. Len(s) /\ Len(s) - 1 = 1
  OBVIOUS
<1>2. \A i \in 1 .. 1 : s[i] \in S
  BY <1>1, ElementOfSeq
<1>3. SubSeq(s, 1, 1) \in Seq(S) /\ Len(SubSeq(s, 1, 1)) = 1 /\ SubSeq(s, 1, 1)[1] = s[1]
  BY <1>2, SubSeqProperties
<1>. QED BY <1>1, <1>3

LEMMA LastReplaced ==
    ASSUME NEW S, NEW s \in Seq(S), Len(s) = 1 \/ Len(s) = 2, NEW e \in S
    PROVE  /\ [s EXCEPT ![Len(s)] = e] \in Seq(S)
           /\ Len([s EXCEPT ![Len(s)] = e]) = Len(s)
           /\ [s EXCEPT ![Len(s)] = e][Len(s)] = e
           /\ Len(s) = 2 => [s EXCEPT ![Len(s)] = e][1] = s[1]
BY ExceptSeq

Others == \A s \in Stacks \ {run} : stack'[s] = stack[s]
Typed  == stack' \in [Stacks -> Seq(Activation)]

LEMMA Pushes ==
    ASSUME StacksSound, Len(stack[run]) = 1,
           NEW at, NEW no, Push(at, no), [at |-> at, no |-> no, eflags |-> ints] \in Activation
    PROVE  /\ Typed /\ Others
           /\ Len(stack'[run]) = 2 /\ stack'[run][1] = stack[run][1]
           /\ stack'[run][2] = [at |-> at, no |-> no, eflags |-> ints]
<1> DEFINE a == [at |-> at, no |-> no, eflags |-> ints]
<1>1. run \in Stacks /\ stack \in [Stacks -> Seq(Activation)] /\ stack[run] \in Seq(Activation)
  BY Zenon DEF StacksSound
<1>2. stack' = [stack EXCEPT ![run] = Append(@, a)]
  BY Zenon DEF Push
<1>3. a \in Activation
  OBVIOUS
<1> HIDE DEF a
<1>4. /\ Append(stack[run], a) \in Seq(Activation) /\ Len(Append(stack[run], a)) = 2
      /\ Append(stack[run], a)[1] = stack[run][1] /\ Append(stack[run], a)[2] = a
  BY SMTT(30), <1>1, <1>3, OneAppended, Zenon
<1>5. stack'[run] = Append(stack[run], a) /\ Typed /\ Others
  BY <1>1, <1>2, <1>4 DEF Typed, Others
<1>. QED BY <1>4, <1>5 DEF a

LEMMA Pops ==
    ASSUME StacksSound, Len(stack[run]) = 2, Iret
    PROVE  /\ Typed /\ Others
           /\ Len(stack'[run]) = 1 /\ stack'[run][1] = stack[run][1]
           /\ ints' = stack[run][2].eflags
<1>1. run \in Stacks /\ stack \in [Stacks -> Seq(Activation)] /\ stack[run] \in Seq(Activation)
  BY Zenon DEF StacksSound
<1>2. stack' = [stack EXCEPT ![run] = SubSeq(@, 1, Len(@) - 1)]
  BY Zenon DEF Iret, Front
<1>3. /\ SubSeq(stack[run], 1, Len(stack[run]) - 1) \in Seq(Activation)
      /\ Len(SubSeq(stack[run], 1, Len(stack[run]) - 1)) = 1
      /\ SubSeq(stack[run], 1, Len(stack[run]) - 1)[1] = stack[run][1]
  BY <1>1, OneLeft, Zenon
<1>4. stack'[run] = SubSeq(stack[run], 1, Len(stack[run]) - 1) /\ Typed /\ Others
  BY <1>1, <1>2, <1>3 DEF Typed, Others
<1>5. ints' = stack[run][2].eflags
  BY TopIs DEF Iret
<1>. QED BY <1>3, <1>4, <1>5

LEMMA GoesOn ==
    ASSUME StacksSound, NEW where, Goto(where),
           where \in {"start", "code", "dispatch", "handler", "return", "exception", "halted"}
    PROVE  /\ Typed /\ Others
           /\ Len(stack'[run]) = Len(stack[run])
           /\ stack'[run][Len(stack[run])] = [stack[run][Len(stack[run])] EXCEPT !.at = where]
           /\ Len(stack[run]) = 2 => stack'[run][1] = stack[run][1]
<1> DEFINE n == Len(stack[run])
           a == [stack[run][n] EXCEPT !.at = where]
<1>1. /\ run \in Stacks /\ stack \in [Stacks -> Seq(Activation)]
      /\ stack[run] \in Seq(Activation) /\ (n = 1 \/ n = 2)
  BY Zenon DEF StacksSound
<1> DEFINE r == [stack[run] EXCEPT ![n] = a]
<1>2. stack' = [stack EXCEPT ![run] = r]
  BY DEF Goto
<1>3. a \in Activation
  BY TopIs DEF Activation
<1> HIDE DEF a
<1>4. /\ r \in Seq(Activation)
      /\ Len(r) = n
      /\ r[n] = a
      /\ n = 2 => r[1] = stack[run][1]
  BY <1>1, <1>3, LastReplaced
<1> HIDE DEF r
<1>5. stack'[run] = r /\ Typed /\ Others
  BY <1>1, <1>2, <1>4 DEF Typed, Others
<1>. QED BY <1>4, <1>5 DEF a

-----------------------------------------------------------------------------
\* What the running stack has to be like for the stacks to stay sound, while the
\* processor stays with it, and when it goes to another one.
Shaped(s) == LET n == Len(s)
             IN  /\ n = 1 \/ n = 2
                 /\ s[1].at \in {"start", "code"}
                 /\ n = 2 => s[2].at \notin {"start", "code"}

LEMMA StacksKept ==
    ASSUME StacksSound, Typed, Others, Shaped(stack'[run]), UNCHANGED <<run, flag>>,
           ints' \in BOOLEAN, ints' => Len(stack'[run]) = 1
    PROVE  StacksSound'
<1>1. \A s \in Stacks : Shaped(stack'[s])
  BY DEF StacksSound, Shaped, Others
<1>2. \A s \in Stacks : flag'[s] /\ s # run' => Len(stack'[s]) = 1
  BY DEF StacksSound, Others
<1>3. run' \in Stacks /\ flag' \in [Stacks -> BOOLEAN] /\ stack' \in [Stacks -> Seq(Activation)]
  BY DEF StacksSound, Typed
<1>. QED BY <1>1, <1>2, <1>3 DEF StacksSound, Shaped

LEMMA StacksSwitched ==
    ASSUME StacksSound, NEW t \in Threads, SwitchTo(t),
           Typed, Others, Shaped(stack'[run]), Len(stack'[run]) = Len(stack[run])
    PROVE  StacksSound' /\ \A s \in Stacks : Len(stack'[s]) = Len(stack[s])
<1>1. \A s \in Stacks : Shaped(stack'[s])
  BY DEF StacksSound, Shaped, Others
<1>2. \A s \in Stacks : Len(stack'[s]) = Len(stack[s])
  BY DEF Others
<1>3. /\ run \in Stacks /\ ints \in BOOLEAN /\ flag \in [Stacks -> BOOLEAN]
      /\ run' = t /\ t \in Stacks
  BY DEF StacksSound, SwitchTo, Stacks
<1>4. ints' = flag'[t] /\ flag' = [flag EXCEPT ![run] = ints]
  BY DEF SwitchTo
<1>5. /\ flag' \in [Stacks -> BOOLEAN] /\ ints' \in BOOLEAN
      /\ ints' => (t = run /\ ints) \/ (t # run /\ flag[t])
  BY <1>3, <1>4
<1>6. ints' => Len(stack'[run']) = 1
  <2>1. t = run /\ ints => Len(stack[t]) = 1
    BY DEF StacksSound
  <2>2. t # run /\ flag[t] => Len(stack[t]) = 1
    BY <1>3 DEF StacksSound
  <2>. QED BY <1>2, <1>3, <1>5, <2>1, <2>2
<1>7. ASSUME NEW s \in Stacks, flag'[s], s # run' PROVE Len(stack'[s]) = 1
  <2>1. CASE s = run
    BY <1>2, <1>3, <1>4, <1>7, <2>1 DEF StacksSound
  <2>2. CASE s # run
    BY <1>2, <1>3, <1>4, <1>7, <2>2 DEF StacksSound
  <2>. QED BY <2>1, <2>2
<1>8. run' \in Stacks /\ stack' \in [Stacks -> Seq(Activation)]
  BY <1>3 DEF Typed
<1>. QED BY <1>1, <1>2, <1>5, <1>6, <1>7, <1>8 DEF StacksSound, Shaped

\* Before interrupts are enabled nothing but main() and the devices does anything.
LEMMA Booted ==
    ASSUME StacksSound, TablesSound,
           Ready \/ ints \/ Top.at # "code" \/ run # Main
    PROVE  boot > 10
<1>1. kernel \in Kernels /\ boot \in 0 .. Len(Order)
  BY DEF TablesSound
<1>2. Len(Order) \in Nat /\ Len(Order) > 10
  BY <1>1, OrderPlaces
<1>3. CASE Ready
  BY <1>2, <1>3 DEF Ready
<1>4. CASE ~Ready
  <2>1. Code.at = "code"
    BY DEF Code
  <2>2. ~(boot <= 10)
    BY <1>4, <2>1 DEF TablesSound
  <2>. QED BY <1>1, <1>2, <2>2
<1>. QED BY <1>3, <1>4

LEMMA TablesKept ==
    ASSUME TablesSound, boot > 10, UNCHANGED setup PROVE TablesSound'
<1>1. UNCHANGED <<kernel, boot, gdt, segments, idt, remapped, handlers>>
  BY DEF setup, tables
<1>2. Order' = Order
  BY <1>1 DEF Order, Own
<1>3. ~(boot' <= 10)
  BY <1>1, OrderPlaces DEF TablesSound
<1>. QED BY <1>1, <1>2, <1>3 DEF TablesSound

\* By then every line and every exception has its gate, and no gate leaves
\* interrupts on.
LEMMA Gates ==
    ASSUME TablesSound, boot > 10
    PROVE  /\ \A l \in Lines : /\ vector(l) = 32 + l /\ Enters(32 + l)
                               /\ idt[32 + l].stub = 32 + l
           /\ \A e \in Exceptions : Enters(e) /\ idt[e].stub = e
           /\ \A v : ~GateFlag(v)
           /\ handlers = {Timer}
<1>1. boot >= 1 /\ boot >= 3 /\ boot >= 4 /\ boot >= 5 /\ boot >= 10
  BY OrderPlaces DEF TablesSound
<1>2. gdt = SegmentTable /\ segments = <<8, 16>> /\ remapped /\ handlers = {Timer}
  BY <1>1 DEF TablesSound
<1>3. \A v \in Exceptions \cup IrqGates : idt[v] = interrupt_gate(v)
  BY <1>1 DEF TablesSound
<1>4. segments # <<0, 0>>
  BY <1>2
<1>5. ASSUME NEW v \in Exceptions \cup IrqGates PROVE Enters(v) /\ idt[v].stub = v
  <2>1. v \in Vectors
    BY DEF Exceptions, IrqGates, Vectors
  <2>2. idt[v].sel = 8 /\ idt[v].flags = 142 /\ idt[v].stub = v
    <3>1. idt[v] = [stub |-> v, sel |-> 8, flags |-> 142]
      BY <1>3, Zenon DEF interrupt_gate
    <3>. QED BY <3>1
  <2>. QED BY <1>2, <1>4, <2>1, <2>2, CodeSegment DEF Enters
<1>6. \A l \in Lines : 32 + l \in IrqGates /\ vector(l) = 32 + l
  BY <1>2 DEF Lines, IrqGates, vector
<1>7. \A v : ~GateFlag(v)
  BY DEF TablesSound, GateFlag, FlagAfter
<1>. QED BY <1>2, <1>5, <1>6, <1>7

-----------------------------------------------------------------------------
\* A step of main().
StepOf(s) == /\ boot \in 0 .. Len(Order) - 1 /\ Order[boot + 1] = s
             /\ boot' = boot + 1 /\ kernel' = kernel /\ Order' = Order

LEMMA StepTaken ==
    ASSUME TablesSound, NEW s, Step(s), kernel' = kernel PROVE StepOf(s)
<1>1. boot \in 0 .. Len(Order) /\ Len(Order) \in Nat
  BY OrderPlaces DEF TablesSound
<1>2. Order' = Order
  BY DEF Order, Own
<1>. QED BY <1>1, <1>2 DEF Step, Ready, StepOf

\* Where main() is by the name of its step.
LEMMA StepPlace ==
    ASSUME TablesSound, NEW s, StepOf(s)
    PROVE  /\ boot \in Nat /\ boot + 1 \in 1 .. Len(Order)
           /\ s = "GDT" <=> boot = 0
           /\ s = "IDT" <=> boot = 1
           /\ s = "exceptions" <=> boot = 2
           /\ s = "IRQ" <=> boot = 3
           /\ s = "interrupts" <=> boot = 4
           /\ s = "timer" <=> boot = 9
           /\ s = "enable" => boot > 9
<1>1. boot \in Nat /\ boot + 1 \in 1 .. Len(Order) /\ kernel \in Kernels
  BY OrderPlaces DEF TablesSound, StepOf
<1>2. Order[boot + 1] = s
  BY DEF StepOf
<1>3. /\ boot = 0 => boot + 1 = 1
      /\ boot = 1 => boot + 1 = 2
      /\ boot = 2 => boot + 1 = 3
      /\ boot = 3 => boot + 1 = 4
      /\ boot = 4 => boot + 1 = 5
      /\ boot = 9 => boot + 1 = 10
  BY <1>1
<1>. QED BY <1>1, <1>2, <1>3, OrderShape, OrderPlaces

LEMMA StillMain ==
    ASSUME TablesSound, boot' <= 10, boot \in Nat, boot' = boot + 1,
           UNCHANGED <<ints, run, stack, isr>>
    PROVE  run' = Main /\ Top' = Code /\ ~ints' /\ isr' = {}
<1>1. boot <= 10
  OBVIOUS
<1>. QED BY <1>1 DEF TablesSound, Top

LEMMA TableStepKeeps ==
    ASSUME TablesSound, UNCHANGED <<run, stack, isr>>,
           (GDT_init /\ gdt_flush) \/ IDT_init \/ init_exceptions \/ irq_remap \/ init_interrupts
    PROVE  TablesSound'
<1>1. CASE GDT_init /\ gdt_flush
  <2>1. /\ StepOf("GDT") /\ UNCHANGED <<idt, handlers, remapped, ints>>
        /\ gdt' = SegmentTable /\ segments' = <<8, 16>>
    BY <1>1, StepTaken DEF GDT_init, gdt_flush
  <2>2. boot = 0 /\ boot' = 1
    BY <2>1, StepPlace DEF StepOf
  <2>. QED BY <2>1, <2>2, StillMain DEF TablesSound, StepOf
<1>2. CASE IDT_init
  <2>1. /\ StepOf("IDT") /\ UNCHANGED <<gdt, segments, handlers, remapped, ints>>
        /\ idt' = [v \in Vectors |-> NoGate]
    BY <1>2, StepTaken DEF IDT_init
  <2>2. boot = 1 /\ boot' = 2
    BY <2>1, StepPlace DEF StepOf
  <2>3. idt' \in [Vectors -> idt_entry] /\ \A v \in Vectors : idt'[v].flags \in {0, 142}
    BY <2>1 DEF NoGate, idt_entry, Byte
  <2>. QED BY <2>1, <2>2, <2>3, StillMain DEF TablesSound, StepOf
<1>3. ASSUME NEW S \in SUBSET Vectors, idt' = set_gates(S)
      PROVE  /\ idt' \in [Vectors -> idt_entry]
             /\ \A v \in Vectors : idt'[v].flags \in {0, 142}
             /\ \A v \in S : idt'[v] = interrupt_gate(v)
             /\ \A v \in Vectors \ S : idt'[v] = idt[v]
  <2>1. ASSUME NEW v \in Vectors
        PROVE  interrupt_gate(v) \in idt_entry /\ interrupt_gate(v).flags = 142
    BY DEF interrupt_gate, idt_entry, Byte
  <2>2. \A v \in Vectors : idt'[v] = IF v \in S THEN interrupt_gate(v) ELSE idt[v]
    BY <1>3 DEF set_gates
  <2>3. \A v \in Vectors : idt[v] \in idt_entry /\ idt[v].flags \in {0, 142}
    BY DEF TablesSound
  <2>4. idt' \in [Vectors -> idt_entry]
    BY <1>3, <2>1, <2>3 DEF set_gates
  <2>5. \A v \in Vectors : idt'[v].flags \in {0, 142}
    BY <2>1, <2>2, <2>3
  <2>. QED BY <2>2, <2>4, <2>5
<1>4. CASE init_exceptions
  <2>1. /\ StepOf("exceptions") /\ UNCHANGED <<gdt, segments, handlers, remapped, ints>>
        /\ idt' = set_gates(Exceptions)
    BY <1>4, StepTaken DEF init_exceptions
  <2>2. boot = 2 /\ boot' = 3
    BY <2>1, StepPlace DEF StepOf
  <2>3. Exceptions \in SUBSET Vectors
    BY DEF Exceptions, Vectors
  <2>. QED BY <1>3, <2>1, <2>2, <2>3, StillMain DEF TablesSound, StepOf
<1>5. CASE irq_remap
  <2>1. /\ StepOf("IRQ") /\ UNCHANGED <<gdt, segments, idt, handlers, ints>> /\ remapped' = TRUE
    BY <1>5, StepTaken DEF irq_remap
  <2>2. boot = 3 /\ boot' = 4
    BY <2>1, StepPlace DEF StepOf
  <2>. QED BY <2>1, <2>2, StillMain DEF TablesSound, StepOf
<1>6. CASE init_interrupts
  <2>1. /\ StepOf("interrupts") /\ UNCHANGED <<gdt, segments, remapped, ints>>
        /\ idt' = set_gates(IrqGates) /\ handlers' = {}
    BY <1>6, StepTaken DEF init_interrupts
  <2>2. boot = 4 /\ boot' = 5
    BY <2>1, StepPlace DEF StepOf
  <2>3. IrqGates \in SUBSET Vectors /\ Exceptions \subseteq Vectors \ IrqGates
    BY DEF IrqGates, Exceptions, Vectors
  <2>. QED BY <1>3, <2>1, <2>2, <2>3, StillMain DEF TablesSound, StepOf
<1>. QED BY <1>1, <1>2, <1>4, <1>5, <1>6

\* The steps that change no table and install no handler.
Plain == \/ dbz_handler \/ pagefault_handler \/ enable_paging \/ SimpleTimer
         \/ FramePool \/ MemPool \/ Scheduler \/ BlockingDisk \/ NewThread

LEMMA OtherStepKeeps ==
    ASSUME TablesSound, UNCHANGED <<run, stack, isr>>,
           Plain \/ register_handler \/ enable_interrupts
    PROVE  TablesSound'
<1>1. CASE Plain
  <2>1. PICK s \in Names \ {"GDT", "IDT", "exceptions", "IRQ", "interrupts", "timer", "enable"} :
          Step(s) /\ UNCHANGED <<kernel, gdt, segments, idt, remapped, handlers, ints>>
    BY ZenonT(60), <1>1 DEF Plain, dbz_handler, pagefault_handler, enable_paging, SimpleTimer,
       FramePool,
       MemPool, Scheduler, BlockingDisk, NewThread, register_exception, new, tables, Names
  <2>2. StepOf(s)
    BY <2>1, StepTaken
  <2>3. boot \in Nat /\ boot' = boot + 1 /\ boot \notin {0, 1, 2, 3, 4, 9}
    BY <2>1, <2>2, StepPlace DEF StepOf
  <2>. QED BY <2>1, <2>2, <2>3, StillMain DEF TablesSound, StepOf
<1>2. CASE register_handler
  <2>1. /\ StepOf("timer") /\ UNCHANGED <<gdt, segments, idt, remapped, ints>>
        /\ handlers' = handlers \cup {Timer}
    BY <1>2, StepTaken DEF register_handler, tables
  <2>2. boot = 9 /\ boot' = 10
    BY <2>1, StepPlace DEF StepOf
  <2>. QED BY <2>1, <2>2, StillMain DEF TablesSound, StepOf
<1>3. CASE enable_interrupts
  <2>1. StepOf("enable") /\ UNCHANGED <<gdt, segments, idt, remapped, handlers>>
    BY <1>3, StepTaken DEF enable_interrupts, tables
  <2>2. boot \in Nat /\ boot > 9 /\ boot' = boot + 1
    BY <2>1, StepPlace DEF StepOf
  <2>. QED BY <2>1, <2>2 DEF TablesSound, StepOf
<1>. QED BY <1>1, <1>2, <1>3

LEMMA SetUpKeeps ==
    ASSUME DispatchSound, SetUp PROVE DispatchSound'
<1>1. Top.at = "code" /\ UNCHANGED <<irr, isr, run, stack, flag>>
  BY DEF SetUp
<1>2. \/ (GDT_init /\ gdt_flush) \/ IDT_init \/ init_exceptions \/ irq_remap \/ init_interrupts
      \/ Plain \/ register_handler \/ enable_interrupts
  BY DEF SetUp, Start, Plain
<1>3. TablesSound'
  BY <1>1, <1>2, TableStepKeeps, OtherStepKeeps DEF DispatchSound
<1>4. ints' = ints \/ ints' = TRUE
  BY ZenonT(60), <1>2 DEF GDT_init, IDT_init, init_exceptions, irq_remap, init_interrupts, Plain,
     dbz_handler, pagefault_handler, enable_paging, SimpleTimer, FramePool, MemPool, Scheduler,
     BlockingDisk, NewThread, register_exception, new, register_handler, enable_interrupts
<1>5. StacksSound'
  <2>1. Len(stack[run]) = 1
    BY <1>1, TopIs DEF DispatchSound
  <2>. QED BY <1>1, <1>4, <2>1 DEF StacksSound, DispatchSound
<1>6. kernel' = kernel /\ boot' = boot + 1
  BY ZenonT(60), <1>2 DEF Step, GDT_init, IDT_init, init_exceptions, irq_remap, init_interrupts,
     Plain,
     dbz_handler, pagefault_handler, enable_paging, SimpleTimer, FramePool, MemPool, Scheduler,
     BlockingDisk, NewThread, register_exception, new, register_handler, enable_interrupts
<1>7. handlers' = handlers \/ isr = {}
  <2>1. boot \in Nat
    BY OrderPlaces DEF DispatchSound, TablesSound
  <2>2. boot <= 10 \/ (boot >= 10 /\ boot' >= 10)
    BY <1>6, <2>1
  <2>. QED BY <1>3, <2>2 DEF DispatchSound, TablesSound
<1>8. Top' = Top /\ Served' = Served
  BY <1>1 DEF Top, Served
<1>9. ServiceSound'
  BY <1>1, <1>6, <1>7, <1>8 DEF ServiceSound, DispatchSound
<1>. QED BY <1>3, <1>5, <1>9 DEF DispatchSound

-----------------------------------------------------------------------------
\* The end-of-interrupt signal.
LEMMA EOIClears == ASSUME NEW l \in Lines PROVE EOI({l, master(l)}, l) = {}
BY DEF EOI, First, slave, master, Lines

LEMMA EOITimer ==
    ASSUME NEW S \in SUBSET Lines
    PROVE  EOI(S, Timer) \subseteq S /\ Timer \notin EOI(S, Timer)
BY DEF EOI, First, slave, Timer, Lines

LEMMA raiseKeeps ==
    ASSUME DispatchSound, NEW l \in Devices, raise(l) PROVE DispatchSound'
<1>1. UNCHANGED <<setup, isr, run, stack, ints, flag>> /\ irr' = irr \cup {l}
  BY DEF raise
<1>2. UNCHANGED <<kernel, boot, gdt, segments, idt, remapped, handlers>> /\ Order' = Order
  BY <1>1 DEF setup, tables, Order, Own
<1>3. Top' = Top /\ Served' = Served
  BY <1>1 DEF Top, Served
<1>4. StacksSound'
  BY <1>1 DEF StacksSound, DispatchSound
<1>5. TablesSound'
  BY <1>1, <1>2, <1>3 DEF TablesSound, DispatchSound
<1>6. ServiceSound'
  BY <1>1, <1>2, <1>3 DEF ServiceSound, DispatchSound
<1>. QED BY <1>4, <1>5, <1>6 DEF DispatchSound

LEMMA acceptKeeps ==
    ASSUME DispatchSound, NEW l \in Devices, accept(l)
    PROVE  DispatchSound' /\ boot > 10 /\ Top'.at = "dispatch"
<1>1. /\ ints /\ l \in irr /\ l \in Lines /\ UNCHANGED <<setup, run, flag>>
      /\ irr' = irr \ {l} /\ isr' = isr \cup {l, master(l)} /\ Enter(vector(l))
  BY LinesAssumption DEF accept
<1>2. boot > 10
  BY <1>1, Booted DEF DispatchSound
<1>3. Push("dispatch", l) /\ ~ints'
  <2>1. vector(l) = 32 + l /\ Enters(32 + l) /\ idt[32 + l].stub = 32 + l
    BY <1>1, <1>2, Gates DEF DispatchSound
  <2>2. 32 + l > 31 /\ (32 + l) - 32 = l
    BY <1>1 DEF Lines
  <2>3. ~GateFlag(vector(l))
    BY <1>2, Gates DEF DispatchSound
  <2>. QED BY <1>1, <2>1, <2>2, <2>3 DEF Enter
<1>4. Len(stack[run]) = 1 /\ Top.at \in {"start", "code"}
  BY <1>1, TopIs DEF StacksSound, DispatchSound
<1> DEFINE a == [at |-> "dispatch", no |-> l, eflags |-> ints]
<1>5. a \in Activation
  BY <1>1 DEF Activation, DispatchSound, StacksSound
<1>6. /\ Typed /\ Others /\ Len(stack'[run]) = 2
      /\ stack'[run][1] = stack[run][1] /\ stack'[run][2] = a
  BY <1>3, <1>4, <1>5, Pushes DEF DispatchSound
<1>7. Shaped(stack'[run])
  BY <1>6 DEF Shaped, DispatchSound, StacksSound
<1>8. StacksSound'
  <2>1. ints' = FALSE
    BY <1>1, <1>3 DEF Enter, GateFlag, FlagAfter
  <2>. QED BY <1>1, <1>6, <1>7, <2>1, StacksKept DEF DispatchSound
<1>9. TablesSound'
  BY <1>1, <1>2, TablesKept DEF DispatchSound
<1>10. Top' = a /\ Top'.at = "dispatch" /\ Top'.no = l
  BY <1>1, <1>6 DEF Top, Last
<1>11. ServiceSound'
  <2>1. kernel' = kernel /\ handlers' = handlers /\ Served' /\ ~Served
    BY <1>1, <1>4, <1>10 DEF setup, Served
  <2>2. irr' \subseteq Devices /\ isr' \subseteq Lines /\ master(l) \in {2, l}
    BY <1>1 DEF DispatchSound, ServiceSound, master, Lines
  <2>3. CASE kernel # "threads"
    <3>1. isr' = {l, master(l)}
      BY <1>1, <2>1, <2>3 DEF DispatchSound, ServiceSound
    <3>2. \A s \in Stacks \ {run'} : Len(stack'[s]) = 1
      BY <1>1, <1>6, <2>3 DEF DispatchSound, ServiceSound, Others
    <3>. QED BY <1>1, <1>10, <2>1, <2>2, <2>3, <3>1, <3>2 DEF ServiceSound
  <2>4. CASE kernel = "threads"
    <3>1. isr' \ {2} \subseteq Devices
      BY <1>1, <2>2, <2>4 DEF DispatchSound, ServiceSound
    <3>2. Timer \in isr' /\ Timer \in handlers' => l = Timer
      <4>1. Timer # 2
        BY DEF Timer
      <4>2. ~(Timer \in isr /\ Timer \in handlers)
        BY <1>4, <2>4 DEF DispatchSound, ServiceSound
      <4>. QED BY <1>1, <2>1, <2>2, <4>1, <4>2
    <3>. QED BY <1>1, <1>10, <2>1, <2>2, <2>4, <3>1, <3>2 DEF ServiceSound
  <2>. QED BY <2>3, <2>4
<1>. QED BY <1>2, <1>8, <1>9, <1>10, <1>11 DEF DispatchSound

-----------------------------------------------------------------------------
\* What the activation on top goes on to: the tables, the stacks and the flag take
\* no part in it.
LEMMA TopGoesOn ==
    ASSUME DispatchSound, Top.at \notin {"start", "code"},
           NEW where \in {"handler", "return", "halted"}, Goto(where),
           UNCHANGED <<setup, run, flag, ints>>
    PROVE  /\ StacksSound' /\ TablesSound' /\ boot > 10
           /\ Top'.at = where /\ Top'.no = Top.no
           /\ \A s \in Stacks : Len(stack'[s]) = Len(stack[s])
<1>1. StacksSound /\ TablesSound /\ Len(stack[run]) = 2 /\ Top.at # "code"
  BY TopIs DEF DispatchSound
<1>2. boot > 10
  BY <1>1, Booted
<1>3. where \in {"start", "code", "dispatch", "handler", "return", "exception", "halted"}
  OBVIOUS
<1>4. /\ Typed /\ Others /\ Len(stack'[run]) = 2 /\ stack'[run][1] = stack[run][1]
      /\ stack'[run][2] = [stack[run][2] EXCEPT !.at = where]
  BY <1>1, <1>3, GoesOn
<1>5. stack[run][2] = Top /\ Top \in Activation /\ run' = run
  BY <1>1, TopIs
<1>6. Top' = [Top EXCEPT !.at = where]
  BY <1>4, <1>5 DEF Top, Last
<1>7. Top'.at = where /\ Top'.no = Top.no
  BY <1>5, <1>6 DEF Activation
<1>8. Shaped(stack'[run])
  <2>1. stack'[run][2].at = where
    BY <1>4, <1>5, <1>6, <1>7
  <2>2. stack'[run][1].at \in {"start", "code"}
    BY <1>1, <1>4, Zenon DEF StacksSound
  <2>. QED BY <1>4, <2>1, <2>2 DEF Shaped
<1>9. ints = FALSE /\ ints' = FALSE
  BY <1>1 DEF StacksSound
<1>10. StacksSound'
  BY <1>1, <1>4, <1>8, <1>9, StacksKept
<1>11. TablesSound'
  BY <1>1, <1>2, TablesKept
<1>12. \A s \in Stacks : Len(stack'[s]) = Len(stack[s])
  BY <1>1, <1>4 DEF Others
<1>. QED BY <1>2, <1>7, <1>10, <1>11, <1>12

LEMMA dispatch_earlyKeeps ==
    ASSUME DispatchSound, dispatch_early PROVE DispatchSound'
<1>1. /\ kernel = "threads" /\ Top.at = "dispatch" /\ Top.no \in handlers
      /\ isr' = EOI(isr, Top.no) /\ Goto("handler") /\ UNCHANGED <<setup, irr, run, ints, flag>>
  BY DEF dispatch_early, EOIFirst
<1>2. /\ StacksSound' /\ TablesSound' /\ boot > 10
      /\ Top'.at = "handler" /\ Top'.no = Top.no
  BY <1>1, TopGoesOn
<1>3. handlers = {Timer} /\ handlers' = {Timer} /\ kernel' = kernel /\ Top.no = Timer
  BY <1>1, <1>2, Gates DEF DispatchSound, setup
<1>4. isr' \subseteq isr /\ Timer \notin isr'
  BY <1>1, <1>3, EOITimer DEF DispatchSound, ServiceSound
<1>5. ServiceSound'
  BY <1>1, <1>3, <1>4 DEF DispatchSound, ServiceSound
<1>. QED BY <1>2, <1>5 DEF DispatchSound

LEMMA ServedGoesOn ==
    ASSUME DispatchSound, Served, NEW where \in {"handler", "return"}, Goto(where),
           UNCHANGED <<setup, run, flag, ints, irr, isr>>,
           kernel = "threads" => ~(Top.at = "dispatch" /\ Top.no = Timer /\ Timer \in handlers)
    PROVE  DispatchSound'
<1>1. /\ StacksSound' /\ TablesSound'
      /\ Top'.at = where /\ Top'.no = Top.no
      /\ \A s \in Stacks : Len(stack'[s]) = Len(stack[s])
  BY TopGoesOn DEF Served
<1>2. kernel' = kernel /\ handlers' = handlers
  BY DEF setup
<1>3. Served'
  BY <1>1 DEF Served
<1>4. ServiceSound'
  BY <1>1, <1>2, <1>3 DEF DispatchSound, ServiceSound
<1>. QED BY <1>1, <1>4 DEF DispatchSound

LEMMA dispatch_lateKeeps ==
    ASSUME DispatchSound, dispatch_late \/ no_handler \/ handle_interrupt
    PROVE  DispatchSound'
<1>1. CASE dispatch_late
  BY <1>1, ServedGoesOn DEF dispatch_late, EOIFirst, Served
<1>2. CASE no_handler
  BY <1>2, ServedGoesOn DEF no_handler, Served
<1>3. CASE handle_interrupt
  BY <1>3, ServedGoesOn DEF handle_interrupt, Served
<1>. QED BY <1>1, <1>2, <1>3

\* An iret: the interrupted stack, with the flag it had.
LEMMA TopReturns ==
    ASSUME DispatchSound, Top.at \notin {"start", "code"}, Iret,
           UNCHANGED <<setup, run, flag>>
    PROVE  /\ StacksSound' /\ TablesSound' /\ boot > 10 /\ ~Served'
           /\ \A s \in Stacks \ {run} : Len(stack'[s]) = Len(stack[s])
<1>1. StacksSound /\ TablesSound /\ Len(stack[run]) = 2 /\ Top.at # "code"
  BY TopIs DEF DispatchSound
<1>2. boot > 10
  BY <1>1, Booted
<1>3. /\ Typed /\ Others /\ Len(stack'[run]) = 1 /\ stack'[run][1] = stack[run][1]
      /\ ints' = stack[run][2].eflags
  BY <1>1, Pops
<1>4. stack[run][2] = Top /\ Top \in Activation
  BY <1>1, TopIs
<1>5. ints' \in BOOLEAN
  BY <1>3, <1>4 DEF Activation
<1>6. stack'[run][1].at \in {"start", "code"}
  BY <1>1, <1>3, Zenon DEF StacksSound
<1>7. Shaped(stack'[run])
  BY <1>3, <1>6 DEF Shaped
<1>8. StacksSound'
  BY <1>1, <1>3, <1>5, <1>7, StacksKept
<1>9. TablesSound'
  BY <1>1, <1>2, TablesKept
<1>10. ~Served'
  BY <1>3, <1>6 DEF Served, Top, Last
<1>. QED BY <1>2, <1>3, <1>8, <1>9, <1>10 DEF Others

LEMMA return_from_interruptKeeps ==
    ASSUME DispatchSound, return_from_interrupt PROVE DispatchSound'
<1>1. /\ Top.at = "return" /\ signal_late /\ Iret /\ Served
      /\ UNCHANGED <<setup, irr, run, flag>>
  BY DEF return_from_interrupt, Served
<1>2. /\ StacksSound' /\ TablesSound' /\ boot > 10 /\ ~Served'
      /\ \A s \in Stacks \ {run} : Len(stack'[s]) = Len(stack[s])
  BY <1>1, TopReturns
<1>3. kernel' = kernel /\ handlers' = handlers /\ run' = run
  BY <1>1 DEF setup
<1>4. CASE kernel = "threads"
  <2>1. isr' = isr
    BY <1>1, <1>4 DEF signal_late, EOIFirst
  <2>2. ~(Timer \in isr /\ Timer \in handlers)
    BY <1>1, <1>4 DEF DispatchSound, ServiceSound
  <2>. QED BY <1>1, <1>2, <1>3, <1>4, <2>1, <2>2 DEF DispatchSound, ServiceSound
<1>5. CASE kernel # "threads"
  <2>1. isr = {Top.no, master(Top.no)} /\ Top.no \in Lines
    BY <1>1, <1>5 DEF DispatchSound, ServiceSound
  <2>2. isr' = EOI(isr, Top.no)
    BY <1>1, <1>5 DEF signal_late, EOIFirst
  <2>3. isr' = {}
    BY <2>1, <2>2, EOIClears
  <2>. QED BY <1>1, <1>2, <1>3, <1>5, <2>3 DEF DispatchSound, ServiceSound
<1>. QED BY <1>2, <1>4, <1>5 DEF DispatchSound

LEMMA dispatch_exceptionKeeps ==
    ASSUME DispatchSound, dispatch_exception PROVE DispatchSound'
<1>1. Top.at = "exception" /\ UNCHANGED <<setup, irr, isr, run, flag>> /\ ~Served
  BY DEF dispatch_exception, Served
<1>2. /\ StacksSound' /\ TablesSound' /\ ~Served'
      /\ \A s \in Stacks \ {run} : Len(stack'[s]) = Len(stack[s])
  <2>1. CASE Iret
    BY <1>1, <2>1, TopReturns
  <2>2. CASE Goto("halted") /\ UNCHANGED ints
    BY <1>1, <2>2, TopGoesOn DEF Served
  <2>. QED BY <2>1, <2>2 DEF dispatch_exception
<1>3. kernel' = kernel /\ handlers' = handlers
  BY <1>1 DEF setup
<1>4. ServiceSound'
  BY <1>1, <1>2, <1>3 DEF DispatchSound, ServiceSound, Served
<1>. QED BY <1>2, <1>4 DEF DispatchSound

LEMMA faultKeeps ==
    ASSUME DispatchSound, NEW e \in {0, 13, PageFault}, fault(e) PROVE DispatchSound'
<1>1. /\ Ready /\ Top.at = "code" /\ UNCHANGED <<setup, irr, isr, run, flag>> /\ Enter(e)
  BY DEF fault
<1>2. StacksSound /\ TablesSound /\ boot > 10 /\ Len(stack[run]) = 1 /\ ~Served
  BY <1>1, Booted, TopIs DEF DispatchSound, Served
<1>3. Push("exception", e) /\ ~ints'
  <2>1. e \in Exceptions /\ ~(e > 31)
    BY DEF Exceptions, PageFault
  <2>2. Enters(e) /\ idt[e].stub = e /\ ~GateFlag(e)
    BY <1>2, <2>1, Gates
  <2>. QED BY <1>1, <2>1, <2>2, Zenon DEF Enter
<1> DEFINE a == [at |-> "exception", no |-> e, eflags |-> ints]
<1>4. a \in Activation
  BY <1>2 DEF Activation, StacksSound, Exceptions, PageFault
<1>5. /\ Typed /\ Others /\ Len(stack'[run]) = 2
      /\ stack'[run][1] = stack[run][1] /\ stack'[run][2] = a
  BY <1>2, <1>3, <1>4, Pushes
<1>6. Shaped(stack'[run])
  BY <1>2, <1>5 DEF Shaped, StacksSound
<1>7. ints' = FALSE
  BY <1>1, <1>3 DEF Enter, GateFlag, FlagAfter
<1>8. StacksSound'
  BY <1>1, <1>2, <1>5, <1>6, <1>7, StacksKept
<1>9. TablesSound'
  BY <1>1, <1>2, TablesKept
<1>10. ~Served'
  BY <1>1, <1>5 DEF Served, Top, Last
<1>11. ServiceSound'
  BY <1>1, <1>2, <1>5, <1>10 DEF DispatchSound, ServiceSound, setup, Others
<1>. QED BY <1>8, <1>9, <1>11 DEF DispatchSound

-----------------------------------------------------------------------------
\* Switches leave lines in service with whoever serves them.
LEMMA SwitchKeeps ==
    ASSUME DispatchSound, NEW t \in Threads, SwitchTo(t), UNCHANGED isr, boot > 10,
           Typed, Others, Shaped(stack'[run]), Len(stack'[run]) = Len(stack[run]),
           Top.at = "code" \/ (kernel = "threads" /\ Top.at = "handler")
    PROVE  DispatchSound'
<1>1. UNCHANGED <<setup, irr>> /\ run' = t /\ t \in Stacks
  BY DEF SwitchTo, Stacks
<1>2. StacksSound' /\ \A s \in Stacks : Len(stack'[s]) = Len(stack[s])
  BY StacksSwitched DEF DispatchSound
<1>3. TablesSound'
  BY <1>1, TablesKept DEF DispatchSound
<1>4. kernel' = kernel /\ handlers' = handlers
  BY <1>1 DEF setup
<1>5. CASE kernel = "threads"
  <2>1. ~(Timer \in isr /\ Timer \in handlers)
    BY <1>5 DEF DispatchSound, ServiceSound
  <2>. QED BY <1>1, <1>2, <1>3, <1>4, <1>5, <2>1 DEF DispatchSound, ServiceSound
<1>6. CASE kernel # "threads"
  <2>1. Len(stack[run]) = 1 /\ ~Served
    BY <1>6, TopIs DEF DispatchSound, Served
  <2>2. isr = {} /\ \A s \in Stacks : Len(stack[s]) = 1
    BY <1>6, <2>1 DEF DispatchSound, ServiceSound
  <2>3. \A s \in Stacks : Len(stack'[s]) = 1
    BY <1>2, <2>2
  <2>4. stack'[run'][1].at \in {"start", "code"}
    BY <1>1, <1>2, Zenon DEF StacksSound
  <2>5. ~Served'
    BY <1>1, <2>3, <2>4 DEF Served, Top, Last
  <2>6. isr' = {} /\ irr' \subseteq Devices
    BY <1>1, <2>2 DEF DispatchSound, ServiceSound
  <2>. QED BY <1>2, <1>3, <1>4, <1>6, <2>3, <2>5, <2>6 DEF DispatchSound, ServiceSound
<1>. QED BY <1>5, <1>6

LEMMA kick_offKeeps ==
    ASSUME DispatchSound, NEW t \in Threads, kick_off(t) \/ pass_on_CPU(t)
    PROVE  DispatchSound'
<1>1. Top.at = "code" /\ SwitchTo(t) /\ UNCHANGED <<isr, stack>> /\ (Ready \/ run # Main)
  BY DEF kick_off, pass_on_CPU
<1>2. boot > 10
  BY <1>1, Booted DEF DispatchSound
<1>3. Typed /\ Others /\ Shaped(stack'[run]) /\ Len(stack'[run]) = Len(stack[run])
  BY <1>1 DEF DispatchSound, StacksSound, Typed, Others, Shaped
<1>. QED BY <1>1, <1>2, <1>3, SwitchKeeps

LEMMA end_turnKeeps ==
    ASSUME DispatchSound, NEW t \in Threads, end_turn(t) PROVE DispatchSound'
<1>1. /\ Top.at = "handler" /\ kernel = "threads"
      /\ Goto("return") /\ SwitchTo(t) /\ UNCHANGED isr
  BY DEF end_turn
<1>2. StacksSound /\ boot > 10 /\ Len(stack[run]) = 2
  BY <1>1, Booted, TopIs DEF DispatchSound
<1>3. /\ Typed /\ Others /\ Len(stack'[run]) = 2 /\ stack'[run][1] = stack[run][1]
      /\ stack'[run][2] = [stack[run][2] EXCEPT !.at = "return"]
  BY <1>1, <1>2, GoesOn
<1>4. stack'[run][2].at = "return"
  <2>1. stack[run][2] \in Activation
    BY <1>2, TopIs
  <2>. QED BY <1>3, <2>1 DEF Activation
<1>5. stack'[run][1].at \in {"start", "code"}
  BY <1>2, <1>3, Zenon DEF StacksSound
<1>6. Shaped(stack'[run])
  BY <1>3, <1>4, <1>5 DEF Shaped
<1>. QED BY <1>1, <1>2, <1>3, <1>6, SwitchKeeps

\* The dispatch of NULL halts, in the timer's handler or in the code of a thread.
LEMMA dispatch_NULLKeeps ==
    ASSUME DispatchSound, dispatch_NULL PROVE DispatchSound'
<1>1. /\ kernel = "threads" /\ ints' = FALSE
      /\ \/ Top.at = "handler" /\ Goto("halted")
         \/ Top.at = "code" /\ Push("halted", NoLine)
      /\ UNCHANGED <<setup, irr, isr, run, flag>>
      /\ Top.at = "code" => run # Main
  BY DEF dispatch_NULL
<1>2. StacksSound /\ TablesSound /\ boot > 10 /\ stack[run][1].at \in {"start", "code"}
  BY <1>1, Booted, Zenon DEF DispatchSound, StacksSound
<1>3. /\ Typed /\ Others /\ Len(stack'[run]) = 2 /\ stack'[run][1] = stack[run][1]
      /\ stack'[run][2].at = "halted"
  <2>1. CASE Top.at = "handler" /\ Goto("halted")
    <3>1. Len(stack[run]) = 2 /\ stack[run][2] \in Activation
      BY <1>2, <2>1, TopIs
    <3>2. /\ Typed /\ Others /\ Len(stack'[run]) = 2 /\ stack'[run][1] = stack[run][1]
          /\ stack'[run][2] = [stack[run][2] EXCEPT !.at = "halted"]
      BY <1>2, <2>1, <3>1, GoesOn
    <3>. QED BY <3>1, <3>2 DEF Activation
  <2>2. CASE Top.at = "code" /\ Push("halted", NoLine)
    <3>1. Len(stack[run]) = 1 /\ ints \in BOOLEAN
      BY <1>2, <2>2, TopIs DEF StacksSound
    <3>2. [at |-> "halted", no |-> NoLine, eflags |-> ints] \in Activation
      BY <3>1 DEF Activation
    <3>3. /\ Typed /\ Others /\ Len(stack'[run]) = 2 /\ stack'[run][1] = stack[run][1]
          /\ stack'[run][2] = [at |-> "halted", no |-> NoLine, eflags |-> ints]
      BY <1>2, <2>2, <3>1, <3>2, Pushes
    <3>. QED BY <3>3
  <2>. QED BY <1>1, <2>1, <2>2
<1>4. Shaped(stack'[run]) /\ ints' \in BOOLEAN /\ ~ints'
  BY <1>1, <1>2, <1>3 DEF Shaped
<1>5. StacksSound'
  BY <1>1, <1>2, <1>3, <1>4, StacksKept
<1>6. TablesSound'
  BY <1>1, <1>2, TablesKept
<1>7. ~(Timer \in isr /\ Timer \in handlers)
  BY <1>1 DEF DispatchSound, ServiceSound
<1>8. ServiceSound'
  BY <1>1, <1>7 DEF DispatchSound, ServiceSound, setup
<1>. QED BY <1>5, <1>6, <1>8 DEF DispatchSound

LEMMA thread_startKeeps ==
    ASSUME DispatchSound, thread_start PROVE DispatchSound'
<1>1. /\ Top.at = "start" /\ Goto("code") /\ ints' = (kernel = "threads")
      /\ UNCHANGED <<setup, irr, isr, run, flag>>
  BY DEF thread_start
<1>2. StacksSound /\ TablesSound /\ boot > 10 /\ Len(stack[run]) = 1 /\ ~Served
  BY <1>1, Booted, TopIs DEF DispatchSound, Served
<1>3. /\ Typed /\ Others /\ Len(stack'[run]) = 1
      /\ stack'[run][1] = [stack[run][1] EXCEPT !.at = "code"]
  BY <1>1, <1>2, GoesOn
<1>4. stack'[run][1].at = "code"
  <2>1. stack[run][1] \in Activation
    BY <1>2, TopIs
  <2>. QED BY <1>3, <2>1 DEF Activation
<1>5. Shaped(stack'[run]) /\ ints' \in BOOLEAN
  BY <1>1, <1>3, <1>4 DEF Shaped
<1>6. StacksSound'
  BY <1>1, <1>2, <1>3, <1>5, StacksKept
<1>7. TablesSound'
  BY <1>1, <1>2, TablesKept
<1>8. ~Served'
  BY <1>1, <1>3, <1>4 DEF Served, Top, Last
<1>9. ServiceSound'
  BY <1>1, <1>2, <1>3, <1>8 DEF DispatchSound, ServiceSound, setup, Others
<1>. QED BY <1>6, <1>7, <1>9 DEF DispatchSound

-----------------------------------------------------------------------------
\* The first state, and every step.
LEMMA InitSound == ASSUME Init PROVE DispatchSound
<1>1. /\ kernel \in Kernels /\ boot = 0 /\ ints = FALSE /\ handlers = {}
      /\ idt = [v \in Vectors |-> NoGate] /\ irr = {} /\ isr = {} /\ run = Main
      /\ stack = [s \in Stacks |-> IF s = Main THEN <<Code>> ELSE <<Started>>]
      /\ flag = [s \in Stacks |-> FALSE]
  BY DEF Init, StartInit
<1>2. Code \in Activation /\ Started \in Activation /\ Main \in Stacks
  BY DEF Code, Started, Activation, Stacks
<1>3. Code.at = "code" /\ Started.at = "start"
  BY DEF Code, Started
<1>4. ASSUME NEW s \in Stacks
      PROVE  /\ stack[s] \in Seq(Activation) /\ Len(stack[s]) = 1
             /\ stack[s][1].at \in {"start", "code"}
  <2>1. CASE s = Main
    BY <1>1, <1>2, <1>3, <2>1
  <2>2. CASE s # Main
    BY <1>1, <1>2, <1>3, <2>2
  <2>. QED BY <2>1, <2>2
<1>5. Top = Code /\ ~Served
  BY <1>1, <1>2, <1>3 DEF Top, Last, Served
<1>6. StacksSound
  <2>1. stack \in [Stacks -> Seq(Activation)]
    BY <1>1, <1>2
  <2>2. \A s \in Stacks : ~flag[s]
    BY <1>1
  <2>3. flag \in [Stacks -> BOOLEAN] /\ run \in Stacks
    BY <1>1, <1>2
  <2>4. ASSUME NEW s \in Stacks PROVE Len(stack[s]) # 2
    <3> DEFINE n == Len(stack[s])
    <3>1. n = 1
      BY <1>4
    <3> HIDE DEF n
    <3>2. n # 2
      BY <3>1
    <3>. QED BY <3>2 DEF n
  <2>5. ints \in BOOLEAN /\ ~ints
    BY <1>1
  <2>6. ASSUME NEW s \in Stacks
        PROVE  LET n == Len(stack[s])
               IN  /\ n = 1 \/ n = 2
                   /\ stack[s][1].at \in {"start", "code"}
                   /\ n = 2 => stack[s][2].at \notin {"start", "code"}
                   /\ flag[s] /\ s # run => n = 1
    BY <1>4, <2>2, <2>4
  <2>. QED BY <2>1, <2>3, <2>5, <2>6 DEF StacksSound
<1>7. TablesSound
  <2>1. NoGate \in idt_entry /\ NoGate.flags = 0
    BY DEF NoGate, idt_entry, Byte
  <2>2. idt \in [Vectors -> idt_entry] /\ \A v \in Vectors : idt[v].flags \in {0, 142}
    BY <1>1, <2>1
  <2>3. 0 \in 0 .. Len(Order)
    BY <1>1, OrderPlaces
  <2>. QED BY <1>1, <1>5, <2>2, <2>3 DEF TablesSound
<1>8. ServiceSound
  BY <1>1, <1>4, <1>5 DEF ServiceSound
<1>. QED BY <1>6, <1>7, <1>8 DEF DispatchSound

LEMMA NextKeeps == ASSUME DispatchSound, [Next]_vars PROVE DispatchSound'
<1>1. CASE UNCHANGED vars
  <2>1. UNCHANGED <<kernel, boot, gdt, segments, idt, remapped, handlers, ints, irr, isr,
                    run, stack, flag>>
    BY <1>1 DEF vars, setup, tables
  <2>2. Order' = Order /\ Top' = Top /\ Served' = Served
    BY <2>1 DEF Order, Own, Top, Served
  <2>. QED BY <2>1, <2>2 DEF DispatchSound, StacksSound, TablesSound, ServiceSound
<1>2. CASE Proceed
  BY <1>2, SetUpKeeps, thread_startKeeps, dispatch_earlyKeeps, dispatch_lateKeeps,
     return_from_interruptKeeps, dispatch_exceptionKeeps, dispatch_NULLKeeps, kick_offKeeps
     DEF Proceed
<1>3. CASE \E t \in Threads : end_turn(t) \/ pass_on_CPU(t)
  BY <1>3, end_turnKeeps, kick_offKeeps
<1>4. CASE \E l \in Devices : raise(l) \/ accept(l)
  BY <1>4, raiseKeeps, acceptKeeps
<1>5. CASE \E e \in {0, 13, PageFault} : fault(e)
  BY <1>5, faultKeeps
<1>. QED BY <1>1, <1>2, <1>3, <1>4, <1>5 DEF Next

\* Every reachable state of interrupts.C, irq.C, idt.C and the stubs has sound stacks,
\* tables and controllers: the inductive invariant the others rest on.
THEOREM DispatchIsSound == Spec => []DispatchSound
<1>1. Init => DispatchSound
  BY InitSound
<1>2. DispatchSound /\ [Next]_vars => DispatchSound'
  BY NextKeeps
<1>. QED BY <1>1, <1>2, PTL DEF Spec

\* The gates of idt.C close interrupts and only the iret of a stub opens them, also when
\* end_of_quantum() switches threads between the two: a stack holds its thread and at
\* most one dispatcher, however many interrupts and turns there have been.
THEOREM StacksDoNotGrow == Spec => []OneActivation
<1>1. DispatchSound => OneActivation
  <2> SUFFICES ASSUME DispatchSound, NEW s \in Stacks PROVE Len(stack[s]) <= 2
    BY DEF OneActivation
  <2> DEFINE n == Len(stack[s])
  <2>1. n = 1 \/ n = 2
    BY Zenon DEF DispatchSound, StacksSound
  <2> HIDE DEF n
  <2>2. n <= 2
    BY <2>1
  <2>. QED BY <2>2 DEF n
<1>. QED BY <1>1, DispatchIsSound, PTL

\* dispatch_interrupt() sends the end-of-interrupt signal for every line it serves, in
\* either place the kernels have for it: a line still in service is being served, or in
\* the thread kernel is one without a handler, which returns before the signal.
THEOREM EveryLineAcknowledged == Spec => []Acknowledged
<1>1. ASSUME DispatchSound, Served PROVE Top.no \in Serving(run) /\ run \in Stacks
  <2>1. Len(stack[run]) = 2 /\ Top = stack[run][2] /\ run \in Stacks
    BY <1>1, TopIs DEF DispatchSound, StacksSound, Served
  <2>2. 2 \in 1 .. Len(stack[run])
    BY <2>1
  <2>3. Top \in ToSet(stack[run])
    <3>1. ToSet(stack[run]) = {stack[run][i] : i \in DOMAIN stack[run]}
      BY DEF ToSet
    <3>2. stack[run] \in Seq(Activation)
      BY <1>1, <2>1, Zenon DEF DispatchSound, StacksSound
    <3>3. 2 \in DOMAIN stack[run]
      BY <2>2, <3>2
    <3>. QED BY <2>1, <3>1, <3>3
  <2>. QED BY <1>1, <2>1, <2>3 DEF Serving, Served
<1>2. ASSUME DispatchSound, NEW l \in isr \ {2}
      PROVE  l \in (UNION {Serving(s) : s \in Stacks}) \cup
                   (IF kernel = "threads" THEN Devices \ handlers ELSE {})
  <2>1. CASE kernel # "threads"
    <3>1. Served /\ l \in {Top.no, master(Top.no)} /\ Top.no \in Lines
      BY <1>2, <2>1 DEF DispatchSound, ServiceSound
    <3>2. master(Top.no) \in {2, Top.no}
      BY <3>1 DEF master
    <3>3. l = Top.no
      BY <1>2, <3>1, <3>2
    <3>4. l \in Serving(run) /\ run \in Stacks
      BY <1>1, <1>2, <3>1, <3>3
    <3>. QED BY <1>2, <2>1, <3>4
  <2>2. CASE kernel = "threads" /\ l \notin handlers
    BY <1>2, <2>2 DEF DispatchSound, ServiceSound
  <2>3. CASE kernel = "threads" /\ l \in handlers
    <3>1. l = Timer
      BY <1>2, <2>3 DEF DispatchSound, TablesSound
    <3>2. Served /\ Top.no = Timer
      BY <1>2, <2>3, <3>1 DEF DispatchSound, ServiceSound, Served
    <3>. QED BY <1>1, <1>2, <3>1, <3>2
  <2>. QED BY <2>1, <2>2, <2>3
<1>3. DispatchSound => Acknowledged
  BY <1>2 DEF Acknowledged
<1>. QED BY <1>3, DispatchIsSound, PTL

\* Only accept takes a request back.
LEMMA RequestsStay ==
    ASSUME NEW l, l \in irr \ irr', [Next]_vars PROVE l \in Devices /\ accept(l)
<1>1. CASE UNCHANGED vars
  BY <1>1 DEF vars
<1>2. CASE Proceed
  BY <1>2 DEF Proceed, SetUp, thread_start, dispatch_early, dispatch_late, no_handler,
     handle_interrupt, return_from_interrupt, dispatch_exception, dispatch_NULL, kick_off,
     SwitchTo
<1>3. CASE \E t \in Threads : end_turn(t) \/ pass_on_CPU(t)
  BY <1>3 DEF end_turn, pass_on_CPU, SwitchTo
<1>4. CASE \E k \in Devices : raise(k) \/ accept(k)
  <2>1. PICK k \in Devices : raise(k) \/ accept(k)
    BY <1>4
  <2>2. CASE raise(k)
    BY <2>2 DEF raise
  <2>3. CASE accept(k)
    <3>1. irr' = irr \ {k}
      BY <2>3 DEF accept
    <3>2. l = k
      BY <3>1
    <3>. QED BY <2>1, <2>3, <3>2
  <2>. QED BY <2>1, <2>2, <2>3
<1>5. CASE \E e \in {0, 13, PageFault} : fault(e)
  BY <1>5 DEF fault
<1>. QED BY <1>1, <1>2, <1>3, <1>4, <1>5 DEF Next

\* kernel.C installs the timer's handler before it enables interrupts: no interrupt of
\* the timer is taken that does not go through its gate to the dispatcher, with the
\* handler registered.
THEOREM TimerAlwaysCaptured == Spec => TimerCaptured
<1>1. ASSUME DispatchSound, [Next]_vars, Timer \in irr \ irr'
      PROVE  Timer \in handlers /\ Top'.at = "dispatch"
  <2>1. Timer \in Devices /\ accept(Timer)
    BY <1>1, RequestsStay
  <2>2. boot > 10 /\ Top'.at = "dispatch"
    BY <1>1, <2>1, acceptKeeps
  <2>3. handlers = {Timer}
    BY <1>1, <2>2, Gates DEF DispatchSound
  <2>. QED BY <2>2, <2>3
<1>2. DispatchSound /\ [Next]_vars
        => [(Timer \in irr \ irr') => Timer \in handlers /\ Top'.at = "dispatch"]_vars
  BY <1>1
<1>. QED BY <1>2, DispatchIsSound, PTL DEF Spec, TimerCaptured
-----------------------------------------------------------------------------
\* The orders of main() once more: the rate is set in the third place of all four; a
\* pool is made in the first two places or not at all, and used from the fifth on.
PoolSteps(s, pool) ==
    /\ Len(s) <= 11 /\ s[3] = "rate"
    /\ pool => s[1] = "frames" /\ s[2] = "pool"
    /\ \A i \in 1 .. Len(s) :
         /\ i # 3 => s[i] # "rate"
         /\ s[i] = "frames" => pool /\ i = 1
         /\ s[i] = "pool" => pool /\ i = 2
         /\ s[i] = "scheduler" => pool /\ i = 5
         /\ s[i] = "disk" => pool /\ i > 5
         /\ s[i] = "thread" => pool /\ i > 5

LEMMA ThreadsMainPool == PoolSteps(ThreadsMain, TRUE)
<1>1. Len(ThreadsMain) = 10
  BY DEF ThreadsMain
<1>2. /\ ThreadsMain[1] = "frames" /\ ThreadsMain[2] = "pool" /\ ThreadsMain[3] = "rate"
      /\ ThreadsMain[4] = "timer" /\ ThreadsMain[5] = "scheduler" /\ ThreadsMain[6] = "enable"
      /\ ThreadsMain[7] = "thread" /\ ThreadsMain[8] = "thread" /\ ThreadsMain[9] = "thread"
      /\ ThreadsMain[10] = "thread"
  BY DEF ThreadsMain
<1>3. ASSUME NEW i \in 1 .. 10
      PROVE  /\ i # 3 => ThreadsMain[i] # "rate"
             /\ ThreadsMain[i] = "frames" => i = 1
             /\ ThreadsMain[i] = "pool" => i = 2
             /\ ThreadsMain[i] = "scheduler" => i = 5
             /\ ThreadsMain[i] \in {"disk", "thread"} => i \in 6 .. 10
  <2>1. \/ i = 1 \/ i = 2 \/ i = 3 \/ i = 4 \/ i = 5 \/ i \in 6 .. 10
    OBVIOUS
  <2>2. i \in 6 .. 10 => i = 6 \/ i = 7 \/ i = 8 \/ i = 9 \/ i = 10
    OBVIOUS
  <2>. QED BY <1>2, <2>1, <2>2
<1>4. \A i \in 6 .. 10 : i > 5
  OBVIOUS
<1>. QED BY <1>1, <1>2, <1>3, <1>4 DEF PoolSteps

LEMMA DiskMainPool == PoolSteps(DiskMain, TRUE)
<1>1. Len(DiskMain) = 11
  BY DEF DiskMain
<1>2. /\ DiskMain[1] = "frames" /\ DiskMain[2] = "pool" /\ DiskMain[3] = "rate"
      /\ DiskMain[4] = "timer" /\ DiskMain[5] = "scheduler" /\ DiskMain[6] = "disk"
      /\ DiskMain[7] = "enable" /\ DiskMain[8] = "thread" /\ DiskMain[9] = "thread"
      /\ DiskMain[10] = "thread" /\ DiskMain[11] = "thread"
  BY DEF DiskMain
<1>3. ASSUME NEW i \in 1 .. 11
      PROVE  /\ i # 3 => DiskMain[i] # "rate"
             /\ DiskMain[i] = "frames" => i = 1
             /\ DiskMain[i] = "pool" => i = 2
             /\ DiskMain[i] = "scheduler" => i = 5
             /\ DiskMain[i] \in {"disk", "thread"} => i \in 6 .. 11
  <2>1. \/ i = 1 \/ i = 2 \/ i = 3 \/ i = 4 \/ i = 5 \/ i \in 6 .. 11
    OBVIOUS
  <2>2. i \in 6 .. 11 => i = 6 \/ i = 7 \/ i = 8 \/ i = 9 \/ i = 10 \/ i = 11
    OBVIOUS
  <2>. QED BY <1>2, <2>1, <2>2
<1>4. \A i \in 6 .. 11 : i > 5
  OBVIOUS
<1>. QED BY <1>1, <1>2, <1>3, <1>4 DEF PoolSteps

LEMMA NoPool == PoolSteps(PagingMain, FALSE) /\ PoolSteps(FramesMain, FALSE)
<1>1. /\ Len(PagingMain) = 5
      /\ PagingMain[1] = "paging" /\ PagingMain[2] = "catch 14" /\ PagingMain[3] = "rate"
      /\ PagingMain[4] = "timer" /\ PagingMain[5] = "enable"
  BY DEF PagingMain
<1>2. /\ Len(FramesMain) = 5
      /\ FramesMain[1] = "catch 14" /\ FramesMain[2] = "paging" /\ FramesMain[3] = "rate"
      /\ FramesMain[4] = "timer" /\ FramesMain[5] = "enable"
  BY DEF FramesMain
<1>3. ASSUME NEW s, Len(s) = 5, s[3] = "rate", s[4] = "timer", s[5] = "enable",
             s[1] \in {"paging", "catch 14"}, s[2] \in {"paging", "catch 14"}
      PROVE  PoolSteps(s, FALSE)
  <2>1. ASSUME NEW i \in 1 .. 5
        PROVE  /\ i # 3 => s[i] # "rate"
               /\ s[i] \notin {"frames", "pool", "scheduler", "disk", "thread"}
    <3>1. i = 1 \/ i = 2 \/ i = 3 \/ i = 4 \/ i = 5
      OBVIOUS
    <3>. QED BY <1>3, <3>1
  <2>2. 5 <= 11
    OBVIOUS
  <2>. QED BY <1>3, <2>1, <2>2, Zenon DEF PoolSteps
<1>4. PoolSteps(PagingMain, FALSE)
  BY <1>1, <1>3
<1>5. PoolSteps(FramesMain, FALSE)
  BY <1>2, <1>3
<1>. QED BY <1>4, <1>5

\* Where main() is when it sets the rate, makes the pool and uses it.
LEMMA PoolPlace ==
    ASSUME TablesSound, NEW s, StepOf(s)
    PROVE  /\ boot \in 0 .. 16
           /\ s = "rate" <=> boot = 8
           /\ HasPool => (s = "frames" <=> boot = 6) /\ (s = "pool" <=> boot = 7)
           /\ s \in {"frames", "pool", "scheduler", "disk", "thread"} => HasPool
           /\ s = "scheduler" => boot = 10
           /\ s \in {"disk", "thread"} => boot > 10
<1>1. kernel \in Kernels /\ PoolSteps(Own, HasPool)
  <2>1. kernel \in Kernels
    BY DEF TablesSound
  <2>2. CASE kernel = "threads"
    <3>1. Own = ThreadsMain /\ HasPool
      BY <2>2 DEF Own, HasPool
    <3>. QED BY <2>1, <3>1, ThreadsMainPool DEF PoolSteps
  <2>3. CASE kernel = "disk"
    <3>1. Own = DiskMain /\ HasPool
      BY <2>3 DEF Own, HasPool
    <3>. QED BY <2>1, <3>1, DiskMainPool DEF PoolSteps
  <2>4. CASE kernel = "paging"
    <3>1. Own = PagingMain /\ ~HasPool
      BY <2>4 DEF Own, HasPool
    <3>. QED BY <2>1, <3>1, NoPool DEF PoolSteps
  <2>5. CASE kernel = "frames"
    <3>1. Own = FramesMain /\ ~HasPool
      BY <2>5 DEF Own, HasPool
    <3>. QED BY <2>1, <3>1, NoPool DEF PoolSteps
  <2>. QED BY <2>1, <2>2, <2>3, <2>4, <2>5 DEF Kernels
<1>2. PICK n \in Nat : n = Len(Own) /\ n <= 11 /\ n >= 5
  <2> DEFINE n == Len(Own)
  <2>1. n = 5 \/ n = 10 \/ n = 11
    BY <1>1, OwnShape, Zenon DEF OwnSteps
  <2> HIDE DEF n
  <2>2. n \in Nat /\ n <= 11 /\ n >= 5
    BY <2>1
  <2>. QED BY <2>2 DEF n
<1>3. /\ boot \in 0 .. 5 + n /\ Order[boot + 1] = s
  BY <1>1, <1>2, OrderIs DEF StepOf
<1>4. CASE boot \in 0 .. 5
  <2>1. /\ Common[1] = "GDT" /\ Common[2] = "IDT" /\ Common[3] = "exceptions"
        /\ Common[4] = "IRQ" /\ Common[5] = "interrupts" /\ Common[6] = "catch 0"
    BY DEF Common
  <2>2. boot + 1 \in 1 .. 6 /\ Order[boot + 1] = Common[boot + 1]
    BY <1>1, <1>4, OrderIs
  <2>3. \A i \in 1 .. 6 : i = 1 \/ i = 2 \/ i = 3 \/ i = 4 \/ i = 5 \/ i = 6
    OBVIOUS
  <2>4. s \in {"GDT", "IDT", "exceptions", "IRQ", "interrupts", "catch 0"}
    BY <1>3, <2>1, <2>2, <2>3, Zenon
  <2>5. s \notin {"rate", "frames", "pool", "scheduler", "disk", "thread"}
    BY <2>4
  <2>6. boot \in 0 .. 16 /\ boot # 6 /\ boot # 7 /\ boot # 8
    BY <1>4
  <2>. QED BY <2>5, <2>6
<1>5. CASE boot \in 6 .. 5 + n
  <2>1. PICK i \in 1 .. n : i = boot - 5
    BY <1>2, <1>5
  <2>2. boot + 1 \in 7 .. 6 + n /\ (boot + 1) - 6 = i
    BY <1>2, <1>5, <2>1
  <2>3. Own[i] = s
    BY <1>1, <1>2, <1>3, <2>2, OrderIs
  <2>4. /\ s = "rate" <=> i = 3
        /\ HasPool => (s = "frames" <=> i = 1) /\ (s = "pool" <=> i = 2)
        /\ s \in {"frames", "pool", "scheduler", "disk", "thread"} => HasPool
        /\ s = "scheduler" => i = 5
        /\ s \in {"disk", "thread"} => i > 5
    BY <1>1, <1>2, <2>3 DEF PoolSteps
  <2>. QED BY <1>2, <1>5, <2>1, <2>4
<1>. QED BY <1>2, <1>3, <1>4, <1>5

-----------------------------------------------------------------------------
\* operator new: what is placed lies behind all there is, the ready queue first and the
\* disk's array behind its queue.
MayFollow(a, row) ==
    /\ a \in Area /\ FRAMES <= a.at
    /\ a.what = "queue" => a.at = FRAMES
    /\ a.what = "b_queue" => /\ Len(row) > 0 /\ row[Len(row)].what = "Bqueue"
                             /\ row[Len(row)].size = 12 /\ a.at = row[Len(row)].at + 12

LEMMA AppendedLast ==
    ASSUME NEW S, NEW row \in Seq(S), NEW a \in S
    PROVE  Append(row, a)[Len(row) + 1] = a
  BY AppendProperties

LEMMA BelowMore ==
    ASSUME NEW x \in Nat, NEW y \in Nat, NEW z \in Nat, x <= y PROVE x <= y + z
  OBVIOUS

LEMMA OnePlaced ==
    ASSUME NEW row, NEW next, Placed(row, next), NEW size \in Nat,
           NEW a, MayFollow(a, row), a.at = next, a.size = size
    PROVE  Placed(Append(row, a), next + size)
<1>1. row \in Seq(Area) /\ next \in Nat /\ Len(row) \in Nat
  <2>1. row \in Seq(Area) /\ next \in Nat
    BY Zenon DEF Placed
  <2>. QED BY <2>1, LenProperties
<1>2. a \in Area /\ a.size = size /\ a.at = next
  BY DEF MayFollow
<1>3. PICK n \in Nat : n = Len(row)
  BY <1>1
<1>4. /\ Append(row, a) \in Seq(Area) /\ Len(Append(row, a)) = n + 1
      /\ \A i \in 1 .. n : Append(row, a)[i] = row[i]
      /\ Append(row, a)[n + 1] = a
  <2>1. Append(row, a) \in Seq(Area)
    BY <1>1, <1>2, AppendProperties
  <2>2. Len(Append(row, a)) = Len(row) + 1
    BY <1>1, <1>2, AppendProperties
  <2>3. \A i \in 1 .. Len(row) : Append(row, a)[i] = row[i]
    BY <1>1, <1>2, AppendProperties
  <2>4. Append(row, a)[Len(row) + 1] = a
    BY <1>1, <1>2, AppendedLast
  <2>. QED BY <1>3, <2>1, <2>2, <2>3, <2>4
<1> DEFINE bs == Append(row, a)
<1>5. \A i \in 1 .. n : row[i] \in Area /\ row[i].at \in Nat /\ row[i].size \in Nat
  <2>1. \A i \in 1 .. n : row[i] \in Area
    BY <1>1, <1>3, ElementOfSeq
  <2>. QED BY <2>1 DEF Area
<1> HIDE DEF bs
<1>6. /\ \A i \in 1 .. n : bs[i] = row[i]
      /\ bs[n + 1] = a
  BY <1>4 DEF bs
<1>7. ASSUME NEW i \in 1 .. n
      PROVE  /\ FRAMES <= bs[i].at /\ bs[i].at + bs[i].size <= next + size
             /\ \A j \in 1 .. i - 1 : bs[j].at + bs[j].size <= bs[i].at
             /\ bs[i].what = "queue" => bs[i].at = FRAMES
             /\ bs[i].what = "b_queue" =>
                  /\ i > 1 /\ bs[i - 1].what = "Bqueue"
                  /\ bs[i - 1].size = 12 /\ bs[i].at = bs[i - 1].at + 12
  <2>1. \A j \in 1 .. i - 1 : j \in 1 .. n
    OBVIOUS
  <2>2. i > 1 => i - 1 \in 1 .. n
    OBVIOUS
  <2>3. /\ FRAMES <= row[i].at /\ row[i].at + row[i].size <= next
        /\ \A j \in 1 .. i - 1 : row[j].at + row[j].size <= row[i].at
        /\ row[i].what = "queue" => row[i].at = FRAMES
        /\ row[i].what = "b_queue" =>
             /\ i > 1 /\ row[i - 1].what = "Bqueue"
             /\ row[i - 1].size = 12 /\ row[i].at = row[i - 1].at + 12
    BY <1>3 DEF Placed
  <2>4. bs[i] = row[i] /\ \A j \in 1 .. i - 1 : bs[j] = row[j]
    BY <1>6, <2>1
  <2>5. i > 1 => bs[i - 1] = row[i - 1]
    BY <1>6, <2>2
  <2>6. row[i].at + row[i].size <= next + size
    <3>1. row[i].at + row[i].size <= next
      BY <2>3
    <3>2. PICK at, sz : at = row[i].at /\ sz = row[i].size
      OBVIOUS
    <3>3. at \in Nat /\ sz \in Nat /\ at + sz <= next
      BY <1>5, <3>1, <3>2
    <3>4. at + sz \in Nat
      BY <3>3
    <3>5. at + sz <= next + size
      BY <1>1, <3>3, <3>4, BelowMore
    <3>. QED BY <3>2, <3>5
  <2>. QED BY <2>3, <2>4, <2>5, <2>6
<1>8. /\ FRAMES <= a.at /\ a.at + a.size <= next + size
      /\ \A j \in 1 .. n : bs[j].at + bs[j].size <= a.at
      /\ a.what = "queue" => a.at = FRAMES
      /\ a.what = "b_queue" =>
           /\ n > 0 /\ bs[n].what = "Bqueue" /\ bs[n].size = 12 /\ a.at = bs[n].at + 12
  <2>1. \A j \in 1 .. n : row[j].at + row[j].size <= next
    BY <1>3 DEF Placed
  <2>2. n > 0 => n \in 1 .. n
    OBVIOUS
  <2>3. FRAMES <= a.at /\ a.at + a.size <= next + size
    BY <1>1, <1>2 DEF MayFollow
  <2>4. \A j \in 1 .. n : bs[j].at + bs[j].size <= a.at
    BY <1>2, <1>6, <2>1
  <2>5. a.what = "queue" => a.at = FRAMES
    BY DEF MayFollow
  <2>6. ASSUME a.what = "b_queue"
        PROVE  n > 0 /\ bs[n].what = "Bqueue" /\ bs[n].size = 12 /\ a.at = bs[n].at + 12
    <3>1. n > 0 /\ row[n].what = "Bqueue" /\ row[n].size = 12 /\ a.at = row[n].at + 12
      BY <1>3, <2>6 DEF MayFollow
    <3>2. bs[n] = row[n]
      BY <1>6, <2>2, <3>1
    <3>. QED BY <3>1, <3>2
  <2>. QED BY <2>3, <2>4, <2>5, <2>6
<1>9. \A i \in 1 .. n + 1 : i \in 1 .. n \/ i = n + 1
  OBVIOUS
<1>10. bs \in Seq(Area) /\ Len(bs) = n + 1 /\ next + size \in Nat
  <2>1. next + size \in Nat
    BY <1>1
  <2>. QED BY <1>4, <2>1 DEF bs
<1>11. ASSUME NEW i \in 1 .. n + 1
      PROVE  /\ FRAMES <= bs[i].at /\ bs[i].at + bs[i].size <= next + size
             /\ \A j \in 1 .. i - 1 : bs[j].at + bs[j].size <= bs[i].at
             /\ bs[i].what = "queue" => bs[i].at = FRAMES
             /\ bs[i].what = "b_queue" =>
                  /\ i > 1 /\ bs[i - 1].what = "Bqueue"
                  /\ bs[i - 1].size = 12 /\ bs[i].at = bs[i - 1].at + 12
  <2>1. CASE i \in 1 .. n
    BY <1>7, <2>1
  <2>2. CASE i = n + 1
    <3>1. i - 1 = n /\ (n > 0 => i > 1) /\ bs[i] = a
      BY <1>6, <2>2
    <3>. QED BY <1>8, <3>1
  <2>. QED BY <1>9, <2>1, <2>2
<1>12. Placed(bs, next + size)
  BY <1>10, <1>11 DEF Placed
<1>. QED BY <1>12 DEF bs

LEMMA PlacedInARow ==
    ASSUME NEW S, NEW row \in Seq(S), NEW a \in S, NEW b \in S
    PROVE  /\ row \o Append(<<>>, a) = Append(row, a)
           /\ row \o Append(Append(<<>>, a), b) = Append(Append(row, a), b)
<1>1. Append(<<>>, a) = <<a>> /\ Append(<<>>, a) \in Seq(S)
  OBVIOUS
<1>2. row \o <<a>> = Append(row, a)
  BY AppendIsConcat
<1>3. Append(Append(<<>>, a), b) = Append(<<>>, a) \o <<b>>
  BY <1>1, AppendIsConcat
<1>4. Append(Append(row, a), b) = Append(row, a) \o <<b>>
  BY AppendProperties, AppendIsConcat
<1>5. row \o (<<a>> \o <<b>>) = (row \o <<a>>) \o <<b>>
  <2>1. <<a>> \in Seq(S) /\ <<b>> \in Seq(S)
    OBVIOUS
  <2> DEFINE t == <<a>>
             u == <<b>>
  <2> HIDE DEF t, u
  <2>3. t \in Seq(S) /\ u \in Seq(S)
    BY <2>1 DEF t, u
  <2>2. (row \o t) \o u = row \o (t \o u)
    BY <2>3, ConcatAssociative
  <2>. QED BY <2>2 DEF t, u
<1>. QED BY <1>1, <1>2, <1>3, <1>4, <1>5

LEMMA newPlaces ==
    ASSUME Placed(areas, start_address), FRAMES <= start_address,
           NEW what \in {"queue", "Bqueue", "b_queue", "stack", "Thread"}, NEW size \in Nat,
           what = "queue" => start_address = FRAMES, what # "b_queue",
           new(allocate(<<>>, what, size))
    PROVE  Placed(areas', start_address') /\ start_address' = start_address + size
<1> DEFINE a == [what |-> what, size |-> size, at |-> start_address]
<1>1. allocate(<<>>, what, size) = Append(<<>>, a)
  BY DEF allocate, End
<1>2. areas \in Seq(Area) /\ start_address \in Nat
  BY Zenon DEF Placed
<1>6. MayFollow(a, areas) /\ a \in Area /\ a.at = start_address /\ a.size = size
  BY <1>2 DEF MayFollow, Area
<1> HIDE DEF a
<1>3. areas' = Append(areas, a)
  BY <1>1, <1>2, <1>6, PlacedInARow DEF new
<1>4. End(Append(<<>>, a)) = start_address + size
  BY <1>6 DEF End, Last
<1>5. start_address' = start_address + size
  BY <1>1, <1>4 DEF new
<1>. QED BY <1>3, <1>5, <1>6, OnePlaced

LEMMA newPlacesTwo ==
    ASSUME Placed(areas, start_address), FRAMES <= start_address,
           NEW what \in {"Bqueue", "stack"}, NEW size \in Nat,
           NEW what2 \in {"b_queue", "Thread"}, NEW size2 \in Nat,
           what2 = "b_queue" => what = "Bqueue" /\ size = 12,
           new(allocate(allocate(<<>>, what, size), what2, size2))
    PROVE  /\ Placed(areas', start_address')
           /\ start_address' = start_address + size + size2
<1> DEFINE a == [what |-> what, size |-> size, at |-> start_address]
           b == [what |-> what2, size |-> size2, at |-> start_address + size]
<1>1. allocate(<<>>, what, size) = Append(<<>>, a)
  BY DEF allocate, End
<1>2. areas \in Seq(Area) /\ start_address \in Nat
  BY Zenon DEF Placed
<1>3. End(Append(<<>>, a)) = start_address + size
  BY DEF End, Last
<1>4. allocate(allocate(<<>>, what, size), what2, size2) = Append(Append(<<>>, a), b)
  BY <1>1, <1>3 DEF allocate
<1>5. MayFollow(a, areas) /\ a \in Area /\ a.at = start_address /\ a.size = size
  BY <1>2 DEF MayFollow, Area
<1>6. /\ b \in Area /\ b.at = start_address + size /\ b.size = size2 /\ b.what # "queue"
      /\ b.what = "b_queue" => a.what = "Bqueue" /\ a.size = 12
  BY <1>2 DEF Area
<1> HIDE DEF a, b
<1>7. areas' = Append(Append(areas, a), b)
  <2>1. areas' = areas \o Append(Append(<<>>, a), b)
    BY <1>4 DEF new
  <2>2. areas \o Append(Append(<<>>, a), b) = Append(Append(areas, a), b)
    BY <1>2, <1>5, <1>6, PlacedInARow
  <2>. QED BY <2>1, <2>2
<1>8. start_address' = start_address + size + size2
  <2>1. start_address' = End(Append(Append(<<>>, a), b))
    BY <1>4 DEF new
  <2>2. End(Append(Append(<<>>, a), b)) = b.at + b.size
    BY DEF End, Last
  <2>. QED BY <1>6, <2>1, <2>2
<1>9. Placed(Append(areas, a), start_address + size)
  BY <1>5, OnePlaced
<1>10. Len(Append(areas, a)) > 0 /\ Append(areas, a)[Len(Append(areas, a))] = a
  <2>1. Len(Append(areas, a)) = Len(areas) + 1 /\ Len(areas) \in Nat
    BY <1>2, <1>5, AppendProperties, LenProperties
  <2>2. Append(areas, a)[Len(areas) + 1] = a
    BY <1>2, <1>5, AppendedLast
  <2>. QED BY <2>1, <2>2
<1>11. FRAMES <= b.at
  BY <1>2, <1>6 DEF FRAMES
<1>12. MayFollow(b, Append(areas, a))
  BY <1>2, <1>5, <1>6, <1>10, <1>11 DEF MayFollow
<1>13. Placed(Append(Append(areas, a), b), start_address + size + size2)
  BY <1>6, <1>9, <1>12, OnePlaced
<1>. QED BY <1>7, <1>8, <1>13

-----------------------------------------------------------------------------
\* The steps of main() that have nothing to do with the heap.
Elsewhere ==
    \/ GDT_init /\ gdt_flush
    \/ IDT_init \/ init_exceptions \/ irq_remap \/ init_interrupts
    \/ dbz_handler \/ pagefault_handler \/ enable_paging
    \/ SimpleTimer \/ register_handler \/ enable_interrupts

LEMMA HeapElsewhere ==
    ASSUME TablesSound, HeapSound, Elsewhere PROVE HeapSound'
<1> DEFINE names == {"GDT", "IDT", "exceptions", "IRQ", "interrupts", "catch 0", "catch 14",
                     "paging", "rate", "timer", "enable"}
<1>0. \E s \in names : Step(s) /\ kernel' = kernel /\ UNCHANGED heap
  <2>1. CASE GDT_init BY <2>1 DEF GDT_init, heap
  <2>2. CASE IDT_init BY <2>2 DEF IDT_init, heap
  <2>3. CASE init_exceptions BY <2>3 DEF init_exceptions, heap
  <2>4. CASE irq_remap BY <2>4 DEF irq_remap, heap
  <2>5. CASE init_interrupts BY <2>5 DEF init_interrupts, heap
  <2>6. CASE dbz_handler BY <2>6 DEF dbz_handler, register_exception, heap
  <2>7. CASE pagefault_handler BY <2>7 DEF pagefault_handler, register_exception, heap
  <2>8. CASE enable_paging BY <2>8 DEF enable_paging, heap
  <2>9. CASE SimpleTimer BY <2>9 DEF SimpleTimer, heap
  <2>10. CASE register_handler BY <2>10 DEF register_handler, heap
  <2>11. CASE enable_interrupts BY <2>11 DEF enable_interrupts, heap
  <2> HIDE DEF names
  <2>. QED BY <2>1, <2>2, <2>3, <2>4, <2>5, <2>6, <2>7, <2>8, <2>9, <2>10, <2>11, Zenon
           DEF Elsewhere
<1>1. /\ boot \in 0 .. 16 /\ boot' = boot + 1 /\ kernel' = kernel /\ (HasPool' <=> HasPool)
      /\ HasPool => boot # 6 /\ boot # 7
      /\ UNCHANGED heap
  <2>1. PICK s \in names : StepOf(s) /\ UNCHANGED heap
    <3> HIDE DEF names
    <3>. QED BY <1>0, StepTaken, Zenon
  <2>2. boot \in 0 .. 16 /\ boot' = boot + 1 /\ kernel' = kernel /\ (HasPool' <=> HasPool)
    BY <2>1, PoolPlace DEF StepOf, HasPool
  <2>3. HasPool => boot # 6 /\ boot # 7
    BY <2>1, PoolPlace
  <2>. QED BY <2>1, <2>2, <2>3
<1> HIDE DEF names
<1>2. boot \in 0 .. 16 /\ boot' = boot + 1 /\ kernel' = kernel /\ (HasPool' <=> HasPool)
  BY <1>1
<1>3. HasPool => boot # 6 /\ boot # 7
  BY <1>1
<1>4. UNCHANGED <<next_free_frame, start_address, areas>>
  BY <1>1 DEF heap
<1>5. Placed(areas', start_address') /\ next_free_frame' \in Nat
  BY <1>4 DEF HeapSound
<1>6. boot' <= 10 \/ ~HasPool' => areas' = <<>>
  BY <1>2, <1>4 DEF HeapSound, HasPool
<1>7. HasPool' /\ boot' = 7 => next_free_frame' = FRAMES
  BY <1>2, <1>3 DEF HasPool
<1>8. HasPool' /\ boot' \in 8 .. 10 => start_address' = FRAMES
  BY <1>2, <1>3, <1>4 DEF HeapSound, HasPool
<1>9. HasPool' /\ boot' >= 8 =>
        start_address' \in FRAMES .. FRAMES + boot' * (1024 + ThreadSize)
  <2>1. HasPool' /\ boot' >= 8 =>
          start_address \in FRAMES .. FRAMES + boot * (1024 + ThreadSize)
    BY <1>2, <1>3 DEF HeapSound, HasPool
  <2>. QED BY <1>2, <1>4, <2>1 DEF HasPool, FRAMES, ThreadSize
<1>. QED BY <1>5, <1>6, <1>7, <1>8, <1>9 DEF HeapSound

LEMMA HeapKeeps ==
    ASSUME TablesSound, HeapSound, Start PROVE HeapSound'
<1>1. CASE Elsewhere
  BY <1>1, HeapElsewhere
<1>2. CASE FramePool
  <2>1. /\ StepOf("frames") /\ next_free_frame' = FRAMES
        /\ UNCHANGED <<start_address, areas>>
    BY <1>2, StepTaken DEF FramePool
  <2>2. boot = 6 /\ boot' = 7 /\ HasPool /\ HasPool'
    BY <2>1, PoolPlace DEF StepOf, HasPool
  <2>. QED BY <2>1, <2>2 DEF HeapSound, FRAMES
<1>3. CASE MemPool
  <2>1. /\ StepOf("pool") /\ start_address' = next_free_frame
        /\ next_free_frame' = get_frames(PoolSize) /\ UNCHANGED areas
    BY <1>3, StepTaken DEF MemPool
  <2>2. boot = 7 /\ boot' = 8 /\ HasPool /\ HasPool'
    BY <2>1, PoolPlace DEF StepOf, HasPool
  <2>3. start_address' = FRAMES /\ next_free_frame' \in Nat /\ areas' = <<>>
    BY <2>1, <2>2 DEF HeapSound, get_frames, PoolSize, PAGE_SIZE
  <2>4. Placed(areas', start_address')
    BY <2>3 DEF Placed, FRAMES
  <2>. QED BY <2>2, <2>3, <2>4 DEF HeapSound, FRAMES, ThreadSize
\* Whoever places something does so behind the tenth step.
<1>4. ASSUME NEW s, StepOf(s), s \in {"scheduler", "disk", "thread"}
      PROVE  /\ boot \in 10 .. 16 /\ boot' = boot + 1 /\ HasPool /\ HasPool'
             /\ start_address \in FRAMES .. FRAMES + boot * (1024 + ThreadSize)
             /\ s = "scheduler" => start_address = FRAMES
  <2>1. boot \in 0 .. 16 /\ boot' = boot + 1 /\ HasPool /\ HasPool' /\ boot >= 10
    BY <1>4, PoolPlace DEF StepOf, HasPool
  <2>2. s = "scheduler" => boot = 10
    BY <1>4, PoolPlace
  <2>. QED BY <2>1, <2>2 DEF HeapSound
<1>5. ASSUME boot \in 10 .. 16, boot' = boot + 1, HasPool', next_free_frame' = next_free_frame,
             start_address \in FRAMES .. FRAMES + boot * (1024 + ThreadSize),
             NEW n \in 0 .. 1024 + ThreadSize, start_address' = start_address + n,
             Placed(areas', start_address')
      PROVE  HeapSound'
  BY <1>5 DEF HeapSound, FRAMES, ThreadSize
<1>6. CASE Scheduler
  <2>1. StepOf("scheduler") /\ next_free_frame' = next_free_frame
        /\ new(allocate(<<>>, "queue", 40))
    BY <1>6, StepTaken DEF Scheduler, new
  <2>2. Placed(areas', start_address') /\ start_address' = start_address + 40
    BY <1>4, <2>1, newPlaces DEF HeapSound, FRAMES
  <2>. QED BY <1>4, <1>5, <2>1, <2>2 DEF ThreadSize
<1>7. CASE BlockingDisk
  <2>1. StepOf("disk") /\ next_free_frame' = next_free_frame
        /\ new(allocate(allocate(<<>>, "Bqueue", 12), "b_queue", 40))
    BY <1>7, StepTaken DEF BlockingDisk, new
  <2>2. Placed(areas', start_address') /\ start_address' = start_address + 52
    BY <1>4, <2>1, newPlacesTwo DEF HeapSound, FRAMES
  <2>. QED BY <1>4, <1>5, <2>1, <2>2 DEF ThreadSize
<1>8. CASE NewThread
  <2>1. StepOf("thread") /\ next_free_frame' = next_free_frame
        /\ new(allocate(allocate(<<>>, "stack", 1024), "Thread", ThreadSize))
    BY <1>8, StepTaken DEF NewThread, new
  <2>2. Placed(areas', start_address') /\ start_address' = start_address + 1024 + ThreadSize
    BY <1>4, <2>1, newPlacesTwo DEF HeapSound, FRAMES, ThreadSize
  <2>3. start_address' = start_address + (1024 + ThreadSize)
    BY <1>4, <2>1, <2>2 DEF FRAMES, ThreadSize
  <2>4. 1024 + ThreadSize \in 0 .. 1024 + ThreadSize
    BY DEF ThreadSize
  <2>5. /\ boot \in 10 .. 16 /\ boot' = boot + 1 /\ HasPool'
        /\ start_address \in FRAMES .. FRAMES + boot * (1024 + ThreadSize)
    BY <1>4, <2>1
  <2>. QED BY <1>5, <2>1, <2>2, <2>3, <2>4, <2>5
<1>. QED BY <1>1, <1>2, <1>3, <1>6, <1>7, <1>8 DEF Start, Elsewhere

\* The timer's rate. 59659 and 11931 fit into the two bytes of the divisor.
LEMMA Divisors ==
    ASSUME NEW d \in {59659, 11931}
    PROVE  divisor(d) \in Byte \X Byte /\ divisor(d)[1] + 256 * divisor(d)[2] = d
BY DEF divisor, Byte

LEMMA Rates ==
    /\ hz \in {20, 100} /\ Clock \div hz \in {59659, 11931}
    /\ (Clock \div hz) * hz <= Clock /\ Clock < (Clock \div hz + 1) * hz
<1>1. Clock \div 20 = 59659 /\ Clock \div 100 = 11931
  BY DEF Clock
<1>. QED BY <1>1 DEF hz, Clock

LEMMA RateKeeps ==
    ASSUME TablesSound, RateSound, Start PROVE RateSound'
<1>1. CASE SimpleTimer
  <2>1. kernel' = kernel /\ period' = divisor(Clock \div hz)
    BY <1>1 DEF SimpleTimer, set_frequency
  <2>. QED BY <2>1 DEF RateSound, hz
<1>2. CASE ~SimpleTimer
  <2>1. PICK s : StepOf(s) /\ s # "rate" /\ period' = period /\ kernel' = kernel
    BY ZenonT(60), <1>2, StepTaken DEF Start, GDT_init, IDT_init, init_exceptions, irq_remap,
       init_interrupts, dbz_handler, pagefault_handler, enable_paging, register_handler,
       enable_interrupts, register_exception, FramePool, MemPool, Scheduler, BlockingDisk,
       NewThread, new
  <2>2. boot \in 0 .. 16 /\ boot # 8 /\ boot' = boot + 1
    BY <2>1, PoolPlace DEF StepOf
  <2>. QED BY <2>1, <2>2 DEF RateSound, hz
<1>. QED BY <1>1, <1>2

\* The tables that main() fills.
LEMMA IsEntry ==
    ASSUME NEW ll \in Half, NEW bl \in Half, NEW bm \in Byte, NEW acc \in Byte,
           NEW gran \in Byte, NEW bh \in Byte
    PROVE  [limit_low |-> ll, base_low |-> bl, base_middle |-> bm, access |-> acc,
            granularity |-> gran, base_high |-> bh] \in gdt_entry
  BY DEF gdt_entry

LEMMA Descriptors ==
    /\ descriptor(None, None, 0, 0) \in gdt_entry
    /\ descriptor(None, All, 154, 207) \in gdt_entry
    /\ descriptor(None, All, 146, 207) \in gdt_entry
<1>1. {0, 65535} \subseteq Half /\ {0, 154, 146, 207} \subseteq Byte
  BY DEF Half, Byte
<1>2. descriptor(None, None, 0, 0) =
           [limit_low |-> 0, base_low |-> 0, base_middle |-> 0, access |-> 0,
            granularity |-> 0, base_high |-> 0]
  BY DEF descriptor, None
<1>3. descriptor(None, All, 154, 207) =
           [limit_low |-> 65535, base_low |-> 0, base_middle |-> 0, access |-> 154,
            granularity |-> 207, base_high |-> 0]
  BY DEF descriptor, None, All
<1>4. descriptor(None, All, 146, 207) =
           [limit_low |-> 65535, base_low |-> 0, base_middle |-> 0, access |-> 146,
            granularity |-> 207, base_high |-> 0]
  BY DEF descriptor, None, All
<1>. QED BY <1>1, <1>2, <1>3, <1>4, IsEntry

LEMMA Segments == SegmentTable \in [1 .. 3 -> gdt_entry]
<1> DEFINE d == descriptor(None, None, 0, 0)
           c == descriptor(None, All, 154, 207)
           e == descriptor(None, All, 146, 207)
<1>1. SegmentTable = <<d, c, e>>
  BY DEF SegmentTable
<1>2. d \in gdt_entry /\ c \in gdt_entry /\ e \in gdt_entry
  BY Descriptors
<1> HIDE DEF d, c, e
<1>. QED BY <1>1, <1>2

LEMMA TypesKeep ==
    ASSUME TablesTyped, Start PROVE TablesTyped'
<1>1. CASE GDT_init /\ gdt_flush
  <2>1. /\ gdt' = SegmentTable /\ segments' = <<8, 16>>
        /\ UNCHANGED <<remapped, paging, catchers, period>>
    BY <1>1 DEF GDT_init, gdt_flush
  <2>. QED BY <2>1, Segments DEF TablesTyped
<1>2. CASE SimpleTimer
  <2>1. UNCHANGED <<gdt, segments, remapped, paging, catchers>>
    BY <1>2 DEF SimpleTimer, tables
  <2>2. period' \in Byte \X Byte
    BY <1>2, Rates, Divisors DEF SimpleTimer, set_frequency
  <2>. QED BY <2>1, <2>2 DEF TablesTyped
<1>3. CASE dbz_handler \/ pagefault_handler
  <2>1. /\ UNCHANGED <<gdt, segments, remapped, paging, period>>
        /\ catchers' = catchers \cup {DivByZero} \/ catchers' = catchers \cup {PageFault}
    BY <1>3 DEF dbz_handler, pagefault_handler, register_exception, tables
  <2>2. catchers' \subseteq Exceptions
    <3>1. DivByZero \in Exceptions /\ PageFault \in Exceptions
      BY DEF DivByZero, PageFault, Exceptions
    <3>2. catchers \subseteq Exceptions
      BY DEF TablesTyped
    <3>. QED BY <2>1, <3>1, <3>2
  <2>. QED BY <2>1, <2>2 DEF TablesTyped
<1>4. CASE IDT_init \/ init_exceptions \/ irq_remap \/ init_interrupts \/ enable_paging
  <2>1. /\ UNCHANGED <<gdt, segments, period>>
        /\ remapped' = remapped \/ remapped' = TRUE
        /\ paging' = paging \/ paging' = TRUE
        /\ catchers' = catchers \/ catchers' = {}
    BY <1>4 DEF IDT_init, init_exceptions, irq_remap, init_interrupts, enable_paging, tables
  <2>2. catchers' \subseteq Exceptions
    BY <2>1 DEF TablesTyped
  <2>3. remapped' \in BOOLEAN
    BY <2>1, Zenon DEF TablesTyped
  <2>4. paging' \in BOOLEAN
    BY <2>1, Zenon DEF TablesTyped
  <2>. QED BY <2>1, <2>2, <2>3, <2>4 DEF TablesTyped
<1>5. CASE \/ register_handler \/ enable_interrupts
           \/ FramePool \/ MemPool \/ Scheduler \/ BlockingDisk \/ NewThread
  <2>1. UNCHANGED <<gdt, segments, remapped, paging, catchers, period>>
    BY <1>5 DEF register_handler, enable_interrupts, FramePool, MemPool, Scheduler,
       BlockingDisk, NewThread, new, tables
  <2>. QED BY <2>1 DEF TablesTyped
<1>. QED BY <1>1, <1>2, <1>3, <1>4, <1>5 DEF Start

LEMMA StartInitSound == ASSUME Init PROVE StartSound
<1>1. /\ boot = 0 /\ gdt = [i \in 1 .. 3 |-> descriptor(None, None, 0, 0)]
      /\ segments = <<0, 0>> /\ remapped = FALSE /\ catchers = {} /\ paging = FALSE
      /\ period = <<0, 0>> /\ next_free_frame = 0 /\ start_address = 0 /\ areas = <<>>
  BY DEF Init, StartInit
<1>2. RateSound
  BY <1>1 DEF RateSound
<1>3. HeapSound
  BY <1>1 DEF HeapSound, Placed
<1>4. TablesTyped
  <2>1. descriptor(None, None, 0, 0) \in gdt_entry
    BY Descriptors
  <2> DEFINE d == descriptor(None, None, 0, 0)
  <2> HIDE DEF d
  <2>2. gdt \in [1 .. 3 -> gdt_entry]
    BY <1>1, <2>1 DEF d
  <2>3. catchers \subseteq Exceptions /\ segments \in {<<0, 0>>, <<8, 16>>}
    BY <1>1
  <2>4. period \in Byte \X Byte
    BY <1>1 DEF Byte
  <2>. QED BY <1>1, <2>2, <2>3, <2>4 DEF TablesTyped
<1>. QED BY <1>2, <1>3, <1>4 DEF StartSound

LEMMA StartKeeps == ASSUME DispatchSound, StartSound, [Next]_vars PROVE StartSound'
<1>1. CASE SetUp
  <2>1. Start /\ TablesSound
    BY <1>1 DEF SetUp, DispatchSound
  <2>. QED BY <2>1, HeapKeeps, RateKeeps, TypesKeep DEF StartSound
<1>2. CASE UNCHANGED setup
  <2>1. UNCHANGED <<kernel, boot, gdt, segments, remapped, catchers, paging, period,
                    next_free_frame, start_address, areas>>
    BY <1>2 DEF setup, tables, heap
  <2>. QED BY <2>1 DEF StartSound, RateSound, HeapSound, TablesTyped, HasPool, hz
<1>3. SetUp \/ UNCHANGED setup
  BY DEF Next, Proceed, vars, thread_start, dispatch_early, dispatch_late, no_handler,
     handle_interrupt, return_from_interrupt, dispatch_exception, dispatch_NULL, kick_off,
     end_turn, pass_on_CPU, SwitchTo, raise, accept, fault
<1>. QED BY <1>1, <1>2, <1>3

\* What main() has set up so far is sound in every reachable state of the four kernels.
THEOREM StartIsSound == Spec => [](DispatchSound /\ StartSound)
<1>1. Init => DispatchSound /\ StartSound
  BY InitSound, StartInitSound
<1>2. (DispatchSound /\ StartSound) /\ [Next]_vars => (DispatchSound /\ StartSound)'
  BY NextKeeps, StartKeeps
<1>. QED BY <1>1, <1>2, PTL DEF Spec

\* The variables of the four kernels have their types.
THEOREM TypeCorrect == Spec => []TypeOK
<1>1. DispatchSound /\ StartSound => TypeOK
  <2> SUFFICES ASSUME DispatchSound, StartSound PROVE TypeOK
    OBVIOUS
  <2>1. /\ kernel \in Kernels /\ boot \in 0 .. Len(Order)
        /\ idt \in [Vectors -> idt_entry] /\ handlers \in {{}, {Timer}}
    BY DEF DispatchSound, TablesSound
  <2>2. handlers \subseteq Lines
    BY <2>1 DEF Timer, Lines
  <2>3. /\ gdt \in [1 .. 3 -> gdt_entry] /\ segments \in {<<0, 0>>, <<8, 16>>}
        /\ remapped \in BOOLEAN /\ paging \in BOOLEAN /\ catchers \subseteq Exceptions
        /\ period \in Byte \X Byte
    BY DEF StartSound, TablesTyped
  <2>4. next_free_frame \in Nat /\ start_address \in Nat /\ areas \in Seq(Area)
    BY DEF StartSound, HeapSound, Placed
  <2>5. irr \subseteq Devices /\ isr \subseteq Lines
    BY DEF DispatchSound, ServiceSound
  <2>6. run \in Stacks /\ ints \in BOOLEAN /\ flag \in [Stacks -> BOOLEAN]
    BY DEF DispatchSound, StacksSound
  <2>7. ASSUME NEW s \in Stacks PROVE stack[s] \in Seq(Activation) /\ stack[s] # <<>>
    <3>1. stack[s] \in Seq(Activation) /\ (Len(stack[s]) = 1 \/ Len(stack[s]) = 2)
      BY Zenon DEF DispatchSound, StacksSound
    <3>2. stack[s] # <<>>
      <4>1. SUFFICES ASSUME stack[s] = <<>> PROVE FALSE
        OBVIOUS
      <4>2. Len(stack[s]) = 0
        BY <4>1, EmptySeq
      <4>. QED BY <3>1, <4>2
    <3>. QED BY <3>1, <3>2
  <2>. QED BY <2>1, <2>2, <2>3, <2>4, <2>5, <2>6, <2>7 DEF TypeOK
<1>. QED BY <1>1, StartIsSound, PTL

\* simple_timer.C: wherever the handler of the timer is installed, the chip has been
\* programmed with the rate the handler counts with, low byte first.
THEOREM TimerCountsRight == Spec => []TicksAtRate
<1>1. DispatchSound /\ StartSound => TicksAtRate
  <2> SUFFICES ASSUME DispatchSound, StartSound, Timer \in handlers PROVE TicksAtRate
    BY DEF TicksAtRate
  <2>1. boot \in Nat /\ boot >= 10
    BY OrderPlaces DEF DispatchSound, TablesSound
  <2>2. period = divisor(Clock \div hz)
    BY <2>1 DEF StartSound, RateSound
  <2>3. period[1] + 256 * period[2] = Clock \div hz
    BY <2>2, Rates, Divisors
  <2>. QED BY <2>3, Rates DEF TicksAtRate
<1>. QED BY <1>1, StartIsSound, PTL

\* mem_pool.C and the main()s: stacks, control blocks and queues lie in the pool and keep
\* out of each other's way.
THEOREM NothingOverlaps == Spec => []OwnMemory
<1>1. DispatchSound /\ StartSound => OwnMemory
  <2> SUFFICES ASSUME DispatchSound, StartSound PROVE OwnMemory
    OBVIOUS
  <2>1. Placed(areas, start_address)
    BY DEF StartSound, HeapSound
  <2>2. ASSUME NEW i \in DOMAIN areas
        PROVE  start_address <= FRAMES + PoolSize * PAGE_SIZE
    <3>1. areas # <<>>
      BY <2>2
    <3>2. boot > 10 /\ HasPool /\ boot \in 0 .. Len(Order) /\ kernel \in Kernels
      BY <3>1, OrderPlaces DEF StartSound, HeapSound, DispatchSound, TablesSound
    <3>3. boot \in 0 .. 17
      <4>1. PICK n : n = Len(Own) /\ (n = 5 \/ n = 10 \/ n = 11)
        BY <3>2, OwnShape, Zenon DEF OwnSteps
      <4>2. Len(Order) = 6 + n
        BY <3>2, <4>1, OrderIs
      <4>. QED BY SMTT(30), <3>2, <4>1, <4>2
    <3>. QED BY <3>2, <3>3 DEF StartSound, HeapSound, FRAMES, PoolSize, PAGE_SIZE, ThreadSize
  <2>3. ASSUME NEW i \in DOMAIN areas
        PROVE  /\ i \in 1 .. Len(areas) /\ areas[i].at \in Nat /\ areas[i].size \in Nat
               /\ FRAMES <= areas[i].at /\ areas[i].at + areas[i].size <= start_address
               /\ \A j \in 1 .. i - 1 : areas[j].at + areas[j].size <= areas[i].at
    <3>1. i \in 1 .. Len(areas) /\ areas[i] \in Area
      BY <2>1, <2>3, ElementOfSeq DEF Placed
    <3>. QED BY <2>1, <3>1 DEF Placed, Area
  <2>4. start_address \in Nat
    BY <2>1 DEF Placed
  <2>. QED BY <2>2, <2>3, <2>4 DEF OwnMemory, FRAMES, PoolSize, PAGE_SIZE
<1>. QED BY <1>1, StartIsSound, PTL

\* Scheduler.C and blocking_disk.C: the word in front of the ready queue's array is
\* nobody's, the one in front of the disk's is that queue's own tail.
THEOREM WordInFront == Spec => []CellInFront
<1>1. DispatchSound /\ StartSound => CellInFront
  <2> SUFFICES ASSUME StartSound, NEW i \in DOMAIN areas
               PROVE  LET owner(word) == {j \in DOMAIN areas : areas[j].at <= word /\
                                            word < areas[j].at + areas[j].size}
                      IN  /\ areas[i].what = "queue" => owner(areas[i].at - 4) = {}
                          /\ areas[i].what = "b_queue" =>
                               \E j \in owner(areas[i].at - 4) :
                                  areas[j].what = "Bqueue" /\ areas[i].at - 4 = areas[j].at + 8
    BY DEF CellInFront
  <2>1. Placed(areas, start_address)
    BY DEF StartSound, HeapSound
  <2>2. DOMAIN areas = 1 .. Len(areas)
    BY <2>1 DEF Placed
  <2>3. \A j \in DOMAIN areas : /\ areas[j].at \in Nat /\ FRAMES <= areas[j].at
    <3>1. \A j \in 1 .. Len(areas) : areas[j] \in Area
      BY <2>1, ElementOfSeq DEF Placed
    <3>. QED BY <2>1, <2>2, <3>1 DEF Placed, Area
  <2>4. areas[i].what = "queue" => areas[i].at = FRAMES
    BY <2>1, <2>2 DEF Placed
  <2>5. areas[i].what = "b_queue" =>
          /\ i > 1 /\ areas[i - 1].what = "Bqueue"
          /\ areas[i - 1].size = 12 /\ areas[i].at = areas[i - 1].at + 12
    BY <2>1, <2>2 DEF Placed
  <2>6. CASE areas[i].what = "queue"
    <3>1. \A j \in DOMAIN areas : ~(areas[j].at <= areas[i].at - 4)
      BY <2>3, <2>4, <2>6 DEF FRAMES
    <3>. QED BY <2>6, <3>1
  <2>7. CASE areas[i].what = "b_queue"
    <3>1. PICK k \in DOMAIN areas : k = i - 1
      BY <2>2, <2>5, <2>7
    <3>2. /\ areas[k].what = "Bqueue" /\ areas[k].size = 12 /\ areas[k].at \in Nat
          /\ areas[i].at = areas[k].at + 12
      BY <2>3, <2>5, <2>7, <3>1
    <3>3. /\ areas[k].at <= areas[i].at - 4 /\ areas[i].at - 4 < areas[k].at + areas[k].size
          /\ areas[i].at - 4 = areas[k].at + 8
      BY <3>2
    <3>. QED BY <2>7, <3>2, <3>3
  <2>. QED BY <2>6, <2>7
<1>. QED BY <1>1, StartIsSound, PTL
=============================================================================
