------------------------- MODULE ContextSwitch_proofs -------------------------
(***************************************************************************)
(* The switch and the stubs, instruction by instruction, for any number of *)
(* threads and of contexts on a stack, any devices and exceptions, and the *)
(* three kernels, up to an interrupt before an instruction where it is     *)
(* fatal or the dispatch of NULL or of a dead thread (Intact).             *)
(*                                                                         *)
(* None of the properties is inductive: what a pop or a return finds       *)
(* depends on what all the instructions before it have put there, perhaps  *)
(* long ago and on a stack that has been parked since.  IInv says for      *)
(* every instruction which words lie on the stack above the last context   *)
(* that was saved there (Position, AtStub), for every saved context that   *)
(* it was left at such a place (Kept), and for every stack that waits that *)
(* a whole context is at its top, where its control block points (Parked). *)
(* A step has then two things to show: it leaves the words of the saved    *)
(* contexts alone (Spares), and what lies above them is what the next      *)
(* instruction expects.  StepKeeps and the lemmas after it put these       *)
(* together; there is one lemma per instruction, or one for a row of them  *)
(* that only differ in what has been pushed (SavingStep, LoadingStep).     *)
(***************************************************************************)
EXTENDS ContextSwitch, SequenceTheorems, TLAPS

-----------------------------------------------------------------------------
(* Types.                                                                   *)
Kinds    == {"number", "selector", "eflags", "thread", "address", "outside", "vector", "scratch", "code"}
              \cup Registers
Names    == {"threads_low_switch_to", "irq", "isr", "irq_common_stub", "isr_common_stub", "main",
             "thread_start", "function", "thread_shutdown", "dispatch", "handler", "abort"}
Words    == (Kinds \cup Names) \X Nat
Contexts == [reg : [Registers -> Words], ints : BOOLEAN, eip : Words, top : Nat]
Pointers == [stack : Stacks, top : Nat]

Typed ==
    /\ kernel \in Kernels
    /\ reg \in [Registers -> Words] /\ esp \in Pointers /\ eip \in Words /\ ints \in BOOLEAN
    /\ mem \in [Stacks -> Seq(Words)]
    /\ tcb \in [Threads -> Pointers]
    /\ current_thread \in Stacks
    /\ raised \in Nat \X Words
    /\ left \in [Stacks -> Seq(Contexts)]

-----------------------------------------------------------------------------
(* Where the words of a saved context are.                                  *)

\* The processor as a context of the current stack.
Now == Snapshot(eip, esp.top)

\* The context that the first n of l are kept above: a thread that has never
\* run is one of its own.
Starts == [reg |-> [r \in Registers |-> IF r \in {"ds", "es"} THEN KERNEL_DS ELSE Zero],
           ints |-> FALSE, eip |-> <<"thread_start", 1>>, top |-> 3]
Context(l, n) == IF n = 0 THEN Starts ELSE l[n]

\* The first m words of context L are in place, m being one of those numbers
\* at which an instruction begins.
ForIret(words, L) == /\ words[L.top + 1] = Flags(L.ints)
                     /\ words[L.top + 2] = KERNEL_CS
                     /\ words[L.top + 3] = L.eip
GeneralAt(words, L) ==
    /\ words[L.top + 6] = L.reg["eax"] /\ words[L.top + 7] = L.reg["ecx"]
    /\ words[L.top + 8] = L.reg["edx"] /\ words[L.top + 9] = L.reg["ebx"]
    /\ words[L.top + 11] = L.reg["ebp"] /\ words[L.top + 12] = L.reg["esi"]
    /\ words[L.top + 13] = L.reg["edi"]
Saved(words, L, m) ==
    /\ m >= 3  => ForIret(words, L)
    /\ m >= 13 => GeneralAt(words, L)
    /\ m >= 14 => words[L.top + 14] = L.reg["ds"]
    /\ m >= 15 => words[L.top + 15] = L.reg["es"]
    /\ m >= 16 => words[L.top + 16] = L.reg["fs"]
    /\ m >= 17 => words[L.top + 17] = L.reg["gs"]

\* The number of words that are on the stack before each instruction of
\* save_registers and of restore_registers, and after the last one.
SavedBy == <<5, 13, 14, 15, 16, 17>>
LeftBy  == <<17, 16, 15, 14, 13, 5, 3>>

Saving(j, words, L, c) == /\ c.top = L.top + SavedBy[j] /\ c.reg = L.reg
                          /\ Saved(words, L, SavedBy[j])

\* The registers that have been restored when m words are left.
Live(c, L, m) ==
    /\ m <= 16 => c.reg["gs"] = L.reg["gs"]
    /\ m <= 15 => c.reg["fs"] = L.reg["fs"]
    /\ m <= 14 => c.reg["es"] = L.reg["es"]
    /\ m <= 13 => c.reg["ds"] = L.reg["ds"]
    /\ m <= 5  => c.reg = L.reg

Loading(j, words, L, c) == /\ c.top = L.top + LeftBy[j]
                           /\ Saved(words, L, LeftBy[j]) /\ Live(c, L, LeftBy[j])

-----------------------------------------------------------------------------
(* The places at which a processor in state c may be, on stack s with these *)
(* words, above the context L that is the nth on that stack.                *)
Named  == {Thread(t) : t \in Threads}
Labels == {"irq_common_stub", "isr_common_stub"}
Tls(i) == <<"threads_low_switch_to", i>>

\* The return address moves below the flags and the code segment.
ButEax(c, L) == \A r \in Registers \ {"eax"} : c.reg[r] = L.reg[r]
Moving(i, words, L, c) ==
    /\ i \in {1, 2} => c.top = L.top + 1 /\ c.reg = L.reg /\ words[L.top + 1] = L.eip
    /\ i = 3 => /\ c.top = L.top + 2 /\ c.reg = L.reg
                /\ words[L.top + 1] = L.eip /\ words[L.top + 2] = L.reg["eax"]
    /\ i = 4 => c.top = L.top + 2 /\ c.reg["eax"] = L.eip
    /\ i = 5 => c.top = L.top + 2
    /\ i = 6 => c.top = L.top
    /\ i \in {7, 8} => c.top = L.top + 1
    /\ i = 9 => c.top = L.top + 2 /\ words[L.top + 2] = KERNEL_CS
    /\ i \in 4 .. 7 => ButEax(c, L) /\ words[L.top + 2] = L.reg["eax"]
    /\ i \in 5 .. 9 => L.top + 3 <= Len(words) /\ words[L.top + 3] = L.eip
    /\ i \in 7 .. 9 => words[L.top + 1] = Flags(L.ints)
    /\ i \in 8 .. 9 => c.reg = L.reg
    /\ c.ints = L.ints

Leaving(i, words, L, c) ==
    /\ i \in 1 .. 9   => Moving(i, words, L, c)
    /\ i \in {10, 11} => c.top = L.top + i - 7 /\ c.reg = L.reg /\ ForIret(words, L)
    /\ i \in 12 .. 17 => Saving(i - 11, words, L, c)
    /\ i \in 18 .. 20 => c.top = L.top + 17 /\ Saved(words, L, 17)
    /\ i \in 19 .. 20 => c.reg["eax"] \in Named

\* What is left on a thread's stack when it starts.
Bottom(words, n) ==
    n = 0 => /\ words[1] = Zero /\ words[2] = <<"thread_shutdown", 1>>
             /\ words[3] = <<"function", 1>>

AtSwitch(i, s, words, L, n, c) ==
    \/ /\ i \in {1, 28, 29, 30} /\ n \in 1 .. Nested + 1 /\ s = Main
       /\ c.top = L.top + 1 /\ L.top >= 1 /\ words[L.top] \in Named
       /\ i \in {29, 30} => c.reg["eax"] \in Named
    \/ /\ i \in 1 .. 20 /\ n \in 1 .. Nested + 1 /\ s # Main
       /\ Leaving(i, words, L, c)
       /\ L.top >= 1 /\ words[L.top] \in Named
    \/ /\ i \in 21 .. 27 \cup 31 .. 37 /\ n \in 0 .. Nested + 1 /\ s # Main
       /\ Loading(IF i <= 27 THEN i - 20 ELSE i - 30, words, L, c)
       /\ Bottom(words, n)

\* The common stubs, from the instruction after the stub's jmp.
AtCommon(k, s, words, L, n, c) ==
    /\ n \in 1 .. Nested /\ ~c.ints
    /\ k \in 1 .. 6   => Saving(k, words, L, c)
    /\ k = 7          => c.top = L.top + 17 /\ Saved(words, L, 17)
    /\ k \in {8, 9}   => c.top = L.top + 18 /\ Saved(words, L, 17)
    /\ k = 8          => words[L.top + 18] = At([stack |-> s, top |-> L.top + 17])
    /\ k \in 10 .. 16 => Loading(k - 9, words, L, c)

\* Code written in C: main(), a thread and its function, the dispatcher and
\* the handlers.
AtBottom(p, s, words, n, c) ==
    /\ n = 0
    /\ IF p \in {<<"main", 1>>, <<"main", 2>>} THEN s = Main ELSE s # Main /\ words[1] = Zero
    /\ p = <<"main", 1>> => c.top = 0
    /\ p = <<"main", 2>> => c.top = 1
    /\ p = <<"thread_start", 1>> => /\ c.top = 3 /\ ~c.ints
                                    /\ words[2] = <<"thread_shutdown", 1>>
                                    /\ words[3] = <<"function", 1>>
    /\ p = <<"function", 1>> => c.top = 2 /\ words[2] = <<"thread_shutdown", 1>>
    /\ p = <<"function", 2>> => c.top = 3 /\ words[2] = <<"thread_shutdown", 1>>
    /\ p = <<"thread_shutdown", 1>> => c.top = 1
    /\ p = <<"thread_shutdown", 2>> => c.top = 2

InDispatcher(p, s, words, L, n, c) ==
    /\ n \in 1 .. Nested /\ ~c.ints
    /\ p = <<"handler", 2>> => c.top = L.top + 20
    /\ p # <<"handler", 2>> => c.top = L.top + 19
    /\ p = <<"dispatch", 1>> => words[L.top + 18] = At([stack |-> s, top |-> L.top + 17])
    /\ Saved(words, L, 17)
    /\ \E l \in Labels : words[L.top + 19] = <<l, 9>>

AtC(p, s, words, L, n, c) ==
    \/ /\ p \in {<<"main", 1>>, <<"main", 2>>, <<"thread_start", 1>>, <<"function", 1>>,
                 <<"function", 2>>, <<"thread_shutdown", 1>>, <<"thread_shutdown", 2>>}
       /\ AtBottom(p, s, words, n, c)
    \/ /\ p \in {<<"dispatch", 1>>, <<"handler", 1>>, <<"handler", 2>>}
       /\ InDispatcher(p, s, words, L, n, c)
    \/ /\ p = <<"abort", 1>> /\ n \in 0 .. Nested /\ ~c.ints /\ c.top <= L.top + 20

Position(s, words, L, n, c) ==
    \/ \E i \in 1 .. 37 : c.eip = Tls(i) /\ AtSwitch(i, s, words, L, n, c)
    \/ \E l \in Labels, k \in 1 .. 16 : c.eip = <<l, k>> /\ AtCommon(k, s, words, L, n, c)
    \/ AtC(c.eip, s, words, L, n, c)

\* The k+1st of the stub's own instructions, for the interrupt r.
InStub(v, k, words, L, n, c, r) ==
    /\ r[1] = v
    /\ n \in 1 .. Nested /\ ~c.ints /\ c.reg = L.reg /\ ForIret(words, L)
    /\ v \in HasCode => c.top = L.top + (IF k = 3 THEN 5 ELSE 4) /\ words[L.top + 4] = r[2]
    /\ v \notin HasCode => /\ c.top = L.top + (IF k = 0 THEN 3 ELSE k + 2)
                           /\ r[2] = Zero
                           /\ k >= 2 => words[L.top + 4] = Zero
    /\ k = 3 => words[L.top + 5] = <<"number", v>>
AtStub(words, L, n, c, r) ==
    \E v \in 0 .. 47, k \in 0 .. 3 : /\ c.eip = <<Gate[v][1], Gate[v][2] + k>>
                                     /\ InStub(v, k, words, L, n, c, r)

\* Where a stack loses the processor and is resumed.
Rests(p) == \/ p \in {<<"main", 1>>, <<"main", 2>>, <<"function", 1>>, <<"function", 2>>,
                      <<"thread_shutdown", 1>>, <<"thread_shutdown", 2>>, <<"handler", 1>>,
                      <<"handler", 2>>}
            \/ \E i \in (1 .. 37) \ Fatal : p = Tls(i)

-----------------------------------------------------------------------------
(* The invariant.                                                           *)

\* Every context on a stack has been left at a place it can go on from, and
\* has its words below those of the next one.
Kept(s, words, l) ==
    \A k \in 1 .. Len(l) :
      /\ Rests(l[k].eip) /\ Position(s, words, Context(l, k - 1), k - 1, l[k])
      /\ l[k].top <= 20 * k
      /\ \A j \in 1 .. k : l[j].top <= l[k].top

\* A stack that waits for the processor has a whole context at its top, and
\* its thread's control block says where.
Parked(s, words, l, p) ==
    LET n == Len(l)
        L == Context(l, n)
    IN  /\ p = [stack |-> s, top |-> L.top + 17] /\ L.top + 17 <= Len(words)
        /\ n <= Nested + 1 /\ Bottom(words, n) /\ Saved(words, L, 17)

\* From the end of the stub to the dispatcher the interrupt's words are there.
Told(words, L, p, r) ==
    p = <<"dispatch", 1>> \/ (\E l \in Labels, k \in 1 .. 8 : p = <<l, k>>)
      => words[L.top + 4] = r[2] /\ words[L.top + 5] = <<"number", r[1]>>

Placed(s, words, l, c, r) ==
    LET n == Len(l)
        L == Context(l, n)
    IN  /\ Position(s, words, L, n, c) \/ AtStub(words, L, n, c, r)
        /\ Told(words, L, c.eip, r)
        /\ c.top <= Len(words) /\ (c.eip \in InC => c.top = Len(words))

StacksSound == \A s \in Stacks : Kept(s, mem[s], left[s])
ParkedSound == \A t \in Threads :
                 t # esp.stack \/ eip \in {Tls(18), Tls(19), Tls(20)}
                   => Parked(t, mem[t], left[t], tcb[t])
PlacedSound == Placed(esp.stack, mem[esp.stack], left[esp.stack], Now, raised)
CurrentSound ==
    IF eip \in {Tls(20), Tls(30)} THEN reg["eax"] = Thread(current_thread) /\ current_thread # Main
                                  ELSE current_thread = esp.stack

IInv == Typed /\ StacksSound /\ ParkedSound /\ PlacedSound /\ CurrentSound

-----------------------------------------------------------------------------
(* The text of the code, instruction by instruction.                        *)
Operations   == {"push", "pop", "pushad", "popad", "pushfd", "load", "store", "add", "cli", "nop", "jmp",
                 "kernel_segments", "call", "iret", "je", "save_esp",
                 "make_current", "load_esp"}
Operands     == {"", "eax", "cs", "esp", "ds", "es", "fs", "gs", "irq_common_stub", "isr_common_stub"}
Instructions == [op : Operations, r : Operands, n : Int]

Text(s, n)            == s \in Seq(Instructions) /\ Len(s) = n
Joined(u, s, t, m, k) == \A i \in 1 .. k : u[i] = IF i <= m THEN s[i] ELSE t[i - m]

\* Where the parts of a concatenation end up.
LEMMA Parts ==
    ASSUME NEW s, NEW t, NEW m \in Nat, NEW n \in Nat, Text(s, m), Text(t, n)
    PROVE  Text(s \o t, m + n) /\ Joined(s \o t, s, t, m, m + n)
BY DEF Text, Joined

\* Instructions are instructions.
LEMMA InstructionTypes ==
    /\ \A o \in Operations : Op(o) \in Instructions
    /\ \A r \in Operands : Push(r) \in Instructions /\ Pop(r) \in Instructions /\ Jmp(r) \in Instructions
    /\ \A n \in Int : PushByte(n) \in Instructions /\ Add(n) \in Instructions
    /\ \A n \in Int, r \in Operands : Load(r, n) \in Instructions /\ Store(n, r) \in Instructions
BY DEF Op, Push, Pop, Jmp, PushByte, Add, Load, Store, Instructions, Operations, Operands

\* save_registers, and restore_registers, which undoes it.
LEMMA SaveText ==
    /\ Text(save_registers, 5)
    /\ save_registers[1] = Op("pushad") /\ save_registers[2] = Push("ds")
    /\ save_registers[3] = Push("es") /\ save_registers[4] = Push("fs")
    /\ save_registers[5] = Push("gs")
<1>1. /\ "pushad" \in Operations
      /\ "ds" \in Operands /\ "es" \in Operands /\ "fs" \in Operands /\ "gs" \in Operands
  BY DEF Operations, Operands
<1>2. /\ Op("pushad") \in Instructions /\ Push("ds") \in Instructions /\ Push("es") \in Instructions
      /\ Push("fs") \in Instructions /\ Push("gs") \in Instructions
  BY <1>1, InstructionTypes
<1>. QED BY <1>2 DEF save_registers, Text

\* The six instructions that undo save_registers, the last one the addition
\* that drops two words.
LEMMA RestoreText ==
    /\ Text(restore_registers, 6)
    /\ restore_registers[1] = Pop("gs") /\ restore_registers[2] = Pop("fs")
    /\ restore_registers[3] = Pop("es") /\ restore_registers[4] = Pop("ds")
    /\ restore_registers[5] = Op("popad") /\ restore_registers[6] = Add(2)
<1>1. /\ "popad" \in Operations
      /\ "ds" \in Operands /\ "es" \in Operands /\ "fs" \in Operands /\ "gs" \in Operands
  BY DEF Operations, Operands
<1>2. /\ Op("popad") \in Instructions /\ Pop("ds") \in Instructions /\ Pop("es") \in Instructions
      /\ Pop("fs") \in Instructions /\ Pop("gs") \in Instructions /\ Add(2) \in Instructions
  BY <1>1, InstructionTypes
<1>. QED BY <1>2 DEF restore_registers, Text

\* The ten instructions that put the flags and the code segment above the
\* return address, for iret.
LEMMA FrameText ==
    /\ Text(frame_for_iret, 10)
    /\ frame_for_iret[1] = Push("eax") /\ frame_for_iret[2] = Load("eax", 1)
    /\ frame_for_iret[3] = Store(-1, "eax") /\ frame_for_iret[4] = Add(2)
    /\ frame_for_iret[5] = Op("pushfd") /\ frame_for_iret[6] = Load("eax", -1)
    /\ frame_for_iret[7] = Push("cs") /\ frame_for_iret[8] = Add(-1)
    /\ frame_for_iret[9] = PushByte(0) /\ frame_for_iret[10] = PushByte(0)
<1>1. "pushfd" \in Operations /\ "eax" \in Operands /\ "cs" \in Operands
  BY DEF Operations, Operands
<1>2. /\ Push("eax") \in Instructions /\ Load("eax", 1) \in Instructions
      /\ Store(-1, "eax") \in Instructions /\ Add(2) \in Instructions
      /\ Op("pushfd") \in Instructions /\ Load("eax", -1) \in Instructions
      /\ Push("cs") \in Instructions /\ Add(-1) \in Instructions /\ PushByte(0) \in Instructions
  BY <1>1, InstructionTypes
<1>. QED BY <1>2 DEF frame_for_iret, Text

\* The single instructions between the macros.
LEMMA SingleTypes ==
    /\ Op("je") \in Instructions /\ Op("save_esp") \in Instructions /\ Op("make_current") \in Instructions
    /\ Op("load_esp") \in Instructions /\ Op("iret") \in Instructions /\ Op("call") \in Instructions
    /\ Op("kernel_segments") \in Instructions /\ Push("esp") \in Instructions /\ Pop("eax") \in Instructions
    /\ Load("eax", 1) \in Instructions /\ Load("eax", INTERRUPT_STATE_SIZE) \in Instructions
<1>1. /\ "je" \in Operations /\ "save_esp" \in Operations /\ "make_current" \in Operations
      /\ "load_esp" \in Operations /\ "iret" \in Operations /\ "call" \in Operations
      /\ "kernel_segments" \in Operations /\ "esp" \in Operands /\ "eax" \in Operands
  BY DEF Operations, Operands
<1>. QED BY <1>1, InstructionTypes DEF INTERRUPT_STATE_SIZE

\* The new thread's stack is loaded, and what is on it.
LEMMA LoadText ==
    /\ Text(load_context, 9)
    /\ load_context[1] = Op("make_current") /\ load_context[2] = Op("load_esp")
    /\ \A j \in 1 .. 6 : load_context[j + 2] = restore_registers[j]
    /\ load_context[9] = Op("iret")
<1> DEFINE a == <<Op("make_current"), Op("load_esp")>>
           z == <<Op("iret")>>
           b == a \o restore_registers
<1>1. Text(a, 2) /\ a[1] = Op("make_current") /\ a[2] = Op("load_esp")
  BY SingleTypes DEF Text
<1>2. Text(z, 1) /\ z[1] = Op("iret")
  BY SingleTypes DEF Text
<1>3. load_context = b \o z
  BY DEF load_context
<1> HIDE DEF a, z
<1>4. Text(b, 8) /\ Joined(b, a, restore_registers, 2, 8)
  <2>1. Text(a, 2) /\ Text(restore_registers, 6) /\ 2 \in Nat /\ 6 \in Nat
    BY <1>1, RestoreText
  <2>2. Text(a \o restore_registers, 2 + 6) /\ Joined(a \o restore_registers, a, restore_registers, 2, 2 + 6)
    BY <2>1, Parts, Zenon
  <2>. QED BY <2>2
<1> HIDE DEF b
<1>5. Text(load_context, 9) /\ Joined(load_context, b, z, 8, 9)
  <2>1. Text(b, 8) /\ Text(z, 1) /\ 8 \in Nat /\ 1 \in Nat
    BY <1>4, <1>2
  <2>2. Text(b \o z, 8 + 1) /\ Joined(b \o z, b, z, 8, 8 + 1)
    BY <2>1, Parts, Zenon
  <2>. QED BY <2>2, <1>3
<1>6. \A j \in 1 .. 6 : load_context[j + 2] = restore_registers[j]
  BY <1>4, <1>5 DEF Joined
<1>7. load_context[1] = a[1] /\ load_context[2] = a[2] /\ load_context[9] = z[1]
  BY <1>4, <1>5 DEF Joined
<1>. QED BY <1>1, <1>2, <1>5, <1>6, <1>7

\* The switch from a thread, and the switch when there is none.
LEMMA FullText ==
    /\ Text(full_switch, 27) /\ full_switch[1] = Op("je")
    /\ \A j \in 1 .. 10 : full_switch[j + 1] = frame_for_iret[j]
    /\ \A j \in 1 .. 5 : full_switch[j + 11] = save_registers[j]
    /\ full_switch[17] = Op("save_esp") /\ full_switch[18] = Load("eax", INTERRUPT_STATE_SIZE)
    /\ \A j \in 1 .. 9 : full_switch[j + 18] = load_context[j]
<1> DEFINE a == <<Op("je")>>
           m == <<Op("save_esp"), Load("eax", INTERRUPT_STATE_SIZE)>>
           b == a \o frame_for_iret
           c == b \o save_registers
           d == c \o m
<1>1. Text(a, 1) /\ a[1] = Op("je")
  BY SingleTypes DEF Text
<1>2. Text(m, 2) /\ m[1] = Op("save_esp") /\ m[2] = Load("eax", INTERRUPT_STATE_SIZE)
  BY SingleTypes DEF Text
<1>3. full_switch = d \o load_context
  BY DEF full_switch
<1> HIDE DEF a, m
<1>4. Text(b, 11) /\ Joined(b, a, frame_for_iret, 1, 11)
  <2>1. Text(a, 1) /\ Text(frame_for_iret, 10) /\ 1 \in Nat /\ 10 \in Nat
    BY <1>1, FrameText
  <2>2. Text(a \o frame_for_iret, 1 + 10) /\ Joined(a \o frame_for_iret, a, frame_for_iret, 1, 1 + 10)
    BY <2>1, Parts, Zenon
  <2>. QED BY <2>2
<1> HIDE DEF b
<1>5. Text(c, 16) /\ Joined(c, b, save_registers, 11, 16)
  <2>1. Text(b, 11) /\ Text(save_registers, 5) /\ 11 \in Nat /\ 5 \in Nat
    BY <1>4, SaveText
  <2>2. Text(b \o save_registers, 11 + 5) /\ Joined(b \o save_registers, b, save_registers, 11, 11 + 5)
    BY <2>1, Parts, Zenon
  <2>. QED BY <2>2
<1> HIDE DEF c
<1>6. Text(d, 18) /\ Joined(d, c, m, 16, 18)
  <2>1. Text(c, 16) /\ Text(m, 2) /\ 16 \in Nat /\ 2 \in Nat
    BY <1>5, <1>2
  <2>2. Text(c \o m, 16 + 2) /\ Joined(c \o m, c, m, 16, 16 + 2)
    BY <2>1, Parts, Zenon
  <2>. QED BY <2>2
<1> HIDE DEF d
<1>7. Text(full_switch, 27) /\ Joined(full_switch, d, load_context, 18, 27)
  <2>1. Text(d, 18) /\ Text(load_context, 9) /\ 18 \in Nat /\ 9 \in Nat
    BY <1>6, LoadText
  <2>2. Text(d \o load_context, 18 + 9) /\ Joined(d \o load_context, d, load_context, 18, 18 + 9)
    BY <2>1, Parts, Zenon
  <2>. QED BY <2>2, <1>3
<1>8. \A i \in 1 .. 18 : full_switch[i] = d[i]
  BY <1>7 DEF Joined
<1>9. \A i \in 1 .. 16 : full_switch[i] = c[i]
  BY <1>6, <1>8 DEF Joined
<1>10. \A i \in 1 .. 11 : full_switch[i] = b[i]
  BY <1>5, <1>9 DEF Joined
<1>11. full_switch[1] = a[1] /\ full_switch[17] = m[1] /\ full_switch[18] = m[2]
  BY <1>4, <1>6, <1>8, <1>10 DEF Joined
<1>12. \A j \in 1 .. 10 : full_switch[j + 1] = frame_for_iret[j]
  BY <1>4, <1>10 DEF Joined
<1>13. \A j \in 1 .. 5 : full_switch[j + 11] = save_registers[j]
  BY <1>5, <1>9 DEF Joined
<1>14. \A j \in 1 .. 9 : full_switch[j + 18] = load_context[j]
  BY <1>7 DEF Joined
<1>. QED BY <1>1, <1>2, <1>7, <1>11, <1>12, <1>13, <1>14

\* context_load_only is a load of the new thread, and load_context.
LEMMA LoadOnlyText ==
    /\ Text(context_load_only, 10) /\ context_load_only[1] = Load("eax", 1)
    /\ \A j \in 1 .. 9 : context_load_only[j + 1] = load_context[j]
<1> DEFINE a == <<Load("eax", 1)>>
<1>1. Text(a, 1) /\ a[1] = Load("eax", 1)
  BY SingleTypes DEF Text
<1>2. context_load_only = a \o load_context
  BY DEF context_load_only
<1> HIDE DEF a
<1>3. Text(context_load_only, 10) /\ Joined(context_load_only, a, load_context, 1, 10)
  <2>1. Text(a, 1) /\ Text(load_context, 9) /\ 1 \in Nat /\ 9 \in Nat
    BY <1>1, LoadText
  <2>2. Text(a \o load_context, 1 + 9) /\ Joined(a \o load_context, a, load_context, 1, 1 + 9)
    BY <2>1, Parts, Zenon
  <2>. QED BY <2>2, <1>2
<1>4. context_load_only[1] = a[1] /\ \A j \in 1 .. 9 : context_load_only[j + 1] = load_context[j]
  BY <1>3 DEF Joined
<1>. QED BY <1>1, <1>3, <1>4

\* threads_low_switch_to, instruction by instruction.
LEMMA SwitchText ==
    LET s == threads_low_switch_to
    IN  /\ Len(full_switch) = 27 /\ DOMAIN s = 1 .. 37 /\ s[1] = Op("je")
        /\ \A j \in 1 .. 10 : s[j + 1] = frame_for_iret[j]
        /\ \A j \in 1 .. 5 : s[j + 11] = save_registers[j]
        /\ s[17] = Op("save_esp") /\ s[18] = Load("eax", INTERRUPT_STATE_SIZE)
        /\ s[19] = Op("make_current") /\ s[20] = Op("load_esp")
        /\ \A j \in 1 .. 6 : s[j + 20] = restore_registers[j]
        /\ s[27] = Op("iret") /\ s[28] = Load("eax", 1)
        /\ s[29] = Op("make_current") /\ s[30] = Op("load_esp")
        /\ \A j \in 1 .. 6 : s[j + 30] = restore_registers[j]
        /\ s[37] = Op("iret")
<1> DEFINE s == threads_low_switch_to
<1>1. Text(s, 37) /\ Joined(s, full_switch, context_load_only, 27, 37)
  <2>1. Text(full_switch, 27) /\ Text(context_load_only, 10) /\ 27 \in Nat /\ 10 \in Nat
    BY FullText, LoadOnlyText
  <2>2. Text(full_switch \o context_load_only, 27 + 10) /\ Joined(full_switch \o context_load_only, full_switch, context_load_only, 27, 27 + 10)
    BY <2>1, Parts, Zenon
  <2>. QED BY <2>2 DEF threads_low_switch_to
<1> HIDE DEF s
<1>2. (\A i \in 1 .. 27 : s[i] = full_switch[i]) /\ \A i \in 1 .. 10 : s[i + 27] = context_load_only[i]
  BY <1>1 DEF Joined
<1>3. /\ s[1] = Op("je") /\ s[17] = Op("save_esp") /\ s[18] = Load("eax", INTERRUPT_STATE_SIZE)
  BY <1>2, FullText
<1>4. s[1 + 27] = Load("eax", 1)
  BY <1>2, LoadOnlyText
<1>5. \A j \in 1 .. 10 : s[j + 1] = frame_for_iret[j]
  BY <1>2, FullText
<1>6. \A j \in 1 .. 5 : s[j + 11] = save_registers[j]
  BY <1>2, FullText
<1>7. \A j \in 1 .. 9 : s[j + 18] = load_context[j]
  BY <1>2, FullText
<1>8. \A j \in 1 .. 9 : s[j + 28] = load_context[j]
  <2>1. \A j \in 1 .. 9 : j + 1 \in 1 .. 10 /\ s[(j + 1) + 27] = context_load_only[j + 1]
    BY <1>2
  <2>. QED BY <2>1, LoadOnlyText
<1>9. /\ s[1 + 18] = load_context[1] /\ s[2 + 18] = load_context[2] /\ s[9 + 18] = load_context[9]
      /\ s[1 + 28] = load_context[1] /\ s[2 + 28] = load_context[2] /\ s[9 + 28] = load_context[9]
  BY <1>7, <1>8
<1>10. /\ s[19] = Op("make_current") /\ s[20] = Op("load_esp") /\ s[27] = Op("iret")
       /\ s[29] = Op("make_current") /\ s[30] = Op("load_esp") /\ s[37] = Op("iret")
  BY <1>9, LoadText
<1>11. ASSUME NEW j \in 1 .. 6
       PROVE  s[j + 20] = restore_registers[j] /\ s[j + 30] = restore_registers[j]
  <2>1. j + 2 \in 1 .. 9 /\ load_context[j + 2] = restore_registers[j]
    BY LoadText
  <2>2. s[(j + 2) + 18] = load_context[j + 2] /\ s[(j + 2) + 28] = load_context[j + 2]
    BY <1>7, <1>8, <2>1
  <2>. QED BY <2>1, <2>2
<1>12. Len(full_switch) = 27 /\ DOMAIN s = 1 .. 37
  BY <1>1, FullText DEF Text
<1>. QED BY <1>3, <1>4, <1>5, <1>6, <1>10, <1>11, <1>12 DEF s

\* The common stub.
LEMMA StubText ==
    LET s == common_stub
    IN  /\ DOMAIN s = 1 .. 16
        /\ \A j \in 1 .. 5 : s[j] = save_registers[j]
        /\ s[6] = Op("kernel_segments") /\ s[7] = Push("esp") /\ s[8] = Op("call")
        /\ s[9] = Pop("eax")
        /\ \A j \in 1 .. 6 : s[j + 9] = restore_registers[j]
        /\ s[16] = Op("iret")
<1> DEFINE a == <<Op("kernel_segments"), Push("esp"), Op("call")>>
           p == <<Pop("eax")>>
           z == <<Op("iret")>>
           c == call_dispatcher
           d == c \o p
           e == d \o restore_registers
           s == common_stub
<1>1. Text(a, 3) /\ a[1] = Op("kernel_segments") /\ a[2] = Push("esp") /\ a[3] = Op("call")
  BY SingleTypes DEF Text
<1>2. Text(p, 1) /\ p[1] = Pop("eax")
  BY SingleTypes DEF Text
<1>3. Text(z, 1) /\ z[1] = Op("iret")
  BY SingleTypes DEF Text
<1>4. c = save_registers \o a /\ s = e \o z
  BY DEF call_dispatcher, common_stub
<1> HIDE DEF a, p, z, c, s
<1>5. Text(c, 8) /\ Joined(c, save_registers, a, 5, 8)
  <2>1. Text(save_registers, 5) /\ Text(a, 3) /\ 5 \in Nat /\ 3 \in Nat
    BY SaveText, <1>1
  <2>2. Text(save_registers \o a, 5 + 3) /\ Joined(save_registers \o a, save_registers, a, 5, 5 + 3)
    BY <2>1, Parts, Zenon
  <2>. QED BY <2>2, <1>4
<1>6. Text(d, 9) /\ Joined(d, c, p, 8, 9)
  <2>1. Text(c, 8) /\ Text(p, 1) /\ 8 \in Nat /\ 1 \in Nat
    BY <1>5, <1>2
  <2>2. Text(c \o p, 8 + 1) /\ Joined(c \o p, c, p, 8, 8 + 1)
    BY <2>1, Parts, Zenon
  <2>. QED BY <2>2
<1> HIDE DEF d
<1>7. Text(e, 15) /\ Joined(e, d, restore_registers, 9, 15)
  <2>1. Text(d, 9) /\ Text(restore_registers, 6) /\ 9 \in Nat /\ 6 \in Nat
    BY <1>6, RestoreText
  <2>2. Text(d \o restore_registers, 9 + 6) /\ Joined(d \o restore_registers, d, restore_registers, 9, 9 + 6)
    BY <2>1, Parts, Zenon
  <2>. QED BY <2>2
<1> HIDE DEF e
<1>8. Text(s, 16) /\ Joined(s, e, z, 15, 16)
  <2>1. Text(e, 15) /\ Text(z, 1) /\ 15 \in Nat /\ 1 \in Nat
    BY <1>7, <1>3
  <2>2. Text(e \o z, 15 + 1) /\ Joined(e \o z, e, z, 15, 15 + 1)
    BY <2>1, Parts, Zenon
  <2>. QED BY <2>2, <1>4
<1>9. /\ s[6] = a[1] /\ s[7] = a[2] /\ s[8] = a[3] /\ s[9] = p[1] /\ s[16] = z[1]
  BY <1>5, <1>6, <1>7, <1>8 DEF Joined
<1>10. \A j \in 1 .. 5 : s[j] = save_registers[j]
  BY <1>5, <1>6, <1>7, <1>8 DEF Joined
<1>11. \A j \in 1 .. 6 : s[j + 9] = restore_registers[j]
  BY <1>7, <1>8 DEF Joined
<1>12. DOMAIN s = 1 .. 16
  BY <1>8 DEF Text
<1>. QED BY <1>1, <1>2, <1>3, <1>9, <1>10, <1>11, <1>12 DEF s

-----------------------------------------------------------------------------
(* Registers and words.                                                     *)
LEMMA RegistersAre ==
    /\ ToSet(General) = {"eax", "ecx", "edx", "ebx", "esp", "ebp", "esi", "edi"}
    /\ ToSet(Segments) = {"ds", "es", "fs", "gs"}
    /\ Registers = {"eax", "ecx", "edx", "ebx", "ebp", "esi", "edi", "ds", "es", "fs", "gs"}
<1>1. DOMAIN General = 1 .. 8 /\ DOMAIN Segments = 1 .. 4
  BY DEF General, Segments
<1>2. ToSet(General) = {General[i] : i \in 1 .. 8} /\ ToSet(Segments) = {Segments[i] : i \in 1 .. 4}
  BY <1>1, Zenon DEF ToSet
<1>3. ToSet(General) = {"eax", "ecx", "edx", "ebx", "esp", "ebp", "esi", "edi"}
  BY <1>2 DEF General
<1>4. ToSet(Segments) = {"ds", "es", "fs", "gs"}
  BY <1>2 DEF Segments
<1>. QED BY <1>3, <1>4 DEF Registers

\* Contexts with the same registers.
LEMMA SameRegisters ==
    ASSUME NEW f \in [Registers -> Words], NEW g \in [Registers -> Words],
           \A r \in Registers \ {"eax"} : f[r] = g[r], f["eax"] = g["eax"]
    PROVE  f = g
<1>1. \A r \in Registers : f[r] = g[r]
  OBVIOUS
<1>. QED BY <1>1

\* Where popad finds the registers that pushad has pushed.
LEMMA PopIndex ==
    LET at(r) == CHOOSE i \in DOMAIN General : General[i] = r
    IN  /\ at("eax") = 1 /\ at("ecx") = 2 /\ at("edx") = 3 /\ at("ebx") = 4
        /\ at("ebp") = 6 /\ at("esi") = 7 /\ at("edi") = 8
<1>1. DOMAIN General = 1 .. 8
  BY DEF General
<1>2. /\ \A i \in 1 .. 8 : General[i] = "eax" <=> i = 1
      /\ \A i \in 1 .. 8 : General[i] = "ecx" <=> i = 2
      /\ \A i \in 1 .. 8 : General[i] = "edx" <=> i = 3
      /\ \A i \in 1 .. 8 : General[i] = "ebx" <=> i = 4
      /\ \A i \in 1 .. 8 : General[i] = "ebp" <=> i = 6
      /\ \A i \in 1 .. 8 : General[i] = "esi" <=> i = 7
      /\ \A i \in 1 .. 8 : General[i] = "edi" <=> i = 8
  BY DEF General
<1>. QED BY <1>1, <1>2

\* The flags' word says whether interrupts are on.
LEMMA FlagsDiffer ==
    /\ \A i \in BOOLEAN : Flags(i) \in Words
    /\ Flags(FALSE) # Flags(TRUE)
BY DEF Flags, Words, Kinds

\* The words that are written as constants.
LEMMA WordTypes ==
    /\ Zero \in Words /\ KERNEL_CS \in Words /\ KERNEL_DS \in Words
    /\ \A n \in Nat : <<"number", n>> \in Words /\ Thread(n) \in Words
BY DEF Words, Kinds, Zero, KERNEL_CS, KERNEL_DS, Thread

\* The context of a thread that has never run is one.
LEMMA StartsType == Starts \in Contexts
BY WordTypes, RegistersAre DEF Starts, Contexts, Words, Names

\* So is any other that is on a stack.
LEMMA ContextType ==
    ASSUME NEW l \in Seq(Contexts), NEW n \in 0 .. Len(l)
    PROVE  Context(l, n) \in Contexts
BY StartsType DEF Context

-----------------------------------------------------------------------------
(* What is written to a stack, and where.                                   *)
LEMMA WriteDoes ==
    ASSUME NEW words \in Seq(Words), NEW i \in 1 .. Len(words) + 1, NEW x \in Words
    PROVE  /\ Write(words, i, x) \in Seq(Words) /\ Write(words, i, x)[i] = x
           /\ Len(Write(words, i, x)) >= i /\ Len(Write(words, i, x)) >= Len(words)
           /\ \A j \in 1 .. Len(words) : j # i => Write(words, i, x)[j] = words[j]
<1>1. CASE i <= Len(words)
  BY <1>1 DEF Write
<1>2. CASE i = Len(words) + 1
  BY <1>2 DEF Write
<1>. QED BY <1>1, <1>2

\* The first m words.
LEMMA PrefixDoes ==
    ASSUME NEW words \in Seq(Words), NEW m \in 0 .. Len(words)
    PROVE  /\ SubSeq(words, 1, m) \in Seq(Words) /\ Len(SubSeq(words, 1, m)) = m
           /\ \A j \in 1 .. m : SubSeq(words, 1, m)[j] = words[j]
OBVIOUS

\* Words behind others.
LEMMA ConcatDoes ==
    ASSUME NEW a \in Seq(Words), NEW b \in Seq(Words)
    PROVE  /\ a \o b \in Seq(Words) /\ Len(a \o b) = Len(a) + Len(b)
           /\ \A j \in 1 .. Len(a) : (a \o b)[j] = a[j]
           /\ \A j \in 1 .. Len(b) : (a \o b)[Len(a) + j] = b[j]
OBVIOUS

\* What Writes leaves: the words in front of the place, then those that were
\* written.
LEMMA WritesDoes ==
    ASSUME NEW words \in Seq(Words), NEW n \in 0 .. Len(words), NEW ws \in Seq(Words)
    PROVE  /\ Writes(words, n + 1, ws) \in Seq(Words) /\ Len(Writes(words, n + 1, ws)) = n + Len(ws)
           /\ \A j \in 1 .. n : Writes(words, n + 1, ws)[j] = words[j]
           /\ \A j \in 1 .. Len(ws) : Writes(words, n + 1, ws)[n + j] = ws[j]
<1> DEFINE a == SubSeq(words, 1, n)
<1>1. a \in Seq(Words) /\ Len(a) = n /\ \A j \in 1 .. n : a[j] = words[j]
  BY PrefixDoes
<1>2. Writes(words, n + 1, ws) = a \o ws
  BY DEF Writes
<1> HIDE DEF a
<1>3. /\ a \o ws \in Seq(Words) /\ Len(a \o ws) = Len(a) + Len(ws)
      /\ \A j \in 1 .. Len(a) : (a \o ws)[j] = a[j]
      /\ \A j \in 1 .. Len(ws) : (a \o ws)[Len(a) + j] = ws[j]
  BY <1>1, ConcatDoes, Zenon
<1>. QED BY <1>1, <1>2, <1>3

-----------------------------------------------------------------------------
(* Which part of Position speaks of which address.                          *)
LEMMA OnSwitch ==
    ASSUME NEW s, NEW words, NEW L, NEW n, NEW c, NEW i \in 1 .. 37, c.eip = Tls(i)
    PROVE  Position(s, words, L, n, c) <=> AtSwitch(i, s, words, L, n, c)
<1>1. \A k \in 1 .. 37 : c.eip = Tls(k) <=> k = i
  BY DEF Tls
<1>2. \A l \in Labels, k \in 1 .. 16 : c.eip # <<l, k>>
  BY DEF Tls, Labels
<1>3. ~AtC(c.eip, s, words, L, n, c)
  BY DEF Tls, AtC
<1>. QED BY <1>1, <1>2, <1>3, Zenon DEF Position

\* At an address in a common stub only the part about the stubs can hold.
LEMMA OnCommon ==
    ASSUME NEW s, NEW words, NEW L, NEW n, NEW c, NEW l \in Labels, NEW k \in 1 .. 16,
           c.eip = <<l, k>>
    PROVE  Position(s, words, L, n, c) <=> AtCommon(k, s, words, L, n, c)
<1>1. \A i \in 1 .. 37 : c.eip # Tls(i)
  BY DEF Tls, Labels
<1>2. \A m \in Labels, j \in 1 .. 16 : c.eip = <<m, j>> <=> m = l /\ j = k
  OBVIOUS
<1>3. ~AtC(c.eip, s, words, L, n, c)
  BY DEF Labels, AtC
<1>. QED BY <1>1, <1>2, <1>3, Zenon DEF Position

\* At an address in C code only the part about C code can hold.
LEMMA OnC ==
    ASSUME NEW s, NEW words, NEW L, NEW n, NEW c, c.eip \in InC
    PROVE  Position(s, words, L, n, c) <=> AtC(c.eip, s, words, L, n, c)
<1>1. \A i \in 1 .. 37 : c.eip # Tls(i)
  BY DEF Tls, InC
<1>2. \A m \in Labels, j \in 1 .. 16 : c.eip # <<m, j>>
  BY DEF Labels, InC
<1>. QED BY <1>1, <1>2, Zenon DEF Position

-----------------------------------------------------------------------------
(* A context that is left alone.                                            *)
LEMMA Tables ==
    /\ SavedBy[1] = 5 /\ SavedBy[2] = 13 /\ SavedBy[3] = 14 /\ SavedBy[4] = 15
    /\ SavedBy[5] = 16 /\ SavedBy[6] = 17
    /\ LeftBy[1] = 17 /\ LeftBy[2] = 16 /\ LeftBy[3] = 15 /\ LeftBy[4] = 14
    /\ LeftBy[5] = 13 /\ LeftBy[6] = 5 /\ LeftBy[7] = 3
    /\ \A j \in 1 .. 6 : SavedBy[j] \in 5 .. 17
    /\ \A j \in 1 .. 7 : LeftBy[j] \in 3 .. 17
BY DEF SavedBy, LeftBy

\* A saved context depends on its own words only.
LEMMA SavedWords ==
    ASSUME NEW words, NEW w, NEW L \in Contexts, NEW m \in 0 .. 17, Saved(words, L, m),
           \A i \in 1 .. L.top + m : w[i] = words[i]
    PROVE  Saved(w, L, m)
<1>1. L.top \in Nat
  BY DEF Contexts
<1>2. m >= 3 => ForIret(w, L)
  BY <1>1 DEF Saved, ForIret
<1>3. m >= 13 => GeneralAt(w, L)
  BY <1>1 DEF Saved, GeneralAt
<1>. QED BY <1>1, <1>2, <1>3 DEF Saved

\* What a place at which a stack may lose the processor asks of the words is
\* asked of those below its top only.
LEMMA SwitchWords ==
    ASSUME NEW s, NEW words, NEW w, NEW L \in Contexts, NEW n \in Nat, NEW c \in Contexts,
           NEW i \in (1 .. 37) \ Fatal, AtSwitch(i, s, words, L, n, c),
           \A j \in 1 .. c.top : w[j] = words[j]
    PROVE  AtSwitch(i, s, w, L, n, c)
<1>0. L.top \in Nat /\ c.top \in Nat
  BY DEF Contexts
<1>1. CASE i \in {1, 28, 29, 30} /\ s = Main
  <2>1. /\ n \in 1 .. Nested + 1 /\ c.top = L.top + 1 /\ L.top >= 1 /\ words[L.top] \in Named
        /\ i \in {29, 30} => c.reg["eax"] \in Named
    BY <1>1 DEF AtSwitch
  <2>2. w[L.top] = words[L.top]
    BY <1>0, <2>1
  <2>. QED BY <1>1, <2>1, <2>2 DEF AtSwitch
<1>2. CASE i \in 1 .. 20 /\ s # Main
  <2>1. /\ n \in 1 .. Nested + 1 /\ s # Main /\ Leaving(i, words, L, c)
        /\ L.top >= 1 /\ words[L.top] \in Named
    BY <1>2 DEF AtSwitch
  <2>2. i \in 1 .. 4 \/ i \in {10, 11} \/ i \in 12 .. 17
    BY <1>2 DEF Fatal
  <2>3. CASE i \in 1 .. 4
    <3>1. Moving(i, words, L, c)
      BY <2>1, <2>3 DEF Leaving
    <3>2. Moving(i, w, L, c) /\ c.top >= L.top
      BY <1>0, <2>3, <3>1, SMTT(30) DEF Moving
    <3>3. Leaving(i, w, L, c)
      BY <2>3, <3>2 DEF Leaving
    <3>. QED BY <1>0, <1>2, <2>1, <3>2, <3>3 DEF AtSwitch
  <2>4. CASE i \in {10, 11}
    <3>1. ForIret(words, L) /\ c.top = L.top + i - 7 /\ c.reg = L.reg
      BY <2>1, <2>4 DEF Leaving
    <3>2. ForIret(w, L)
      BY <1>0, <2>4, <3>1 DEF ForIret
    <3>3. Leaving(i, w, L, c)
      BY <2>4, <3>1, <3>2 DEF Leaving
    <3>4. w[L.top] = words[L.top]
      BY <1>0, <2>1, <2>4, <3>1
    <3>. QED BY <1>2, <2>1, <3>3, <3>4 DEF AtSwitch
  <2>5. CASE i \in 12 .. 17
    <3>1. i - 11 \in 1 .. 6 /\ Saving(i - 11, words, L, c)
      BY <2>1, <2>5 DEF Leaving
    <3>2. SavedBy[i - 11] \in 5 .. 17 /\ c.top = L.top + SavedBy[i - 11]
      BY <3>1, Tables DEF Saving
    <3>3. Saved(w, L, SavedBy[i - 11])
      <4> DEFINE m == SavedBy[i - 11]
      <4>1. m \in 0 .. 17 /\ Saved(words, L, m) /\ c.top = L.top + m
        BY <3>1, <3>2 DEF Saving
      <4> HIDE DEF m
      <4>2. \A k \in 1 .. L.top + m : w[k] = words[k]
        BY <4>1
      <4>. QED BY <4>1, <4>2, SavedWords DEF m
    <3>4. Leaving(i, w, L, c)
      BY <2>5, <3>1, <3>3 DEF Leaving, Saving
    <3>5. w[L.top] = words[L.top]
      BY <1>0, <2>1, <3>2
    <3>. QED BY <1>2, <2>1, <3>4, <3>5 DEF AtSwitch
  <2>. QED BY <2>2, <2>3, <2>4, <2>5
<1>3. CASE i \in 21 .. 27 \cup 31 .. 37
  <2> DEFINE j == IF i <= 27 THEN i - 20 ELSE i - 30
  <2>1. /\ n \in 0 .. Nested + 1 /\ s # Main /\ Loading(j, words, L, c) /\ Bottom(words, n)
    BY <1>3 DEF AtSwitch
  <2>2. j \in 1 .. 7
    BY <1>3
  <2> HIDE DEF j
  <2>3. LeftBy[j] \in 3 .. 17 /\ c.top = L.top + LeftBy[j]
    BY <2>1, <2>2, Tables DEF Loading
  <2>4. Loading(j, w, L, c)
    BY <1>0, <2>1, <2>3, SavedWords DEF Loading
  <2>5. Bottom(w, n)
    BY <1>0, <2>1, <2>3 DEF Bottom
  <2>. QED BY <1>3, <2>1, <2>4, <2>5 DEF AtSwitch, j
<1>. QED BY <1>1, <1>2, <1>3 DEF AtSwitch, Fatal

\* What is said of C code depends on the words below the top only.
LEMMA CWords ==
    ASSUME NEW s, NEW words, NEW w, NEW L \in Contexts, NEW n \in Nat, NEW c \in Contexts,
           NEW p, AtC(p, s, words, L, n, c), \A j \in 1 .. c.top : w[j] = words[j]
    PROVE  AtC(p, s, w, L, n, c)
<1>0. L.top \in Nat /\ c.top \in Nat
  BY DEF Contexts
<1>1. ASSUME AtBottom(p, s, words, n, c),
             p \in {<<"main", 1>>, <<"main", 2>>, <<"thread_start", 1>>, <<"function", 1>>,
                    <<"function", 2>>, <<"thread_shutdown", 1>>, <<"thread_shutdown", 2>>}
      PROVE  AtBottom(p, s, w, n, c)
  BY <1>0, <1>1 DEF AtBottom
<1>2. ASSUME InDispatcher(p, s, words, L, n, c) PROVE InDispatcher(p, s, w, L, n, c)
  <2>1. c.top >= L.top + 19
    BY <1>0, <1>2 DEF InDispatcher
  <2>2. Saved(w, L, 17)
    BY <1>0, <1>2, <2>1, SavedWords DEF InDispatcher
  <2>3. w[L.top + 18] = words[L.top + 18] /\ w[L.top + 19] = words[L.top + 19]
    BY <1>0, <2>1
  <2>. QED BY <1>2, <2>2, <2>3 DEF InDispatcher
<1>. QED BY <1>1, <1>2 DEF AtC

\* What is said of a place where a stack is left depends on the words below its
\* top only.
LEMMA PositionWords ==
    ASSUME NEW s, NEW words, NEW w, NEW L \in Contexts, NEW n \in Nat, NEW c \in Contexts,
           Rests(c.eip), Position(s, words, L, n, c), \A j \in 1 .. c.top : w[j] = words[j]
    PROVE  Position(s, w, L, n, c)
<1>1. CASE c.eip \in InC
  <2>1. AtC(c.eip, s, words, L, n, c)
    BY <1>1, OnC, Zenon
  <2>2. AtC(c.eip, s, w, L, n, c)
    BY <2>1, CWords, Zenon
  <2>. QED BY <1>1, <2>2, OnC, Zenon
<1>2. CASE \E i \in (1 .. 37) \ Fatal : c.eip = Tls(i)
  <2>1. PICK i \in (1 .. 37) \ Fatal : c.eip = Tls(i)
    BY <1>2
  <2>2. i \in 1 .. 37
    OBVIOUS
  <2>3. AtSwitch(i, s, words, L, n, c)
    BY <2>1, <2>2, OnSwitch, Zenon
  <2>4. AtSwitch(i, s, w, L, n, c)
    BY <2>3, SwitchWords, Zenon
  <2>. QED BY <2>1, <2>2, <2>4, OnSwitch, Zenon
<1>. QED BY <1>1, <1>2 DEF Rests, InC

\* The depth of a context is a number.
LEMMA TopType == \A c \in Contexts : c.top \in Nat
BY DEF Contexts

\* A place at which a stack may lose the processor is at most twenty words
\* above the context below it.
LEMMA PositionTop ==
    ASSUME NEW s, NEW words, NEW L \in Contexts, NEW n \in Nat, NEW c \in Contexts,
           Rests(c.eip), Position(s, words, L, n, c), n = 0 => L = Starts
    PROVE  /\ n = 0 => c.top <= 20
           /\ n # 0 => c.top \in L.top .. L.top + 20
<1>0. L.top \in Nat /\ c.top \in Nat /\ Starts.top = 3
  BY DEF Contexts, Starts
<1>1. CASE c.eip \in InC
  <2>1. AtC(c.eip, s, words, L, n, c)
    BY <1>1, OnC, Zenon
  <2>2. CASE AtBottom(c.eip, s, words, n, c) /\
             c.eip \in {<<"main", 1>>, <<"main", 2>>, <<"thread_start", 1>>, <<"function", 1>>,
                        <<"function", 2>>, <<"thread_shutdown", 1>>, <<"thread_shutdown", 2>>}
    BY <1>0, <2>2 DEF AtBottom
  <2>3. CASE InDispatcher(c.eip, s, words, L, n, c)
    BY <1>0, <2>3 DEF InDispatcher
  <2>4. c.eip # <<"abort", 1>>
    BY DEF Rests, Tls
  <2>. QED BY <2>1, <2>2, <2>3, <2>4 DEF AtC
<1>2. CASE \E i \in (1 .. 37) \ Fatal : c.eip = Tls(i)
  <2>1. PICK i \in (1 .. 37) \ Fatal : c.eip = Tls(i)
    BY <1>2
  <2>2. i \in 1 .. 37
    OBVIOUS
  <2>3. AtSwitch(i, s, words, L, n, c)
    BY <2>1, <2>2, OnSwitch, Zenon
  <2>4. CASE i \in {1, 28, 29, 30} /\ s = Main
    BY <1>0, <2>3, <2>4 DEF AtSwitch
  <2>5. CASE i \in 1 .. 20 /\ s # Main
    <3>1. Leaving(i, words, L, c) /\ n # 0
      BY <2>3, <2>5 DEF AtSwitch
    <3>2. i \in 1 .. 4 \/ i \in {10, 11} \/ i \in 12 .. 17
      BY <2>5 DEF Fatal
    <3>3. CASE i \in 1 .. 4
      BY <1>0, <2>5, <3>1, <3>3 DEF Leaving, Moving
    <3>4. CASE i \in {10, 11}
      BY <1>0, <2>5, <3>1, <3>4 DEF Leaving
    <3>5. CASE i \in 12 .. 17
      <4>1. i - 11 \in 1 .. 6 /\ c.top = L.top + SavedBy[i - 11]
        BY <3>1, <3>5 DEF Leaving, Saving
      <4>2. SavedBy[i - 11] \in 5 .. 17
        BY <4>1, Tables
      <4>. QED BY <1>0, <2>5, <4>1, <4>2
    <3>. QED BY <3>2, <3>3, <3>4, <3>5
  <2>6. CASE i \in 21 .. 27 \cup 31 .. 37
    <3> DEFINE j == IF i <= 27 THEN i - 20 ELSE i - 30
    <3>1. j \in 1 .. 7 /\ Loading(j, words, L, c)
      BY <2>3, <2>6 DEF AtSwitch
    <3> HIDE DEF j
    <3>2. LeftBy[j] \in 3 .. 17 /\ c.top = L.top + LeftBy[j]
      BY <3>1, Tables DEF Loading
    <3>. QED BY <1>0, <3>2
  <2>. QED BY <2>3, <2>4, <2>5, <2>6 DEF AtSwitch
<1>. QED BY <1>1, <1>2 DEF Rests, InC

\* The contexts of a stack whose words change above the last of them only.
LEMMA KeptWords ==
    ASSUME NEW s, NEW words, NEW w, NEW l \in Seq(Contexts), Kept(s, words, l),
           \A i \in Nat : i >= 1 /\ (\E k \in 1 .. Len(l) : i <= l[k].top) => w[i] = words[i]
    PROVE  Kept(s, w, l)
<1>1. SUFFICES ASSUME NEW k \in 1 .. Len(l)
               PROVE  Position(s, w, Context(l, k - 1), k - 1, l[k])
  BY Zenon DEF Kept
<1> DEFINE L == Context(l, k - 1)
<1>2. L \in Contexts /\ k - 1 \in Nat
  BY ContextType
<1>3. Rests(l[k].eip) /\ Position(s, words, L, k - 1, l[k]) /\ l[k] \in Contexts
  BY DEF Kept
<1>4. l[k].top \in Nat
  BY <1>3 DEF Contexts
<1>5. \A j \in 1 .. l[k].top : w[j] = words[j]
  BY <1>4
<1> HIDE DEF L
<1>6. Position(s, w, L, k - 1, l[k])
  BY <1>2, <1>3, <1>5, PositionWords, Zenon
<1>. QED BY <1>6 DEF L

\* The last context of a stack is resumed, and the others stay.
LEMMA KeptFront ==
    ASSUME NEW s, NEW words, NEW l \in Seq(Contexts), Kept(s, words, l), l # <<>>
    PROVE  /\ Front(l) \in Seq(Contexts) /\ Len(Front(l)) = Len(l) - 1
           /\ \A k \in 0 .. Len(l) - 1 : Context(Front(l), k) = Context(l, k)
           /\ Kept(s, words, Front(l))
<1> DEFINE f == Front(l)
<1>1. /\ Len(l) \in Nat \ {0} /\ f \in Seq(Contexts) /\ Len(f) = Len(l) - 1
      /\ \A k \in 1 .. Len(l) - 1 : f[k] = l[k]
  <2>1. Len(l) \in Nat \ {0}
    BY EmptySeq
  <2>2. /\ SubSeq(l, 1, Len(l) - 1) \in Seq(Contexts) /\ Len(SubSeq(l, 1, Len(l) - 1)) = Len(l) - 1
        /\ \A k \in 1 .. Len(l) - 1 : SubSeq(l, 1, Len(l) - 1)[k] = l[k]
    BY <2>1
  <2>. QED BY <2>1, <2>2, Zenon DEF Front
<1> HIDE DEF f
<1>2. \A k \in 0 .. Len(l) - 1 : Context(f, k) = Context(l, k)
  BY <1>1 DEF Context
<1>3. ASSUME NEW k \in 1 .. Len(f)
      PROVE  /\ Rests(f[k].eip) /\ Position(s, words, Context(f, k - 1), k - 1, f[k])
             /\ f[k].top <= 20 * k
             /\ \A j \in 1 .. k : f[j].top <= f[k].top
  <2>1. k \in 1 .. Len(l) /\ f[k] = l[k] /\ Context(f, k - 1) = Context(l, k - 1)
    BY <1>1, <1>2
  <2>2. \A j \in 1 .. k : f[j] = l[j]
    BY <1>1
  <2>. QED BY <2>1, <2>2, Zenon DEF Kept
<1>. QED BY <1>1, <1>2, <1>3, Zenon DEF Kept, f

\* The processor leaves the stack, and what it was like is one more context.
LEMMA KeptAppend ==
    ASSUME NEW s, NEW words, NEW l \in Seq(Contexts), NEW c \in Contexts, Kept(s, words, l),
           Rests(c.eip), Position(s, words, Context(l, Len(l)), Len(l), c)
    PROVE  /\ Append(l, c) \in Seq(Contexts) /\ Len(Append(l, c)) = Len(l) + 1
           /\ Context(Append(l, c), Len(l) + 1) = c
           /\ Kept(s, words, Append(l, c))
<1> DEFINE a == Append(l, c)
           n == Len(l)
           L == Context(l, n)
<1>1. /\ n \in Nat /\ a \in Seq(Contexts) /\ Len(a) = n + 1 /\ a[n + 1] = c
      /\ \A k \in 1 .. n : a[k] = l[k]
  OBVIOUS
<1>2. L \in Contexts /\ (n = 0 => L = Starts) /\ (n # 0 => L = l[n])
  BY <1>1, ContextType DEF Context
<1> HIDE DEF a
<1>3. \A k \in 0 .. n : Context(a, k) = Context(l, k)
  BY <1>1 DEF Context
<1> HIDE DEF n, L
<1>4. /\ n = 0 => c.top <= 20
      /\ n # 0 => c.top \in L.top .. L.top + 20
  <2>1. Position(s, words, L, n, c)
    BY Zenon DEF n, L
  <2>. QED BY <1>1, <1>2, <2>1, PositionTop
<1>5. \A k \in 1 .. n : l[k] \in Contexts /\ l[k].top \in Nat /\ l[k].top <= 20 * k
  <2>1. \A k \in 1 .. n : l[k] \in Contexts
    BY <1>1 DEF n
  <2>. QED BY <2>1, TopType DEF Kept, n
<1>6. \A j \in 1 .. n : l[j].top <= l[n].top
  BY <1>1 DEF Kept, n
<1>7. c.top \in Nat /\ L.top \in Nat
  BY <1>2, TopType
<1>8. c.top <= 20 * (n + 1) /\ \A j \in 1 .. n : l[j].top <= c.top
  <2>1. CASE n = 0
    BY <1>4, <2>1
  <2>2. CASE n # 0
    <3>1. L.top <= 20 * n /\ \A j \in 1 .. n : l[j].top <= L.top
      BY <1>1, <1>2, <1>5, <1>6, <2>2
    <3>. QED BY <1>1, <1>4, <1>5, <1>7, <2>2, <3>1
  <2>. QED BY <2>1, <2>2
<1>9. ASSUME NEW k \in 1 .. n + 1
      PROVE  /\ Rests(a[k].eip) /\ Position(s, words, Context(a, k - 1), k - 1, a[k])
             /\ a[k].top <= 20 * k
             /\ \A j \in 1 .. k : a[j].top <= a[k].top
  <2>1. CASE k <= n
    <3>1. /\ k \in 1 .. Len(l) /\ a[k] = l[k] /\ Context(a, k - 1) = Context(l, k - 1)
          /\ \A j \in 1 .. k : a[j] = l[j]
      BY <1>1, <1>3, <2>1 DEF n
    <3>. QED BY <3>1, Zenon DEF Kept
  <2>2. CASE k = n + 1
    <3>1. a[k] = c /\ k - 1 = n /\ Context(a, k - 1) = L
      BY <1>1, <1>3, <2>2 DEF L
    <3>2. \A j \in 1 .. k : a[j].top <= c.top
      <4>1. ASSUME NEW j \in 1 .. k PROVE a[j].top <= c.top
        <5>1. CASE j \in 1 .. n
          BY <1>1, <1>8, <5>1
        <5>2. CASE j = k
          BY <1>7, <3>1, <5>2
        <5>. QED BY <1>1, <2>2, <5>1, <5>2
      <4>. QED BY <4>1
    <3>3. a[k].top <= 20 * k
      BY <1>8, <2>2, <3>1
    <3>4. Position(s, words, L, n, c)
      BY Zenon DEF L, n
    <3>. QED BY <3>1, <3>2, <3>3, <3>4
  <2>. QED BY <2>1, <2>2, <1>1
<1>10. Context(a, n + 1) = c
  BY <1>1 DEF Context
<1>11. Kept(s, words, a)
  BY <1>1, <1>9, Zenon DEF Kept
<1>. QED BY <1>1, <1>10, <1>11 DEF a, n

-----------------------------------------------------------------------------
(* Steps that stay on their stack.                                          *)
This == mem[esp.stack]
Base == Context(left[esp.stack], Len(left[esp.stack]))
Size == Len(left[esp.stack])

\* What the invariant says of the stack that has the processor.
LEMMA Here ==
    ASSUME IInv
    PROVE  /\ esp.stack \in Stacks /\ esp.top \in Nat /\ esp = [stack |-> esp.stack, top |-> esp.top]
           /\ This \in Seq(Words) /\ left[esp.stack] \in Seq(Contexts) /\ Size \in Nat
           /\ Base \in Contexts /\ Base.top \in Nat /\ Now \in Contexts
           /\ Now.reg = reg /\ Now.ints = ints /\ Now.eip = eip /\ Now.top = esp.top
           /\ esp.top <= Len(This) /\ (eip \in InC => esp.top = Len(This))
           /\ (Size = 0 => Base = Starts) /\ (Size # 0 => Base = left[esp.stack][Size])
           /\ Kept(esp.stack, This, left[esp.stack])
           /\ \/ Position(esp.stack, This, Base, Size, Now)
              \/ AtStub(This, Base, Size, Now, raised)
           /\ Told(This, Base, eip, raised)
<1>1. Typed /\ StacksSound /\ PlacedSound
  BY DEF IInv
<1>2. esp.stack \in Stacks /\ esp.top \in Nat /\ esp = [stack |-> esp.stack, top |-> esp.top]
  BY <1>1 DEF Typed, Pointers
<1>3. This \in Seq(Words) /\ left[esp.stack] \in Seq(Contexts)
  BY <1>1, <1>2 DEF Typed, This
<1>4. Size \in Nat
  BY <1>3 DEF Size
<1>5. Base \in Contexts /\ (Size = 0 => Base = Starts) /\ (Size # 0 => Base = left[esp.stack][Size])
  BY <1>3, <1>4, ContextType DEF Base, Size, Context
<1>6. Base.top \in Nat
  BY <1>5, TopType
<1>7. /\ Now \in Contexts /\ Now.reg = reg /\ Now.ints = ints /\ Now.eip = eip /\ Now.top = esp.top
  BY <1>1, <1>2 DEF Typed, Now, Snapshot, Contexts
<1>8. Kept(esp.stack, This, left[esp.stack])
  BY <1>1, <1>2, Zenon DEF StacksSound, This
<1>9. Placed(esp.stack, This, left[esp.stack], Now, raised)
  BY <1>1, Zenon DEF PlacedSound, This
<1>10. /\ \/ Position(esp.stack, This, Base, Size, Now)
          \/ AtStub(This, Base, Size, Now, raised)
       /\ Told(This, Base, Now.eip, raised)
       /\ Now.top <= Len(This) /\ (Now.eip \in InC => Now.top = Len(This))
  BY <1>9, Zenon DEF Placed, Base, Size
<1>. QED BY <1>2, <1>3, <1>4, <1>5, <1>6, <1>7, <1>8, <1>10

\* The step writes w to the stack that has the processor, and nothing else but
\* the processor changes.
Stays(w) ==
    /\ w \in Seq(Words) /\ mem' = [mem EXCEPT ![esp.stack] = w]
    /\ Now' \in Contexts /\ esp' = [stack |-> esp.stack, top |-> Now'.top] /\ Now'.top <= Len(w)
    /\ UNCHANGED <<kernel, tcb, current_thread, left>>

\* The words of the contexts on the stack stay.
Spares(w) == Size # 0 => \A i \in 1 .. Base.top : w[i] = This[i]

\* A step that spares the words of the contexts leaves them whole.
LEMMA SparesKept ==
    ASSUME IInv, NEW w, Spares(w)
    PROVE  Kept(esp.stack, w, left[esp.stack])
<1> DEFINE l == left[esp.stack]
<1>1. /\ l \in Seq(Contexts) /\ Size \in Nat /\ Kept(esp.stack, This, l)
      /\ (Size # 0 => Base = l[Size]) /\ Base.top \in Nat
  BY Here
<1>2. ASSUME NEW i \in Nat, i >= 1, NEW k \in 1 .. Len(l), i <= l[k].top
      PROVE  w[i] = This[i]
  <2>1. Size # 0 /\ Len(l) = Size /\ Size \in 1 .. Len(l)
    BY <1>1 DEF Size
  <2>2. l[k].top <= l[Size].top
    BY <1>1, <2>1 DEF Kept
  <2>3. l[k].top \in Nat
    BY <1>1, TopType
  <2>. QED BY <1>1, <1>2, <2>1, <2>2, <2>3 DEF Spares
<1> HIDE DEF l
<1>3. Kept(esp.stack, w, l)
  BY <1>1, <1>2, KeptWords
<1>. QED BY <1>3 DEF l

\* A step that stays on its stack keeps the invariant when what it leaves
\* there, the words w and the contexts l, is sound.
Steps(w, l) ==
    /\ w \in Seq(Words) /\ l \in Seq(Contexts)
    /\ mem' = [mem EXCEPT ![esp.stack] = w] /\ left' = [left EXCEPT ![esp.stack] = l]
    /\ Now' \in Contexts /\ esp' = [stack |-> esp.stack, top |-> Now'.top]
    /\ UNCHANGED <<kernel, tcb, current_thread>>
    /\ raised' \in Nat \X Words

\* A step that stays on its stack keeps IInv if it leaves the stack's contexts,
\* and the processor, sound.
LEMMA StepKeeps ==
    ASSUME IInv, NEW w, NEW l, Steps(w, l),
           eip \notin {Tls(20), Tls(30)}, eip' \notin {Tls(18), Tls(19), Tls(20), Tls(30)},
           Kept(esp.stack, w, l), Placed(esp.stack, w, l, Now', raised')
    PROVE  IInv'
<1>1. esp.stack \in Stacks
  BY Here
<1>2. Typed /\ StacksSound /\ ParkedSound /\ CurrentSound
  BY DEF IInv
<1>3. Now'.reg = reg' /\ Now'.ints = ints' /\ Now'.eip = eip' /\ Now'.top = esp'.top
  BY DEF Now, Snapshot
<1>4. esp'.stack = esp.stack /\ tcb' = tcb /\ current_thread' = current_thread
  BY DEF Steps
<1>5. /\ mem'[esp.stack] = w /\ \A t \in Stacks : t # esp.stack => mem'[t] = mem[t]
      /\ left'[esp.stack] = l /\ \A t \in Stacks : t # esp.stack => left'[t] = left[t]
  BY <1>1, <1>2 DEF Steps, Typed
<1>6. Typed'
  <2>1. /\ reg' \in [Registers -> Words] /\ eip' \in Words /\ ints' \in BOOLEAN /\ esp'.top \in Nat
    BY <1>3 DEF Steps, Contexts
  <2>2. esp' \in Pointers
    BY <1>1, <1>3, <2>1 DEF Steps, Pointers
  <2>3. mem' \in [Stacks -> Seq(Words)] /\ left' \in [Stacks -> Seq(Contexts)]
    BY <1>1, <1>2 DEF Steps, Typed
  <2>. QED BY <1>2, <2>1, <2>2, <2>3, Zenon DEF Steps, Typed
<1>7. StacksSound'
  BY <1>1, <1>2, <1>5, Zenon DEF StacksSound
<1>8. ParkedSound'
  <2>1. ASSUME NEW t \in Threads, t # esp.stack PROVE Parked(t, mem'[t], left'[t], tcb[t])
    <3>1. t \in Stacks
      BY DEF Stacks
    <3>. QED BY <1>2, <1>5, <2>1, <3>1, Zenon DEF ParkedSound
  <2>. QED BY <1>4, <2>1, Zenon DEF ParkedSound
<1>9. PlacedSound'
  BY <1>4, <1>5, Zenon DEF PlacedSound
<1>10. CurrentSound'
  BY <1>2, <1>4, Zenon DEF CurrentSound
<1>. QED BY <1>6, <1>7, <1>8, <1>9, <1>10, Zenon DEF IInv

\* The contexts stay.
LEMMA StaysKeeps ==
    ASSUME IInv, NEW w, Stays(w), Spares(w), raised' \in Nat \X Words,
           eip \notin {Tls(20), Tls(30)}, eip' \notin {Tls(18), Tls(19), Tls(20), Tls(30)},
           \/ Position(esp.stack, w, Base, Size, Now')
           \/ AtStub(w, Base, Size, Now', raised'),
           Told(w, Base, eip', raised'), eip' \in InC => esp'.top = Len(w)
    PROVE  IInv'
<1> DEFINE l == left[esp.stack]
<1>1. l \in Seq(Contexts) /\ Kept(esp.stack, w, l)
  BY Here, SparesKept
<1>2. left' = [left EXCEPT ![esp.stack] = l]
  BY DEF Stays, IInv, Typed
<1>3. Steps(w, l)
  BY <1>1, <1>2, Zenon DEF Stays, Steps
<1>4. Placed(esp.stack, w, l, Now', raised')
  <2>1. Now'.eip = eip' /\ Now'.top = esp'.top
    BY DEF Now, Snapshot
  <2>. QED BY <2>1 DEF Stays, Placed, Base, Size
<1>. QED BY <1>1, <1>3, <1>4, StepKeeps, Zenon

\* The same for an instruction of the switch and of the common stubs.
LEMMA StaysOnSwitch ==
    ASSUME IInv, NEW w, Stays(w), Spares(w), raised' \in Nat \X Words,
           eip \notin {Tls(20), Tls(30)},
           NEW i \in (1 .. 37) \ {18, 19, 20, 30}, eip' = Tls(i),
           AtSwitch(i, esp.stack, w, Base, Size, Now')
    PROVE  IInv'
<1>1. /\ eip' \notin {Tls(18), Tls(19), Tls(20), Tls(30)} /\ eip' \notin InC
      /\ eip' # <<"dispatch", 1>>
  BY DEF Tls, InC
<1>2. Position(esp.stack, w, Base, Size, Now')
  <2>1. Now'.eip = Tls(i) /\ i \in 1 .. 37
    BY DEF Now, Snapshot
  <2>. QED BY <2>1, OnSwitch, Zenon
<1>3. Told(w, Base, eip', raised')
  <2>1. \A l \in Labels, k \in 1 .. 8 : eip' # <<l, k>>
    BY DEF Tls, Labels
  <2>. QED BY <1>1, <2>1, Zenon DEF Told
<1>. QED BY <1>1, <1>2, <1>3, StaysKeeps, Zenon

\* The same for a step that leads to an instruction of a common stub.
LEMMA StaysInCommon ==
    ASSUME IInv, NEW w, Stays(w), Spares(w), raised' \in Nat \X Words,
           eip \notin {Tls(20), Tls(30)},
           NEW l \in Labels, NEW k \in 1 .. 16, eip' = <<l, k>>,
           k <= 8 => w[Base.top + 4] = raised'[2] /\ w[Base.top + 5] = <<"number", raised'[1]>>,
           AtCommon(k, esp.stack, w, Base, Size, Now')
    PROVE  IInv'
<1>1. eip' \notin {Tls(18), Tls(19), Tls(20), Tls(30)} /\ eip' \notin InC /\ eip' # <<"dispatch", 1>>
  BY DEF Tls, InC, Labels
<1>2. Position(esp.stack, w, Base, Size, Now')
  <2>1. Now'.eip = <<l, k>>
    BY DEF Now, Snapshot
  <2>. QED BY <2>1, OnCommon, Zenon
<1>3. Told(w, Base, eip', raised')
  <2>1. ASSUME NEW m \in Labels, NEW j \in 1 .. 8, eip' = <<m, j>> PROVE k <= 8
    <3>1. k = j
      BY <2>1
    <3>. QED BY <3>1
  <2>. QED BY <1>1, <2>1, Zenon DEF Told
<1>. QED BY <1>1, <1>2, <1>3, StaysKeeps, Zenon

-----------------------------------------------------------------------------
(* The instruction at an address, and the action that executes it.          *)
LEMMA CodeIs ==
    /\ DOMAIN code = {"threads_low_switch_to", "irq", "irq_common_stub", "isr", "isr_common_stub"}
    /\ code["threads_low_switch_to"] = threads_low_switch_to
    /\ code["irq"] = irq_stubs /\ code["isr"] = isr_stubs
    /\ \A l \in Labels : l \in DOMAIN code /\ code[l] = common_stub
BY DEF code, Labels

\* The instruction at an address of the switch.
LEMMA AtTls == ASSUME NEW i, eip = Tls(i) PROVE It = threads_low_switch_to[i] /\ Next1 = Tls(i + 1)
BY CodeIs DEF Tls, It, Next1

\* The instruction at an address of a common stub.
LEMMA AtLabel ==
    ASSUME NEW l \in Labels, NEW k, eip = <<l, k>>
    PROVE  It = common_stub[k] /\ Next1 = <<l, k + 1>>
BY CodeIs DEF It, Next1

\* The instructions of the switch, by address.
LEMMA SwitchCode ==
    LET s == threads_low_switch_to
    IN  /\ s[1] = Op("je") /\ s[2] = Push("eax") /\ s[3] = Load("eax", 1)
        /\ s[4] = Store(-1, "eax") /\ s[5] = Add(2) /\ s[6] = Op("pushfd")
        /\ s[7] = Load("eax", -1) /\ s[8] = Push("cs") /\ s[9] = Add(-1)
        /\ s[10] = PushByte(0) /\ s[11] = PushByte(0)
        /\ s[12] = Op("pushad") /\ s[13] = Push("ds") /\ s[14] = Push("es")
        /\ s[15] = Push("fs") /\ s[16] = Push("gs") /\ s[17] = Op("save_esp")
        /\ s[18] = Load("eax", 17) /\ s[19] = Op("make_current") /\ s[20] = Op("load_esp")
        /\ \A j \in 1 .. 6 : s[j + 20] = restore_registers[j] /\ s[j + 30] = restore_registers[j]
        /\ s[27] = Op("iret") /\ s[28] = Load("eax", 1)
        /\ s[29] = Op("make_current") /\ s[30] = Op("load_esp") /\ s[37] = Op("iret")
<1> DEFINE s == threads_low_switch_to
           f == frame_for_iret
           v == save_registers
<1>1. /\ s[2] = f[1] /\ s[3] = f[2] /\ s[4] = f[3] /\ s[5] = f[4] /\ s[6] = f[5]
      /\ s[7] = f[6] /\ s[8] = f[7] /\ s[9] = f[8] /\ s[10] = f[9] /\ s[11] = f[10]
  <2>1. \A j \in 1 .. 10 : s[j + 1] = f[j]
    BY SwitchText, Zenon
  <2> HIDE DEF s, f
  <2>. QED BY <2>1
<1>2. /\ s[12] = v[1] /\ s[13] = v[2] /\ s[14] = v[3] /\ s[15] = v[4] /\ s[16] = v[5]
  <2>1. \A j \in 1 .. 5 : s[j + 11] = v[j]
    BY SwitchText, Zenon
  <2> HIDE DEF s, v
  <2>. QED BY <2>1
<1>3. s[18] = Load("eax", 17)
  BY SwitchText, Zenon DEF INTERRUPT_STATE_SIZE
<1>. QED BY <1>1, <1>2, <1>3, SwitchText, FrameText, SaveText, Zenon

\* The instructions of the common stubs.
LEMMA StubCode ==
    LET s == common_stub
    IN  /\ s[1] = Op("pushad") /\ s[2] = Push("ds") /\ s[3] = Push("es")
        /\ s[4] = Push("fs") /\ s[5] = Push("gs")
        /\ s[6] = Op("kernel_segments") /\ s[7] = Push("esp") /\ s[8] = Op("call")
        /\ s[9] = Pop("eax") /\ s[16] = Op("iret")
        /\ \A j \in 1 .. 6 : s[j + 9] = restore_registers[j]
<1> DEFINE s == common_stub
           v == save_registers
<1>1. /\ s[1] = v[1] /\ s[2] = v[2] /\ s[3] = v[3] /\ s[4] = v[4] /\ s[5] = v[5]
  <2>1. \A j \in 1 .. 5 : s[j] = v[j]
    BY StubText, Zenon
  <2> HIDE DEF s, v
  <2>. QED BY <2>1
<1>. QED BY <1>1, StubText, SaveText, Zenon

\* An instruction is executed by the action of its name.
LEMMA OpStep ==
    ASSUME Step
    PROVE  /\ eip[1] \in DOMAIN code
           /\ It.op = "push" => push
           /\ It.op = "pop" => pop
           /\ It.op = "pushad" => pushad
           /\ It.op = "popad" => popad
           /\ It.op = "pushfd" => pushfd
           /\ It.op \in {"load", "store", "add"} => move
           /\ It.op = "cli" => cli
           /\ It.op = "kernel_segments" => kernel_segments
           /\ It.op \in {"jmp", "nop"} => jmp
           /\ It.op = "je" => je
           /\ It.op = "save_esp" => save_esp
           /\ It.op = "make_current" => make_current
           /\ It.op = "load_esp" => load_esp
           /\ It.op = "call" => call
           /\ It.op = "iret" => iret
<1>1. /\ push => eip[1] \in DOMAIN code /\ It.op = "push"
      /\ pop => eip[1] \in DOMAIN code /\ It.op = "pop"
      /\ pushad => eip[1] \in DOMAIN code /\ It.op = "pushad"
      /\ popad => eip[1] \in DOMAIN code /\ It.op = "popad"
  BY Zenon DEF push, pop, pushad, popad, Executes, It
<1>2. /\ pushfd => eip[1] \in DOMAIN code /\ It.op = "pushfd"
      /\ move => eip[1] \in DOMAIN code /\ It.op \in {"load", "store", "add"}
      /\ cli => eip[1] \in DOMAIN code /\ It.op = "cli"
      /\ kernel_segments => eip[1] \in DOMAIN code /\ It.op = "kernel_segments"
  BY Zenon DEF pushfd, move, cli, kernel_segments, Executes, It
<1>3. /\ jmp => eip[1] \in DOMAIN code /\ It.op \in {"jmp", "nop"}
      /\ je => eip[1] \in DOMAIN code /\ It.op = "je"
      /\ save_esp => eip[1] \in DOMAIN code /\ It.op = "save_esp"
      /\ make_current => eip[1] \in DOMAIN code /\ It.op = "make_current"
  BY Zenon DEF jmp, je, save_esp, make_current, Executes, It
<1>4. /\ load_esp => eip[1] \in DOMAIN code /\ It.op = "load_esp"
      /\ call => eip[1] \in DOMAIN code /\ It.op = "call"
      /\ iret => eip[1] \in DOMAIN code /\ It.op = "iret"
  BY Zenon DEF load_esp, call, iret, Executes, It
<1>. QED BY <1>1, <1>2, <1>3, <1>4 DEF Step

\* The operands of the instruction that is executed.
LEMMA PushStep == ASSUME Step, NEW r, It = Push(r) PROVE push /\ It.r = r
<1>1. It.op = "push" /\ It.r = r
  BY DEF Push
<1>. QED BY <1>1, OpStep, Zenon

\* A constant is pushed by the same action.
LEMMA PushByteStep == ASSUME Step, NEW n, It = PushByte(n) PROVE push /\ It.r = "" /\ It.n = n
<1>1. It.op = "push" /\ It.r = "" /\ It.n = n
  BY DEF PushByte
<1>. QED BY <1>1, OpStep, Zenon

\* What executes a pop.
LEMMA PopStep == ASSUME Step, NEW r, It = Pop(r) PROVE pop /\ It.r = r
<1>1. It.op = "pop" /\ It.r = r
  BY DEF Pop
<1>. QED BY <1>1, OpStep, Zenon

\* What executes a load from the stack.
LEMMA LoadStep ==
    ASSUME Step, NEW r, NEW n, It = Load(r, n)
    PROVE  move /\ It.op = "load" /\ It.r = r /\ It.n = n
<1>1. It.op = "load" /\ It.r = r /\ It.n = n
  BY DEF Load
<1>2. It.op \in {"load", "store", "add"}
  BY <1>1
<1>. QED BY <1>1, <1>2, OpStep, Zenon

\* What executes a store to the stack.
LEMMA StoreStep ==
    ASSUME Step, NEW r, NEW n, It = Store(n, r)
    PROVE  move /\ It.op = "store" /\ It.r = r /\ It.n = n
<1>1. It.op = "store" /\ It.r = r /\ It.n = n
  BY DEF Store
<1>2. It.op \in {"load", "store", "add"}
  BY <1>1
<1>. QED BY <1>1, <1>2, OpStep, Zenon

\* What executes an addition to esp.
LEMMA AddStep ==
    ASSUME Step, NEW n, It = Add(n)
    PROVE  move /\ It.op = "add" /\ It.n = n
<1>1. It.op = "add" /\ It.n = n
  BY DEF Add
<1>2. It.op \in {"load", "store", "add"}
  BY <1>1
<1>. QED BY <1>1, <1>2, OpStep, Zenon

\* What executes a jump.
LEMMA JmpStep == ASSUME Step, NEW l, It = Jmp(l) PROVE jmp /\ It.op = "jmp" /\ It.r = l
<1>1. It.op = "jmp" /\ It.r = l
  BY DEF Jmp
<1>2. It.op \in {"jmp", "nop"}
  BY <1>1
<1>. QED BY <1>1, <1>2, OpStep, Zenon

\* What executes the instructions that have no operand.
LEMMA OpSteps ==
    ASSUME Step, NEW o, It = Op(o)
    PROVE  /\ o = "pushad" => pushad
           /\ o = "popad" => popad
           /\ o = "pushfd" => pushfd
           /\ o = "cli" => cli
           /\ o = "kernel_segments" => kernel_segments
           /\ o = "nop" => jmp /\ It.op = "nop"
           /\ o = "je" => je
           /\ o = "save_esp" => save_esp
           /\ o = "make_current" => make_current
           /\ o = "load_esp" => load_esp
           /\ o = "call" => call
           /\ o = "iret" => iret
<1>1. It.op = o
  BY DEF Op
<1>2. o = "nop" => It.op \in {"jmp", "nop"}
  BY <1>1
<1>. QED BY <1>1, <1>2, OpStep, Zenon

-----------------------------------------------------------------------------
(* What the instructions do.                                                *)
LEMMA Next1Type == ASSUME IInv PROVE Next1 \in Words
BY DEF Next1, IInv, Typed, Words

\* The processor's context, component by component.
LEMMA NowIs == Now.reg = reg /\ Now.ints = ints /\ Now.eip = eip /\ Now.top = esp.top
BY DEF Now, Snapshot

\* And after the step.
LEMMA NowBecomes == Now'.reg = reg' /\ Now'.ints = ints' /\ Now'.eip = eip' /\ Now'.top = esp'.top
BY DEF Now, Snapshot

\* A step of the processor that leaves w on its stack and its top at top.
Runs(w, top) == /\ Stays(w) /\ Now'.top = top /\ esp'.top = top /\ raised' = raised
                /\ raised' \in Nat \X Words

\* What a context is made of.
LEMMA ContextMade ==
    ASSUME NEW r \in [Registers -> Words], NEW i \in BOOLEAN, NEW p \in Words, NEW n \in Nat
    PROVE  [reg |-> r, ints |-> i, eip |-> p, top |-> n] \in Contexts
BY DEF Contexts

\* A step that writes to its own stack and moves esp there runs.
LEMMA RunsIf ==
    ASSUME IInv, NEW w \in Seq(Words), NEW top \in 0 .. Len(w),
           mem' = [mem EXCEPT ![esp.stack] = w], esp' = [esp EXCEPT !.top = top],
           reg' \in [Registers -> Words], ints' \in BOOLEAN, eip' \in Words,
           UNCHANGED <<tcb, current_thread, left, raised>>, Same
    PROVE  Runs(w, top)
<1>1. esp \in Pointers /\ raised \in Nat \X Words
  BY DEF IInv, Typed
<1>2. esp' = [stack |-> esp.stack, top |-> top] /\ esp'.top = top
  BY <1>1 DEF Pointers
<1>3. Now'.top = top /\ Now' \in Contexts
  <2>1. top \in Nat
    OBVIOUS
  <2>2. Now' = [reg |-> reg', ints |-> ints', eip |-> eip', top |-> top]
    BY <1>2, Zenon DEF Now, Snapshot
  <2>3. Now' \in Contexts
    BY <2>1, <2>2, ContextMade, Zenon
  <2>. QED BY <1>2, <2>3, NowBecomes
<1>4. esp' = [stack |-> esp.stack, top |-> Now'.top] /\ Now'.top <= Len(w)
  <2>1. top <= Len(w)
    OBVIOUS
  <2>. QED BY <1>2, <1>3, <2>1, Zenon
<1>5. Stays(w)
  BY <1>3, <1>4, Zenon DEF Stays, Same
<1>. QED BY <1>1, <1>2, <1>3, <1>5, Zenon DEF Runs

\* The words up to the top stay, and those of the contexts below with them.
Agrees(w, n) == \A j \in 1 .. n : w[j] = This[j]

\* Only the ith word changes.
Only(w, i) == Len(w) >= Len(This) /\ \A j \in 1 .. Len(This) : j # i => w[j] = This[j]

\* What a push stores is a word.
LEMMA WordType ==
    ASSUME IInv, NEW r, r \in Registers \cup {"cs", "esp"}
    PROVE  Word(r) \in Words
<1>1. reg \in [Registers -> Words] /\ esp \in Pointers
  BY DEF IInv, Typed
<1>2. At(esp) \in Words
  <2>1. esp.stack * Deepest + esp.top \in Nat
    <3>1. esp.stack \in Nat /\ esp.top \in Nat /\ Deepest \in Nat
      BY <1>1, ThreadsAssumption, BoundsAssumption DEF Pointers, Stacks, Threads, Main
    <3>. QED BY <3>1
  <2>. QED BY <2>1 DEF At, Words, Kinds
<1>3. r # ""
  BY RegistersAre
<1>4. CASE r = "cs"
  BY <1>4, WordTypes DEF Word
<1>5. CASE r = "esp"
  BY <1>2, <1>5 DEF Word
<1>6. CASE r \in Registers
  <2>1. r # "cs" /\ r # "esp" /\ r # ""
    BY <1>6, RegistersAre
  <2>. QED BY <1>1, <1>6, <2>1 DEF Word
<1>. QED BY <1>4, <1>5, <1>6

\* A push writes one word above those that were there.
LEMMA PushDoes ==
    ASSUME IInv, push, Word(It.r) \in Words
    PROVE  \E w : /\ Runs(w, esp.top + 1) /\ Agrees(w, esp.top) /\ w[esp.top + 1] = Word(It.r)
                  /\ Only(w, esp.top + 1) /\ eip' = Next1 /\ reg' = reg /\ ints' = ints
<1> DEFINE w == Write(This, esp.top + 1, Word(It.r))
<1>1. esp.top \in Nat /\ This \in Seq(Words) /\ esp.top <= Len(This)
  BY Here
<1>2. /\ w \in Seq(Words) /\ w[esp.top + 1] = Word(It.r) /\ Len(w) >= esp.top + 1
      /\ Len(w) >= Len(This) /\ \A j \in 1 .. Len(This) : j # esp.top + 1 => w[j] = This[j]
  <2>1. esp.top + 1 \in 1 .. Len(This) + 1
    BY <1>1
  <2>. QED BY <1>1, <2>1, WriteDoes, Zenon
<1>3. mem' = [mem EXCEPT ![esp.stack] = w]
  BY Zenon DEF push, This
<1> HIDE DEF w
<1>4. esp' = [esp EXCEPT !.top = esp.top + 1] /\ eip' = Next1
  BY DEF push, Down
<1>5. /\ reg' \in [Registers -> Words] /\ ints' \in BOOLEAN /\ eip' \in Words /\ reg' = reg /\ ints' = ints
      /\ UNCHANGED <<tcb, current_thread, left, raised>> /\ Same
  BY <1>4, Next1Type DEF push, IInv, Typed
<1>6. Runs(w, esp.top + 1)
  <2>1. esp.top + 1 \in 0 .. Len(w)
    BY <1>1, <1>2
  <2>. QED BY <1>2, <1>3, <1>4, <1>5, <2>1, RunsIf
<1>7. Agrees(w, esp.top) /\ Only(w, esp.top + 1)
  BY <1>1, <1>2 DEF Agrees, Only
<1>. QED BY <1>2, <1>4, <1>5, <1>6, <1>7

\* A pop takes one word off and gives it to the register.
LEMMA PopDoes ==
    ASSUME IInv, pop, It.r \in Registers, esp.top >= 1
    PROVE  /\ Runs(This, esp.top - 1) /\ eip' = Next1 /\ ints' = ints
           /\ reg' = [reg EXCEPT ![It.r] = This[esp.top]]
<1>1. esp.top \in Nat /\ This \in Seq(Words) /\ esp.top <= Len(This) /\ esp.stack \in Stacks
  BY Here
<1>2. Below(0) = This[esp.top] /\ This[esp.top] \in Words
  BY <1>1 DEF Below, This
<1>3. reg' = [reg EXCEPT ![It.r] = This[esp.top]]
  BY <1>2 DEF pop
<1>4. reg' \in [Registers -> Words]
  BY <1>2, <1>3 DEF IInv, Typed
<1>5. mem' = [mem EXCEPT ![esp.stack] = This] /\ mem' = mem
  BY <1>1 DEF pop, This, IInv, Typed
<1>6. esp' = [esp EXCEPT !.top = esp.top - 1] /\ eip' = Next1 /\ ints' = ints
  BY <1>1 DEF pop, Down, IInv, Typed, Pointers
<1>7. /\ ints' \in BOOLEAN /\ eip' \in Words
      /\ UNCHANGED <<tcb, current_thread, left, raised>> /\ Same
  BY <1>6, Next1Type DEF pop, IInv, Typed
<1>8. esp.top - 1 \in 0 .. Len(This)
  BY <1>1
<1>. QED BY <1>1, <1>3, <1>4, <1>5, <1>6, <1>7, <1>8, RunsIf

\* An instruction that leaves the stack and its pointer alone.
LEMMA QuietDoes ==
    ASSUME IInv, mem' = mem, esp' = esp,
           reg' \in [Registers -> Words], ints' \in BOOLEAN, eip' \in Words,
           UNCHANGED <<tcb, current_thread, left, raised>>, Same
    PROVE  Runs(This, esp.top)
<1>1. esp.top \in 0 .. Len(This) /\ This \in Seq(Words) /\ esp.stack \in Stacks
  BY Here
<1>2. mem' = [mem EXCEPT ![esp.stack] = This]
  BY <1>1 DEF This, IInv, Typed
<1>3. esp' = [esp EXCEPT !.top = esp.top]
  BY DEF IInv, Typed, Pointers
<1>. QED BY <1>1, <1>2, <1>3, RunsIf

\* The flags are pushed.
LEMMA PushfdDoes ==
    ASSUME IInv, pushfd
    PROVE  \E w : /\ Runs(w, esp.top + 1) /\ Agrees(w, esp.top) /\ w[esp.top + 1] = Flags(ints)
                  /\ Only(w, esp.top + 1) /\ eip' = Next1 /\ reg' = reg /\ ints' = ints
<1> DEFINE w == Write(This, esp.top + 1, Flags(ints))
<1>1. esp.top \in Nat /\ This \in Seq(Words) /\ esp.top <= Len(This)
  BY Here
<1>2. /\ w \in Seq(Words) /\ w[esp.top + 1] = Flags(ints) /\ Len(w) >= esp.top + 1
      /\ Len(w) >= Len(This) /\ \A j \in 1 .. Len(This) : j # esp.top + 1 => w[j] = This[j]
  <2>1. esp.top + 1 \in 1 .. Len(This) + 1
    BY <1>1
  <2>2. Flags(ints) \in Words
    BY FlagsDiffer DEF IInv, Typed
  <2>. QED BY <1>1, <2>1, <2>2, WriteDoes, Zenon
<1>3. mem' = [mem EXCEPT ![esp.stack] = w]
  BY Zenon DEF pushfd, This
<1> HIDE DEF w
<1>4. esp' = [esp EXCEPT !.top = esp.top + 1] /\ eip' = Next1
  BY DEF pushfd, Down
<1>5. /\ reg' \in [Registers -> Words] /\ ints' \in BOOLEAN /\ eip' \in Words /\ reg' = reg /\ ints' = ints
      /\ UNCHANGED <<tcb, current_thread, left, raised>> /\ Same
  BY <1>4, Next1Type DEF pushfd, IInv, Typed
<1>6. Runs(w, esp.top + 1)
  <2>1. esp.top + 1 \in 0 .. Len(w)
    BY <1>1, <1>2
  <2>. QED BY <1>2, <1>3, <1>4, <1>5, <2>1, RunsIf
<1>7. Agrees(w, esp.top) /\ Only(w, esp.top + 1)
  BY <1>1, <1>2 DEF Agrees, Only
<1>. QED BY <1>2, <1>4, <1>5, <1>6, <1>7

\* The eight registers, the first of them at word n + 1; esp is not told apart.
Pushed8(w, n, f) ==
    /\ w[n + 1] = f["eax"] /\ w[n + 2] = f["ecx"] /\ w[n + 3] = f["edx"] /\ w[n + 4] = f["ebx"]
    /\ w[n + 6] = f["ebp"] /\ w[n + 7] = f["esi"] /\ w[n + 8] = f["edi"]

\* Eight words are pushed, the general registers among them.
LEMMA PushadDoes ==
    ASSUME IInv, pushad
    PROVE  \E w : /\ Runs(w, esp.top + 8) /\ Agrees(w, esp.top) /\ Pushed8(w, esp.top, reg)
                  /\ eip' = Next1 /\ reg' = reg /\ ints' = ints
<1> DEFINE e == [i \in 1 .. Len(General) |-> Word(General[i])]
           w == Writes(This, esp.top + 1, e)
<1>1. esp.top \in Nat /\ This \in Seq(Words) /\ esp.top <= Len(This)
  BY Here
<1>2. Len(General) = 8 /\ \A i \in 1 .. 8 : General[i] \in Registers \cup {"cs", "esp"}
  BY RegistersAre DEF General
<1>3. e \in Seq(Words) /\ Len(e) = 8 /\ \A i \in 1 .. 8 : e[i] = Word(General[i])
  <2>1. \A i \in 1 .. 8 : Word(General[i]) \in Words
    BY <1>2, WordType
  <2>. QED BY <1>2, <2>1
<1>4. /\ Word("eax") = reg["eax"] /\ Word("ecx") = reg["ecx"] /\ Word("edx") = reg["edx"]
      /\ Word("ebx") = reg["ebx"] /\ Word("ebp") = reg["ebp"] /\ Word("esi") = reg["esi"]
      /\ Word("edi") = reg["edi"]
  BY DEF Word
<1>5. /\ General[1] = "eax" /\ General[2] = "ecx" /\ General[3] = "edx" /\ General[4] = "ebx"
      /\ General[6] = "ebp" /\ General[7] = "esi" /\ General[8] = "edi"
  BY DEF General
<1>6. Pushed8(e, 0, reg)
  BY <1>3, <1>4, <1>5 DEF Pushed8
<1>7. mem' = [mem EXCEPT ![esp.stack] = w]
  BY Zenon DEF pushad, This
<1> HIDE DEF e
<1>8. /\ w \in Seq(Words) /\ Len(w) = esp.top + Len(e)
      /\ \A j \in 1 .. esp.top : w[j] = This[j]
      /\ \A j \in 1 .. Len(e) : w[esp.top + j] = e[j]
  <2>1. esp.top \in 0 .. Len(This)
    BY <1>1
  <2>. QED BY <1>1, <1>3, <2>1, WritesDoes, Zenon
<1> HIDE DEF w
<1>9. w \in Seq(Words) /\ Len(w) = esp.top + 8 /\ Agrees(w, esp.top) /\ Pushed8(w, esp.top, reg)
  <2>1. \A j \in 1 .. 8 : w[esp.top + j] = e[j]
    BY <1>3, <1>8
  <2>2. Len(w) = esp.top + 8
    BY <1>3, <1>8
  <2>3. Pushed8(w, esp.top, reg)
    BY <1>6, <2>1 DEF Pushed8
  <2>. QED BY <1>8, <2>2, <2>3 DEF Agrees
<1>10. esp' = [esp EXCEPT !.top = esp.top + 8] /\ eip' = Next1
  BY <1>2 DEF pushad, Down
<1>11. /\ reg' \in [Registers -> Words] /\ ints' \in BOOLEAN /\ eip' \in Words /\ reg' = reg /\ ints' = ints
       /\ UNCHANGED <<tcb, current_thread, left, raised>> /\ Same
  BY <1>10, Next1Type DEF pushad, IInv, Typed
<1>12. Runs(w, esp.top + 8)
  <2>1. esp.top + 8 \in 0 .. Len(w)
    BY <1>1, <1>9
  <2>. QED BY <1>7, <1>9, <1>10, <1>11, <2>1, RunsIf
<1>. QED BY <1>9, <1>10, <1>11, <1>12

\* Eight words are taken off; the segment registers stay.
LEMMA PopadDoes ==
    ASSUME IInv, popad, esp.top >= 8
    PROVE  /\ Runs(This, esp.top - 8) /\ eip' = Next1 /\ ints' = ints
           /\ Pushed8(This, esp.top - 8, reg')
           /\ reg'["ds"] = reg["ds"] /\ reg'["es"] = reg["es"]
           /\ reg'["fs"] = reg["fs"] /\ reg'["gs"] = reg["gs"]
<1> DEFINE at(r) == CHOOSE i \in DOMAIN General : General[i] = r
<1>1. esp.top \in Nat /\ This \in Seq(Words) /\ esp.top <= Len(This) /\ esp.stack \in Stacks
  BY Here
<1>2. Len(General) = 8
  BY DEF General
<1>3. reg' = [r \in Registers |-> IF r \in ToSet(General) THEN Below(8 - at(r)) ELSE reg[r]]
  BY <1>2 DEF popad
<1>4. \A i \in 1 .. 8 : Below(8 - i) = This[esp.top - 8 + i] /\ This[esp.top - 8 + i] \in Words
  <2>1. ASSUME NEW i \in 1 .. 8
        PROVE  esp.top - (8 - i) = esp.top - 8 + i /\ esp.top - 8 + i \in 1 .. Len(This)
    BY <1>1
  <2>2. \A k \in 1 .. Len(This) : This[k] \in Words
    BY <1>1
  <2>. QED BY <2>1, <2>2, Zenon DEF Below, This
<1>5. /\ at("eax") = 1 /\ at("ecx") = 2 /\ at("edx") = 3 /\ at("ebx") = 4
      /\ at("ebp") = 6 /\ at("esi") = 7 /\ at("edi") = 8
  BY PopIndex, Zenon
<1> HIDE DEF at
<1>6. /\ reg'["eax"] = This[esp.top - 8 + 1] /\ reg'["ecx"] = This[esp.top - 8 + 2]
      /\ reg'["edx"] = This[esp.top - 8 + 3] /\ reg'["ebx"] = This[esp.top - 8 + 4]
      /\ reg'["ebp"] = This[esp.top - 8 + 6] /\ reg'["esi"] = This[esp.top - 8 + 7]
      /\ reg'["edi"] = This[esp.top - 8 + 8]
  BY <1>3, <1>4, <1>5, RegistersAre
<1>7. /\ reg'["ds"] = reg["ds"] /\ reg'["es"] = reg["es"]
      /\ reg'["fs"] = reg["fs"] /\ reg'["gs"] = reg["gs"]
  BY <1>3, RegistersAre
<1>8. reg' \in [Registers -> Words]
  <2>1. \A r \in Registers : reg[r] \in Words
    BY DEF IInv, Typed
  <2>2. \A r \in Registers : r \in ToSet(General) => at(r) \in 1 .. 8
    BY <1>5, RegistersAre
  <2>3. \A r \in Registers : (IF r \in ToSet(General) THEN Below(8 - at(r)) ELSE reg[r]) \in Words
    BY <1>4, <2>1, <2>2
  <2>. QED BY <1>3, <2>3
<1>9. mem' = [mem EXCEPT ![esp.stack] = This] /\ mem' = mem
  BY <1>1 DEF popad, This, IInv, Typed
<1>10. esp' = [esp EXCEPT !.top = esp.top - 8] /\ eip' = Next1 /\ ints' = ints
  BY <1>1, <1>2 DEF popad, Down, IInv, Typed, Pointers
<1>11. /\ ints' \in BOOLEAN /\ eip' \in Words
       /\ UNCHANGED <<tcb, current_thread, left, raised>> /\ Same
  BY <1>10, Next1Type DEF popad, IInv, Typed
<1>12. esp.top - 8 \in 0 .. Len(This)
  BY <1>1
<1>13. Runs(This, esp.top - 8)
  BY <1>1, <1>8, <1>9, <1>10, <1>11, <1>12, RunsIf
<1>. QED BY <1>6, <1>7, <1>10, <1>13 DEF Pushed8

\* mov r, [esp+4n], the word being one of the stack.
LEMMA LoadDoes ==
    ASSUME IInv, move, It.op = "load", It.r \in Registers, It.n \in Int,
           esp.top - It.n \in 1 .. Len(This)
    PROVE  /\ Runs(This, esp.top) /\ eip' = Next1 /\ ints' = ints
           /\ reg' = [reg EXCEPT ![It.r] = This[esp.top - It.n]]
<1>1. This \in Seq(Words)
  BY Here
<1>2. Below(It.n) = This[esp.top - It.n]
  BY Zenon DEF Below, This
<1>3. This[esp.top - It.n] \in Words
  BY <1>1
<1>4. reg' = [reg EXCEPT ![It.r] = This[esp.top - It.n]]
  BY <1>2 DEF move
<1>5. reg' \in [Registers -> Words]
  BY <1>3, <1>4 DEF IInv, Typed
<1>6. mem' = mem /\ esp' = esp /\ eip' = Next1 /\ ints' = ints
  BY DEF move
<1>7. /\ ints' \in BOOLEAN /\ eip' \in Words
      /\ UNCHANGED <<tcb, current_thread, left, raised>> /\ Same
  BY <1>6, Next1Type DEF move, IInv, Typed
<1>. QED BY <1>4, <1>5, <1>6, <1>7, QuietDoes

\* mov [esp+4n], r, at most one word above the end.
LEMMA StoreDoes ==
    ASSUME IInv, move, It.op = "store", It.r \in Registers, It.n \in Int,
           esp.top - It.n \in 1 .. Len(This) + 1
    PROVE  \E w : /\ Runs(w, esp.top) /\ eip' = Next1 /\ ints' = ints /\ reg' = reg
                  /\ w[esp.top - It.n] = reg[It.r] /\ Len(w) >= esp.top - It.n
                  /\ Only(w, esp.top - It.n)
<1> DEFINE w == Write(This, esp.top - It.n, reg[It.r])
<1>1. esp.top \in Nat /\ This \in Seq(Words) /\ esp.top <= Len(This)
  BY Here
<1>2. reg[It.r] \in Words
  BY DEF IInv, Typed
<1>3. /\ w \in Seq(Words) /\ w[esp.top - It.n] = reg[It.r] /\ Len(w) >= esp.top - It.n
      /\ Len(w) >= Len(This)
      /\ \A j \in 1 .. Len(This) : j # esp.top - It.n => w[j] = This[j]
  <2> DEFINE i == esp.top - It.n
             x == reg[It.r]
             v == Write(This, i, x)
  <2>1. This \in Seq(Words) /\ i \in 1 .. Len(This) + 1 /\ x \in Words
    BY <1>1, <1>2
  <2>2. /\ v \in Seq(Words) /\ v[i] = x
        /\ Len(v) >= i /\ Len(v) >= Len(This)
        /\ \A j \in 1 .. Len(This) : j # i => v[j] = This[j]
    <3> HIDE DEF i, x
    <3>. QED BY <2>1, WriteDoes, Zenon
  <2>. QED BY <2>2
<1>4. mem' = [mem EXCEPT ![esp.stack] = w]
  BY Zenon DEF move, This
<1> HIDE DEF w
<1>5. esp' = esp /\ eip' = Next1 /\ ints' = ints /\ reg' = reg
  BY DEF move
<1>6. esp' = [esp EXCEPT !.top = esp.top]
  BY <1>5 DEF IInv, Typed, Pointers
<1>7. /\ reg' \in [Registers -> Words] /\ ints' \in BOOLEAN /\ eip' \in Words
      /\ UNCHANGED <<tcb, current_thread, left, raised>> /\ Same
  BY <1>5, Next1Type DEF move, IInv, Typed
<1>8. Runs(w, esp.top)
  <2>1. esp.top \in 0 .. Len(w)
    BY <1>1, <1>3
  <2>. QED BY <1>3, <1>4, <1>6, <1>7, <2>1, RunsIf
<1>. QED BY <1>3, <1>5, <1>8 DEF Only

\* add esp, 4n.
LEMMA AddDoes ==
    ASSUME IInv, move, It.op = "add", It.n \in Int, esp.top - It.n \in 0 .. Len(This)
    PROVE  Runs(This, esp.top - It.n) /\ eip' = Next1 /\ ints' = ints /\ reg' = reg
<1>1. esp.top \in Nat /\ This \in Seq(Words) /\ esp.stack \in Stacks
  BY Here
<1>2. mem' = [mem EXCEPT ![esp.stack] = This]
  BY <1>1 DEF move, This, IInv, Typed
<1>3. esp' = [esp EXCEPT !.top = esp.top - It.n]
  <2>1. esp.top + (-It.n) = esp.top - It.n
    BY <1>1
  <2>. QED BY <2>1 DEF move, Down
<1>4. eip' = Next1 /\ ints' = ints /\ reg' = reg
  BY DEF move
<1>5. /\ reg' \in [Registers -> Words] /\ ints' \in BOOLEAN /\ eip' \in Words
      /\ UNCHANGED <<tcb, current_thread, left, raised>> /\ Same
  BY <1>4, Next1Type DEF move, IInv, Typed
<1>. QED BY <1>1, <1>2, <1>3, <1>4, <1>5, RunsIf

\* Interrupts are off from here.
LEMMA CliDoes ==
    ASSUME IInv, cli
    PROVE  Runs(This, esp.top) /\ eip' = Next1 /\ ~ints' /\ reg' = reg
<1>1. mem' = mem /\ esp' = esp /\ eip' = Next1 /\ ~ints' /\ reg' = reg
  BY DEF cli
<1>2. /\ reg' \in [Registers -> Words] /\ ints' \in BOOLEAN /\ eip' \in Words
      /\ UNCHANGED <<tcb, current_thread, left, raised>> /\ Same
  BY <1>1, Next1Type DEF cli, IInv, Typed
<1>. QED BY <1>1, <1>2, QuietDoes

\* The data segments are the kernel's from here.
LEMMA SegmentsDo ==
    ASSUME IInv, kernel_segments
    PROVE  Runs(This, esp.top) /\ eip' = Next1 /\ ints' = ints
<1>1. mem' = mem /\ esp' = esp /\ eip' = Next1 /\ ints' = ints
  BY DEF kernel_segments
<1>2. At(esp) \in Words
  BY WordType DEF Word
<1>3. reg' \in [Registers -> Words]
  <2>1. \A r \in Registers : reg[r] \in Words
    BY DEF IInv, Typed
  <2>2. \A r \in Registers : (IF r \in ToSet(Segments) THEN KERNEL_DS
                              ELSE IF r = "eax" THEN At(esp) ELSE reg[r]) \in Words
    BY <1>2, <2>1, WordTypes
  <2>. QED BY <2>2 DEF kernel_segments
<1>4. /\ ints' \in BOOLEAN /\ eip' \in Words
      /\ UNCHANGED <<tcb, current_thread, left, raised>> /\ Same
  BY <1>1, Next1Type DEF kernel_segments, IInv, Typed
<1>. QED BY <1>1, <1>3, <1>4, QuietDoes

\* A jump leads to the label, a nop to the next instruction.
LEMMA JmpDoes ==
    ASSUME IInv, jmp, It.op = "jmp" => It.r \in Labels
    PROVE  /\ Runs(This, esp.top) /\ ints' = ints /\ reg' = reg
           /\ eip' = IF It.op = "jmp" THEN <<It.r, 1>> ELSE Next1
<1>1. /\ mem' = mem /\ esp' = esp /\ ints' = ints /\ reg' = reg
      /\ eip' = IF It.op = "jmp" THEN <<It.r, 1>> ELSE Next1
  BY DEF jmp
<1>2. eip' \in Words
  <2>1. \A l \in Labels : <<l, 1>> \in Words
    BY DEF Labels, Words, Names
  <2>. QED BY <1>1, <2>1, Next1Type
<1>3. /\ ints' \in BOOLEAN /\ reg' \in [Registers -> Words]
      /\ UNCHANGED <<tcb, current_thread, left, raised>> /\ Same
  BY <1>1 DEF jmp, IInv, Typed
<1>. QED BY <1>1, <1>2, <1>3, QuietDoes

\* Whether the previous thread is null decides.
LEMMA JeDoes ==
    ASSUME IInv, je, NEW i \in Nat, eip = Tls(i)
    PROVE  /\ Runs(This, esp.top) /\ ints' = ints /\ reg' = reg
           /\ eip' = IF current_thread = 0 THEN Tls(28) ELSE Tls(i + 1)
<1>1. Len(full_switch) + 1 = 28
  BY SwitchText
<1>2. /\ mem' = mem /\ esp' = esp /\ ints' = ints /\ reg' = reg
      /\ eip' = IF current_thread = 0 THEN Tls(28) ELSE Tls(i + 1)
  BY <1>1 DEF je, Next1, Tls
<1>3. eip' \in Words
  BY <1>2 DEF Tls, Words, Names
<1>4. /\ ints' \in BOOLEAN /\ reg' \in [Registers -> Words]
      /\ UNCHANGED <<tcb, current_thread, left, raised>> /\ Same
  BY <1>2 DEF je, IInv, Typed
<1>. QED BY <1>2, <1>3, <1>4, QuietDoes

\* The return address is pushed and the dispatcher entered.
LEMMA CallDoes ==
    ASSUME IInv, call
    PROVE  \E w : /\ Runs(w, esp.top + 1) /\ Agrees(w, esp.top) /\ w[esp.top + 1] = Next1
                  /\ Len(w) = esp.top + 1
                  /\ eip' = <<"dispatch", 1>> /\ reg' = reg /\ ints' = ints
<1> DEFINE e == <<Next1>>
           w == Writes(This, esp.top + 1, e)
<1>1. esp.top \in Nat /\ This \in Seq(Words) /\ esp.top <= Len(This)
  BY Here
<1>2. e \in Seq(Words) /\ Len(e) = 1 /\ e[1] = Next1
  BY Next1Type
<1>3. mem' = [mem EXCEPT ![esp.stack] = w]
  BY Zenon DEF call, This
<1> HIDE DEF e
<1>4. /\ w \in Seq(Words) /\ Len(w) = esp.top + Len(e)
      /\ \A j \in 1 .. esp.top : w[j] = This[j]
      /\ \A j \in 1 .. Len(e) : w[esp.top + j] = e[j]
  <2>1. esp.top \in 0 .. Len(This)
    BY <1>1
  <2>. QED BY <1>1, <1>2, <2>1, WritesDoes, Zenon
<1> HIDE DEF w
<1>5. Len(w) = esp.top + 1 /\ w[esp.top + 1] = Next1 /\ Agrees(w, esp.top)
  BY <1>2, <1>4 DEF Agrees
<1>6. /\ esp' = [esp EXCEPT !.top = esp.top + 1] /\ eip' = <<"dispatch", 1>>
      /\ reg' = reg /\ ints' = ints
  BY DEF call, Down
<1>7. /\ reg' \in [Registers -> Words] /\ ints' \in BOOLEAN /\ eip' \in Words
      /\ UNCHANGED <<tcb, current_thread, left, raised>> /\ Same
  BY <1>6 DEF call, IInv, Typed, Words, Names
<1>8. Runs(w, esp.top + 1)
  <2>1. esp.top + 1 \in 0 .. Len(w)
    BY <1>1, <1>5
  <2>. QED BY <1>3, <1>4, <1>6, <1>7, <2>1, RunsIf
<1>. QED BY <1>5, <1>6, <1>8

-----------------------------------------------------------------------------
(* The steps that save a context and restore one, in the switch and in the  *)
(* common stubs alike.                                                      *)
LEMMA SavingStep ==
    ASSUME IInv, Step, NEW j \in 1 .. 5, It = save_registers[j], Saving(j, This, Base, Now)
    PROVE  \E w : /\ Runs(w, Now'.top) /\ Agrees(w, esp.top) /\ eip' = Next1 /\ ints' = ints
                  /\ Saving(j + 1, w, Base, Now') /\ Now'.top > esp.top
<1> DEFINE m == SavedBy[j]
           L == Base
<1>1. /\ esp.top = L.top + m /\ reg = L.reg /\ Saved(This, L, m)
  BY NowIs DEF Saving
<1>2. L \in Contexts /\ L.top \in Nat /\ m \in 5 .. 17 /\ esp.top \in Nat
  <2>1. L \in Contexts /\ L.top \in Nat /\ esp.top \in Nat
    BY Here, Zenon
  <2>2. m \in 5 .. 17
    BY Tables
  <2>. QED BY <2>1, <2>2
<1>3. CASE j = 1
  <2>1. m = 5 /\ SavedBy[j + 1] = 13
    BY <1>3, Tables
  <2>2. pushad
    <3>1. It = Op("pushad")
      BY <1>3, SaveText
    <3>. QED BY <3>1, OpSteps, Zenon
  <2>3. PICK w : /\ Runs(w, esp.top + 8) /\ Agrees(w, esp.top) /\ Pushed8(w, esp.top, reg)
                 /\ eip' = Next1 /\ reg' = reg /\ ints' = ints
    BY <2>2, PushadDoes
  <2>4. Now'.top = L.top + 13 /\ Now'.reg = L.reg
    BY <1>1, <1>2, <2>1, <2>3, NowBecomes DEF Runs
  <2>5. \A i \in 1 .. L.top + 5 : w[i] = This[i]
    BY <1>1, <2>1, <2>3 DEF Agrees
  <2>6. Saved(w, L, 5)
    <3>1. Saved(This, L, 5) /\ 5 \in 0 .. 17
      BY <1>1, <2>1
    <3>. QED BY <1>2, <2>5, <3>1, SavedWords, Zenon
  <2>7. GeneralAt(w, L)
    BY <1>1, <1>2, <2>1, <2>3 DEF Pushed8, GeneralAt
  <2>8. Saved(w, L, 13)
    BY <2>6, <2>7 DEF Saved
  <2>9. Saving(j + 1, w, L, Now')
    BY <2>1, <2>4, <2>8 DEF Saving
  <2>10. Now'.top > esp.top /\ Now'.top = esp.top + 8
    BY <1>1, <1>2, <2>1, <2>4
  <2>. QED BY <2>3, <2>9, <2>10
<1>4. CASE j \in 2 .. 5
  <2> DEFINE r == IF j = 2 THEN "ds" ELSE IF j = 3 THEN "es" ELSE IF j = 4 THEN "fs" ELSE "gs"
  <2>1. It = Push(r)
    BY <1>4, SaveText
  <2>2. r \in Registers /\ r # "" /\ r # "cs" /\ r # "esp"
    BY RegistersAre
  <2>3. push /\ It.r = r
    <3> HIDE DEF r
    <3>. QED BY <2>1, PushStep, Zenon
  <2>4. Word(It.r) = L.reg[r] /\ Word(It.r) \in Words
    BY <1>1, <2>2, <2>3, WordType DEF Word
  <2>5. PICK w : /\ Runs(w, esp.top + 1) /\ Agrees(w, esp.top) /\ w[esp.top + 1] = L.reg[r]
                 /\ eip' = Next1 /\ reg' = reg /\ ints' = ints
    BY <2>3, <2>4, PushDoes
  <2>6. m = j + 11 /\ SavedBy[j + 1] = j + 12
    BY <1>4, Tables
  <2>7. Now'.top = L.top + (j + 12) /\ Now'.reg = L.reg /\ w[L.top + (j + 12)] = L.reg[r]
    BY <1>1, <1>2, <2>5, <2>6, NowBecomes DEF Runs
  <2>8. Saved(w, L, j + 11)
    <3>1. \A i \in 1 .. L.top + (j + 11) : w[i] = This[i]
      BY <1>1, <2>5, <2>6 DEF Agrees
    <3>. QED BY <1>1, <1>2, <2>6, <3>1, SavedWords
  <2>9. Saved(w, L, j + 12)
    BY <1>4, <2>7, <2>8 DEF Saved
  <2>10. Saving(j + 1, w, L, Now')
    BY <2>6, <2>7, <2>9 DEF Saving
  <2>11. Now'.top > esp.top /\ Now'.top = esp.top + 1
    BY <1>1, <1>2, <2>6, <2>7
  <2>. QED BY <2>5, <2>10, <2>11
<1>. QED BY <1>3, <1>4

\* Each instruction of restore_registers takes the next group of registers off
\* the context.
LEMMA LoadingStep ==
    ASSUME IInv, Step, NEW j \in 1 .. 6, It = restore_registers[j], Loading(j, This, Base, Now)
    PROVE  /\ Runs(This, Now'.top) /\ eip' = Next1 /\ ints' = ints
           /\ Loading(j + 1, This, Base, Now')
<1> DEFINE m == LeftBy[j]
           L == Base
<1>1. esp.top = L.top + m /\ Saved(This, L, m) /\ Live(Now, L, m) /\ Now.reg = reg
  BY NowIs DEF Loading
<1>2. /\ L \in Contexts /\ L.top \in Nat /\ m \in 3 .. 17 /\ esp.top \in Nat
      /\ reg \in [Registers -> Words] /\ L.reg \in [Registers -> Words]
  <2>1. L \in Contexts /\ L.top \in Nat /\ esp.top \in Nat
    BY Here, Zenon
  <2>2. m \in 3 .. 17
    BY Tables
  <2>3. reg \in [Registers -> Words]
    BY Zenon DEF IInv, Typed
  <2>4. L.reg \in [Registers -> Words]
    BY <2>1 DEF Contexts
  <2>. QED BY <2>1, <2>2, <2>3, <2>4
<1>3. CASE j \in 1 .. 4
  <2> DEFINE r == IF j = 1 THEN "gs" ELSE IF j = 2 THEN "fs" ELSE IF j = 3 THEN "es" ELSE "ds"
  <2>1. It = Pop(r)
    BY <1>3, RestoreText
  <2>2. r \in Registers
    BY RegistersAre
  <2>3. pop /\ It.r = r
    <3> HIDE DEF r
    <3>. QED BY <2>1, PopStep, Zenon
  <2>4. m = 18 - j /\ LeftBy[j + 1] = 17 - j
    BY <1>3, Tables
  <2>5. esp.top >= 1
    BY <1>1, <1>2
  <2>6. /\ Runs(This, esp.top - 1) /\ eip' = Next1 /\ ints' = ints
        /\ reg' = [reg EXCEPT ![r] = This[esp.top]]
    BY <2>2, <2>3, <2>5, PopDoes
  <2>7. This[esp.top] = L.reg[r]
    BY <1>1, <1>3, <2>4 DEF Saved
  <2>8. Now'.top = L.top + (17 - j) /\ Now'.reg = reg' /\ Now'.top = esp.top - 1
    BY <1>1, <1>2, <2>4, <2>6, NowBecomes DEF Runs
  <2>9. Saved(This, L, 17 - j)
    BY <1>1, <1>3, <2>4 DEF Saved
  <2>10. Live(Now', L, 17 - j)
    <3>1. reg'[r] = L.reg[r] /\ \A x \in Registers : x # r => reg'[x] = reg[x]
      BY <1>2, <2>2, <2>6, <2>7
    <3>2. {"gs", "fs", "es", "ds"} \subseteq Registers
      BY RegistersAre
    <3>. QED BY <1>1, <1>3, <2>4, <2>8, <3>1, <3>2 DEF Live
  <2>. QED BY <2>4, <2>6, <2>8, <2>9, <2>10 DEF Loading
<1>4. CASE j = 5
  <2>1. m = 13 /\ LeftBy[j + 1] = 5
    BY <1>4, Tables
  <2>2. popad
    <3>1. It = Op("popad")
      BY <1>4, RestoreText
    <3>. QED BY <3>1, OpSteps, Zenon
  <2>3. esp.top >= 8 /\ esp.top - 8 = L.top + 5
    BY <1>1, <1>2, <2>1
  <2>4. /\ Runs(This, esp.top - 8) /\ eip' = Next1 /\ ints' = ints
        /\ Pushed8(This, esp.top - 8, reg')
        /\ reg'["ds"] = reg["ds"] /\ reg'["es"] = reg["es"]
        /\ reg'["fs"] = reg["fs"] /\ reg'["gs"] = reg["gs"]
    BY <2>2, <2>3, PopadDoes
  <2>5. Now'.top = L.top + 5 /\ Now'.reg = reg' /\ Now'.top = esp.top - 8 /\ Now' \in Contexts
    BY <2>3, <2>4, NowBecomes DEF Runs, Stays
  <2>6. Saved(This, L, 5) /\ GeneralAt(This, L)
    BY <1>1, <2>1 DEF Saved
  <2>7. /\ reg["gs"] = L.reg["gs"] /\ reg["fs"] = L.reg["fs"]
        /\ reg["es"] = L.reg["es"] /\ reg["ds"] = L.reg["ds"]
    BY <1>1, <2>1 DEF Live
  <2>8. /\ reg'["eax"] = L.reg["eax"] /\ reg'["ecx"] = L.reg["ecx"] /\ reg'["edx"] = L.reg["edx"]
        /\ reg'["ebx"] = L.reg["ebx"] /\ reg'["ebp"] = L.reg["ebp"] /\ reg'["esi"] = L.reg["esi"]
        /\ reg'["edi"] = L.reg["edi"]
    <3>1. Pushed8(This, L.top + 5, reg')
      BY <2>3, <2>4
    <3>. QED BY <1>2, <2>6, <3>1 DEF Pushed8, GeneralAt
  <2>9. reg' = L.reg
    <3>1. reg' \in [Registers -> Words]
      BY <2>5 DEF Contexts
    <3>2. \A r \in Registers : reg'[r] = L.reg[r]
      BY <2>4, <2>7, <2>8, RegistersAre
    <3>3. \A f, g \in [Registers -> Words] : (\A r \in Registers : f[r] = g[r]) => f = g
      OBVIOUS
    <3>. QED BY <1>2, <3>1, <3>2, <3>3, Zenon
  <2>10. Live(Now', L, 5)
    BY <2>5, <2>9 DEF Live
  <2>. QED BY <2>1, <2>4, <2>5, <2>6, <2>10 DEF Loading
<1>5. CASE j = 6
  <2>1. m = 5 /\ LeftBy[j + 1] = 3
    BY <1>5, Tables
  <2>2. move /\ It.op = "add" /\ It.n = 2
    <3>1. It = Add(2)
      BY <1>5, RestoreText
    <3>. QED BY <3>1, AddStep, Zenon
  <2>3. esp.top - It.n = L.top + 3 /\ esp.top - It.n \in 0 .. Len(This)
    BY <1>1, <1>2, <2>1, <2>2, Here
  <2>4. Runs(This, esp.top - It.n) /\ eip' = Next1 /\ ints' = ints /\ reg' = reg
    BY <2>2, <2>3, AddDoes
  <2>5. Now'.top = L.top + 3 /\ Now'.reg = reg /\ Now'.top = esp.top - It.n
    BY <2>3, <2>4, NowBecomes DEF Runs
  <2>6. Saved(This, L, 3) /\ Live(Now', L, 3)
    BY <1>1, <2>1, <2>5 DEF Saved, Live
  <2>. QED BY <2>1, <2>4, <2>5, <2>6 DEF Loading
<1>. QED BY <1>3, <1>4, <1>5

-----------------------------------------------------------------------------
(* What the invariant says of an address.                                   *)
LEMMA GateText ==
    \A v \in 0 .. 47 : /\ Gate[v][1] \in {"irq", "isr"}
                       /\ v < 32 => Gate[v] = <<"isr", 4 * v + 1>>
                       /\ v >= 32 => Gate[v] = <<"irq", 4 * (v - 32) + 1>>
BY DEF Gate, exception_gate, irq_gate

\* An address that is not in a single stub.
LEMMA NotInStub ==
    ASSUME NEW words, NEW L, NEW n, NEW c, NEW r, c.eip[1] \notin {"irq", "isr"}
    PROVE  ~AtStub(words, L, n, c, r)
<1>1. ASSUME NEW v \in 0 .. 47, NEW k \in 0 .. 3
      PROVE  c.eip # <<Gate[v][1], Gate[v][2] + k>>
  <2>1. Gate[v][1] \in {"irq", "isr"}
    BY GateText
  <2>. QED BY <2>1
<1>. QED BY <1>1, Zenon DEF AtStub

\* What is known in the switch.
LEMMA SwitchHere ==
    ASSUME IInv, NEW i \in 1 .. 37, eip = Tls(i)
    PROVE  AtSwitch(i, esp.stack, This, Base, Size, Now)
<1>1. Now.eip = Tls(i) /\ Now.eip[1] \notin {"irq", "isr"}
  BY NowIs DEF Tls
<1>2. Position(esp.stack, This, Base, Size, Now)
  BY <1>1, Here, NotInStub, Zenon
<1>. QED BY <1>1, <1>2, OnSwitch, Zenon

\* What is known in a common stub.
LEMMA CommonHere ==
    ASSUME IInv, NEW l \in Labels, NEW k \in 1 .. 16, eip = <<l, k>>
    PROVE  AtCommon(k, esp.stack, This, Base, Size, Now)
<1>1. Now.eip = <<l, k>> /\ Now.eip[1] \notin {"irq", "isr"}
  BY NowIs DEF Labels
<1>2. Position(esp.stack, This, Base, Size, Now)
  BY <1>1, Here, NotInStub, Zenon
<1>. QED BY <1>1, <1>2, OnCommon, Zenon

\* What is known in C code.
LEMMA CHere ==
    ASSUME IInv, eip \in InC
    PROVE  AtC(eip, esp.stack, This, Base, Size, Now)
<1>1. Now.eip = eip /\ Now.eip[1] \notin {"irq", "isr"} /\ Now.eip \in InC
  BY NowIs DEF InC
<1>2. Position(esp.stack, This, Base, Size, Now)
  BY <1>1, Here, NotInStub, Zenon
<1>. QED BY <1>1, <1>2, OnC, Zenon

\* current_thread is the thread whose stack is in use, except between the two
\* stores that change both.
LEMMA CurrentHere ==
    ASSUME IInv, eip \notin {Tls(20), Tls(30)}
    PROVE  current_thread = esp.stack
BY DEF IInv, CurrentSound

\* Tls is one-to-one.
LEMMA TlsDiffer == \A i, j \in Nat : Tls(i) = Tls(j) => i = j
BY DEF Tls

-----------------------------------------------------------------------------
(* A thread leaves: threads_low_switch_to from its start to where esp is    *)
(* saved.                                                                   *)
Departs(i) == /\ IInv /\ Step /\ eip = Tls(i) /\ esp.stack # Main

\* What is known of a thread that leaves.
LEMMA DepartsHere ==
    ASSUME NEW i \in 1 .. 20, Departs(i)
    PROVE  /\ Leaving(i, This, Base, Now) /\ esp.stack # Main /\ Size \in 1 .. Nested + 1
           /\ Base.top >= 1 /\ This[Base.top] \in Named
           /\ Base.top \in Nat /\ esp.top \in Nat /\ Base \in Contexts /\ This \in Seq(Words)
           /\ esp.top <= Len(This)
           /\ reg \in [Registers -> Words] /\ Base.reg \in [Registers -> Words]
<1>1. i \in 1 .. 37 /\ ~(i \in 21 .. 27 \cup 31 .. 37)
  OBVIOUS
<1>2. AtSwitch(i, esp.stack, This, Base, Size, Now) /\ esp.stack # Main
  BY <1>1, SwitchHere, Zenon DEF Departs
<1>3. /\ Base.top \in Nat /\ esp.top \in Nat /\ Base \in Contexts /\ This \in Seq(Words)
      /\ esp.top <= Len(This)
  BY Here, Zenon DEF Departs
<1>4. Base.reg \in [Registers -> Words]
  BY <1>3 DEF Contexts
<1>5. reg \in [Registers -> Words]
  BY DEF Departs, IInv, Typed
<1>6. /\ Size \in 1 .. Nested + 1 /\ esp.stack # Main /\ Leaving(i, This, Base, Now)
      /\ Base.top >= 1 /\ This[Base.top] \in Named
  BY <1>1, <1>2, Zenon DEF AtSwitch
<1>. QED BY <1>3, <1>4, <1>5, <1>6

\* A step to the next instruction keeps IInv if the context is as far as that
\* instruction expects.
LEMMA DepartsOn ==
    ASSUME NEW i \in 1 .. 16, Departs(i), NEW w, Runs(w, Now'.top), eip' = Tls(i + 1),
           Agrees(w, Base.top), Leaving(i + 1, w, Base, Now')
    PROVE  IInv'
<1> DEFINE j == i + 1
<1>1. /\ esp.stack # Main /\ Size \in 1 .. Nested + 1
      /\ Base.top >= 1 /\ This[Base.top] \in Named /\ Base.top \in Nat
  <2>1. i \in 1 .. 20
    OBVIOUS
  <2>. QED BY <2>1, DepartsHere, Zenon
<1>2. w[Base.top] \in Named /\ Spares(w)
  BY <1>1 DEF Agrees, Spares
<1>3. j \in 1 .. 20 /\ j \in (1 .. 37) \ {18, 19, 20, 30} /\ eip' = Tls(j)
  OBVIOUS
<1>4. eip \notin {Tls(20), Tls(30)}
  BY TlsDiffer DEF Departs
<1>5. Leaving(j, w, Base, Now')
  OBVIOUS
<1> HIDE DEF j
<1>6. AtSwitch(j, esp.stack, w, Base, Size, Now')
  BY <1>1, <1>2, <1>3, <1>5, Zenon DEF AtSwitch
<1>. QED BY <1>2, <1>3, <1>4, <1>6, StaysOnSwitch, Zenon DEF Runs, Departs

\* The words up to a top stay with those up to a lower one.
LEMMA AgreesBelow ==
    ASSUME NEW w, NEW m \in Nat, NEW n \in Nat, Agrees(w, m), n <= m
    PROVE  Agrees(w, n)
BY DEF Agrees

\* Nothing has changed yet.
LEMMA AgreesThis == \A n : Agrees(This, n)
BY DEF Agrees

\* The jump if there was no thread is not taken.
LEMMA Departs1 == ASSUME Departs(1) PROVE IInv'
<1>1. /\ Leaving(1, This, Base, Now) /\ esp.stack # Main /\ This \in Seq(Words)
  BY DepartsHere
<1>2. /\ Runs(This, esp.top) /\ ints' = ints /\ reg' = reg
      /\ eip' = IF current_thread = 0 THEN Tls(28) ELSE Tls(1 + 1)
  <2>1. It = Op("je")
    BY AtTls, SwitchCode DEF Departs
  <2>2. je
    BY <2>1, OpSteps, Zenon DEF Departs
  <2>. QED BY <2>2, JeDoes DEF Departs
<1>3. current_thread # 0
  <2>1. eip \notin {Tls(20), Tls(30)}
    BY TlsDiffer DEF Departs
  <2>. QED BY <1>1, <2>1, CurrentHere DEF Main, Departs
<1>4. Leaving(1 + 1, This, Base, Now')
  BY <1>1, <1>2, NowIs, NowBecomes DEF Leaving, Moving, Runs
<1>. QED BY <1>2, <1>3, <1>4, AgreesThis, DepartsOn DEF Runs

\* eax is pushed.
LEMMA Departs2 == ASSUME Departs(2) PROVE IInv'
<1> DEFINE L == Base
<1>1. /\ Leaving(2, This, L, Now) /\ L.top \in Nat /\ esp.top \in Nat /\ Base.top >= 1
  BY DepartsHere
<1>2. esp.top = L.top + 1 /\ reg = L.reg /\ This[L.top + 1] = L.eip /\ ints = L.ints
  BY <1>1, NowIs DEF Leaving, Moving
<1>3. push /\ It.r = "eax"
  BY AtTls, SwitchCode, PushStep DEF Departs
<1>4. Word(It.r) = L.reg["eax"] /\ Word(It.r) \in Words
  <2>1. "eax" \in Registers
    BY RegistersAre
  <2>. QED BY <1>2, <1>3, <2>1, WordType DEF Word, Departs
<1>5. PICK w : /\ Runs(w, esp.top + 1) /\ Agrees(w, esp.top) /\ w[esp.top + 1] = L.reg["eax"]
               /\ eip' = Next1 /\ reg' = reg /\ ints' = ints
  BY <1>3, <1>4, PushDoes DEF Departs
<1>6. /\ Now'.top = L.top + 2 /\ Now'.reg = L.reg /\ Now'.ints = L.ints
      /\ w[L.top + 2] = L.reg["eax"] /\ w[L.top + 1] = L.eip
  BY <1>1, <1>2, <1>5, NowBecomes DEF Runs, Agrees
<1>7. Leaving(2 + 1, w, L, Now')
  BY <1>6 DEF Leaving, Moving
<1>8. eip' = Tls(2 + 1) /\ Agrees(w, L.top) /\ Runs(w, Now'.top)
  <2>1. eip' = Tls(2 + 1)
    BY <1>5, AtTls DEF Departs
  <2>2. Agrees(w, L.top)
    BY <1>1, <1>2, <1>5, AgreesBelow
  <2>3. Runs(w, Now'.top)
    BY <1>5, Zenon DEF Runs
  <2>. QED BY <2>1, <2>2, <2>3
<1>. QED BY <1>7, <1>8, DepartsOn

\* The return address is loaded into eax.
LEMMA Departs3 == ASSUME Departs(3) PROVE IInv'
<1> DEFINE L == Base
<1>1. /\ Leaving(3, This, L, Now) /\ L.top \in Nat /\ esp.top \in Nat /\ esp.top <= Len(This)
      /\ This \in Seq(Words) /\ reg \in [Registers -> Words]
  BY DepartsHere
<1>2. /\ esp.top = L.top + 2 /\ reg = L.reg /\ This[L.top + 1] = L.eip /\ ints = L.ints
      /\ This[L.top + 2] = L.reg["eax"]
  BY <1>1, NowIs DEF Leaving, Moving
<1>3. move /\ It.op = "load" /\ It.r = "eax" /\ It.n = 1
  BY AtTls, SwitchCode, LoadStep DEF Departs
<1>4. "eax" \in Registers /\ esp.top - 1 \in 1 .. Len(This) /\ esp.top - 1 = L.top + 1
  BY <1>1, <1>2, RegistersAre
<1>5. /\ Runs(This, esp.top) /\ eip' = Next1 /\ ints' = ints
      /\ reg' = [reg EXCEPT !["eax"] = L.eip]
  BY <1>2, <1>3, <1>4, LoadDoes DEF Departs
<1>6. /\ Now'.top = L.top + 2 /\ Now'.reg["eax"] = L.eip /\ Now'.ints = L.ints
      /\ ButEax(Now', L)
  BY <1>1, <1>2, <1>4, <1>5, NowBecomes DEF Runs, ButEax
<1>7. Leaving(3 + 1, This, L, Now')
  BY <1>2, <1>6 DEF Leaving, Moving
<1>8. eip' = Tls(3 + 1) /\ Runs(This, Now'.top)
  BY <1>5, AtTls DEF Departs, Runs
<1>. QED BY <1>7, <1>8, AgreesThis, DepartsOn

\* It is stored one word beyond the top of the stack.
LEMMA Departs4 == ASSUME Departs(4) PROVE IInv'
<1> DEFINE L == Base
<1>1. /\ Leaving(4, This, L, Now) /\ L.top \in Nat /\ esp.top \in Nat /\ esp.top <= Len(This)
      /\ This \in Seq(Words)
  BY DepartsHere
<1>2. /\ esp.top = L.top + 2 /\ reg["eax"] = L.eip /\ ints = L.ints
      /\ This[L.top + 2] = L.reg["eax"] /\ ButEax(Now, L)
  BY <1>1, NowIs DEF Leaving, Moving
<1>3. move /\ It.op = "store" /\ It.r = "eax" /\ It.n = -1
  BY AtTls, SwitchCode, StoreStep DEF Departs
<1>4. "eax" \in Registers /\ esp.top - (-1) \in 1 .. Len(This) + 1 /\ esp.top - (-1) = L.top + 3
  BY <1>1, <1>2, RegistersAre
<1>5. PICK w : /\ Runs(w, esp.top) /\ eip' = Next1 /\ ints' = ints /\ reg' = reg
               /\ w[esp.top - It.n] = reg[It.r] /\ Len(w) >= esp.top - It.n
               /\ Only(w, esp.top - It.n)
  BY <1>3, <1>4, StoreDoes DEF Departs
<1>6. /\ w[L.top + 3] = L.eip /\ Len(w) >= L.top + 3 /\ w[L.top + 2] = L.reg["eax"]
      /\ \A j \in 1 .. L.top : w[j] = This[j]
  <2>1. w[L.top + 3] = L.eip /\ Len(w) >= L.top + 3 /\ Only(w, L.top + 3)
    BY <1>2, <1>3, <1>4, <1>5
  <2>2. /\ L.top + 2 \in 1 .. Len(This) /\ L.top + 2 # L.top + 3
        /\ \A j \in 1 .. L.top : j \in 1 .. Len(This) /\ j # L.top + 3
    BY <1>1, <1>2
  <2>. QED BY <1>2, <2>1, <2>2 DEF Only
<1>7. Now'.top = L.top + 2 /\ Now'.ints = L.ints /\ ButEax(Now', L)
  BY <1>2, <1>5, NowIs, NowBecomes DEF Runs, ButEax
<1>8. Leaving(4 + 1, w, L, Now')
  BY <1>6, <1>7 DEF Leaving, Moving
<1>9. eip' = Tls(4 + 1) /\ Runs(w, Now'.top) /\ Agrees(w, L.top)
  BY <1>5, <1>6, AtTls DEF Departs, Runs, Agrees
<1>. QED BY <1>8, <1>9, DepartsOn

\* esp goes back over both: the two words beyond the top still count.
LEMMA Departs5 == ASSUME Departs(5) PROVE IInv'
<1> DEFINE L == Base
<1>1. /\ Leaving(5, This, L, Now) /\ L.top \in Nat /\ esp.top \in Nat /\ esp.top <= Len(This)
      /\ This \in Seq(Words)
  BY DepartsHere
<1>2. /\ esp.top = L.top + 2 /\ ints = L.ints /\ L.top + 3 <= Len(This)
      /\ This[L.top + 2] = L.reg["eax"] /\ This[L.top + 3] = L.eip /\ ButEax(Now, L)
  BY <1>1, NowIs DEF Leaving, Moving
<1>3. move /\ It.op = "add" /\ It.n = 2
  BY AtTls, SwitchCode, AddStep DEF Departs
<1>4. esp.top - 2 = L.top /\ esp.top - 2 \in 0 .. Len(This)
  BY <1>1, <1>2
<1>5. Runs(This, esp.top - 2) /\ eip' = Next1 /\ ints' = ints /\ reg' = reg
  BY <1>3, <1>4, AddDoes DEF Departs
<1>6. Now'.top = L.top /\ Now'.ints = L.ints /\ ButEax(Now', L)
  BY <1>2, <1>4, <1>5, NowIs, NowBecomes DEF Runs, ButEax
<1>7. Leaving(5 + 1, This, L, Now')
  BY <1>2, <1>6 DEF Leaving, Moving
<1>8. eip' = Tls(5 + 1) /\ Runs(This, Now'.top)
  BY <1>5, AtTls DEF Departs, Runs
<1>. QED BY <1>7, <1>8, AgreesThis, DepartsOn

\* The flags are pushed where the return address was.
LEMMA Departs6 == ASSUME Departs(6) PROVE IInv'
<1> DEFINE L == Base
<1>1. /\ Leaving(6, This, L, Now) /\ L.top \in Nat /\ esp.top \in Nat /\ This \in Seq(Words)
  BY DepartsHere
<1>2. /\ esp.top = L.top /\ ints = L.ints /\ L.top + 3 <= Len(This)
      /\ This[L.top + 2] = L.reg["eax"] /\ This[L.top + 3] = L.eip /\ ButEax(Now, L)
  BY <1>1, NowIs DEF Leaving, Moving
<1>3. pushfd
  <2>1. It = Op("pushfd")
    BY AtTls, SwitchCode DEF Departs
  <2>. QED BY <2>1, OpSteps, Zenon DEF Departs
<1>4. PICK w : /\ Runs(w, esp.top + 1) /\ Agrees(w, esp.top) /\ w[esp.top + 1] = Flags(ints)
               /\ Only(w, esp.top + 1) /\ eip' = Next1 /\ reg' = reg /\ ints' = ints
  BY <1>3, PushfdDoes DEF Departs
<1>5. /\ Now'.top = L.top + 1 /\ Now'.ints = L.ints /\ ButEax(Now', L)
      /\ w[L.top + 1] = Flags(L.ints)
  BY <1>2, <1>4, NowIs, NowBecomes DEF Runs, ButEax
<1>6. w[L.top + 2] = L.reg["eax"] /\ w[L.top + 3] = L.eip /\ Len(w) >= L.top + 3
  <2>1. Len(w) \in Nat
    BY <1>4 DEF Runs, Stays
  <2>2. Only(w, L.top + 1) /\ L.top + 2 # L.top + 1 /\ L.top + 3 # L.top + 1
    BY <1>1, <1>2, <1>4
  <2>3. L.top + 2 \in 1 .. Len(This) /\ L.top + 3 \in 1 .. Len(This) /\ Len(This) \in Nat
    BY <1>1, <1>2
  <2>. QED BY <1>1, <1>2, <2>1, <2>2, <2>3 DEF Only
<1>7. Leaving(6 + 1, w, L, Now')
  BY <1>5, <1>6 DEF Leaving, Moving
<1>8. eip' = Tls(6 + 1) /\ Runs(w, Now'.top) /\ Agrees(w, L.top)
  BY <1>2, <1>4, AtTls DEF Departs, Runs
<1>. QED BY <1>7, <1>8, DepartsOn

\* eax is loaded from beyond the top, where it still is.
LEMMA Departs7 == ASSUME Departs(7) PROVE IInv'
<1> DEFINE L == Base
<1>1. /\ Leaving(7, This, L, Now) /\ L.top \in Nat /\ esp.top \in Nat /\ This \in Seq(Words)
      /\ reg \in [Registers -> Words] /\ L.reg \in [Registers -> Words]
  <2>1. 7 \in 1 .. 20
    OBVIOUS
  <2>. QED BY <2>1, DepartsHere, Zenon
<1>2. /\ esp.top = L.top + 1 /\ ints = L.ints /\ L.top + 3 <= Len(This)
      /\ This[L.top + 1] = Flags(L.ints)
      /\ This[L.top + 2] = L.reg["eax"] /\ This[L.top + 3] = L.eip /\ ButEax(Now, L)
  BY <1>1, NowIs DEF Leaving, Moving
<1>3. move /\ It.op = "load" /\ It.r = "eax" /\ It.n = -1
  BY AtTls, SwitchCode, LoadStep DEF Departs
<1>4. /\ "eax" \in Registers /\ esp.top - (-1) \in 1 .. Len(This) /\ esp.top - (-1) = L.top + 2
      /\ -1 \in Int
  BY <1>1, <1>2, RegistersAre
<1>5. /\ Runs(This, esp.top) /\ eip' = Next1 /\ ints' = ints
      /\ reg' = [reg EXCEPT !["eax"] = L.reg["eax"]]
  BY <1>2, <1>3, <1>4, LoadDoes DEF Departs
<1>6. reg' = L.reg
  <2>1. reg' \in [Registers -> Words] /\ reg'["eax"] = L.reg["eax"]
    BY <1>1, <1>4, <1>5
  <2>2. \A r \in Registers \ {"eax"} : reg'[r] = L.reg[r]
    BY <1>1, <1>2, <1>5, NowIs DEF ButEax
  <2>. QED BY <1>1, <2>1, <2>2, SameRegisters, Zenon
<1>7. Now'.top = L.top + 1 /\ Now'.reg = L.reg /\ Now'.ints = L.ints
  BY <1>2, <1>5, <1>6, NowBecomes DEF Runs
<1>8. Leaving(7 + 1, This, L, Now')
  BY <1>2, <1>7 DEF Leaving, Moving
<1>9. eip' = Tls(7 + 1) /\ Runs(This, Now'.top)
  BY <1>5, AtTls DEF Departs, Runs
<1>. QED BY <1>8, <1>9, AgreesThis, DepartsOn

\* The code segment is pushed where eax was.
LEMMA Departs8 == ASSUME Departs(8) PROVE IInv'
<1> DEFINE L == Base
<1>1. /\ Leaving(8, This, L, Now) /\ L.top \in Nat /\ esp.top \in Nat /\ This \in Seq(Words)
  BY DepartsHere
<1>2. /\ esp.top = L.top + 1 /\ reg = L.reg /\ ints = L.ints /\ L.top + 3 <= Len(This)
      /\ This[L.top + 1] = Flags(L.ints) /\ This[L.top + 3] = L.eip
  BY <1>1, NowIs DEF Leaving, Moving
<1>3. push /\ It.r = "cs"
  BY AtTls, SwitchCode, PushStep DEF Departs
<1>4. Word(It.r) = KERNEL_CS /\ Word(It.r) \in Words
  BY <1>3, WordType DEF Word, Departs
<1>5. PICK w : /\ Runs(w, esp.top + 1) /\ Agrees(w, esp.top) /\ w[esp.top + 1] = KERNEL_CS
               /\ Only(w, esp.top + 1) /\ eip' = Next1 /\ reg' = reg /\ ints' = ints
  BY <1>3, <1>4, PushDoes DEF Departs
<1>6. /\ Now'.top = L.top + 2 /\ Now'.reg = L.reg /\ Now'.ints = L.ints
      /\ w[L.top + 2] = KERNEL_CS /\ w[L.top + 1] = Flags(L.ints)
  <2>1. Now'.top = L.top + 2 /\ w[L.top + 2] = KERNEL_CS
    BY <1>1, <1>2, <1>5 DEF Runs
  <2>2. w[L.top + 1] = Flags(L.ints)
    BY <1>1, <1>2, <1>5 DEF Agrees
  <2>. QED BY <1>2, <1>5, <2>1, <2>2, NowBecomes
<1>7. w[L.top + 3] = L.eip /\ Len(w) >= L.top + 3
  <2>1. Len(w) \in Nat
    BY <1>5 DEF Runs, Stays
  <2>2. Only(w, L.top + 2) /\ L.top + 3 # L.top + 2
    BY <1>1, <1>2, <1>5
  <2>3. L.top + 3 \in 1 .. Len(This) /\ Len(This) \in Nat
    BY <1>1, <1>2
  <2>. QED BY <1>1, <1>2, <2>1, <2>2, <2>3 DEF Only
<1>8. Leaving(8 + 1, w, L, Now')
  BY <1>6, <1>7 DEF Leaving, Moving
<1>9. eip' = Tls(8 + 1) /\ Runs(w, Now'.top)
  BY <1>5, AtTls DEF Departs, Runs
<1>10. Agrees(w, L.top)
  BY <1>1, <1>2, <1>5, AgreesBelow
<1>. QED BY <1>8, <1>9, <1>10, DepartsOn

\* esp takes the return address in: the three words for iret are complete.
LEMMA Departs9 == ASSUME Departs(9) PROVE IInv'
<1> DEFINE L == Base
<1>1. /\ Leaving(9, This, L, Now) /\ L.top \in Nat /\ esp.top \in Nat /\ This \in Seq(Words)
  BY DepartsHere
<1>2. /\ esp.top = L.top + 2 /\ reg = L.reg /\ ints = L.ints /\ L.top + 3 <= Len(This)
      /\ This[L.top + 1] = Flags(L.ints) /\ This[L.top + 2] = KERNEL_CS /\ This[L.top + 3] = L.eip
  BY <1>1, NowIs DEF Leaving, Moving
<1>3. move /\ It.op = "add" /\ It.n = -1
  BY AtTls, SwitchCode, AddStep DEF Departs
<1>4. esp.top - (-1) = L.top + 3 /\ esp.top - (-1) \in 0 .. Len(This) /\ -1 \in Int
  BY <1>1, <1>2
<1>5. Runs(This, esp.top - (-1)) /\ eip' = Next1 /\ ints' = ints /\ reg' = reg
  BY <1>3, <1>4, AddDoes DEF Departs
<1>6. Now'.top = L.top + 10 - 7 /\ Now'.reg = L.reg
  BY <1>2, <1>4, <1>5, NowBecomes DEF Runs
<1>7. Leaving(9 + 1, This, L, Now')
  BY <1>2, <1>6 DEF Leaving, ForIret
<1>8. eip' = Tls(9 + 1) /\ Runs(This, Now'.top)
  BY <1>5, AtTls DEF Departs, Runs
<1>. QED BY <1>7, <1>8, AgreesThis, DepartsOn

\* Two zeros are pushed, for the error code and the interrupt's number.
LEMMA Departs10 == ASSUME NEW i \in {10, 11}, Departs(i) PROVE IInv'
<1> DEFINE L == Base
<1>1. /\ Leaving(i, This, L, Now) /\ L.top \in Nat /\ esp.top \in Nat /\ This \in Seq(Words)
      /\ L \in Contexts
  <2>1. i \in 1 .. 20
    OBVIOUS
  <2>. QED BY <2>1, DepartsHere, Zenon
<1>2. esp.top = L.top + i - 7 /\ reg = L.reg /\ ForIret(This, L)
  BY <1>1, NowIs DEF Leaving
<1>3. push /\ It.r = "" /\ It.n = 0
  <2>1. It = PushByte(0)
    BY AtTls, SwitchCode DEF Departs
  <2>. QED BY <2>1, PushByteStep DEF Departs
<1>4. Word(It.r) \in Words
  <2>1. Word(It.r) = <<"number", 0>>
    BY <1>3 DEF Word
  <2>. QED BY <2>1, WordTypes
<1>5. PICK w : /\ Runs(w, esp.top + 1) /\ Agrees(w, esp.top)
               /\ eip' = Next1 /\ reg' = reg /\ ints' = ints
  BY <1>3, <1>4, PushDoes DEF Departs
<1>6. Now'.top = L.top + i - 6 /\ Now'.reg = L.reg
  BY <1>1, <1>2, <1>5, NowBecomes DEF Runs
<1>7. ForIret(w, L)
  <2>1. esp.top >= L.top + 3 /\ L.top \in Nat /\ esp.top \in Nat
    BY <1>1, <1>2
  <2>2. \A j \in 1 .. L.top + 3 : w[j] = This[j]
    <3>1. \A j \in 1 .. L.top + 3 : j \in 1 .. esp.top
      BY <2>1
    <3>. QED BY <1>5, <3>1, Zenon DEF Agrees
  <2>3. w[L.top + 1] = This[L.top + 1] /\ w[L.top + 2] = This[L.top + 2] /\ w[L.top + 3] = This[L.top + 3]
    <3>1. L.top + 1 \in 1 .. L.top + 3 /\ L.top + 2 \in 1 .. L.top + 3 /\ L.top + 3 \in 1 .. L.top + 3
      BY <2>1
    <3>. QED BY <2>2, <3>1, Zenon
  <2>. QED BY <1>2, <2>3, Zenon DEF ForIret
<1>8. Leaving(i + 1, w, L, Now')
  <2>1. CASE i = 10
    BY <1>6, <1>7, <2>1 DEF Leaving
  <2>2. CASE i = 11
    <3>1. Now'.top = L.top + 5 /\ SavedBy[1] = 5
      BY <1>1, <1>6, <2>2, Tables
    <3>2. Saved(w, L, 5)
      BY <1>7 DEF Saved
    <3>3. Saving(1, w, L, Now')
      BY <1>6, <3>1, <3>2 DEF Saving
    <3>. QED BY <2>2, <3>3 DEF Leaving
  <2>. QED BY <2>1, <2>2
<1>9. eip' = Tls(i + 1) /\ Runs(w, Now'.top) /\ i \in 1 .. 16
  BY <1>5, AtTls DEF Departs, Runs
<1>10. Agrees(w, L.top)
  BY <1>1, <1>2, <1>5, AgreesBelow
<1>. QED BY <1>8, <1>9, <1>10, DepartsOn

\* The registers are pushed, group by group.
LEMMA Departs12 == ASSUME NEW i \in 12 .. 16, Departs(i) PROVE IInv'
<1> DEFINE L == Base
           j == i - 11
<1>1. /\ Leaving(i, This, L, Now) /\ L.top \in Nat /\ esp.top \in Nat
  <2>1. i \in 1 .. 20
    OBVIOUS
  <2>. QED BY <2>1, DepartsHere, Zenon
<1>2. j \in 1 .. 5 /\ Saving(j, This, L, Now)
  BY <1>1 DEF Leaving
<1>3. It = save_registers[j]
  <2>1. It = threads_low_switch_to[j + 11]
    BY AtTls DEF Departs
  <2>. QED BY <1>2, <2>1, SwitchText
<1>4. PICK w : /\ Runs(w, Now'.top) /\ Agrees(w, esp.top) /\ eip' = Next1 /\ ints' = ints
               /\ Saving(j + 1, w, L, Now')
  <2> HIDE DEF j
  <2>. QED BY <1>2, <1>3, SavingStep, Zenon DEF Departs
<1>5. Leaving(i + 1, w, L, Now')
  <2>1. (i + 1) - 11 = j + 1
    OBVIOUS
  <2>. QED BY <1>4, <2>1 DEF Leaving
<1>6. esp.top >= L.top
  <2>1. SavedBy[j] \in 5 .. 17 /\ esp.top = L.top + SavedBy[j]
    BY <1>2, Tables, NowIs DEF Saving
  <2>. QED BY <1>1, <2>1
<1>7. Agrees(w, L.top)
  BY <1>1, <1>4, <1>6, AgreesBelow
<1>8. eip' = Tls(i + 1) /\ i \in 1 .. 16
  BY <1>4, AtTls DEF Departs
<1>. QED BY <1>4, <1>5, <1>7, <1>8, DepartsOn

\* The stack pointer is saved: the stack is one that waits already.
LEMMA ParkedHere ==
    ASSUME NEW i \in 17 .. 20, Departs(i)
    PROVE  /\ esp = [stack |-> esp.stack, top |-> Base.top + 17] /\ Saved(This, Base, 17)
           /\ Parked(esp.stack, This, left[esp.stack], esp)
<1>1. /\ Leaving(i, This, Base, Now) /\ Size \in 1 .. Nested + 1 /\ Base.top \in Nat
      /\ esp.top <= Len(This)
  <2>1. i \in 1 .. 20
    OBVIOUS
  <2>. QED BY <2>1, DepartsHere, Zenon
<1>2. esp = [stack |-> esp.stack, top |-> esp.top]
  BY Here DEF Departs
<1>3. esp.top = Base.top + 17 /\ Saved(This, Base, 17)
  <2>1. CASE i = 17
    <3>1. Saving(6, This, Base, Now)
      BY <1>1, <2>1 DEF Leaving
    <3>. QED BY <3>1, Tables, NowIs DEF Saving
  <2>2. CASE i \in 18 .. 20
    BY <1>1, <2>2, NowIs DEF Leaving
  <2>. QED BY <2>1, <2>2
<1>4. Size <= Nested + 1 /\ Bottom(This, Size)
  <2>1. Size # 0 /\ Size <= Nested + 1
    BY <1>1
  <2>. QED BY <2>1 DEF Bottom
<1>5. esp = [stack |-> esp.stack, top |-> Base.top + 17] /\ Base.top + 17 <= Len(This)
  BY <1>1, <1>2, <1>3, Zenon
<1>. QED BY <1>3, <1>4, <1>5, Zenon DEF Parked, Base, Size

\* Between the two stacks every thread's waits.
LEMMA SavesOn ==
    ASSUME IInv, NEW i \in {18, 19, 20, 30}, eip' = Tls(i),
           UNCHANGED <<mem, left, esp, ints, kernel, raised>>,
           reg' \in [Registers -> Words], tcb' \in [Threads -> Pointers], current_thread' \in Stacks,
           AtSwitch(i, esp.stack, This, Base, Size, Now'),
           \A t \in Threads : Parked(t, mem[t], left[t], tcb'[t]), CurrentSound'
    PROVE  IInv'
<1>1. Typed /\ StacksSound
  BY DEF IInv
<1>2. Typed'
  <2>1. eip' \in Words
    BY DEF Tls, Words, Names
  <2>. QED BY <1>1, <2>1, Zenon DEF Typed
<1>3. StacksSound'
  BY <1>1, Zenon DEF StacksSound
<1>4. ParkedSound'
  BY Zenon DEF ParkedSound
<1>5. PlacedSound'
  <2>1. Now'.eip = Tls(i) /\ i \in 1 .. 37 /\ Now'.top = esp.top
    BY NowBecomes
  <2>2. Position(esp.stack, This, Base, Size, Now')
    BY <2>1, OnSwitch, Zenon
  <2>3. Told(This, Base, Now'.eip, raised)
    <3>1. \A l \in Labels, k \in 1 .. 8 : Tls(i) # <<l, k>>
      BY DEF Tls, Labels
    <3>2. Tls(i) # <<"dispatch", 1>>
      BY DEF Tls
    <3>. QED BY <2>1, <3>1, <3>2, Zenon DEF Told
  <2>4. Now'.top <= Len(This) /\ Now'.eip \notin InC
    <3>1. Tls(i) \notin InC
      BY DEF Tls, InC
    <3>. QED BY <2>1, <3>1, Here, Zenon
  <2>5. Placed(esp.stack, This, left[esp.stack], Now', raised)
    BY <2>2, <2>3, <2>4, Zenon DEF Placed, Base, Size
  <2>. QED BY <2>5, Zenon DEF PlacedSound, This
<1>. QED BY <1>2, <1>3, <1>4, <1>5, Zenon DEF IInv

\* esp is stored in the control block: the stack is parked from here on.
LEMMA Departs17 == ASSUME Departs(17) PROVE IInv'
<1>1. /\ esp = [stack |-> esp.stack, top |-> Base.top + 17] /\ Saved(This, Base, 17)
      /\ Parked(esp.stack, This, left[esp.stack], esp)
  BY ParkedHere
<1>2. /\ esp.stack # Main /\ Size \in 1 .. Nested + 1 /\ Base.top >= 1 /\ This[Base.top] \in Named
  BY DepartsHere
<1>3. IInv /\ Typed /\ ParkedSound /\ current_thread = esp.stack /\ esp.stack \in Threads
  <2>1. eip \notin {Tls(20), Tls(30)}
    BY TlsDiffer DEF Departs
  <2>2. IInv /\ Typed /\ ParkedSound /\ esp.stack \in Stacks
    BY Here DEF Departs, IInv
  <2>. QED BY <1>2, <2>1, <2>2, CurrentHere DEF Stacks
<1>4. save_esp
  <2>1. It = Op("save_esp")
    BY AtTls, SwitchCode DEF Departs
  <2>. QED BY <2>1, OpSteps, Zenon DEF Departs
<1>5. /\ tcb' = [tcb EXCEPT ![esp.stack] = esp] /\ reg' = [reg EXCEPT !["eax"] = Thread(esp.stack)]
      /\ UNCHANGED <<mem, left, esp, ints, kernel, raised, current_thread>>
  BY <1>3, <1>4 DEF save_esp, Same
<1>6. eip' = Tls(18)
  <2>1. eip' = Next1
    BY <1>4 DEF save_esp
  <2>. QED BY <2>1, AtTls DEF Departs
<1>7. reg' \in [Registers -> Words] /\ tcb' \in [Threads -> Pointers]
  <2>1. Thread(esp.stack) \in Words
    <3>1. esp.stack \in Nat
      BY <1>3, ThreadsAssumption DEF Threads
    <3>. QED BY <3>1, WordTypes
  <2>2. reg' \in [Registers -> Words]
    BY <1>3, <1>5, <2>1 DEF Typed
  <2>3. tcb' \in [Threads -> Pointers]
    BY <1>3, <1>5 DEF Typed
  <2>. QED BY <2>2, <2>3
<1>8. Leaving(18, This, Base, Now')
  <2>1. Now'.top = Base.top + 17
    BY <1>1, <1>5, NowBecomes
  <2>. QED BY <1>1, <2>1 DEF Leaving
<1>9. AtSwitch(18, esp.stack, This, Base, Size, Now')
  BY <1>2, <1>8 DEF AtSwitch
<1>10. ASSUME NEW t \in Threads PROVE Parked(t, mem[t], left[t], tcb'[t])
  <2>1. CASE t = esp.stack
    <3>1. tcb'[t] = esp
      BY <1>3, <1>5, <2>1 DEF Typed
    <3>. QED BY <1>1, <2>1, <3>1, Zenon DEF This
  <2>2. CASE t # esp.stack
    <3>1. tcb'[t] = tcb[t]
      BY <1>3, <1>5, <2>2 DEF Typed
    <3>. QED BY <1>3, <2>2, <3>1, Zenon DEF ParkedSound
  <2>. QED BY <2>1, <2>2
<1>11. CurrentSound'
  <2>1. eip' \notin {Tls(20), Tls(30)}
    BY <1>6, TlsDiffer
  <2>. QED BY <1>3, <1>5, <2>1 DEF CurrentSound
<1>12. current_thread' \in Stacks
  BY <1>3, <1>5 DEF Typed
<1>. QED BY <1>3, <1>5, <1>6, <1>7, <1>9, <1>10, <1>11, <1>12, SavesOn, Zenon

\* The new thread is loaded from the parked stack, into a register that has
\* been saved.
LEMMA Departs18 == ASSUME Departs(18) PROVE IInv'
<1>1. /\ esp = [stack |-> esp.stack, top |-> Base.top + 17] /\ Saved(This, Base, 17)
  BY ParkedHere
<1>2. /\ esp.stack # Main /\ Size \in 1 .. Nested + 1 /\ Base.top >= 1 /\ This[Base.top] \in Named
      /\ Base.top \in Nat /\ This \in Seq(Words) /\ esp.top <= Len(This)
  BY DepartsHere
<1>3. IInv /\ Typed /\ ParkedSound /\ current_thread = esp.stack
  <2>1. eip \notin {Tls(20), Tls(30)}
    BY TlsDiffer DEF Departs
  <2>2. IInv /\ Typed /\ ParkedSound
    BY DEF Departs, IInv
  <2>. QED BY <2>1, <2>2, CurrentHere
<1>4. move /\ It.op = "load" /\ It.r = "eax" /\ It.n = 17
  BY AtTls, SwitchCode, LoadStep DEF Departs
<1>5. "eax" \in Registers /\ esp.top - 17 \in 1 .. Len(This) /\ esp.top - 17 = Base.top
  <2>1. esp.top = Base.top + 17
    BY <1>1
  <2>. QED BY <1>2, <2>1, RegistersAre
<1>6. reg' = [reg EXCEPT !["eax"] = This[Base.top]]
  BY <1>3, <1>4, <1>5, LoadDoes
<1>7. /\ UNCHANGED <<mem, left, esp, ints, kernel, raised, current_thread, tcb>>
      /\ eip' = Tls(19)
  <2>1. UNCHANGED <<mem, left, esp, ints, kernel, raised, current_thread, tcb>> /\ eip' = Next1
    BY <1>4 DEF move, Same
  <2>. QED BY <2>1, AtTls DEF Departs
<1>8. reg' \in [Registers -> Words] /\ reg'["eax"] \in Named
  <2>1. This[Base.top] \in Words
    BY <1>2, <1>5
  <2>. QED BY <1>2, <1>3, <1>5, <1>6, <2>1 DEF Typed
<1>9. Leaving(19, This, Base, Now')
  <2>1. Now'.top = Base.top + 17 /\ Now'.reg["eax"] \in Named
    BY <1>1, <1>7, <1>8, NowBecomes
  <2>. QED BY <1>1, <2>1 DEF Leaving
<1>10. AtSwitch(19, esp.stack, This, Base, Size, Now')
  BY <1>2, <1>9 DEF AtSwitch
<1>11. \A t \in Threads : Parked(t, mem[t], left[t], tcb'[t])
  BY <1>3, <1>7 DEF ParkedSound, Departs
<1>12. CurrentSound'
  <2>1. eip' \notin {Tls(20), Tls(30)}
    BY <1>7, TlsDiffer
  <2>. QED BY <1>3, <1>7, <2>1 DEF CurrentSound
<1>13. current_thread' \in Stacks /\ tcb' \in [Threads -> Pointers]
  BY <1>3, <1>7 DEF Typed
<1>. QED BY <1>3, <1>7, <1>8, <1>10, <1>11, <1>12, <1>13, SavesOn, Zenon

\* make_current, in either half of the switch: the thread in eax is the current one.
LEMMA MakesCurrent ==
    ASSUME IInv, make_current, NEW i \in {19, 29}, eip = Tls(i), reg["eax"] \in Named
    PROVE  /\ reg' = reg /\ reg["eax"] = Thread(current_thread') /\ current_thread' \in Threads
           /\ UNCHANGED <<mem, left, esp, ints, kernel, raised, tcb>>
           /\ eip' = Tls(i + 1) /\ CurrentSound'
<1>1. PICK t \in Threads : reg["eax"] = Thread(t)
  BY DEF Named
<1>2. current_thread' = t /\ eip' = Next1
  BY <1>1 DEF make_current, Thread
<1>3. reg' = reg /\ UNCHANGED <<mem, left, esp, ints, kernel, raised, tcb>>
  BY DEF make_current, Same
<1>4. eip' = Tls(i + 1) /\ i + 1 \in {20, 30}
  BY <1>2, AtTls
<1>5. t # Main
  BY DEF Threads, Main
<1>6. CurrentSound'
  BY <1>1, <1>2, <1>3, <1>4, <1>5 DEF CurrentSound
<1>. QED BY <1>1, <1>2, <1>3, <1>4, <1>6

\* The new thread becomes the current one.
LEMMA Departs19 == ASSUME Departs(19) PROVE IInv'
<1>1. esp.top = Base.top + 17 /\ Saved(This, Base, 17)
  BY ParkedHere
<1>2. /\ esp.stack # Main /\ Size \in 1 .. Nested + 1 /\ Base.top >= 1 /\ This[Base.top] \in Named
      /\ Leaving(19, This, Base, Now)
  BY DepartsHere
<1>3. IInv /\ Typed /\ ParkedSound /\ eip = Tls(19)
  BY DEF Departs, IInv
<1>4. reg["eax"] \in Named
  BY <1>2, NowIs DEF Leaving
<1>5. make_current
  <2>1. It = Op("make_current")
    BY AtTls, SwitchCode DEF Departs
  <2>. QED BY <2>1, OpSteps, Zenon DEF Departs
<1>6. /\ reg' = reg /\ current_thread' \in Threads
      /\ UNCHANGED <<mem, left, esp, ints, kernel, raised, tcb>>
      /\ eip' = Tls(20) /\ CurrentSound'
  BY <1>3, <1>4, <1>5, MakesCurrent
<1>7. Leaving(20, This, Base, Now')
  <2>1. Now'.top = Base.top + 17 /\ Now'.reg["eax"] \in Named
    BY <1>1, <1>4, <1>6, NowBecomes
  <2>. QED BY <1>1, <2>1 DEF Leaving
<1>8. AtSwitch(20, esp.stack, This, Base, Size, Now')
  BY <1>2, <1>7 DEF AtSwitch
<1>9. \A t \in Threads : Parked(t, mem[t], left[t], tcb'[t])
  BY <1>3, <1>6 DEF ParkedSound
<1>10. current_thread' \in Stacks /\ tcb' \in [Threads -> Pointers] /\ reg' \in [Registers -> Words]
  BY <1>3, <1>6 DEF Typed, Stacks
<1>. QED BY <1>3, <1>6, <1>8, <1>9, <1>10, SavesOn, Zenon

-----------------------------------------------------------------------------
(* The stack changes, and the context at its top is restored.               *)
LEMMA TakesOver ==
    ASSUME IInv, Step, NEW i \in {20, 30}, eip = Tls(i),
           \A t \in Threads : Parked(t, mem[t], left[t], tcb[t])
    PROVE  IInv'
<1> DEFINE u == current_thread
           l == left[u]
           n == Len(l)
           L == Context(l, n)
<1>1. Typed /\ StacksSound /\ CurrentSound
  BY DEF IInv
<1>2. u \in Threads /\ u \in Stacks /\ u # Main /\ reg["eax"] = Thread(u)
  BY <1>1 DEF CurrentSound, Typed, Stacks
<1>3. load_esp
  <2>1. It = Op("load_esp")
    BY AtTls, SwitchCode
  <2>. QED BY <2>1, OpSteps, Zenon
<1>4. /\ esp' = tcb[u] /\ eip' = Tls(i + 1)
      /\ UNCHANGED <<reg, ints, tcb, current_thread, raised, kernel>>
  <2>1. reg["eax"][2] = u
    BY <1>2 DEF Thread
  <2>2. esp' = tcb[u] /\ eip' = Next1
    BY <1>3, <2>1 DEF load_esp
  <2>3. UNCHANGED <<reg, ints, tcb, current_thread, raised, kernel>>
    BY <1>3 DEF load_esp, Same
  <2>. QED BY <2>2, <2>3, AtTls
<1>11. /\ mem' \in [Stacks -> Seq(Words)] /\ left' \in [Stacks -> Seq(Contexts)]
       /\ \A s \in Stacks : \/ mem'[s] = mem[s] /\ left'[s] = left[s]
                            \/ s = Main /\ left'[s] = <<>>
  <2>1. /\ mem'  = [s \in Stacks |-> IF s \in Forgotten THEN <<>> ELSE mem[s]]
        /\ left' = [s \in Stacks |-> IF s \in Forgotten THEN <<>> ELSE left[s]]
    BY <1>3 DEF load_esp
  <2>2. Forgotten \subseteq {Main}
    BY DEF Forgotten
  <2>3. mem \in [Stacks -> Seq(Words)] /\ left \in [Stacks -> Seq(Contexts)]
    BY <1>1 DEF Typed
  <2>4. <<>> \in Seq(Words) /\ <<>> \in Seq(Contexts)
    OBVIOUS
  <2> HIDE DEF l, n, L, u
  <2>. QED BY <2>1, <2>2, <2>3, <2>4, Zenon
<1>12. \A t \in Threads : mem'[t] = mem[t] /\ left'[t] = left[t]
  <2>1. \A t \in Threads : t \in Stacks /\ t # Main
    BY DEF Stacks, Threads, Main
  <2>. QED BY <1>11, <2>1
<1>5. /\ tcb[u] = [stack |-> u, top |-> L.top + 17] /\ L.top + 17 <= Len(mem[u])
      /\ n <= Nested + 1 /\ Bottom(mem[u], n) /\ Saved(mem[u], L, 17)
  BY <1>2, Zenon DEF Parked
<1>6. l \in Seq(Contexts) /\ n \in Nat
  BY <1>1, <1>2 DEF Typed
<1>7. Typed'
  <2>1. eip' \in Words
    BY <1>4 DEF Tls, Words, Names
  <2>2. esp' \in Pointers
    BY <1>1, <1>2, <1>4 DEF Typed
  <2>. QED BY <1>1, <1>4, <1>11, <2>1, <2>2, Zenon DEF Typed
<1>8. StacksSound' /\ ParkedSound'
  <2>1. ASSUME NEW s \in Stacks PROVE Kept(s, mem'[s], left'[s])
    <3>1. CASE mem'[s] = mem[s] /\ left'[s] = left[s]
      BY <1>1, <3>1, Zenon DEF StacksSound
    <3>2. CASE left'[s] = <<>>
      <4>1. Kept(s, mem'[s], <<>>)
        BY DEF Kept
      <4>. QED BY <3>2, <4>1
    <3>. QED BY <1>11, <3>1, <3>2
  <2>2. \A t \in Threads : Parked(t, mem'[t], left'[t], tcb'[t])
    BY <1>4, <1>12
  <2>. QED BY <2>1, <2>2, Zenon DEF StacksSound, ParkedSound
<1>9. CurrentSound'
  <2>1. esp'.stack = u
    BY <1>4, <1>5
  <2>2. eip' \notin {Tls(20), Tls(30)}
    BY <1>4, TlsDiffer
  <2>. QED BY <1>4, <2>1, <2>2 DEF CurrentSound
<1> HIDE DEF n, L
<1>10. PlacedSound'
  <2>1. Now'.eip = Tls(i + 1) /\ i + 1 \in {21, 31} /\ Now'.top = L.top + 17
    BY <1>4, <1>5, NowBecomes
  <2>2. Loading(1, mem[u], L, Now')
    BY <1>5, <2>1, Tables DEF Loading, Live
  <2>3. AtSwitch(i + 1, u, mem[u], L, n, Now')
    <3>1. n \in 0 .. Nested + 1
      BY <1>5, <1>6, BoundsAssumption
    <3>2. Bottom(mem[u], n)
      BY <1>5
    <3>. QED BY <1>2, <2>1, <2>2, <3>1, <3>2 DEF AtSwitch
  <2>4. Position(u, mem[u], L, n, Now')
    <3>1. i + 1 \in 1 .. 37
      BY <2>1
    <3>. QED BY <2>1, <2>3, <3>1, OnSwitch, Zenon
  <2>5. Told(mem[u], L, Now'.eip, raised)
    <3>1. \A k \in Labels, j \in 1 .. 8 : Tls(i + 1) # <<k, j>>
      BY DEF Tls, Labels
    <3>2. Tls(i + 1) # <<"dispatch", 1>>
      BY DEF Tls
    <3>. QED BY <2>1, <3>1, <3>2, Zenon DEF Told
  <2>6. Now'.top <= Len(mem[u]) /\ Now'.eip \notin InC
    <3>1. Tls(i + 1) \notin InC
      BY DEF Tls, InC
    <3>. QED BY <1>5, <2>1, <3>1
  <2>7. Placed(u, mem[u], left[u], Now', raised)
    BY <2>4, <2>5, <2>6, Zenon DEF Placed, n, L
  <2>8. esp'.stack = u
    BY <1>4, <1>5
  <2>9. mem'[u] = mem[u] /\ left'[u] = left[u]
    BY <1>2, <1>12
  <2>. QED BY <1>4, <2>7, <2>8, <2>9, Zenon DEF PlacedSound
<1>. QED BY <1>7, <1>8, <1>9, <1>10, Zenon DEF IInv

\* The top of a thread's stack, the words of the contexts below it included,
\* is above the last of them.
LEMMA SparesThis == Spares(This)
BY DEF Spares

\* The registers are popped, group by group.
LEMMA RestoresOn ==
    ASSUME IInv, Step, NEW i \in 21 .. 26 \cup 31 .. 36, eip = Tls(i)
    PROVE  IInv'
<1> DEFINE j == IF i <= 27 THEN i - 20 ELSE i - 30
           k == i + 1
<1>1. AtSwitch(i, esp.stack, This, Base, Size, Now)
  BY SwitchHere
<1>2. /\ Size \in 0 .. Nested + 1 /\ esp.stack # Main /\ Loading(j, This, Base, Now) /\ Bottom(This, Size)
  BY <1>1 DEF AtSwitch
<1>3. j \in 1 .. 6 /\ It = restore_registers[j]
  <2>1. It = threads_low_switch_to[i]
    BY AtTls
  <2>2. CASE i \in 21 .. 26
    <3>1. j \in 1 .. 6 /\ i = j + 20
      BY <2>2
    <3> HIDE DEF j
    <3>. QED BY <2>1, <3>1, SwitchCode
  <2>3. CASE i \in 31 .. 36
    <3>1. j \in 1 .. 6 /\ i = j + 30
      BY <2>3
    <3> HIDE DEF j
    <3>. QED BY <2>1, <3>1, SwitchCode
  <2>. QED BY <2>2, <2>3
<1>4. /\ k \in (1 .. 37) \ {18, 19, 20, 30} /\ k \in 21 .. 27 \cup 31 .. 37
      /\ j + 1 = IF k <= 27 THEN k - 20 ELSE k - 30
  OBVIOUS
<1> HIDE DEF j
<1>5. Runs(This, Now'.top) /\ eip' = Next1 /\ Loading(j + 1, This, Base, Now')
  BY <1>2, <1>3, LoadingStep, Zenon
<1>6. eip' = Tls(k)
  BY <1>5, AtTls
<1> HIDE DEF k
<1>7. AtSwitch(k, esp.stack, This, Base, Size, Now')
  BY <1>2, <1>4, <1>5 DEF AtSwitch
<1>8. eip \notin {Tls(20), Tls(30)}
  BY TlsDiffer
<1>. QED BY <1>4, <1>5, <1>6, <1>7, <1>8, SparesThis, StaysOnSwitch, Zenon DEF Runs

-----------------------------------------------------------------------------
(* main() starts the first thread.                                          *)
LEMMA StartsHere ==
    ASSUME IInv, NEW i \in {1, 28, 29, 30}, eip = Tls(i), esp.stack = Main
    PROVE  /\ esp.top = Base.top + 1 /\ Base.top \in Nat /\ Base.top >= 1 /\ This[Base.top] \in Named
           /\ This \in Seq(Words) /\ esp.top <= Len(This) /\ Size \in 1 .. Nested + 1
           /\ i \in {29, 30} => reg["eax"] \in Named
<1>1. AtSwitch(i, esp.stack, This, Base, Size, Now)
  BY SwitchHere
<1>2. /\ Now.top = Base.top + 1 /\ Base.top >= 1 /\ This[Base.top] \in Named
      /\ Size \in 1 .. Nested + 1
      /\ i \in {29, 30} => Now.reg["eax"] \in Named
  BY <1>1 DEF AtSwitch
<1>3. This \in Seq(Words) /\ esp.top <= Len(This) /\ Base.top \in Nat
  BY Here, Zenon
<1>. QED BY <1>2, <1>3, NowIs

\* A step to the next instruction, on main()'s stack.
LEMMA StartsOn ==
    ASSUME IInv, eip \notin {Tls(20), Tls(30)}, esp.stack = Main, Runs(This, Base.top + 1),
           Base.top >= 1, This[Base.top] \in Named, Size \in 1 .. Nested + 1,
           NEW i \in {28, 29}, eip' = Tls(i), i = 29 => reg'["eax"] \in Named
    PROVE  IInv'
<1>1. AtSwitch(i, esp.stack, This, Base, Size, Now')
  BY NowBecomes DEF AtSwitch, Runs
<1>2. i \in (1 .. 37) \ {18, 19, 20, 30}
  OBVIOUS
<1>. QED BY <1>1, <1>2, SparesThis, StaysOnSwitch, Zenon DEF Runs

\* The jump if there was no thread is taken.
LEMMA Starts1 ==
    ASSUME IInv, Step, eip = Tls(1), esp.stack = Main PROVE IInv'
<1>1. /\ esp.top = Base.top + 1 /\ Base.top >= 1 /\ This[Base.top] \in Named
      /\ Size \in 1 .. Nested + 1
  BY StartsHere
<1>2. eip \notin {Tls(20), Tls(30)}
  BY TlsDiffer
<1>3. current_thread = 0
  BY <1>1, <1>2, CurrentHere DEF Main
<1>4. je
  <2>1. It = Op("je")
    BY AtTls, SwitchCode
  <2>. QED BY <2>1, OpSteps, Zenon
<1>5. Runs(This, esp.top) /\ eip' = Tls(28)
  BY <1>3, <1>4, JeDoes
<1>. QED BY <1>1, <1>2, <1>5, StartsOn

\* The first thread is loaded.
LEMMA Starts28 ==
    ASSUME IInv, Step, eip = Tls(28), esp.stack = Main PROVE IInv'
<1>1. /\ esp.top = Base.top + 1 /\ Base.top \in Nat /\ Base.top >= 1 /\ This[Base.top] \in Named
      /\ esp.top <= Len(This) /\ This \in Seq(Words) /\ Size \in 1 .. Nested + 1
  BY StartsHere
<1>2. eip \notin {Tls(20), Tls(30)}
  BY TlsDiffer
<1>3. move /\ It.op = "load" /\ It.r = "eax" /\ It.n = 1
  BY AtTls, SwitchCode, LoadStep
<1>4. "eax" \in Registers /\ esp.top - 1 = Base.top /\ esp.top - 1 \in 1 .. Len(This)
  BY <1>1, RegistersAre
<1>5. Runs(This, esp.top) /\ eip' = Next1 /\ reg' = [reg EXCEPT !["eax"] = This[Base.top]]
  BY <1>3, <1>4, LoadDoes
<1>6. reg'["eax"] \in Named
  BY <1>1, <1>4, <1>5 DEF IInv, Typed
<1>7. eip' = Tls(29)
  BY <1>5, AtTls
<1>. QED BY <1>1, <1>2, <1>5, <1>6, <1>7, StartsOn

\* It becomes the current one.
LEMMA Starts29 ==
    ASSUME IInv, Step, eip = Tls(29), esp.stack = Main PROVE IInv'
<1>1. /\ esp.top = Base.top + 1 /\ Base.top >= 1 /\ This[Base.top] \in Named /\ reg["eax"] \in Named
      /\ Size \in 1 .. Nested + 1
  BY StartsHere
<1>2. make_current
  <2>1. It = Op("make_current")
    BY AtTls, SwitchCode
  <2>. QED BY <2>1, OpSteps, Zenon
<1>3. /\ reg' = reg /\ current_thread' \in Threads
      /\ UNCHANGED <<mem, left, esp, ints, kernel, raised, tcb>>
      /\ eip' = Tls(30) /\ CurrentSound'
  BY <1>1, <1>2, MakesCurrent
<1>4. AtSwitch(30, esp.stack, This, Base, Size, Now')
  <2>1. Now'.top = Base.top + 1 /\ Now'.reg["eax"] \in Named
    BY <1>1, <1>3, NowBecomes
  <2>. QED BY <1>1, <2>1 DEF AtSwitch
<1>5. Typed /\ ParkedSound
  BY DEF IInv
<1>6. \A t \in Threads : Parked(t, mem[t], left[t], tcb'[t])
  <2>1. \A t \in Threads : t # Main
    BY DEF Threads, Main
  <2>. QED BY <1>1, <1>3, <1>5, <2>1, Zenon DEF ParkedSound
<1>7. current_thread' \in Stacks /\ tcb' \in [Threads -> Pointers] /\ reg' \in [Registers -> Words]
  BY <1>3, <1>5 DEF Typed, Stacks
<1>. QED BY <1>3, <1>4, <1>6, <1>7, SavesOn, Zenon

-----------------------------------------------------------------------------
(* iret.                                                                    *)

\* An iret that finds the last words of a context is the return to it.
LEMMA IretDoes ==
    ASSUME IInv, iret, Loading(7, This, Base, Now)
    PROVE  /\ Now' = Base /\ esp' = [stack |-> esp.stack, top |-> Base.top]
           /\ mem' = [mem EXCEPT ![esp.stack] = SubSeq(This, 1, Base.top)]
           /\ left' = IF Size = 0 THEN left ELSE [left EXCEPT ![esp.stack] = Front(left[esp.stack])]
           /\ esp.top = Base.top + 3 /\ Base.top + 3 <= Len(This) /\ Base.top \in Nat
           /\ UNCHANGED <<kernel, tcb, current_thread, raised>>
<1> DEFINE L == Base
<1>1. /\ L \in Contexts /\ L.top \in Nat /\ esp.top \in Nat /\ This \in Seq(Words) /\ esp.top <= Len(This)
      /\ left[esp.stack] \in Seq(Contexts) /\ esp = [stack |-> esp.stack, top |-> esp.top]
  BY Here, Zenon
<1>2. esp.top = L.top + 3 /\ reg = L.reg /\ ForIret(This, L)
  <2>1. LeftBy[7] = 3
    BY Tables
  <2>. QED BY <2>1, NowIs DEF Loading, Live, Saved
<1>3. /\ Below(0) = L.eip /\ Below(2) = Flags(L.ints)
  <2>1. Below(0) = This[esp.top] /\ Below(2) = This[esp.top - 2]
    BY <1>1, <1>2 DEF Below, This
  <2>2. esp.top - 2 = L.top + 1
    BY <1>1, <1>2
  <2>. QED BY <1>2, <2>1, <2>2 DEF ForIret
<1>4. L.ints \in BOOLEAN
  BY <1>1 DEF Contexts
<1>5. ints' = L.ints
  <2>1. ints' = (Flags(L.ints) = Flags(TRUE))
    BY <1>3 DEF iret
  <2>. QED BY <1>4, <2>1, FlagsDiffer
<1>6. eip' = L.eip /\ reg' = L.reg /\ esp' = [stack |-> esp.stack, top |-> L.top]
  <2>1. esp' = [esp EXCEPT !.top = esp.top + (-3)]
    BY DEF iret, Down
  <2>2. esp.top + (-3) = L.top
    BY <1>1, <1>2
  <2>3. esp' = [stack |-> esp.stack, top |-> L.top]
    BY <1>1, <2>1, <2>2
  <2>. QED BY <1>2, <1>3, <2>3 DEF iret
<1>7. Now' = L
  <2>1. Now' = [reg |-> L.reg, ints |-> L.ints, eip |-> L.eip, top |-> L.top]
    BY <1>5, <1>6 DEF Now, Snapshot
  <2>2. \A c \in Contexts : c = [reg |-> c.reg, ints |-> c.ints, eip |-> c.eip, top |-> c.top]
    BY DEF Contexts
  <2>. QED BY <1>1, <2>1, <2>2, Zenon
<1>8. mem' = [mem EXCEPT ![esp.stack] = SubSeq(This, 1, L.top)]
  <2>1. esp.top - 3 = L.top
    BY <1>1, <1>2
  <2>. QED BY <2>1 DEF iret, This
<1>9. left' = IF Size = 0 THEN left ELSE [left EXCEPT ![esp.stack] = Front(left[esp.stack])]
  <2>1. left[esp.stack] = <<>> <=> Size = 0
    BY <1>1, EmptySeq DEF Size
  <2>. QED BY <2>1 DEF iret
<1>. QED BY <1>1, <1>2, <1>6, <1>7, <1>8, <1>9 DEF iret, Same

\* Where no stack is ever left.
LEMMA RestsWhere ==
    ASSUME NEW p, Rests(p)
    PROVE  /\ p \notin {Tls(18), Tls(19), Tls(20), Tls(30)} /\ p # <<"dispatch", 1>>
           /\ \A l \in Labels, k \in 1 .. 16 : p # <<l, k>>
<1>1. CASE \E i \in (1 .. 37) \ Fatal : p = Tls(i)
  <2>1. PICK i \in (1 .. 37) \ Fatal : p = Tls(i)
    BY <1>1
  <2>2. i \notin {18, 19, 20, 30} /\ i \in Nat
    BY DEF Fatal
  <2>3. \A k \in {18, 19, 20, 30} : Tls(i) # Tls(k)
    BY <2>2, TlsDiffer
  <2>. QED BY <2>1, <2>3 DEF Tls, Labels
<1>2. CASE p \in InC /\ p # <<"dispatch", 1>>
  BY <1>2 DEF InC, Tls, Labels
<1>. QED BY <1>1, <1>2 DEF Rests, InC

\* iret takes the last context off its stack, or starts the thread, and what it
\* returns to is sound.
LEMMA IretKeeps ==
    ASSUME IInv, iret, Loading(7, This, Base, Now), eip \notin {Tls(20), Tls(30)},
           Size = 0 => Bottom(This, 0) /\ esp.stack # Main
    PROVE  IInv'
<1> DEFINE s == esp.stack
           l == left[s]
           w == SubSeq(This, 1, Base.top)
           m == IF Size = 0 THEN l ELSE Front(l)
<1>1. /\ Now' = Base /\ esp' = [stack |-> s, top |-> Base.top]
      /\ mem' = [mem EXCEPT ![s] = w] /\ left' = IF Size = 0 THEN left ELSE [left EXCEPT ![s] = Front(l)]
      /\ Base.top + 3 <= Len(This) /\ Base.top \in Nat
      /\ UNCHANGED <<kernel, tcb, current_thread, raised>>
  BY IretDoes, Zenon
<1>2. /\ s \in Stacks /\ This \in Seq(Words) /\ l \in Seq(Contexts) /\ Size \in Nat /\ Size = Len(l)
      /\ Base \in Contexts /\ (Size = 0 => Base = Starts) /\ (Size # 0 => Base = l[Size])
      /\ Kept(s, This, l)
  BY Here, Zenon DEF Size
<1>3. w \in Seq(Words) /\ Len(w) = Base.top /\ \A j \in 1 .. Base.top : w[j] = This[j]
  BY <1>1, <1>2, PrefixDoes
<1>4. left' = [left EXCEPT ![s] = m]
  <2>1. left = [left EXCEPT ![s] = l]
    BY <1>2 DEF IInv, Typed
  <2>. QED BY <1>1, <2>1
<1>5. raised' \in Nat \X Words
  BY <1>1 DEF IInv, Typed
<1> HIDE DEF w
<1>6. CASE Size # 0
  <2>1. /\ m \in Seq(Contexts) /\ Len(m) = Size - 1 /\ Kept(s, This, m)
        /\ \A k \in 0 .. Size - 1 : Context(m, k) = Context(l, k)
    <3>1. l # <<>>
      BY <1>2, <1>6
    <3>. QED BY <1>2, <1>6, <3>1, KeptFront, Zenon
  <2>2. Size \in 1 .. Len(l) /\ Size - 1 \in Nat /\ Size - 1 \in 0 .. Len(l) /\ Size - 1 \in 0 .. Size - 1
    BY <1>2, <1>6
  <2>3. /\ Rests(Base.eip) /\ Position(s, This, Context(l, Size - 1), Size - 1, Base)
        /\ \A j \in 1 .. Size : l[j].top <= Base.top
    BY <1>2, <1>6, <2>2, Zenon DEF Kept
  <2>4. \A k \in 1 .. Len(m) : m[k] = l[k]
    <3>1. ASSUME NEW k \in 1 .. Len(m) PROVE k \in 0 .. Size - 1 /\ k # 0
      BY <1>2, <2>1
    <3>. QED BY <2>1, <3>1, Zenon DEF Context
  <2> HIDE DEF m, l
  <2>5. Kept(s, w, m)
    <3>1. ASSUME NEW i \in Nat, i >= 1, NEW k \in 1 .. Len(m), i <= m[k].top
          PROVE  w[i] = This[i]
      <4>1. k \in 1 .. Size /\ m[k] = l[k] /\ m[k] \in Contexts
        BY <1>2, <2>1, <2>4
      <4>2. m[k].top <= Base.top /\ m[k].top \in Nat
        BY <2>3, <4>1, TopType
      <4>3. i \in 1 .. Base.top
        BY <1>1, <3>1, <4>2
      <4>. QED BY <1>3, <4>3, Zenon
    <3>. QED BY <1>2, <2>1, <3>1, KeptWords
  <2>6. Position(s, w, Context(m, Size - 1), Size - 1, Base)
    <3>1. Context(l, Size - 1) \in Contexts
      BY <1>2, <2>2, ContextType
    <3>2. Position(s, w, Context(l, Size - 1), Size - 1, Base)
      BY <1>2, <1>3, <2>2, <2>3, <3>1, PositionWords, Zenon
    <3>. QED BY <2>1, <2>2, <3>2, Zenon
  <2>7. /\ eip' = Base.eip /\ esp'.top = Base.top
    BY <1>1, NowBecomes
  <2>8. Placed(s, w, m, Now', raised')
    <3>1. Told(w, Context(m, Size - 1), Base.eip, raised')
      <4>1. \A k \in Labels, j \in 1 .. 8 : Base.eip # <<k, j>>
        <5>1. \A j \in 1 .. 8 : j \in 1 .. 16
          OBVIOUS
        <5>. QED BY <2>3, <5>1, RestsWhere, Zenon
      <4>2. Base.eip # <<"dispatch", 1>>
        BY <2>3, RestsWhere, Zenon
      <4>. QED BY <4>1, <4>2, Zenon DEF Told
    <3>2. Base.top <= Len(w) /\ Base.top = Len(w)
      BY <1>1, <1>3
    <3>. QED BY <1>1, <2>1, <2>6, <3>1, <3>2, Zenon DEF Placed
  <2>9. Steps(w, m)
    BY <1>1, <1>2, <1>3, <1>4, <1>5, <2>1, Zenon DEF Steps
  <2>10. eip' \notin {Tls(18), Tls(19), Tls(20), Tls(30)}
    BY <2>3, <2>7, RestsWhere, Zenon
  <2>. QED BY <2>5, <2>8, <2>9, <2>10, StepKeeps, Zenon
<1>7. CASE Size = 0
  <2>1. /\ Base = Starts /\ Base.top = 3 /\ Base.eip = <<"thread_start", 1>> /\ ~Base.ints
    BY <1>2, <1>7 DEF Starts
  <2>2. w[1] = Zero /\ w[2] = <<"thread_shutdown", 1>> /\ w[3] = <<"function", 1>>
    BY <1>3, <1>7, <2>1 DEF Bottom
  <2>3. eip' = <<"thread_start", 1>> /\ esp'.top = 3 /\ Now' \in Contexts
    BY <1>1, <1>2, <2>1, NowBecomes
  <2>4. Position(s, w, Base, Size, Now')
    <3>1. Now'.eip = <<"thread_start", 1>> /\ Now'.top = 3 /\ ~Now'.ints
      BY <1>1, <2>1
    <3>2. AtC(<<"thread_start", 1>>, s, w, Base, Size, Now')
      BY <1>7, <2>2, <3>1 DEF AtC, AtBottom
    <3>3. Now'.eip \in InC
      BY <3>1 DEF InC
    <3>. QED BY <3>1, <3>2, <3>3, OnC, Zenon
  <2>5. Stays(w)
    <3>1. left' = left
      BY <1>1, <1>7
    <3>2. esp' = [stack |-> s, top |-> Now'.top] /\ Now'.top <= Len(w)
      BY <1>1, <1>3, <2>1
    <3>. QED BY <1>1, <1>3, <2>3, <3>1, <3>2 DEF Stays
  <2>6. Spares(w)
    BY <1>7 DEF Spares
  <2>7. Told(w, Base, eip', raised')
    <3>1. \A k \in Labels, j \in 1 .. 8 : eip' # <<k, j>>
      BY <2>3 DEF Labels
    <3>2. eip' # <<"dispatch", 1>>
      BY <2>3
    <3>. QED BY <3>1, <3>2, Zenon DEF Told
  <2>8. eip' \notin {Tls(18), Tls(19), Tls(20), Tls(30)}
    BY <2>3 DEF Tls
  <2>9. esp'.top = Len(w)
    BY <1>3, <2>1, <2>3
  <2>. QED BY <1>5, <2>4, <2>5, <2>6, <2>7, <2>8, <2>9, StaysKeeps, Zenon
<1>. QED BY <1>6, <1>7

\* At both iret of the switch a whole context is at the top.
LEMMA SwitchReturns ==
    ASSUME IInv, Step, NEW i \in {27, 37}, eip = Tls(i)
    PROVE  iret /\ Loading(7, This, Base, Now) /\ eip \notin {Tls(20), Tls(30)}
           /\ (Size = 0 => Bottom(This, 0) /\ esp.stack # Main)
<1>1. AtSwitch(i, esp.stack, This, Base, Size, Now)
  BY SwitchHere
<1>2. /\ esp.stack # Main /\ Loading(7, This, Base, Now) /\ Bottom(This, Size)
  BY <1>1 DEF AtSwitch
<1>3. iret
  <2>1. It = Op("iret")
    BY AtTls, SwitchCode
  <2>. QED BY <2>1, OpSteps, Zenon
<1>4. eip \notin {Tls(20), Tls(30)}
  BY TlsDiffer
<1>. QED BY <1>2, <1>3, <1>4

\* Every instruction of threads_low_switch_to keeps the invariant.
LEMMA SwitchKeeps == ASSUME IInv, Step, NEW i \in 1 .. 37, eip = Tls(i) PROVE IInv'
<1>1. AtSwitch(i, esp.stack, This, Base, Size, Now)
  BY SwitchHere
<1>2. CASE i \in 21 .. 27 \cup 31 .. 37
  <2>1. i \in {27, 37} \/ i \in 21 .. 26 \cup 31 .. 36
    BY <1>2
  <2>2. CASE i \in {27, 37}
    BY <2>2, SwitchReturns, IretKeeps, Zenon
  <2>3. CASE i \in 21 .. 26 \cup 31 .. 36
    BY <2>3, RestoresOn, Zenon
  <2>. QED BY <2>1, <2>2, <2>3
<1>3. CASE i \in {1, 28, 29, 30} /\ esp.stack = Main
  <2>1. CASE i \in {1, 28, 29}
    BY <1>3, <2>1, Starts1, Starts28, Starts29
  <2>2. CASE i = 30
    <3>1. \A t \in Threads : t # Main
      BY DEF Threads, Main
    <3>2. \A t \in Threads : Parked(t, mem[t], left[t], tcb[t])
      BY <1>3, <3>1, Zenon DEF IInv, ParkedSound
    <3>. QED BY <2>2, <3>2, TakesOver
  <2>. QED BY <1>3, <2>1, <2>2
<1>4. CASE i \in 1 .. 20 /\ esp.stack # Main
  <2>1. Departs(i)
    BY <1>4 DEF Departs
  <2>2. CASE i \in 1 .. 9
    <3>1. i \in {1, 2, 3, 4, 5, 6, 7, 8, 9}
      BY <2>2
    <3>. QED BY <2>1, <3>1, Departs1, Departs2, Departs3, Departs4, Departs5, Departs6, Departs7,
                Departs8, Departs9
  <2>3. CASE i \in {10, 11}
    BY <2>1, <2>3, Departs10
  <2>4. CASE i \in 12 .. 16
    BY <2>1, <2>4, Departs12
  <2>5. CASE i \in {17, 18, 19}
    BY <2>1, <2>5, Departs17, Departs18, Departs19
  <2>6. CASE i = 20
    <3>1. \A t \in Threads : Parked(t, mem[t], left[t], tcb[t])
      BY <2>6, Zenon DEF IInv, ParkedSound
    <3>. QED BY <2>6, <3>1, TakesOver
  <2>. QED BY <1>4, <2>2, <2>3, <2>4, <2>5, <2>6
<1>5. \/ i \in {1, 28, 29, 30} /\ esp.stack = Main
      \/ i \in 1 .. 20 /\ esp.stack # Main
      \/ i \in 21 .. 27 \cup 31 .. 37
  BY <1>1, Zenon DEF AtSwitch
<1>. QED BY <1>2, <1>3, <1>4, <1>5

-----------------------------------------------------------------------------
(* The common stubs.                                                        *)
InCommon(l, k) == IInv /\ Step /\ l \in Labels /\ k \in 1 .. 16 /\ eip = <<l, k>>

\* What is known in a common stub.
LEMMA InCommonHere ==
    ASSUME NEW l, NEW k, InCommon(l, k)
    PROVE  /\ AtCommon(k, esp.stack, This, Base, Size, Now) /\ Size \in 1 .. Nested /\ ~ints
           /\ Base \in Contexts /\ Base.top \in Nat /\ esp.top \in Nat /\ This \in Seq(Words)
           /\ esp.top <= Len(This) /\ eip \notin {Tls(20), Tls(30)}
           /\ k <= 8 => /\ This[Base.top + 4] = raised[2]
                        /\ This[Base.top + 5] = <<"number", raised[1]>>
<1>1. AtCommon(k, esp.stack, This, Base, Size, Now)
  BY CommonHere, Zenon DEF InCommon
<1>2. Size \in 1 .. Nested /\ ~ints
  BY <1>1, NowIs, Zenon DEF AtCommon
<1>3. /\ Base \in Contexts /\ Base.top \in Nat /\ esp.top \in Nat /\ This \in Seq(Words)
      /\ esp.top <= Len(This) /\ Told(This, Base, eip, raised)
  BY Here, Zenon DEF InCommon
<1>4. eip \notin {Tls(20), Tls(30)}
  BY DEF InCommon, Tls, Labels
<1>5. ASSUME k <= 8
      PROVE  /\ This[Base.top + 4] = raised[2] /\ This[Base.top + 5] = <<"number", raised[1]>>
  <2>1. k \in 1 .. 8
    BY <1>5 DEF InCommon
  <2>. QED BY <1>3, <2>1, Zenon DEF Told, InCommon
<1>. QED BY <1>1, <1>2, <1>3, <1>4, <1>5

\* A step to the next instruction of a common stub.
LEMMA CommonOn ==
    ASSUME NEW l, NEW k, InCommon(l, k), k # 16, NEW w, Runs(w, Now'.top), Agrees(w, esp.top),
           esp.top >= Base.top + 5 \/ (k > 8 /\ esp.top >= Base.top), eip' = <<l, k + 1>>,
           AtCommon(k + 1, esp.stack, w, Base, Size, Now')
    PROVE  IInv'
<1> DEFINE j == k + 1
<1>1. /\ Base.top \in Nat /\ esp.top \in Nat /\ eip \notin {Tls(20), Tls(30)}
      /\ k <= 8 => /\ This[Base.top + 4] = raised[2]
                   /\ This[Base.top + 5] = <<"number", raised[1]>>
  BY InCommonHere, Zenon
<1>2. Spares(w)
  BY <1>1 DEF Agrees, Spares, InCommon
<1>3. j \in 1 .. 16 /\ l \in Labels
  BY DEF InCommon
<1>4. raised' = raised /\ raised' \in Nat \X Words /\ Stays(w)
  BY DEF Runs
<1>5. j <= 8 => w[Base.top + 4] = raised'[2] /\ w[Base.top + 5] = <<"number", raised'[1]>>
  <2>1. ASSUME j <= 8 PROVE w[Base.top + 4] = This[Base.top + 4] /\ w[Base.top + 5] = This[Base.top + 5]
    <3>1. k <= 8 /\ ~(k > 8)
      BY <2>1 DEF InCommon
    <3>2. Base.top + 4 \in 1 .. esp.top /\ Base.top + 5 \in 1 .. esp.top
      BY <1>1, <3>1
    <3>. QED BY <3>2 DEF Agrees
  <2>2. j <= 8 => k <= 8
    BY DEF InCommon
  <2>. QED BY <1>1, <1>4, <2>1, <2>2
<1>6. eip' = <<l, j>> /\ AtCommon(j, esp.stack, w, Base, Size, Now')
  OBVIOUS
<1> HIDE DEF j
<1>. QED BY <1>1, <1>2, <1>3, <1>4, <1>5, <1>6, StaysInCommon, Zenon DEF InCommon

\* The registers are pushed, group by group.
LEMMA CommonSaves == ASSUME NEW l, NEW k \in 1 .. 5, InCommon(l, k) PROVE IInv'
<1>1. /\ AtCommon(k, esp.stack, This, Base, Size, Now) /\ Size \in 1 .. Nested /\ ~ints
      /\ Base.top \in Nat
  BY InCommonHere, Zenon
<1>2. Saving(k, This, Base, Now)
  BY <1>1 DEF AtCommon
<1>3. It = save_registers[k] /\ Next1 = <<l, k + 1>>
  BY AtLabel, StubText DEF InCommon
<1>4. PICK w : /\ Runs(w, Now'.top) /\ Agrees(w, esp.top) /\ eip' = Next1 /\ ints' = ints
               /\ Saving(k + 1, w, Base, Now')
  BY <1>2, <1>3, SavingStep, Zenon DEF InCommon
<1>5. AtCommon(k + 1, esp.stack, w, Base, Size, Now')
  BY <1>1, <1>4, NowBecomes DEF AtCommon
<1>6. esp.top >= Base.top + 5
  <2>1. SavedBy[k] \in 5 .. 17 /\ esp.top = Base.top + SavedBy[k]
    BY <1>2, Tables, NowIs DEF Saving
  <2>. QED BY <1>1, <2>1
<1>. QED BY <1>3, <1>4, <1>5, <1>6, CommonOn

\* The kernel's data segments are loaded.
LEMMA Common6 == ASSUME NEW l, InCommon(l, 6) PROVE IInv'
<1>1. /\ AtCommon(6, esp.stack, This, Base, Size, Now) /\ Size \in 1 .. Nested /\ ~ints
      /\ Base.top \in Nat
  BY InCommonHere, Zenon
<1>2. esp.top = Base.top + 17 /\ Saved(This, Base, 17)
  <2>1. Saving(6, This, Base, Now)
    BY <1>1 DEF AtCommon
  <2>. QED BY <2>1, Tables, NowIs DEF Saving
<1>3. kernel_segments /\ Next1 = <<l, 6 + 1>>
  <2>1. It = Op("kernel_segments") /\ Next1 = <<l, 6 + 1>>
    BY AtLabel, StubCode DEF InCommon
  <2>. QED BY <2>1, OpSteps, Zenon DEF InCommon
<1>4. Runs(This, esp.top) /\ eip' = Next1 /\ ints' = ints
  BY <1>3, SegmentsDo DEF InCommon
<1>5. AtCommon(6 + 1, esp.stack, This, Base, Size, Now')
  <2>1. Now'.top = Base.top + 17 /\ ~Now'.ints
    BY <1>1, <1>2, <1>4, NowBecomes DEF Runs
  <2>. QED BY <1>1, <1>2, <2>1 DEF AtCommon
<1>6. Runs(This, Now'.top) /\ esp.top >= Base.top + 5
  BY <1>1, <1>2, <1>4 DEF Runs
<1>. QED BY <1>3, <1>4, <1>5, <1>6, AgreesThis, CommonOn

\* The address of the saved registers is pushed.
LEMMA Common7 == ASSUME NEW l, InCommon(l, 7) PROVE IInv'
<1>1. /\ AtCommon(7, esp.stack, This, Base, Size, Now) /\ Size \in 1 .. Nested /\ ~ints
      /\ Base.top \in Nat /\ Base \in Contexts
  BY InCommonHere, Zenon
<1>2. esp.top = Base.top + 17 /\ Saved(This, Base, 17)
  BY <1>1, NowIs DEF AtCommon
<1>3. push /\ It.r = "esp" /\ Next1 = <<l, 7 + 1>>
  <2>1. It = Push("esp") /\ Next1 = <<l, 7 + 1>>
    BY AtLabel, StubCode DEF InCommon
  <2>. QED BY <2>1, PushStep, Zenon DEF InCommon
<1>4. Word(It.r) = At(esp) /\ Word(It.r) \in Words /\ esp = [stack |-> esp.stack, top |-> Base.top + 17]
  <2>1. esp = [stack |-> esp.stack, top |-> esp.top]
    BY Here DEF InCommon
  <2>2. Word(It.r) = At(esp)
    BY <1>3 DEF Word
  <2>. QED BY <1>2, <1>3, <2>1, <2>2, WordType DEF InCommon
<1>5. PICK w : /\ Runs(w, esp.top + 1) /\ Agrees(w, esp.top) /\ w[esp.top + 1] = At(esp)
               /\ eip' = Next1 /\ reg' = reg /\ ints' = ints
  BY <1>3, <1>4, PushDoes DEF InCommon
<1>6. Saved(w, Base, 17)
  <2>1. \A i \in 1 .. Base.top + 17 : w[i] = This[i]
    BY <1>2, <1>5 DEF Agrees
  <2>. QED BY <1>1, <1>2, <2>1, SavedWords
<1>7. AtCommon(7 + 1, esp.stack, w, Base, Size, Now')
  <2>1. Now'.top = Base.top + 18 /\ ~Now'.ints /\ esp.top + 1 = Base.top + 18
    BY <1>1, <1>2, <1>5, NowBecomes DEF Runs
  <2>2. w[Base.top + 18] = At([stack |-> esp.stack, top |-> Base.top + 17])
    BY <1>4, <1>5, <2>1
  <2>. QED BY <1>1, <1>6, <2>1, <2>2 DEF AtCommon
<1>8. Runs(w, Now'.top) /\ esp.top >= Base.top + 5
  BY <1>1, <1>2, <1>5 DEF Runs
<1>. QED BY <1>3, <1>5, <1>7, <1>8, CommonOn

\* The dispatcher is called.
LEMMA Common8 == ASSUME NEW l, InCommon(l, 8) PROVE IInv'
<1>1. /\ AtCommon(8, esp.stack, This, Base, Size, Now) /\ Size \in 1 .. Nested /\ ~ints
      /\ Base.top \in Nat /\ Base \in Contexts /\ eip \notin {Tls(20), Tls(30)}
      /\ This[Base.top + 4] = raised[2] /\ This[Base.top + 5] = <<"number", raised[1]>>
  <2>1. 8 <= 8
    OBVIOUS
  <2>. QED BY <2>1, InCommonHere, Zenon
<1>2. /\ esp.top = Base.top + 18 /\ Saved(This, Base, 17)
      /\ This[Base.top + 18] = At([stack |-> esp.stack, top |-> Base.top + 17])
  BY <1>1, NowIs DEF AtCommon
<1>3. call /\ Next1 = <<l, 9>>
  <2>1. It = Op("call") /\ Next1 = <<l, 9>>
    BY AtLabel, StubCode DEF InCommon
  <2>. QED BY <2>1, OpSteps, Zenon DEF InCommon
<1>4. PICK w : /\ Runs(w, esp.top + 1) /\ Agrees(w, esp.top) /\ w[esp.top + 1] = Next1
               /\ Len(w) = esp.top + 1
               /\ eip' = <<"dispatch", 1>> /\ reg' = reg /\ ints' = ints
  BY <1>3, CallDoes DEF InCommon
<1>5. \A i \in 1 .. Base.top + 18 : w[i] = This[i]
  BY <1>2, <1>4 DEF Agrees
<1>6. Saved(w, Base, 17)
  <2>1. (\A i \in 1 .. Base.top + 17 : w[i] = This[i]) /\ 17 \in 0 .. 17
    BY <1>1, <1>5
  <2>. QED BY <1>1, <1>2, <2>1, SavedWords, Zenon
<1>7. /\ w[Base.top + 4] = raised[2] /\ w[Base.top + 5] = <<"number", raised[1]>>
      /\ w[Base.top + 18] = At([stack |-> esp.stack, top |-> Base.top + 17])
  BY <1>1, <1>2, <1>5
<1>8. w[Base.top + 19] = <<l, 9>> /\ esp'.top = Base.top + 19 /\ esp'.top = Len(w)
  <2>1. esp.top + 1 = Base.top + 19
    BY <1>1, <1>2
  <2>. QED BY <1>3, <1>4, <2>1, Zenon DEF Runs
<1>9. /\ Now'.eip = <<"dispatch", 1>> /\ Now'.top = Base.top + 19 /\ ~Now'.ints
  BY <1>1, <1>4, <1>8, NowBecomes
<1>10. l \in Labels
  BY DEF InCommon
<1>11. Position(esp.stack, w, Base, Size, Now')
  <2>1. InDispatcher(<<"dispatch", 1>>, esp.stack, w, Base, Size, Now')
    BY <1>1, <1>6, <1>7, <1>8, <1>9, <1>10 DEF InDispatcher
  <2>2. AtC(<<"dispatch", 1>>, esp.stack, w, Base, Size, Now')
    BY <2>1 DEF AtC
  <2>3. Now'.eip \in InC
    BY <1>9 DEF InC
  <2>. QED BY <1>9, <2>2, <2>3, OnC, Zenon
<1>12. Stays(w) /\ Spares(w) /\ raised' = raised /\ raised' \in Nat \X Words
  <2>1. Spares(w)
    BY <1>1, <1>5 DEF Spares
  <2>. QED BY <1>4, <2>1 DEF Runs
<1>13. Told(w, Base, eip', raised')
  BY <1>7, <1>12, Zenon DEF Told
<1>14. eip' \notin {Tls(18), Tls(19), Tls(20), Tls(30)}
  BY <1>4 DEF Tls
<1>. QED BY <1>1, <1>8, <1>11, <1>12, <1>13, <1>14, StaysKeeps, Zenon DEF InCommon

\* The address is taken off again.
LEMMA Common9 == ASSUME NEW l, InCommon(l, 9) PROVE IInv'
<1>1. /\ AtCommon(9, esp.stack, This, Base, Size, Now) /\ Size \in 1 .. Nested /\ ~ints
      /\ Base.top \in Nat
  BY InCommonHere, Zenon
<1>2. esp.top = Base.top + 18 /\ Saved(This, Base, 17)
  BY <1>1, NowIs DEF AtCommon
<1>3. pop /\ It.r = "eax" /\ Next1 = <<l, 9 + 1>>
  <2>1. It = Pop("eax") /\ Next1 = <<l, 9 + 1>>
    BY AtLabel, StubCode DEF InCommon
  <2>. QED BY <2>1, PopStep, Zenon DEF InCommon
<1>4. "eax" \in Registers /\ esp.top >= 1 /\ esp.top - 1 = Base.top + 17
  BY <1>1, <1>2, RegistersAre
<1>5. Runs(This, esp.top - 1) /\ eip' = Next1 /\ ints' = ints
  BY <1>3, <1>4, PopDoes DEF InCommon
<1>6. AtCommon(9 + 1, esp.stack, This, Base, Size, Now')
  <2>1. Now'.top = Base.top + 17 /\ ~Now'.ints
    BY <1>1, <1>4, <1>5, NowBecomes DEF Runs
  <2>2. Loading(1, This, Base, Now')
    BY <1>2, <2>1, Tables DEF Loading, Live
  <2>. QED BY <1>1, <2>1, <2>2 DEF AtCommon
<1>7. Runs(This, Now'.top) /\ esp.top >= Base.top + 5
  BY <1>1, <1>2, <1>5 DEF Runs
<1>. QED BY <1>3, <1>5, <1>6, <1>7, AgreesThis, CommonOn

\* The registers are popped, group by group.
LEMMA CommonLoads == ASSUME NEW l, NEW k \in 10 .. 15, InCommon(l, k) PROVE IInv'
<1> DEFINE j == k - 9
<1>1. /\ AtCommon(k, esp.stack, This, Base, Size, Now) /\ Size \in 1 .. Nested /\ ~ints
      /\ Base.top \in Nat
  BY InCommonHere, Zenon
<1>2. j \in 1 .. 6 /\ Loading(j, This, Base, Now)
  BY <1>1 DEF AtCommon
<1>3. It = restore_registers[j] /\ Next1 = <<l, k + 1>>
  <2>1. It = common_stub[j + 9] /\ Next1 = <<l, k + 1>>
    BY AtLabel DEF InCommon
  <2>. QED BY <1>2, <2>1, StubCode
<1>4. (k + 1) - 9 = j + 1
  OBVIOUS
<1> HIDE DEF j
<1>5. Runs(This, Now'.top) /\ eip' = Next1 /\ ints' = ints /\ Loading(j + 1, This, Base, Now')
  BY <1>2, <1>3, LoadingStep, Zenon DEF InCommon
<1>6. AtCommon(k + 1, esp.stack, This, Base, Size, Now')
  BY <1>1, <1>4, <1>5, NowBecomes DEF AtCommon
<1>7. esp.top >= Base.top
  <2>1. LeftBy[j] \in 3 .. 17 /\ esp.top = Base.top + LeftBy[j]
    BY <1>2, Tables, NowIs DEF Loading
  <2>. QED BY <1>1, <2>1
<1>8. k > 8 /\ k # 16
  OBVIOUS
<1>. QED BY <1>3, <1>5, <1>6, <1>7, <1>8, AgreesThis, CommonOn, Zenon

\* At the stub's iret a whole context is at the top.
LEMMA CommonReturns ==
    ASSUME NEW l, InCommon(l, 16)
    PROVE  /\ iret /\ Loading(7, This, Base, Now) /\ eip \notin {Tls(20), Tls(30)} /\ Size # 0
<1>1. /\ AtCommon(16, esp.stack, This, Base, Size, Now) /\ Size \in 1 .. Nested
      /\ eip \notin {Tls(20), Tls(30)}
  BY InCommonHere, Zenon
<1>2. Loading(7, This, Base, Now)
  BY <1>1 DEF AtCommon
<1>3. iret
  <2>1. It = Op("iret")
    BY AtLabel, StubCode DEF InCommon
  <2>. QED BY <2>1, OpSteps, Zenon DEF InCommon
<1>4. Size # 0
  BY <1>1
<1>. QED BY <1>1, <1>2, <1>3, <1>4

\* Every instruction of the common stubs keeps the invariant.
LEMMA CommonKeeps == ASSUME NEW l, NEW k, InCommon(l, k) PROVE IInv'
<1>1. k \in 1 .. 5 \/ k \in {6, 7, 8, 9} \/ k \in 10 .. 15 \/ k = 16
  BY DEF InCommon
<1>2. CASE k \in 1 .. 5
  BY <1>2, CommonSaves, Zenon
<1>3. CASE k \in {6, 7, 8, 9}
  BY <1>3, Common6, Common7, Common8, Common9
<1>4. CASE k \in 10 .. 15
  BY <1>4, CommonLoads, Zenon
<1>5. CASE k = 16
  BY <1>5, CommonReturns, IretKeeps, Zenon DEF InCommon
<1>. QED BY <1>1, <1>2, <1>3, <1>4, <1>5

-----------------------------------------------------------------------------
(* The stubs of the single interrupts.                                      *)
StubAt(v, k) == <<Gate[v][1], Gate[v][2] + k>>
Entry(v, k)  == code[Gate[v][1]][Gate[v][2] + k]

\* The four instructions of the stub of vector v: with an error code from the
\* processor there is one push less.
LEMMA EntryText ==
    ASSUME NEW v \in 0 .. 47
    PROVE  /\ v \in HasCode => /\ Entry(v, 0) = Op("nop") /\ Entry(v, 1) = Op("cli")
                               /\ Entry(v, 2) = PushByte(v) /\ Entry(v, 3) = Jmp("isr_common_stub")
           /\ v \notin HasCode => /\ Entry(v, 0) = Op("cli") /\ Entry(v, 1) = PushByte(0)
                                  /\ Entry(v, 2) = PushByte(v)
                                  /\ Entry(v, 3) \in {Jmp("irq_common_stub"), Jmp("isr_common_stub")}
<1>1. HasCode = NoDummy /\ HasCode \subseteq 0 .. 31
  BY DEF HasCode, NoDummy
<1>2. CASE v < 32
  <2>1. \A k \in 0 .. 3 : Entry(v, k) = isr_stubs[4 * v + 1 + k]
    BY <1>2, GateText, CodeIs DEF Entry
  <2>2. ASSUME NEW k \in 0 .. 3 PROVE isr_stubs[4 * v + 1 + k] = isr(v)[k + 1]
    <3>1. 4 * v + 1 + k \in 1 .. 128
      BY <1>2
    <3>2. (4 * v + 1 + k - 1) \div 4 = v /\ (4 * v + 1 + k - 1) % 4 = k
      BY <1>2
    <3>. QED BY <3>1, <3>2 DEF isr_stubs
  <2>3. \A k \in 0 .. 3 : Entry(v, k) = isr(v)[k + 1]
    BY <2>1, <2>2
  <2>4. Entry(v, 0) = isr(v)[1] /\ Entry(v, 1) = isr(v)[2] /\ Entry(v, 2) = isr(v)[3] /\ Entry(v, 3) = isr(v)[4]
    BY <2>3
  <2>5. CASE v \in HasCode
    <3>1. isr(v) = <<Op("nop"), Op("cli"), PushByte(v), Jmp("isr_common_stub")>>
      BY <1>1, <2>5 DEF isr
    <3>. QED BY <2>4, <2>5, <3>1
  <2>6. CASE v \notin HasCode
    <3>1. isr(v) = <<Op("cli"), PushByte(0), PushByte(v), Jmp("isr_common_stub")>>
      BY <1>1, <2>6 DEF isr
    <3>. QED BY <2>4, <2>6, <3>1
  <2>. QED BY <2>5, <2>6
<1>3. CASE v >= 32
  <2> DEFINE x == v - 32
  <2>1. \A k \in 0 .. 3 : Entry(v, k) = irq_stubs[4 * x + 1 + k]
    BY <1>3, GateText, CodeIs DEF Entry
  <2>2. ASSUME NEW k \in 0 .. 3 PROVE irq_stubs[4 * x + 1 + k] = irq(x)[k + 1]
    <3>1. 4 * x + 1 + k \in 1 .. 64
      BY <1>3
    <3>2. (4 * x + 1 + k - 1) \div 4 = x /\ (4 * x + 1 + k - 1) % 4 = k
      BY <1>3
    <3>. QED BY <3>1, <3>2 DEF irq_stubs
  <2>3. \A k \in 0 .. 3 : Entry(v, k) = irq(x)[k + 1]
    BY <2>1, <2>2
  <2>4. Entry(v, 0) = irq(x)[1] /\ Entry(v, 1) = irq(x)[2] /\ Entry(v, 2) = irq(x)[3] /\ Entry(v, 3) = irq(x)[4]
    BY <2>3
  <2>5. 32 + x = v
    OBVIOUS
  <2>6. irq(x) = <<Op("cli"), PushByte(0), PushByte(v), Jmp("irq_common_stub")>>
    BY <2>5 DEF irq
  <2>7. v \notin HasCode
    BY <1>1, <1>3
  <2>. QED BY <2>4, <2>6, <2>7
<1>. QED BY <1>2, <1>3

\* The processor is at the k+1st instruction of the stub of interrupt v.
AtEntry(v, k) == /\ IInv /\ Step /\ v \in 0 .. 47 /\ k \in 0 .. 3
                 /\ eip = StubAt(v, k) /\ InStub(v, k, This, Base, Size, Now, raised)

\* What is known in the stub of a single interrupt.
LEMMA AtEntryHere ==
    ASSUME NEW v, NEW k, AtEntry(v, k)
    PROVE  /\ It = Entry(v, k) /\ Next1 = StubAt(v, k + 1) /\ eip \notin {Tls(20), Tls(30)}
           /\ raised[1] = v /\ Size \in 1 .. Nested /\ ~ints /\ reg = Base.reg /\ ForIret(This, Base)
           /\ Base \in Contexts /\ Base.top \in Nat /\ esp.top \in Nat /\ This \in Seq(Words)
           /\ esp.top <= Len(This) /\ esp.top >= Base.top + 3
<1>1. /\ raised[1] = v /\ Size \in 1 .. Nested /\ ~ints /\ reg = Base.reg /\ ForIret(This, Base)
  BY NowIs, Zenon DEF AtEntry, InStub
<1>2. /\ Base \in Contexts /\ Base.top \in Nat /\ esp.top \in Nat /\ This \in Seq(Words)
      /\ esp.top <= Len(This)
  BY Here, Zenon DEF AtEntry
<1>3. It = Entry(v, k)
  BY DEF AtEntry, It, Entry, StubAt
<1>4. Gate[v][1] \in {"irq", "isr"} /\ Gate[v][2] \in Int
  <2>1. v \in 0 .. 47
    BY DEF AtEntry
  <2>2. Gate[v][1] \in {"irq", "isr"}
    BY <2>1, GateText, Zenon
  <2>3. CASE v < 32
    <3>1. Gate[v] = <<"isr", 4 * v + 1>>
      BY <2>1, <2>3, GateText, Zenon
    <3>. QED BY <2>1, <2>2, <3>1
  <2>4. CASE v >= 32
    <3>1. Gate[v] = <<"irq", 4 * (v - 32) + 1>>
      BY <2>1, <2>4, GateText, Zenon
    <3>. QED BY <2>1, <2>2, <3>1
  <2>. QED BY <2>1, <2>3, <2>4
<1>5. Next1 = StubAt(v, k + 1)
  BY <1>4 DEF AtEntry, Next1, StubAt
<1>6. eip \notin {Tls(20), Tls(30)}
  BY <1>4 DEF AtEntry, StubAt, Tls
<1>7. esp.top >= Base.top + 3
  <2>1. \/ esp.top = Base.top + 5 \/ esp.top = Base.top + 4 \/ esp.top = Base.top + 3
        \/ k # 0 /\ esp.top = Base.top + (k + 2)
    BY NowIs DEF AtEntry, InStub
  <2>. QED BY <1>2, <2>1 DEF AtEntry
<1>. QED BY <1>1, <1>2, <1>3, <1>5, <1>6, <1>7

\* A step to the stub's next instruction.
LEMMA EntryOn ==
    ASSUME NEW v, NEW k \in 0 .. 2, AtEntry(v, k), NEW w, Runs(w, Now'.top), Agrees(w, esp.top),
           eip' = Next1, reg' = reg, ~ints',
           InStub(v, k + 1, w, Base, Size, Now', raised)
    PROVE  IInv'
<1>1. /\ Next1 = StubAt(v, k + 1) /\ eip \notin {Tls(20), Tls(30)}
      /\ Base.top \in Nat /\ esp.top \in Nat /\ esp.top >= Base.top + 3
  BY AtEntryHere, Zenon
<1>2. Stays(w) /\ Spares(w) /\ raised' = raised /\ raised' \in Nat \X Words
  BY <1>1 DEF Runs, Agrees, Spares
<1>3. eip' = StubAt(v, k + 1) /\ v \in 0 .. 47
  BY <1>1 DEF AtEntry
<1>4. AtStub(w, Base, Size, Now', raised')
  <2>1. k + 1 \in 0 .. 3 /\ Now'.eip = <<Gate[v][1], Gate[v][2] + (k + 1)>>
    BY <1>3, NowBecomes DEF StubAt
  <2>2. InStub(v, k + 1, w, Base, Size, Now', raised')
    BY <1>2
  <2>. QED BY <1>3, <2>1, <2>2, Zenon DEF AtStub
<1>5. eip'[1] \in {"irq", "isr"}
  <2>1. Gate[v][1] \in {"irq", "isr"}
    BY <1>3, GateText, Zenon
  <2>. QED BY <1>3, <2>1 DEF StubAt
<1>6. Told(w, Base, eip', raised')
  <2>1. (\A l \in Labels, j \in 1 .. 8 : eip' # <<l, j>>) /\ eip' # <<"dispatch", 1>>
    BY <1>5 DEF Labels
  <2>. QED BY <2>1, Zenon DEF Told
<1>7. eip' \notin {Tls(18), Tls(19), Tls(20), Tls(30)} /\ eip' \notin InC
  BY <1>5 DEF Tls, InC
<1>. QED BY <1>1, <1>2, <1>4, <1>6, <1>7, StaysKeeps, Zenon DEF AtEntry

\* The three words for iret depend on themselves only.
LEMMA ForIretAgrees ==
    ASSUME NEW w, NEW L \in Contexts, NEW n \in Nat, Agrees(w, n), n >= L.top + 3, ForIret(This, L)
    PROVE  ForIret(w, L)
<1>1. L.top \in Nat
  BY TopType
<1>2. /\ w[L.top + 1] = This[L.top + 1] /\ w[L.top + 2] = This[L.top + 2] /\ w[L.top + 3] = This[L.top + 3]
  BY <1>1 DEF Agrees
<1>. QED BY <1>2, Zenon DEF ForIret

\* cli and nop.
LEMMA EntryQuiet ==
    ASSUME NEW v, NEW k \in 0 .. 1, AtEntry(v, k), k = 1 => v \in HasCode
    PROVE  IInv'
<1>1. /\ It = Entry(v, k) /\ ~ints /\ reg = Base.reg /\ raised[1] = v
      /\ Size \in 1 .. Nested /\ ForIret(This, Base)
  BY AtEntryHere, Zenon
<1>2. It = Op("nop") \/ It = Op("cli")
  <2>1. v \in 0 .. 47
    BY DEF AtEntry
  <2>. QED BY <1>1, <2>1, EntryText
<1>3. Runs(This, esp.top) /\ eip' = Next1 /\ ~ints' /\ reg' = reg
  <2>1. CASE It = Op("nop")
    <3>1. jmp /\ It.op = "nop"
      BY <2>1, OpSteps, Zenon DEF AtEntry
    <3>. QED BY <1>1, <3>1, JmpDoes DEF AtEntry
  <2>2. CASE It = Op("cli")
    <3>1. cli
      BY <2>2, OpSteps, Zenon DEF AtEntry
    <3>. QED BY <3>1, CliDoes DEF AtEntry
  <2>. QED BY <1>2, <2>1, <2>2
<1>4. Now'.top = esp.top /\ Now'.reg = reg /\ ~Now'.ints
  BY <1>3, NowBecomes DEF Runs
<1>5. InStub(v, k + 1, This, Base, Size, Now', raised)
  <2>1. CASE v \in HasCode
    <3>1. esp.top = Base.top + 4 /\ This[Base.top + 4] = raised[2]
      BY <2>1, NowIs DEF AtEntry, InStub
    <3>2. k + 1 # 3
      OBVIOUS
    <3>. QED BY <1>1, <1>4, <2>1, <3>1, <3>2 DEF InStub
  <2>2. CASE v \notin HasCode
    <3>1. k = 0 /\ k + 1 = 1
      BY <2>2
    <3>2. esp.top = Base.top + 3 /\ raised[2] = Zero
      BY <2>2, <3>1, NowIs DEF AtEntry, InStub
    <3>3. InStub(v, 1, This, Base, Size, Now', raised)
      BY <1>1, <1>4, <2>2, <3>2 DEF InStub
    <3>. QED BY <3>1, <3>3
  <2>. QED BY <2>1, <2>2
<1>6. Runs(This, Now'.top)
  BY <1>3, <1>4
<1>. QED BY <1>3, <1>5, <1>6, AgreesThis, EntryOn

\* The 0 in the place of an error code, and the number.
LEMMA EntryPushes ==
    ASSUME NEW v, NEW k \in 1 .. 2, AtEntry(v, k), k = 1 => v \notin HasCode
    PROVE  IInv'
<1> DEFINE x == IF k = 1 THEN 0 ELSE v
<1>1. /\ It = Entry(v, k) /\ ~ints /\ reg = Base.reg /\ raised[1] = v
      /\ Size \in 1 .. Nested /\ ForIret(This, Base) /\ Base.top \in Nat /\ esp.top \in Nat
      /\ Base \in Contexts /\ esp.top >= Base.top + 3
  BY AtEntryHere, Zenon
<1>2. It = PushByte(x) /\ x \in Nat
  <2>1. v \in 0 .. 47
    BY DEF AtEntry
  <2>. QED BY <1>1, <2>1, EntryText
<1> HIDE DEF x
<1>3. push /\ Word(It.r) = <<"number", x>> /\ Word(It.r) \in Words
  <2>1. push /\ It.r = "" /\ It.n = x
    BY <1>2, PushByteStep, Zenon DEF AtEntry
  <2>2. Word(It.r) = <<"number", x>>
    BY <2>1 DEF Word
  <2>. QED BY <1>2, <2>1, <2>2, WordTypes
<1>4. PICK w : /\ Runs(w, esp.top + 1) /\ Agrees(w, esp.top) /\ w[esp.top + 1] = <<"number", x>>
               /\ eip' = Next1 /\ reg' = reg /\ ints' = ints
  <2>1. \E w : /\ Runs(w, esp.top + 1) /\ Agrees(w, esp.top) /\ w[esp.top + 1] = Word(It.r)
               /\ eip' = Next1 /\ reg' = reg /\ ints' = ints
    BY <1>3, PushDoes, Zenon DEF AtEntry
  <2>. QED BY <1>3, <2>1, Zenon
<1>5. Now'.top = esp.top + 1 /\ Now'.reg = reg /\ ~Now'.ints
  BY <1>1, <1>4, NowBecomes DEF Runs
<1>6. ForIret(w, Base)
  BY <1>1, <1>4, ForIretAgrees
<1>7. InStub(v, k + 1, w, Base, Size, Now', raised)
  <2>1. CASE k = 1
    <3>1. esp.top = Base.top + 3 /\ raised[2] = Zero /\ v \notin HasCode
      BY <2>1, NowIs DEF AtEntry, InStub
    <3>2. Now'.top = Base.top + 4 /\ w[Base.top + 4] = Zero
      BY <1>1, <1>4, <1>5, <2>1, <3>1 DEF Zero, x
    <3>3. InStub(v, 2, w, Base, Size, Now', raised)
      BY <1>1, <1>5, <1>6, <3>1, <3>2 DEF InStub
    <3>. QED BY <2>1, <3>3
  <2>2. CASE k = 2
    <3>1. esp.top = Base.top + 4 /\ x = v
      BY <2>2, NowIs DEF AtEntry, InStub, x
    <3>2. Now'.top = Base.top + 5 /\ w[Base.top + 5] = <<"number", v>>
      BY <1>1, <1>4, <1>5, <3>1
    <3>3. w[Base.top + 4] = This[Base.top + 4]
      BY <1>1, <1>4, <3>1 DEF Agrees
    <3>4. /\ v \in HasCode => This[Base.top + 4] = raised[2]
          /\ v \notin HasCode => raised[2] = Zero /\ This[Base.top + 4] = Zero
      BY <2>2 DEF AtEntry, InStub
    <3>5. InStub(v, 3, w, Base, Size, Now', raised)
      BY <1>1, <1>5, <1>6, <3>2, <3>3, <3>4 DEF InStub
    <3>. QED BY <2>2, <3>5
  <2>. QED BY <2>1, <2>2
<1>8. Runs(w, Now'.top) /\ k \in 0 .. 2
  BY <1>4, <1>5
<1>. QED BY <1>1, <1>4, <1>7, <1>8, EntryOn

\* On to the common stub.
LEMMA EntryJumps == ASSUME NEW v, AtEntry(v, 3) PROVE IInv'
<1>1. /\ It = Entry(v, 3) /\ ~ints /\ reg = Base.reg /\ raised[1] = v
      /\ Size \in 1 .. Nested /\ ForIret(This, Base) /\ Base.top \in Nat /\ esp.top \in Nat
      /\ eip \notin {Tls(20), Tls(30)}
  BY AtEntryHere, Zenon
<1>2. PICK l \in Labels : It = Jmp(l)
  <2>1. v \in 0 .. 47
    BY DEF AtEntry
  <2>. QED BY <1>1, <2>1, EntryText DEF Labels
<1>3. jmp /\ It.op = "jmp" /\ It.r = l
  BY <1>2, JmpStep, Zenon DEF AtEntry
<1>4. Runs(This, esp.top) /\ ints' = ints /\ reg' = reg /\ eip' = <<l, 1>>
  BY <1>2, <1>3, JmpDoes DEF AtEntry
<1>5. /\ esp.top = Base.top + 5 /\ This[Base.top + 5] = <<"number", v>> /\ This[Base.top + 4] = raised[2]
  <2>1. CASE v \in HasCode
    BY <2>1, NowIs DEF AtEntry, InStub
  <2>2. CASE v \notin HasCode
    BY <2>2, NowIs DEF AtEntry, InStub
  <2>. QED BY <2>1, <2>2
<1>6. Now'.top = Base.top + 5 /\ Now'.reg = Base.reg /\ ~Now'.ints
  BY <1>1, <1>4, <1>5, NowBecomes DEF Runs
<1>7. Saving(1, This, Base, Now')
  <2>1. Saved(This, Base, 5)
    BY <1>1 DEF Saved
  <2>. QED BY <1>6, <2>1, Tables DEF Saving
<1>8. AtCommon(1, esp.stack, This, Base, Size, Now')
  BY <1>1, <1>6, <1>7 DEF AtCommon
<1>9. /\ This[Base.top + 4] = raised'[2] /\ This[Base.top + 5] = <<"number", raised'[1]>>
      /\ Stays(This) /\ raised' \in Nat \X Words
  BY <1>1, <1>4, <1>5 DEF Runs
<1>10. 1 \in 1 .. 16
  OBVIOUS
<1>. QED BY <1>1, <1>4, <1>8, <1>9, <1>10, SparesThis, StaysInCommon, Zenon DEF AtEntry

\* Each instruction of the stub of a single interrupt.
LEMMA EntryKeeps == ASSUME NEW v, NEW k, AtEntry(v, k) PROVE IInv'
<1>1. k \in 0 .. 3
  BY DEF AtEntry
<1>2. CASE k = 0 \/ (k = 1 /\ v \in HasCode)
  BY <1>2, EntryQuiet
<1>3. CASE k = 2 \/ (k = 1 /\ v \notin HasCode)
  BY <1>3, EntryPushes
<1>4. CASE k = 3
  BY <1>4, EntryJumps
<1>. QED BY <1>1, <1>2, <1>3, <1>4

\* Every instruction keeps the invariant.
LEMMA StepKeepsIInv == ASSUME IInv, Step PROVE IInv'
<1>1. \/ Position(esp.stack, This, Base, Size, Now)
      \/ AtStub(This, Base, Size, Now, raised)
  BY Here, Zenon
<1>2. CASE \E i \in 1 .. 37 : eip = Tls(i)
  BY <1>2, SwitchKeeps
<1>3. CASE \E l \in Labels, k \in 1 .. 16 : eip = <<l, k>>
  <2>1. PICK l \in Labels, k \in 1 .. 16 : eip = <<l, k>>
    BY <1>3
  <2>2. InCommon(l, k)
    BY <2>1 DEF InCommon
  <2>. QED BY <2>2, CommonKeeps
<1>4. CASE AtC(eip, esp.stack, This, Base, Size, Now)
  <2>1. eip \in InC
    BY <1>4, Zenon DEF AtC, InC
  <2>2. eip[1] \in DOMAIN code
    BY OpStep
  <2>. QED BY <2>1, <2>2, CodeIs DEF InC
<1>5. CASE AtStub(This, Base, Size, Now, raised)
  <2>1. PICK v \in 0 .. 47, k \in 0 .. 3 : eip = StubAt(v, k) /\ InStub(v, k, This, Base, Size, Now, raised)
    BY <1>5, NowIs, Zenon DEF AtStub, StubAt
  <2>2. AtEntry(v, k)
    BY <2>1 DEF AtEntry
  <2>. QED BY <2>2, EntryKeeps
<1>. QED BY <1>1, <1>2, <1>3, <1>4, <1>5, NowIs, Zenon DEF Position

-----------------------------------------------------------------------------
(* Steps of C code.                                                         *)
BottomPlaces == {<<"main", 1>>, <<"main", 2>>, <<"thread_start", 1>>, <<"function", 1>>,
                 <<"function", 2>>, <<"thread_shutdown", 1>>, <<"thread_shutdown", 2>>}
HandlerPlaces == {<<"dispatch", 1>>, <<"handler", 1>>, <<"handler", 2>>}

\* What is known in C code, by the kind of place.
LEMMA CPlaces ==
    ASSUME IInv, eip \in InC
    PROVE  /\ eip \in BottomPlaces => AtBottom(eip, esp.stack, This, Size, Now)
           /\ eip \in HandlerPlaces => InDispatcher(eip, esp.stack, This, Base, Size, Now)
           /\ eip \notin {Tls(20), Tls(30)} /\ esp.top = Len(This) /\ This \in Seq(Words)
           /\ current_thread = esp.stack /\ esp.stack \in Stacks /\ esp.top \in Nat
           /\ esp = [stack |-> esp.stack, top |-> esp.top]
           /\ Base \in Contexts /\ Base.top \in Nat /\ reg \in [Registers -> Words] /\ ints \in BOOLEAN
<1>1. AtC(eip, esp.stack, This, Base, Size, Now)
  BY CHere
<1>2. /\ eip \in BottomPlaces => AtBottom(eip, esp.stack, This, Size, Now)
      /\ eip \in HandlerPlaces => InDispatcher(eip, esp.stack, This, Base, Size, Now)
  <2>1. eip \in BottomPlaces => eip \notin HandlerPlaces /\ eip # <<"abort", 1>>
    BY DEF BottomPlaces, HandlerPlaces
  <2>2. eip \in HandlerPlaces => eip # <<"abort", 1>>
    BY DEF HandlerPlaces
  <2>. QED BY <1>1, <2>1, <2>2, Zenon DEF AtC, BottomPlaces, HandlerPlaces
<1>3. eip \notin {Tls(20), Tls(30)}
  BY DEF InC, Tls
<1>4. current_thread = esp.stack
  BY <1>3, CurrentHere
<1>5. /\ esp.top = Len(This) /\ This \in Seq(Words) /\ esp.stack \in Stacks /\ esp.top \in Nat
      /\ esp = [stack |-> esp.stack, top |-> esp.top] /\ Base \in Contexts /\ Base.top \in Nat
  BY Here, Zenon
<1>. QED BY <1>2, <1>3, <1>4, <1>5 DEF IInv, Typed

\* A step of C code that stays on its stack.
LEMMA CStays ==
    ASSUME IInv, eip \in InC, NEW w, Stays(w), Spares(w), raised' \in Nat \X Words,
           eip' \in InC, eip' # <<"dispatch", 1>>, esp'.top = Len(w),
           AtC(eip', esp.stack, w, Base, Size, Now')
    PROVE  IInv'
<1>1. eip \notin {Tls(20), Tls(30)}
  BY CPlaces, Zenon
<1>2. eip' \notin {Tls(18), Tls(19), Tls(20), Tls(30)}
  BY DEF InC, Tls
<1>3. Position(esp.stack, w, Base, Size, Now')
  BY OnC, NowBecomes, Zenon
<1>4. Told(w, Base, eip', raised')
  <2>1. \A l \in Labels, k \in 1 .. 8 : eip' # <<l, k>>
    BY DEF InC, Labels
  <2>. QED BY <2>1, Zenon DEF Told
<1>. QED BY <1>1, <1>2, <1>3, <1>4, StaysKeeps, Zenon

\* A return that takes the top n + 1 words with it.
LEMMA RetDoes ==
    ASSUME IInv, NEW n \in Nat, ret(n), esp.top >= n + 1, NEW p \in Words, This[esp.top - n] = p,
           reg' \in [Registers -> Words], ints' \in BOOLEAN,
           UNCHANGED <<tcb, current_thread, left, raised>>, Same
    PROVE  \E w : /\ Runs(w, esp.top - (n + 1)) /\ Agrees(w, esp.top - (n + 1))
                  /\ Len(w) = esp.top - (n + 1) /\ eip' = p
<1> DEFINE w == SubSeq(This, 1, esp.top - (n + 1))
           top == esp.top - (n + 1)
<1>1. esp.top \in Nat /\ This \in Seq(Words) /\ esp.top <= Len(This)
  BY Here, Zenon
<1>2. top \in 0 .. Len(This)
  BY <1>1
<1>3. w \in Seq(Words) /\ Len(w) = top /\ \A j \in 1 .. top : w[j] = This[j]
  BY <1>1, <1>2, PrefixDoes, Zenon
<1>4. mem' = [mem EXCEPT ![esp.stack] = w]
  BY Zenon DEF ret, This
<1>5. eip' = p
  <2>1. esp.top - n \in 1 .. Len(This)
    BY <1>1
  <2>2. Below(n) = This[esp.top - n]
    BY <2>1, Zenon DEF Below, This
  <2>. QED BY <2>2, Zenon DEF ret
<1>6. esp' = [esp EXCEPT !.top = top]
  <2>1. esp.top + (-(n + 1)) = top
    BY <1>1
  <2>. QED BY <2>1, Zenon DEF ret, Down
<1> HIDE DEF w, top
<1>7. Runs(w, top)
  <2>1. top \in 0 .. Len(w) /\ eip' \in Words
    BY <1>2, <1>3, <1>5
  <2>. QED BY <1>3, <1>4, <1>6, <2>1, RunsIf
<1>8. Agrees(w, top)
  BY <1>3 DEF Agrees
<1>. QED BY <1>3, <1>5, <1>7, <1>8 DEF top

\* current_thread is a number: 0 for none.
LEMMA KernelThread == ASSUME IInv PROVE current_thread \in Nat
BY ThreadsAssumption DEF IInv, Typed, Stacks, Threads, Main

\* thread_start() enables interrupts and calls the thread's function.
LEMMA ThreadStarts == ASSUME IInv, thread_start PROVE IInv'
<1>1. eip = <<"thread_start", 1>> /\ eip \in InC /\ eip \in BottomPlaces
  BY DEF thread_start, At1, InC, BottomPlaces
<1>2. /\ AtBottom(eip, esp.stack, This, Size, Now) /\ esp.top = Len(This)
      /\ reg \in [Registers -> Words] /\ ints \in BOOLEAN
  BY <1>1, CPlaces, Zenon
<1>3. /\ Size = 0 /\ esp.stack # Main /\ This[1] = Zero /\ esp.top = 3
      /\ This[2] = <<"thread_shutdown", 1>> /\ This[3] = <<"function", 1>>
  BY <1>1, <1>2, NowIs DEF AtBottom
<1>4. reg' \in [Registers -> Words]
  <2>1. \A r \in Registers : r \in Kinds /\ <<r, current_thread>> \in Words
    BY KernelThread DEF Kinds, Words
  <2>2. \A r \in Registers : (IF r \in ToSet(Segments) THEN reg[r] ELSE Own(current_thread)[r]) \in Words
    BY <1>2, <2>1, WordTypes DEF Own
  <2>. QED BY <2>2 DEF thread_start
<1>5. ints' \in BOOLEAN /\ UNCHANGED <<tcb, current_thread, left, raised>> /\ Same /\ ret(0)
  BY <1>2 DEF thread_start
<1>6. PICK w : Runs(w, esp.top - (0 + 1)) /\ Agrees(w, esp.top - (0 + 1)) /\ Len(w) = esp.top - (0 + 1)
               /\ eip' = <<"function", 1>>
  <2>1. <<"function", 1>> \in Words
    BY DEF Words, Names
  <2>2. 0 \in Nat /\ esp.top >= 0 + 1 /\ This[esp.top - 0] = <<"function", 1>>
    BY <1>3
  <2>. QED BY <1>4, <1>5, <2>1, <2>2, RetDoes, Zenon
<1>7. Len(w) = 2 /\ Now'.top = 2 /\ esp'.top = 2 /\ w[1] = Zero /\ w[2] = <<"thread_shutdown", 1>>
  BY <1>3, <1>6 DEF Runs, Agrees
<1>8. AtC(eip', esp.stack, w, Base, Size, Now')
  BY <1>3, <1>6, <1>7 DEF AtC, AtBottom
<1>9. eip' \in InC /\ eip' # <<"dispatch", 1>> /\ Spares(w)
  BY <1>3, <1>6 DEF InC, Spares
<1>. QED BY <1>1, <1>6, <1>7, <1>8, <1>9, CStays DEF Runs

\* dispatch_to() has returned to the thread that called it.
LEMMA DispatchedAgain == ASSUME IInv, dispatched_again PROVE IInv'
<1>1. eip = <<"function", 2>> /\ eip \in InC /\ eip \in BottomPlaces
  BY DEF dispatched_again, At1, InC, BottomPlaces
<1>2. /\ AtBottom(eip, esp.stack, This, Size, Now) /\ esp.top = Len(This) /\ This \in Seq(Words)
      /\ reg \in [Registers -> Words] /\ ints \in BOOLEAN
  BY <1>1, CPlaces, Zenon
<1>3. /\ Size = 0 /\ esp.stack # Main /\ This[1] = Zero /\ esp.top = 3
      /\ This[2] = <<"thread_shutdown", 1>>
  BY <1>1, <1>2, NowIs DEF AtBottom
<1> DEFINE w == SubSeq(This, 1, 2)
<1>4. w \in Seq(Words) /\ Len(w) = 2 /\ \A j \in 1 .. 2 : w[j] = This[j]
  <2>1. 2 \in 0 .. Len(This)
    BY <1>2, <1>3
  <2>. QED BY <1>2, <2>1, PrefixDoes, Zenon
<1>5. /\ mem' = [mem EXCEPT ![esp.stack] = w] /\ esp' = [esp EXCEPT !.top = 2] /\ eip' = <<"function", 1>>
      /\ reg' = reg /\ ints' = ints
      /\ UNCHANGED <<tcb, current_thread, left, raised>> /\ Same
  BY <1>3 DEF dispatched_again, Down, This
<1> HIDE DEF w
<1>6. Runs(w, 2)
  <2>1. 2 \in 0 .. Len(w) /\ eip' \in Words
    BY <1>4, <1>5 DEF Words, Names
  <2>. QED BY <1>2, <1>4, <1>5, <2>1, RunsIf
<1>7. Now'.top = 2 /\ esp'.top = Len(w) /\ w[1] = Zero /\ w[2] = <<"thread_shutdown", 1>>
  BY <1>3, <1>4, <1>6 DEF Runs
<1>8. AtC(eip', esp.stack, w, Base, Size, Now')
  BY <1>3, <1>5, <1>7 DEF AtC, AtBottom
<1>9. eip' \in InC /\ eip' # <<"dispatch", 1>> /\ Spares(w)
  BY <1>3, <1>5 DEF InC, Spares
<1>. QED BY <1>1, <1>6, <1>7, <1>8, <1>9, CStays DEF Runs

\* A thread's function returns into thread_shutdown().
LEMMA FunctionReturns == ASSUME IInv, function_returns PROVE IInv'
<1>1. eip = <<"function", 1>> /\ eip \in InC /\ eip \in BottomPlaces
  BY DEF function_returns, At1, InC, BottomPlaces
<1>2. /\ AtBottom(eip, esp.stack, This, Size, Now) /\ esp.top = Len(This)
      /\ reg \in [Registers -> Words] /\ ints \in BOOLEAN
  BY <1>1, CPlaces, Zenon
<1>3. /\ Size = 0 /\ esp.stack # Main /\ This[1] = Zero /\ esp.top = 2
      /\ This[2] = <<"thread_shutdown", 1>>
  BY <1>1, <1>2, NowIs DEF AtBottom
<1>4. /\ reg' \in [Registers -> Words] /\ ints' \in BOOLEAN
      /\ UNCHANGED <<tcb, current_thread, left, raised>> /\ Same /\ ret(0)
  BY <1>2 DEF function_returns
<1>5. PICK w : Runs(w, esp.top - (0 + 1)) /\ Agrees(w, esp.top - (0 + 1)) /\ Len(w) = esp.top - (0 + 1)
               /\ eip' = <<"thread_shutdown", 1>>
  <2>1. <<"thread_shutdown", 1>> \in Words
    BY DEF Words, Names
  <2>2. 0 \in Nat /\ esp.top >= 0 + 1 /\ This[esp.top - 0] = <<"thread_shutdown", 1>>
    BY <1>3
  <2>. QED BY <1>4, <2>1, <2>2, RetDoes, Zenon
<1>6. Len(w) = 1 /\ Now'.top = 1 /\ esp'.top = 1 /\ w[1] = Zero
  BY <1>3, <1>5 DEF Runs, Agrees
<1>7. AtC(eip', esp.stack, w, Base, Size, Now')
  BY <1>3, <1>5, <1>6 DEF AtC, AtBottom
<1>8. eip' \in InC /\ eip' # <<"dispatch", 1>> /\ Spares(w)
  BY <1>3, <1>5 DEF InC, Spares
<1>. QED BY <1>1, <1>5, <1>6, <1>7, <1>8, CStays DEF Runs


-----------------------------------------------------------------------------
(* The dispatchers.                                                         *)

\* An address leads back to its stack and its place on it.
LEMMA AddressLeads ==
    ASSUME NEW s \in Nat, NEW t \in 0 .. Deepest - 1
    PROVE  (s * Deepest + t) \div Deepest = s /\ (s * Deepest + t) % Deepest = t
<1>1. Deepest \in Nat /\ Deepest > 0
  BY BoundsAssumption
<1> DEFINE D == Deepest
           a == s * D + t
           q == a \div D
           r == a % D
<1>2. a \in Nat /\ s * D \in Nat
  BY <1>1
<1>3. a = D * q + r /\ q \in Int /\ r \in 0 .. D - 1
  BY <1>1, <1>2
<1>4. t - r = D * (q - s)
  BY <1>1, <1>2, <1>3
<1>5. q = s
  <2>1. CASE q > s
    <3>1. D * (q - s) >= D
      BY <1>1, <1>3, <2>1
    <3>. QED BY <1>1, <1>3, <1>4, <3>1
  <2>2. CASE q < s
    <3>1. D * (q - s) <= 0 - D
      BY <1>1, <1>3, <2>2
    <3>. QED BY <1>1, <1>3, <1>4, <3>1
  <2>. QED BY <1>3, <2>1, <2>2
<1>. QED BY <1>1, <1>2, <1>3, <1>5

\* The words of the context that has been interrupted, where the dispatcher
\* looks for them.
LEMMA DispatchHere ==
    ASSUME IInv, eip = <<"dispatch", 1>>
    PROVE  /\ InDispatcher(eip, esp.stack, This, Base, Size, Now) /\ Size \in 1 .. Nested
           /\ This[Base.top + 4] = raised[2] /\ This[Base.top + 5] = <<"number", raised[1]>>
           /\ Base.top <= 20 * Size /\ Base.top + 19 = esp.top /\ esp.top = Len(This)
           /\ eip \in InC
<1>1. eip \in InC /\ eip \in HandlerPlaces
  BY DEF InC, HandlerPlaces
<1>2. InDispatcher(eip, esp.stack, This, Base, Size, Now) /\ esp.top = Len(This)
  BY <1>1, CPlaces, Zenon
<1>3. Size \in 1 .. Nested /\ Now.top = Base.top + 19
  BY <1>2 DEF InDispatcher
<1>4. This[Base.top + 4] = raised[2] /\ This[Base.top + 5] = <<"number", raised[1]>>
  <2>1. Told(This, Base, eip, raised)
    BY Here, Zenon
  <2>. QED BY <2>1, Zenon DEF Told
<1>5. Base.top <= 20 * Size
  <2>1. Kept(esp.stack, This, left[esp.stack]) /\ (Size # 0 => Base = left[esp.stack][Size])
    BY Here, Zenon
  <2>. QED BY <1>3, <2>1 DEF Kept, Size
<1>. QED BY <1>1, <1>2, <1>3, <1>4, <1>5, NowIs

\* The fields of REGS are the words of the context, counted from its other end.
LEMMA REGSAre ==
    ASSUME IInv, eip = <<"dispatch", 1>>, NEW f, Offset(f) \in 0 .. 16
    PROVE  REGS(f) = This[(Base.top + 17) - Offset(f)]
<1> DEFINE t == Base.top + 17
           a == esp.stack * Deepest + t
<1>1. /\ InDispatcher(eip, esp.stack, This, Base, Size, Now) /\ Size \in 1 .. Nested
      /\ Base.top <= 20 * Size /\ Base.top + 19 = esp.top /\ esp.top = Len(This)
  BY DispatchHere, Zenon
<1>2. /\ Base.top \in Nat /\ esp.top \in Nat /\ This \in Seq(Words) /\ esp.stack \in Stacks
  BY Here, Zenon
<1>3. This[Base.top + 18] = At([stack |-> esp.stack, top |-> t])
  BY <1>1 DEF InDispatcher
<1>4. Below(1) = This[Base.top + 18]
  <2>1. esp.top - 1 = Base.top + 18 /\ esp.top - 1 \in 1 .. Len(This)
    BY <1>1, <1>2
  <2>. QED BY <2>1, Zenon DEF Below, This
<1>5. Below(1) = <<"address", a>>
  BY <1>3, <1>4 DEF At
<1>6. t \in 0 .. Deepest - 1
  BY <1>1, <1>2, DepthAssumption, BoundsAssumption
<1>7. esp.stack \in Nat
  BY <1>2, ThreadsAssumption DEF Stacks, Threads, Main
<1> HIDE DEF t
<1>8. a \div Deepest = esp.stack /\ a % Deepest = t
  BY <1>6, <1>7, AddressLeads, Zenon
<1> HIDE DEF a
<1>9. Below(1)[1] = "address" /\ Below(1)[2] = a
  BY <1>5
<1>10. mem[Below(1)[2] \div Deepest] = This /\ (Below(1)[2] % Deepest) - Offset(f) = t - Offset(f)
  BY <1>8, <1>9, Zenon DEF This
<1>11. t - Offset(f) \in DOMAIN This
  <2>1. \A o \in 0 .. 16 : (Base.top + 17) - o \in DOMAIN This
    <3>1. Base.top \in Nat /\ Len(This) = Base.top + 19 /\ DOMAIN This = 1 .. Len(This)
      BY <1>1, <1>2
    <3>. QED BY <3>1
  <2>2. PICK o \in 0 .. 16 : o = Offset(f)
    BY Zenon
  <2>3. (Base.top + 17) - o \in DOMAIN This
    BY <2>1
  <2>. QED BY <2>2, <2>3, Zenon DEF t
<1>12. REGS(f) = This[t - Offset(f)]
  <2>1. REGS(f) = IF /\ Below(1)[1] = "address"
                     /\ (Below(1)[2] % Deepest) - Offset(f) \in DOMAIN mem[Below(1)[2] \div Deepest]
                    THEN mem[Below(1)[2] \div Deepest][(Below(1)[2] % Deepest) - Offset(f)]
                    ELSE <<"outside", 0>>
    BY Zenon DEF REGS
  <2> DEFINE words == mem[Below(1)[2] \div Deepest]
             i     == (Below(1)[2] % Deepest) - Offset(f)
  <2>2. words = This /\ i = t - Offset(f)
    BY <1>10, Zenon
  <2> HIDE DEF words, i
  <2>3. REGS(f) = IF Below(1)[1] = "address" /\ i \in DOMAIN words THEN words[i] ELSE <<"outside", 0>>
    BY <2>1, Zenon DEF words, i
  <2>4. Below(1)[1] = "address" /\ i \in DOMAIN words
    BY <1>9, <1>11, <2>2, Zenon
  <2>. QED BY <2>2, <2>3, <2>4, Zenon
<1>. QED BY <1>12 DEF t

\* The dispatcher calls the handler, or aborts.
LEMMA Dispatches == ASSUME IInv, dispatch PROVE IInv'
<1>1. eip = <<"dispatch", 1>> /\ eip' = <<"handler", 1>>
  BY DEF dispatch, At1
<1>2. /\ InDispatcher(eip, esp.stack, This, Base, Size, Now) /\ eip \in InC
      /\ This[Base.top + 5] = <<"number", raised[1]>>
  BY <1>1, DispatchHere, Zenon
<1>3. /\ Base.top \in Nat /\ esp.top = Len(This) /\ esp.top \in Nat /\ This \in Seq(Words)
      /\ esp.stack \in Stacks /\ esp = [stack |-> esp.stack, top |-> esp.top]
      /\ reg \in [Registers -> Words] /\ ints \in BOOLEAN
  BY <1>2, CPlaces, Zenon
<1>4. REGS("int_no")[2] = raised[1]
  <2>1. Offset("int_no") = 12
    BY DEF Offset
  <2>2. REGS("int_no") = This[(Base.top + 17) - 12]
    BY <1>1, <2>1, REGSAre
  <2>. QED BY <1>2, <1>3, <2>2
<1>5. reg' \in [Registers -> Words]
  <2>1. <<"vector", raised[1]>> \in Words /\ <<"scratch", 0>> \in Words
    BY DEF IInv, Typed, Words, Kinds
  <2>2. reg' = [r \in Registers |-> IF r = "eax" THEN <<"vector", raised[1]>>
                                    ELSE IF r \in Scratch THEN <<"scratch", 0>> ELSE reg[r]]
    BY <1>4 DEF dispatch
  <2>. QED BY <1>3, <2>1, <2>2
<1>6. raised' \in Nat \X Words
  BY WordTypes DEF dispatch, Nothing
<1>7. /\ Now' \in Contexts /\ Now'.top = esp.top /\ esp' = esp
  <2>1. eip' \in Words
    BY <1>1 DEF Words, Names
  <2>2. Now' = [reg |-> reg', ints |-> ints, eip |-> eip', top |-> esp.top]
    BY DEF dispatch, Now, Snapshot
  <2>. QED BY <1>3, <1>5, <2>1, <2>2, ContextMade DEF dispatch
<1>8. Stays(This)
  <2>1. mem' = [mem EXCEPT ![esp.stack] = This]
    BY <1>3 DEF dispatch, This, IInv, Typed
  <2>2. UNCHANGED <<kernel, tcb, current_thread, left>>
    BY DEF dispatch, Same
  <2>3. esp' = [stack |-> esp.stack, top |-> Now'.top] /\ Now'.top <= Len(This)
    BY <1>3, <1>7
  <2>. QED BY <1>3, <1>7, <2>1, <2>2, <2>3, Zenon DEF Stays
<1>9. AtC(eip', esp.stack, This, Base, Size, Now')
  <2>1. ~Now'.ints
    BY <1>2, NowIs, NowBecomes DEF InDispatcher, dispatch
  <2>2. InDispatcher(eip', esp.stack, This, Base, Size, Now')
    BY <1>1, <1>2, <1>7, <2>1, NowIs DEF InDispatcher
  <2>. QED BY <1>1, <2>2 DEF AtC
<1>10. eip' \in InC /\ eip' # <<"dispatch", 1>> /\ Spares(This) /\ esp'.top = Len(This)
  BY <1>1, <1>3, <1>7 DEF InC, Spares
<1>. QED BY <1>2, <1>6, <1>8, <1>9, <1>10, CStays, Zenon

\* abort() leaves the stack as it is.
LEMMA Aborts == ASSUME IInv, abort PROVE IInv'
<1>1. /\ eip \in {<<"thread_shutdown", 1>>, <<"handler", 1>>} /\ eip' = <<"abort", 1>> /\ ~ints'
      /\ eip \in InC
  BY DEF abort, At1, InC
<1>2. /\ eip \in BottomPlaces => AtBottom(eip, esp.stack, This, Size, Now)
      /\ eip \in HandlerPlaces => InDispatcher(eip, esp.stack, This, Base, Size, Now)
      /\ Base.top \in Nat /\ esp.top = Len(This) /\ esp.top \in Nat
      /\ reg \in [Registers -> Words] /\ ints \in BOOLEAN
  BY <1>1, CPlaces, Zenon
<1>3. Size \in 0 .. Nested /\ esp.top <= Base.top + 20
  <2>1. CASE eip = <<"thread_shutdown", 1>>
    <3>1. AtBottom(eip, esp.stack, This, Size, Now)
      BY <1>2, <2>1 DEF BottomPlaces
    <3>2. Size = 0 /\ esp.top = 1
      BY <2>1, <3>1, NowIs DEF AtBottom
    <3>. QED BY <1>2, <3>2, BoundsAssumption
  <2>2. CASE eip = <<"handler", 1>>
    <3>1. InDispatcher(eip, esp.stack, This, Base, Size, Now)
      BY <1>2, <2>2 DEF HandlerPlaces
    <3>2. Size \in 1 .. Nested /\ esp.top = Base.top + 19
      BY <2>2, <3>1, NowIs DEF InDispatcher
    <3>. QED BY <1>2, <3>2, BoundsAssumption
  <2>. QED BY <1>1, <2>1, <2>2
<1>4. Runs(This, esp.top)
  <2>1. /\ mem' = mem /\ esp' = esp /\ reg' = reg /\ ints' = FALSE
        /\ UNCHANGED <<tcb, current_thread, left, raised>> /\ Same
    BY DEF abort
  <2>2. reg' \in [Registers -> Words] /\ ints' \in BOOLEAN
    BY <1>2, <2>1
  <2>3. eip' \in Words
    BY <1>1 DEF Words, Names
  <2>. QED BY <2>1, <2>2, <2>3, QuietDoes, Zenon
<1>5. AtC(eip', esp.stack, This, Base, Size, Now')
  <2>1. ~Now'.ints /\ Now'.top <= Base.top + 20
    BY <1>1, <1>3, <1>4, NowBecomes DEF Runs
  <2>. QED BY <1>1, <1>3, <2>1 DEF AtC
<1>6. eip' \in InC /\ eip' # <<"dispatch", 1>> /\ Spares(This) /\ esp'.top = Len(This)
  BY <1>1, <1>2, <1>4 DEF InC, Spares, Runs
<1>. QED BY <1>1, <1>4, <1>5, <1>6, CStays DEF Runs

\* A handler returns, through the dispatcher, to the common stub.
LEMMA HandlerLeaves ==
    ASSUME IInv, NEW n \in {0, 1}, ret(n), eip = <<"handler", n + 1>>,
           UNCHANGED <<reg, ints, tcb, current_thread, raised, left>>, Same
    PROVE  IInv'
<1>1. eip \in InC /\ eip \in HandlerPlaces
  BY DEF InC, HandlerPlaces
<1>2. /\ InDispatcher(eip, esp.stack, This, Base, Size, Now)
      /\ Base.top \in Nat /\ esp.top = Len(This) /\ esp.top \in Nat
      /\ reg \in [Registers -> Words] /\ ints \in BOOLEAN /\ eip \notin {Tls(20), Tls(30)}
      /\ Base \in Contexts
  BY <1>1, CPlaces, Zenon
<1>3. Size \in 1 .. Nested /\ ~ints /\ esp.top = Base.top + 19 + n /\ Saved(This, Base, 17)
  <2>1. n = 0 => eip # <<"handler", 2>>
    OBVIOUS
  <2>2. n = 1 => eip = <<"handler", 2>>
    OBVIOUS
  <2>3. Now.top = esp.top /\ Now.ints = ints
    BY NowIs
  <2>4. /\ Size \in 1 .. Nested /\ ~ints /\ Saved(This, Base, 17)
        /\ eip = <<"handler", 2>> => esp.top = Base.top + 20
        /\ eip # <<"handler", 2>> => esp.top = Base.top + 19
    BY <1>2, <2>3, Zenon DEF InDispatcher
  <2>. QED BY <1>2, <2>1, <2>2, <2>4
<1>4. PICK l \in Labels : This[Base.top + 19] = <<l, 9>>
  BY <1>2 DEF InDispatcher
<1>5. PICK w : /\ Runs(w, esp.top - (n + 1)) /\ Agrees(w, esp.top - (n + 1))
               /\ Len(w) = esp.top - (n + 1) /\ eip' = <<l, 9>>
  <2>1. <<l, 9>> \in Words
    BY DEF Words, Names, Labels
  <2>2. n \in Nat /\ esp.top >= n + 1 /\ This[esp.top - n] = <<l, 9>>
    BY <1>2, <1>3, <1>4
  <2>3. reg' \in [Registers -> Words] /\ ints' \in BOOLEAN
    BY <1>2
  <2>. QED BY <2>1, <2>2, <2>3, RetDoes, Zenon
<1>6. esp.top - (n + 1) = Base.top + 18
  BY <1>2, <1>3
<1>7. Agrees(w, Base.top + 18) /\ Now'.top = Base.top + 18 /\ Stays(w) /\ raised' \in Nat \X Words
  BY <1>5, <1>6 DEF Runs
<1>8. Saved(w, Base, 17)
  <2>1. \A j \in 1 .. Base.top + 17 : w[j] = This[j]
    BY <1>2, <1>7 DEF Agrees
  <2>. QED BY <1>2, <1>3, <2>1, SavedWords
<1>9. AtCommon(9, esp.stack, w, Base, Size, Now')
  <2>1. ~Now'.ints
    BY <1>3, NowBecomes
  <2>2. /\ ~(9 \in 1 .. 6) /\ 9 # 7 /\ 9 # 8 /\ ~(9 \in 10 .. 16)
    OBVIOUS
  <2>. QED BY <1>3, <1>7, <1>8, <2>1, <2>2, Zenon DEF AtCommon
<1>10. Spares(w)
  BY <1>2, <1>7 DEF Spares, Agrees
<1>11. 9 \in 1 .. 16 /\ ~(9 <= 8)
  OBVIOUS
<1>. QED BY <1>2, <1>5, <1>7, <1>9, <1>10, <1>11, StaysInCommon, Zenon

\* A handler returns through the dispatcher to the stub.
LEMMA HandlerReturns == ASSUME IInv, handler_returns \/ handler_resumed PROVE IInv'
<1>1. CASE handler_returns
  <2>1. ret(0) /\ eip = <<"handler", 0 + 1>> /\ 0 \in {0, 1}
    BY <1>1 DEF handler_returns, At1
  <2>. QED BY <1>1, <2>1, HandlerLeaves DEF handler_returns
<1>2. CASE handler_resumed
  <2>1. ret(1) /\ eip = <<"handler", 1 + 1>> /\ 1 \in {0, 1}
    BY <1>2 DEF handler_resumed, At1
  <2>. QED BY <1>2, <2>1, HandlerLeaves DEF handler_resumed
<1>. QED BY <1>1, <1>2

-----------------------------------------------------------------------------
(* Thread::dispatch_to().                                                   *)

\* The argument and the return address are pushed.
Calls(w, u, back) ==
    /\ w \in Seq(Words) /\ Len(w) = esp.top + 2 /\ Agrees(w, esp.top)
    /\ w[esp.top + 1] = Thread(u) /\ w[esp.top + 2] = back
    /\ mem' = [mem EXCEPT ![esp.stack] = w]
    /\ Now' \in Contexts /\ Now'.top = esp.top + 2 /\ Now'.reg = reg /\ Now'.ints = ints
    /\ esp' = [stack |-> esp.stack, top |-> Now'.top] /\ Now'.eip = Tls(1) /\ eip' = Tls(1)
    /\ UNCHANGED <<tcb, current_thread, raised, kernel>> /\ raised' \in Nat \X Words

\* dispatch_to() has pushed the thread, and the address it returns to.
LEMMA DispatchDoes ==
    ASSUME IInv, NEW u \in Threads, NEW back \in Words, dispatch_to(u, back)
    PROVE  \E w : Calls(w, u, back)
<1> DEFINE ws == <<Thread(u), back>>
           w  == Writes(This, esp.top + 1, ws)
<1>1. /\ esp.top \in Nat /\ This \in Seq(Words) /\ esp.top <= Len(This)
      /\ esp = [stack |-> esp.stack, top |-> esp.top]
  BY Here, Zenon
<1>2. ws \in Seq(Words) /\ Len(ws) = 2 /\ ws[1] = Thread(u) /\ ws[2] = back
  <2>1. Thread(u) \in Words
    <3>1. u \in Nat
      BY ThreadsAssumption DEF Threads
    <3>. QED BY <3>1, WordTypes, Zenon
  <2>. QED BY <2>1
<1>3. esp.top \in 0 .. Len(This) /\ 1 \in 1 .. 2 /\ 2 \in 1 .. 2
  BY <1>1
<1>4. mem' = [mem EXCEPT ![esp.stack] = w]
  BY Zenon DEF dispatch_to, This
<1> HIDE DEF ws
<1>5. /\ w \in Seq(Words) /\ Len(w) = esp.top + 2 /\ \A j \in 1 .. esp.top : w[j] = This[j]
      /\ w[esp.top + 1] = Thread(u) /\ w[esp.top + 2] = back
  <2>1. /\ w \in Seq(Words) /\ Len(w) = esp.top + Len(ws)
        /\ \A j \in 1 .. esp.top : w[j] = This[j]
        /\ \A j \in 1 .. Len(ws) : w[esp.top + j] = ws[j]
    BY <1>1, <1>2, <1>3, WritesDoes, Zenon
  <2>. QED BY <1>2, <1>3, <2>1, Zenon
<1> HIDE DEF w
<1>6. esp' = [stack |-> esp.stack, top |-> esp.top + 2]
  BY <1>1 DEF dispatch_to, Down
<1>7. eip' = Tls(1) /\ reg' = reg /\ ints' = ints /\ UNCHANGED <<tcb, current_thread, raised, kernel>>
  BY DEF dispatch_to, Tls
<1>8. Now' = [reg |-> reg, ints |-> ints, eip |-> Tls(1), top |-> esp.top + 2]
  BY <1>6, <1>7 DEF Now, Snapshot
<1>9. Now' \in Contexts /\ raised' \in Nat \X Words
  <2>1. Tls(1) \in Words
    BY DEF Tls, Words, Names
  <2>2. reg \in [Registers -> Words] /\ ints \in BOOLEAN /\ esp.top + 2 \in Nat
    BY <1>1 DEF IInv, Typed
  <2>3. raised' \in Nat \X Words
    BY <1>7 DEF IInv, Typed
  <2>. QED BY <1>8, <2>1, <2>2, <2>3, ContextMade
<1>10. /\ Now'.top = esp.top + 2 /\ Now'.reg = reg /\ Now'.ints = ints /\ Now'.eip = Tls(1)
       /\ esp' = [stack |-> esp.stack, top |-> Now'.top]
  BY <1>6, <1>8
<1>. QED BY <1>4, <1>5, <1>7, <1>9, <1>10, Zenon DEF Calls, Agrees

\* C code dispatches a thread, and would go on at back.
LEMMA LeavesKeeps ==
    ASSUME IInv, NEW u \in Threads, NEW back \in Words, dispatch_to(u, back), Leaves(back),
           eip \in InC, Rests(back), Size <= Nested,
           Size # 0 => esp.top >= Base.top,
           \A w : Agrees(w, esp.top) =>
                    Position(esp.stack, w, Base, Size, Snapshot(back, esp.top + 1))
    PROVE  IInv'
<1> DEFINE l == left[esp.stack]
           c == Snapshot(back, esp.top + 1)
           m == Append(l, c)
<1>1. /\ esp.top \in Nat /\ l \in Seq(Contexts) /\ Size \in Nat /\ Size = Len(l)
      /\ Base.top \in Nat
  BY Here, Zenon DEF Size
<1>2. c \in Contexts /\ c.top = esp.top + 1 /\ c.eip = back /\ c.reg = reg /\ c.ints = ints
  <2>1. reg \in [Registers -> Words] /\ ints \in BOOLEAN /\ esp.top + 1 \in Nat
    BY <1>1 DEF IInv, Typed
  <2>. QED BY <2>1, ContextMade DEF Snapshot
<1>3. left' = [left EXCEPT ![esp.stack] = m]
  BY Zenon DEF Leaves
<1> HIDE DEF c
<1>4. PICK w : Calls(w, u, back)
  BY DispatchDoes, Zenon
<1>5. Kept(esp.stack, w, l)
  <2>1. Spares(w)
    BY <1>1, <1>4 DEF Spares, Calls, Agrees
  <2>. QED BY <2>1, SparesKept, Zenon
<1>6. Position(esp.stack, w, Context(l, Len(l)), Len(l), c)
  BY <1>4, Zenon DEF Calls, Base, Size, c
<1>7. /\ m \in Seq(Contexts) /\ Len(m) = Size + 1 /\ Context(m, Size + 1) = c
      /\ Kept(esp.stack, w, m)
  <2> HIDE DEF l
  <2>1. /\ Append(l, c) \in Seq(Contexts) /\ Len(Append(l, c)) = Len(l) + 1
        /\ Context(Append(l, c), Len(l) + 1) = c /\ Kept(esp.stack, w, Append(l, c))
    BY <1>1, <1>2, <1>5, <1>6, KeptAppend, Zenon
  <2>. QED BY <1>1, <2>1, Zenon
<1> HIDE DEF l, m
<1>8. Steps(w, m)
  BY <1>3, <1>4, <1>7, Zenon DEF Steps, Calls
<1>9. AtSwitch(1, esp.stack, w, c, Size + 1, Now')
  <2>1. Moving(1, w, c, Now')
    BY <1>1, <1>2, <1>4 DEF Calls, Moving
  <2>2. Leaving(1, w, c, Now')
    BY <2>1 DEF Leaving
  <2>3. c.top >= 1 /\ w[c.top] \in Named
    BY <1>1, <1>2, <1>4 DEF Calls, Named
  <2>4. Size + 1 \in 1 .. Nested + 1
    BY <1>1, BoundsAssumption
  <2>5. Now'.top = c.top + 1 /\ 1 \in {1, 28, 29, 30} /\ 1 \notin {29, 30} /\ 1 \in 1 .. 20
    BY <1>1, <1>2, <1>4 DEF Calls
  <2>. QED BY <2>2, <2>3, <2>4, <2>5, Zenon DEF AtSwitch
<1>10. Placed(esp.stack, w, m, Now', raised')
  <2>1. Now'.eip = Tls(1) /\ 1 \in 1 .. 37
    BY <1>4 DEF Calls
  <2>2. Position(esp.stack, w, c, Size + 1, Now')
    BY <1>9, <2>1, OnSwitch, Zenon
  <2>3. Told(w, c, Now'.eip, raised') /\ Now'.eip \notin InC
    BY <2>1 DEF Told, Tls, InC, Labels
  <2>4. Now'.top <= Len(w)
    BY <1>1, <1>4 DEF Calls
  <2>. QED BY <1>7, <2>2, <2>3, <2>4, Zenon DEF Placed
<1>11. eip \notin {Tls(20), Tls(30)} /\ eip' \notin {Tls(18), Tls(19), Tls(20), Tls(30)}
  BY <1>4 DEF InC, Tls, Calls
<1>. QED BY <1>7, <1>8, <1>10, <1>11, StepKeeps, Zenon

\* main() dispatches the first thread, and is not returned to.
LEMMA KicksOff == ASSUME IInv, NEW u \in Threads, kick_off(u) PROVE IInv'
<1> DEFINE back == <<"main", 2>>
           c    == Snapshot(back, esp.top + 1)
<1>1. /\ eip = <<"main", 1>> /\ eip \in InC /\ eip \in BottomPlaces
      /\ dispatch_to(u, back) /\ Leaves(back)
  BY DEF kick_off, At1, InC, BottomPlaces
<1>2. AtBottom(eip, esp.stack, This, Size, Now)
  BY <1>1, CPlaces, Zenon
<1>3. Size = 0 /\ esp.stack = Main /\ esp.top = 0 /\ Size <= Nested
  BY <1>1, <1>2, NowIs, BoundsAssumption DEF AtBottom
<1>4. back \in Words /\ back \in InC /\ Rests(back)
  BY DEF Words, Names, InC, Rests
<1>5. c.top = 1 /\ c.eip = back
  BY <1>3 DEF Snapshot
<1> HIDE DEF c
<1>6. ASSUME NEW w PROVE Position(esp.stack, w, Base, Size, c)
  <2>1. AtBottom(back, esp.stack, w, Size, c)
    BY <1>3, <1>5 DEF AtBottom
  <2>2. AtC(c.eip, esp.stack, w, Base, Size, c)
    BY <1>5, <2>1 DEF AtC
  <2>. QED BY <1>4, <1>5, <2>2, OnC, Zenon
<1> HIDE DEF back
<1>7. \A w : Agrees(w, esp.top) => Position(esp.stack, w, Base, Size, Snapshot(back, esp.top + 1))
  BY <1>6 DEF c
<1>. QED BY <1>1, <1>3, <1>4, <1>7, LeavesKeeps, Zenon

\* What the thread leaves at the bottom of its stack.
LEMMA BottomLeft ==
    ASSUME IInv, eip = <<"function", 1>> \/ eip = <<"thread_shutdown", 1>>, NEW w, Agrees(w, esp.top)
    PROVE  /\ Size = 0 /\ esp.stack # Main /\ eip \in InC /\ Rests(<<eip[1], 2>>)
           /\ Position(esp.stack, w, Base, Size, Snapshot(<<eip[1], 2>>, esp.top + 1))
<1> DEFINE c == Snapshot(<<eip[1], 2>>, esp.top + 1)
<1>1. eip \in InC /\ eip \in BottomPlaces /\ Rests(<<eip[1], 2>>)
  BY DEF InC, BottomPlaces, Rests
<1>2. AtBottom(eip, esp.stack, This, Size, Now) /\ esp.top \in Nat
  BY <1>1, CPlaces, Zenon
<1>3. Size = 0 /\ esp.stack # Main /\ This[1] = Zero
  BY <1>2 DEF AtBottom
<1>4. /\ eip = <<"function", 1>> => esp.top = 2 /\ This[2] = <<"thread_shutdown", 1>>
      /\ eip = <<"thread_shutdown", 1>> => esp.top = 1
  BY <1>2, NowIs DEF AtBottom
<1>5. w[1] = Zero /\ (eip = <<"function", 1>> => w[2] = <<"thread_shutdown", 1>>)
  BY <1>3, <1>4 DEF Agrees
<1>6. c.top = esp.top + 1 /\ c.eip = <<eip[1], 2>>
  BY DEF Snapshot
<1> HIDE DEF c
<1>7. AtBottom(c.eip, esp.stack, w, Size, c)
  BY <1>3, <1>4, <1>5, <1>6 DEF AtBottom
<1>8. c.eip \in InC /\ AtC(c.eip, esp.stack, w, Base, Size, c)
  BY <1>6, <1>7 DEF AtC, InC
<1>9. Position(esp.stack, w, Base, Size, c)
  BY <1>8, OnC, Zenon
<1>. QED BY <1>1, <1>3, <1>9 DEF c

\* A thread hands on the processor, for now or for good.
LEMMA PassesOn == ASSUME IInv, NEW u \in Threads, pass_on_CPU(u) \/ thread_shutdown(u) PROVE IInv'
<1> DEFINE back == <<eip[1], 2>>
<1>1. eip = <<"function", 1>> \/ eip = <<"thread_shutdown", 1>>
  BY DEF pass_on_CPU, thread_shutdown, At1
<1>2. dispatch_to(u, back) /\ Leaves(back)
  BY DEF pass_on_CPU, thread_shutdown, At1
<1>3. back \in Words
  BY <1>1 DEF Words, Names
<1>4. Size = 0 /\ esp.stack # Main /\ eip \in InC /\ Rests(back)
  <2>1. Agrees(This, esp.top)
    BY DEF Agrees
  <2>. QED BY <1>1, <2>1, BottomLeft, Zenon
<1>5. \A w : Agrees(w, esp.top) => Position(esp.stack, w, Base, Size, Snapshot(back, esp.top + 1))
  BY <1>1, BottomLeft, Zenon
<1> HIDE DEF back
<1>6. Size <= Nested
  BY <1>4, BoundsAssumption
<1>. QED BY <1>2, <1>3, <1>4, <1>5, <1>6, LeavesKeeps, Zenon

\* The timer's handler hands on the processor of the thread it has interrupted,
\* or of main().
LEMMA EndsTurn == ASSUME IInv, NEW u \in Threads, end_turn(u) PROVE IInv'
<1> DEFINE back == <<"handler", 2>>
<1>1. /\ eip = <<"handler", 1>> /\ eip \in InC /\ eip \in HandlerPlaces /\ back \in InC /\ Rests(back)
      /\ back \in Words /\ dispatch_to(u, back) /\ Leaves(back)
  BY DEF end_turn, At1, InC, HandlerPlaces, Rests, Words, Names
<1>2. /\ InDispatcher(eip, esp.stack, This, Base, Size, Now)
      /\ esp.top \in Nat /\ Base \in Contexts /\ Base.top \in Nat
  BY <1>1, CPlaces, Zenon
<1>3. /\ Size \in 1 .. Nested /\ ~ints /\ esp.top = Base.top + 19 /\ Saved(This, Base, 17)
      /\ \E l \in Labels : This[Base.top + 19] = <<l, 9>>
  <2>1. eip # <<"handler", 2>>
    BY <1>1
  <2>. QED BY <1>2, <2>1, NowIs, Zenon DEF InDispatcher
<1>4. ASSUME NEW w, Agrees(w, esp.top)
      PROVE  Position(esp.stack, w, Base, Size, Snapshot(back, esp.top + 1))
  <2> DEFINE c == Snapshot(back, esp.top + 1)
  <2>1. c.top = esp.top + 1 /\ c.eip = back /\ c.ints = ints
    BY DEF Snapshot
  <2>2. c.top = Base.top + 20
    BY <1>2, <1>3, <2>1
  <2> HIDE DEF c
  <2>3. Saved(w, Base, 17) /\ w[Base.top + 19] = This[Base.top + 19]
    <3>1. \A j \in 1 .. Base.top + 17 : w[j] = This[j]
      BY <1>2, <1>3, <1>4 DEF Agrees
    <3>2. w[Base.top + 19] = This[Base.top + 19]
      BY <1>2, <1>3, <1>4 DEF Agrees
    <3>. QED BY <1>2, <1>3, <3>1, <3>2, SavedWords
  <2>4. InDispatcher(back, esp.stack, w, Base, Size, c)
    BY <1>3, <2>1, <2>2, <2>3 DEF InDispatcher
  <2>5. AtC(c.eip, esp.stack, w, Base, Size, c) /\ c.eip \in InC
    BY <1>1, <2>1, <2>4 DEF AtC
  <2>6. Position(esp.stack, w, Base, Size, c)
    BY <2>5, OnC, Zenon
  <2>. QED BY <2>6 DEF c
<1>5. Size <= Nested /\ esp.top >= Base.top
  BY <1>2, <1>3, BoundsAssumption
<1> HIDE DEF back
<1>. QED BY <1>1, <1>4, <1>5, LeavesKeeps, Zenon

-----------------------------------------------------------------------------
(* Interrupts and exceptions.                                               *)

\* Where the processor takes one, the stack can lose it.
LEMMA TakenWhere ==
    ASSUME IInv,
           \/ ints /\ eip # <<"abort", 1>> /\ ~AtFatal
           \/ eip \in {<<"main", 1>>, <<"function", 1>>, <<"handler", 1>>}
    PROVE  Rests(eip) /\ Position(esp.stack, This, Base, Size, Now) /\ eip \notin {Tls(20), Tls(30)}
<1>1. \/ Position(esp.stack, This, Base, Size, Now)
      \/ AtStub(This, Base, Size, Now, raised)
  BY Here, Zenon
<1>2. CASE \E i \in 1 .. 37 : eip = Tls(i)
  <2>1. PICK i \in 1 .. 37 : eip = Tls(i)
    BY <1>2
  <2>2. eip[1] = "threads_low_switch_to" /\ eip[2] = i
    BY <2>1 DEF Tls
  <2>3. eip \notin {<<"main", 1>>, <<"function", 1>>, <<"handler", 1>>}
    BY <2>1 DEF Tls
  <2>4. i \notin Fatal
    BY <2>2, <2>3, Zenon DEF AtFatal
  <2>5. Rests(eip)
    BY <2>1, <2>4 DEF Rests
  <2>6. eip \notin {Tls(20), Tls(30)}
    BY <2>2, <2>4 DEF Tls, Fatal
  <2>7. Position(esp.stack, This, Base, Size, Now)
    <3>1. Now.eip = Tls(i)
      BY <2>1, NowIs
    <3>2. AtSwitch(i, esp.stack, This, Base, Size, Now)
      BY <2>1, SwitchHere, Zenon
    <3>. QED BY <3>1, <3>2, Zenon DEF Position
  <2>. QED BY <2>5, <2>6, <2>7
<1>3. CASE \E l \in Labels, k \in 1 .. 16 : eip = <<l, k>>
  <2>1. PICK l \in Labels, k \in 1 .. 16 : eip = <<l, k>>
    BY <1>3
  <2>2. AtCommon(k, esp.stack, This, Base, Size, Now)
    BY <2>1, CommonHere, Zenon
  <2>3. ~ints /\ eip \notin {<<"main", 1>>, <<"function", 1>>, <<"handler", 1>>}
    BY <2>1, <2>2, NowIs DEF AtCommon, Labels
  <2>. QED BY <2>3
<1>4. CASE AtC(eip, esp.stack, This, Base, Size, Now)
  <2>1. eip \in InC
    BY <1>4, Zenon DEF AtC, InC
  <2>2. eip \notin {<<"dispatch", 1>>, <<"thread_start", 1>>, <<"abort", 1>>}
    <3>1. CASE eip = <<"dispatch", 1>>
      <4>1. ~ints
        BY <1>4, <3>1, NowIs DEF AtC, InDispatcher
      <4>. QED BY <3>1, <4>1
    <3>2. CASE eip = <<"thread_start", 1>>
      <4>1. ~ints
        BY <1>4, <3>2, NowIs DEF AtC, AtBottom
      <4>. QED BY <3>2, <4>1
    <3>. QED BY <3>1, <3>2
  <2>3. Rests(eip)
    BY <2>1, <2>2 DEF InC, Rests
  <2>4. Position(esp.stack, This, Base, Size, Now)
    BY <1>4, <2>1, NowIs, OnC, Zenon
  <2>. QED BY <2>1, <2>3, <2>4, CPlaces, Zenon
<1>5. CASE AtStub(This, Base, Size, Now, raised)
  <2>1. ~ints
    BY <1>5, NowIs DEF AtStub, InStub
  <2>2. eip[1] \in {"irq", "isr"}
    <3>1. Now.eip[1] \in {"irq", "isr"}
      BY <1>5, NotInStub, Zenon
    <3>. QED BY <3>1, NowIs
  <2>3. eip \notin {<<"main", 1>>, <<"function", 1>>, <<"handler", 1>>}
    BY <2>2
  <2>. QED BY <2>1, <2>3
<1>. QED BY <1>1, <1>2, <1>3, <1>4, <1>5, NowIs, Zenon DEF Position

\* The words that the processor pushes.
Pushed(v, error) == <<Flags(ints), KERNEL_CS, eip>> \o (IF v \in HasCode THEN <<error>> ELSE <<>>)
Depth(v)         == IF v \in HasCode THEN 4 ELSE 3

\* What the processor pushes for an interrupt.
LEMMA PushedAre ==
    ASSUME IInv, NEW v, NEW error \in Words
    PROVE  /\ Pushed(v, error) \in Seq(Words) /\ Len(Pushed(v, error)) = Depth(v)
           /\ Pushed(v, error)[1] = Flags(ints) /\ Pushed(v, error)[2] = KERNEL_CS
           /\ Pushed(v, error)[3] = eip /\ (v \in HasCode => Pushed(v, error)[4] = error)
<1> DEFINE a == <<Flags(ints), KERNEL_CS, eip>>
<1>1. a \in Seq(Words) /\ Len(a) = 3 /\ a[1] = Flags(ints) /\ a[2] = KERNEL_CS /\ a[3] = eip
  <2>1. Flags(ints) \in Words /\ KERNEL_CS \in Words /\ eip \in Words
    BY FlagsDiffer, WordTypes, Zenon DEF IInv, Typed
  <2> HIDE DEF Words
  <2>. QED BY <2>1
<1> HIDE DEF a
<1>2. CASE v \in HasCode
  <2>1. <<error>> \in Seq(Words) /\ Len(<<error>>) = 1 /\ <<error>>[1] = error
    OBVIOUS
  <2>2. /\ a \o <<error>> \in Seq(Words) /\ Len(a \o <<error>>) = 4
        /\ \A j \in 1 .. 3 : (a \o <<error>>)[j] = a[j]
        /\ (a \o <<error>>)[3 + 1] = error
    <3>1. /\ a \o <<error>> \in Seq(Words) /\ Len(a \o <<error>>) = Len(a) + Len(<<error>>)
          /\ \A j \in 1 .. Len(a) : (a \o <<error>>)[j] = a[j]
          /\ \A j \in 1 .. Len(<<error>>) : (a \o <<error>>)[Len(a) + j] = <<error>>[j]
      BY <1>1, <2>1, ConcatDoes, Zenon
    <3>. QED BY <1>1, <2>1, <3>1
  <2>3. Pushed(v, error) = a \o <<error>> /\ Depth(v) = 4
    BY <1>2, Zenon DEF Pushed, a, Depth
  <2>. QED BY <1>1, <1>2, <2>2, <2>3
<1>3. CASE v \notin HasCode
  <2>1. a \o <<>> = a
    BY <1>1
  <2>2. Pushed(v, error) = a /\ Depth(v) = 3
    BY <1>3, <2>1, Zenon DEF Pushed, a, Depth
  <2>. QED BY <1>1, <1>3, <2>2
<1>. QED BY <1>2, <1>3

\* An interrupt or exception leaves what it interrupts as one more context on
\* the stack.
LEMMA EnterKeeps ==
    ASSUME IInv, NEW v \in 0 .. 47, NEW error \in Words, enter(v, error), Rests(eip),
           Position(esp.stack, This, Base, Size, Now), eip \notin {Tls(20), Tls(30)}
    PROVE  IInv'
<1> DEFINE l  == left[esp.stack]
           m  == Append(l, Now)
           es == Pushed(v, error)
           d  == Depth(v)
           w  == Writes(This, esp.top + 1, es)
<1>1. /\ esp.stack \in Stacks /\ esp.top \in Nat /\ This \in Seq(Words) /\ esp.top <= Len(This)
      /\ esp = [stack |-> esp.stack, top |-> esp.top]
      /\ l \in Seq(Contexts) /\ Size \in Nat /\ Size = Len(l) /\ Now \in Contexts
      /\ Base \in Contexts /\ Base.top \in Nat /\ (Size = 0 => Base = Starts)
      /\ Now.reg = reg /\ Now.ints = ints /\ Now.eip = eip /\ Now.top = esp.top
  BY Here, Zenon DEF Size
<1>2. /\ es \in Seq(Words) /\ Len(es) = d /\ es[1] = Flags(ints) /\ es[2] = KERNEL_CS
      /\ es[3] = eip /\ (v \in HasCode => es[4] = error)
  BY PushedAre, Zenon
<1>3. d \in {3, 4} /\ d \in Nat
  BY DEF Depth
<1>4. mem' = [mem EXCEPT ![esp.stack] = w]
  BY Zenon DEF enter, This, Pushed
<1>5. left' = [left EXCEPT ![esp.stack] = m] /\ Size < Nested
  BY Zenon DEF enter, Now, Size
<1>6. /\ eip' = Gate[v] /\ ints' = FALSE /\ reg' = reg
      /\ raised' = <<v, IF v \in HasCode THEN error ELSE Zero>>
      /\ esp' = [stack |-> esp.stack, top |-> esp.top + d]
      /\ UNCHANGED <<kernel, tcb, current_thread>>
  BY <1>1 DEF enter, Down, Depth
<1> HIDE DEF es, d
<1>7. /\ w \in Seq(Words) /\ Len(w) = esp.top + d
      /\ \A j \in 1 .. esp.top : w[j] = This[j]
      /\ w[esp.top + 1] = Flags(ints) /\ w[esp.top + 2] = KERNEL_CS /\ w[esp.top + 3] = eip
      /\ v \in HasCode => w[esp.top + 4] = error
  <2>1. esp.top \in 0 .. Len(This)
    BY <1>1
  <2>2. /\ w \in Seq(Words) /\ Len(w) = esp.top + Len(es)
        /\ \A j \in 1 .. esp.top : w[j] = This[j]
        /\ \A j \in 1 .. Len(es) : w[esp.top + j] = es[j]
    BY <1>1, <1>2, <2>1, WritesDoes, Zenon
  <2>3. 1 \in 1 .. d /\ 2 \in 1 .. d /\ 3 \in 1 .. d /\ (v \in HasCode => 4 \in 1 .. d)
    BY <1>3 DEF d, Depth
  <2>. QED BY <1>2, <2>2, <2>3, Zenon
<1> HIDE DEF w
<1>8. Now' = [reg |-> reg, ints |-> FALSE, eip |-> Gate[v], top |-> esp.top + d]
  BY <1>6 DEF Now, Snapshot
<1>9. Gate[v] \in Words /\ Gate[v] = <<Gate[v][1], Gate[v][2] + 0>>
  <2>1. CASE v < 32
    <3>1. Gate[v] = <<"isr", 4 * v + 1>>
      BY <2>1, GateText, Zenon
    <3>2. 4 * v + 1 \in Nat
      OBVIOUS
    <3>. QED BY <3>1, <3>2 DEF Words, Names
  <2>2. CASE v >= 32
    <3>1. Gate[v] = <<"irq", 4 * (v - 32) + 1>>
      BY <2>2, GateText, Zenon
    <3>2. 4 * (v - 32) + 1 \in Nat
      BY <2>2
    <3>. QED BY <3>1, <3>2 DEF Words, Names
  <2>. QED BY <2>1, <2>2
<1>10. Now' \in Contexts /\ raised' \in Nat \X Words
  <2>1. reg \in [Registers -> Words] /\ FALSE \in BOOLEAN /\ esp.top + d \in Nat
    <3>1. reg \in [Registers -> Words]
      BY Zenon DEF IInv, Typed
    <3>2. esp.top \in Nat /\ d \in Nat
      BY <1>1, <1>3, Zenon
    <3>. QED BY <3>1, <3>2
  <2>2. Now' \in Contexts
    BY <1>8, <1>9, <2>1, ContextMade
  <2>3. (IF v \in HasCode THEN error ELSE Zero) \in Words /\ v \in Nat
    BY WordTypes
  <2>4. raised' \in Nat \X Words
    BY <1>6, <2>3
  <2>. QED BY <2>2, <2>4
<1>11. Spares(w)
  <2>1. Size # 0 => esp.top >= Base.top
    BY <1>1, PositionTop
  <2>. QED BY <1>1, <1>7, <2>1 DEF Spares
<1>12. Kept(esp.stack, w, l)
  BY <1>11, SparesKept, Zenon
<1>13. Position(esp.stack, w, Base, Size, Now)
  <2>1. Rests(Now.eip) /\ \A j \in 1 .. Now.top : w[j] = This[j]
    BY <1>1, <1>7, Zenon
  <2>2. Size \in Nat /\ Now \in Contexts /\ Base \in Contexts
    BY <1>1, Zenon
  <2>. QED BY <2>1, <2>2, PositionWords, Zenon
<1>14. /\ m \in Seq(Contexts) /\ Len(m) = Size + 1 /\ Context(m, Size + 1) = Now
       /\ Kept(esp.stack, w, m)
  <2>1. Position(esp.stack, w, Context(l, Len(l)), Len(l), Now)
    BY <1>13, Zenon DEF Base, Size
  <2> HIDE DEF l
  <2>2. /\ Append(l, Now) \in Seq(Contexts) /\ Len(Append(l, Now)) = Len(l) + 1
        /\ Context(Append(l, Now), Len(l) + 1) = Now /\ Kept(esp.stack, w, Append(l, Now))
    BY <1>1, <1>12, <2>1, KeptAppend, Zenon
  <2>. QED BY <1>1, <2>2, Zenon
<1> HIDE DEF l, m
<1>15. Steps(w, m)
  <2>1. esp' = [stack |-> esp.stack, top |-> Now'.top]
    BY <1>6, <1>8
  <2>. QED BY <1>4, <1>5, <1>6, <1>7, <1>10, <1>14, <2>1, Zenon DEF Steps
<1>16. InStub(v, 0, w, Now, Size + 1, Now', raised')
  <2>1. ForIret(w, Now)
    BY <1>1, <1>7, Zenon DEF ForIret
  <2>2. Size + 1 \in 1 .. Nested
    BY <1>1, <1>5, BoundsAssumption
  <2>3. Now'.top = Now.top + d /\ Now'.reg = Now.reg /\ ~Now'.ints
    BY <1>1, <1>8
  <2>4. /\ raised'[1] = v /\ (v \in HasCode => raised'[2] = error /\ d = 4)
        /\ (v \notin HasCode => raised'[2] = Zero /\ d = 3)
    BY <1>6 DEF d, Depth
  <2>5. v \in HasCode => w[Now.top + 4] = error
    BY <1>1, <1>7
  <2>. QED BY <2>1, <2>2, <2>3, <2>4, <2>5 DEF InStub
<1>17. Now'.eip = <<Gate[v][1], Gate[v][2] + 0>> /\ Now'.eip[1] \in {"irq", "isr"}
  <2>2. Gate[v][1] \in {"irq", "isr"}
    BY GateText
  <2>3. Now'.eip = Gate[v]
    BY <1>8
  <2>. QED BY <1>9, <2>2, <2>3, Zenon
<1>18. Placed(esp.stack, w, m, Now', raised')
  <2>1. 0 \in 0 .. 3
    OBVIOUS
  <2>2. AtStub(w, Now, Size + 1, Now', raised')
    BY <1>16, <1>17, <2>1, Zenon DEF AtStub
  <2>3. Told(w, Now, Now'.eip, raised') /\ Now'.eip \notin InC
    BY <1>17 DEF Told, Labels, InC
  <2>4. Now'.top <= Len(w)
    BY <1>1, <1>3, <1>7, <1>8
  <2>. QED BY <1>14, <2>2, <2>3, <2>4, Zenon DEF Placed
<1>19. eip' \notin {Tls(18), Tls(19), Tls(20), Tls(30)}
  BY <1>17, NowBecomes DEF Tls
<1>. QED BY <1>14, <1>15, <1>18, <1>19, StepKeeps, Zenon

\* Interrupts come where they are on and no fatal instruction is next.
LEMMA Interrupts == ASSUME IInv, NEW v \in Irqs, interrupt(v), ~struck' PROVE IInv'
<1>1. v \in 0 .. 47 /\ Zero \in Words /\ enter(v, Zero)
  BY BoundsAssumption, WordTypes DEF interrupt
<1>2. Rests(eip) /\ Position(esp.stack, This, Base, Size, Now) /\ eip \notin {Tls(20), Tls(30)}
  BY TakenWhere, Zenon DEF interrupt
<1>. QED BY <1>1, <1>2, EnterKeeps, Zenon

\* Exceptions come in main(), the threads' functions and the handlers.
LEMMA Faulting == ASSUME IInv, NEW v \in Faults, fault(v) PROVE IInv'
<1>1. v \in 0 .. 47
  BY BoundsAssumption
<1>2. <<"code", 2>> \in Words /\ enter(v, <<"code", 2>>)
  BY DEF fault, Words, Kinds
<1>3. Rests(eip) /\ Position(esp.stack, This, Base, Size, Now) /\ eip \notin {Tls(20), Tls(30)}
  BY TakenWhere, Zenon DEF fault
<1>. QED BY <1>1, <1>2, <1>3, EnterKeeps, Zenon

-----------------------------------------------------------------------------
(* The inductive invariant.                                                 *)

\* The stack that setup_context() builds is a whole context.
LEMMA BuiltStack ==
    ASSUME NEW t
    PROVE  /\ setup_context(t) \in Seq(Words) /\ Len(setup_context(t)) = 20
           /\ Bottom(setup_context(t), 0) /\ Saved(setup_context(t), Starts, 17)
<1> DEFINE a == <<Zero, <<"thread_shutdown", 1>>, <<"function", 1>>, Flags(FALSE), KERNEL_CS,
                  <<"thread_start", 1>>, Zero, Zero>>
           b == [i \in 1 .. Len(General) |-> Zero]
           d == <<KERNEL_DS, KERNEL_DS, Zero, Zero>>
           u == setup_context(t)
<1>1. /\ Zero \in Words /\ KERNEL_CS \in Words /\ KERNEL_DS \in Words /\ Flags(FALSE) \in Words
      /\ <<"thread_shutdown", 1>> \in Words /\ <<"function", 1>> \in Words
      /\ <<"thread_start", 1>> \in Words
  <2>1. <<"thread_shutdown", 1>> \in Words /\ <<"function", 1>> \in Words /\ <<"thread_start", 1>> \in Words
    BY DEF Words, Names
  <2>. QED BY <2>1, WordTypes, FlagsDiffer
<1> DEFINE A1 == <<"thread_shutdown", 1>>
           A2 == <<"function", 1>>
           A3 == <<"thread_start", 1>>
           F  == Flags(FALSE)
<1> HIDE DEF A1, A2, A3, F
<1>2. /\ a \in Seq(Words) /\ Len(a) = 8 /\ a[1] = Zero /\ a[2] = A1 /\ a[3] = A2
      /\ a[4] = F /\ a[5] = KERNEL_CS /\ a[6] = A3
  <2> DEFINE e == <<Zero, A1, A2, F, KERNEL_CS, A3, Zero, Zero>>
  <2>1. A1 \in Words /\ A2 \in Words /\ A3 \in Words /\ F \in Words
    BY <1>1 DEF A1, A2, A3, F
  <2>2. e \in Seq(Words) /\ Len(e) = 8 /\ e[1] = Zero /\ e[2] = A1 /\ e[3] = A2
        /\ e[4] = F /\ e[5] = KERNEL_CS /\ e[6] = A3
    BY <1>1, <2>1
  <2>3. a = e
    BY Zenon DEF A1, A2, A3, F
  <2>. QED BY <2>2, <2>3, Zenon
<1>3. b \in Seq(Words) /\ Len(b) = 8 /\ \A i \in 1 .. 8 : b[i] = Zero
  <2>1. Len(General) = 8
    BY DEF General
  <2>2. b = [i \in 1 .. 8 |-> Zero]
    BY <2>1, Zenon
  <2>3. [i \in 1 .. 8 |-> Zero] \in Seq(Words)
    <3>1. [i \in 1 .. 8 |-> Zero] \in [1 .. 8 -> Words]
      BY <1>1, Zenon
    <3>. QED BY <3>1, SeqDef
  <2>4. Len([i \in 1 .. 8 |-> Zero]) = 8
    OBVIOUS
  <2>. QED BY <2>2, <2>3, <2>4, Zenon
<1>4. /\ d \in Seq(Words) /\ Len(d) = 4 /\ d[1] = KERNEL_DS /\ d[2] = KERNEL_DS
      /\ d[3] = Zero /\ d[4] = Zero
  BY <1>1
<1>5. u = (a \o b) \o d
  BY DEF setup_context
<1> HIDE DEF a, b, d, u
<1>6. /\ a \o b \in Seq(Words) /\ Len(a \o b) = 16
      /\ \A j \in 1 .. 8 : (a \o b)[j] = a[j]
      /\ \A j \in 1 .. 8 : (a \o b)[8 + j] = b[j]
  <2>1. /\ a \o b \in Seq(Words) /\ Len(a \o b) = Len(a) + Len(b)
        /\ \A j \in 1 .. Len(a) : (a \o b)[j] = a[j]
        /\ \A j \in 1 .. Len(b) : (a \o b)[Len(a) + j] = b[j]
    BY <1>2, <1>3, ConcatDoes, Zenon
  <2>. QED BY <1>2, <1>3, <2>1
<1> DEFINE c == a \o b
<1> HIDE DEF c
<1>7. c \in Seq(Words) /\ Len(c) = 16 /\ (\A j \in 1 .. 8 : c[j] = a[j]) /\ \A j \in 9 .. 16 : c[j] = Zero
  <2>1. ASSUME NEW j \in 9 .. 16 PROVE c[j] = Zero
    <3>1. j - 8 \in 1 .. 8 /\ 8 + (j - 8) = j
      OBVIOUS
    <3>2. (a \o b)[8 + (j - 8)] = b[j - 8]
      BY <1>6, <3>1, Zenon
    <3>. QED BY <1>3, <3>1, <3>2 DEF c
  <2>. QED BY <1>6, <2>1, Zenon DEF c
<1>8. /\ u \in Seq(Words) /\ Len(u) = 20
      /\ \A j \in 1 .. 16 : u[j] = c[j]
      /\ \A j \in 1 .. 4 : u[16 + j] = d[j]
  <2>1. /\ c \o d \in Seq(Words) /\ Len(c \o d) = Len(c) + Len(d)
        /\ \A j \in 1 .. Len(c) : (c \o d)[j] = c[j]
        /\ \A j \in 1 .. Len(d) : (c \o d)[Len(c) + j] = d[j]
    BY <1>4, <1>7, ConcatDoes, Zenon
  <2>2. u = c \o d
    BY <1>5, Zenon DEF c
  <2>3. /\ u \in Seq(Words) /\ Len(u) = 16 + 4
        /\ \A j \in 1 .. 16 : u[j] = c[j]
        /\ \A j \in 1 .. 4 : u[16 + j] = d[j]
    BY <1>4, <1>7, <2>1, <2>2, Zenon
  <2>4. 16 + 4 = 20
    OBVIOUS
  <2>. QED BY <2>3, <2>4, Zenon
<1>9. /\ u[1] = Zero /\ u[2] = A1 /\ u[3] = A2 /\ u[4] = F /\ u[5] = KERNEL_CS /\ u[6] = A3
      /\ \A j \in 9 .. 16 : u[j] = Zero
  <2>0. /\ \A j \in 1 .. 8 : c[j] = a[j]
        /\ \A j \in 9 .. 16 : c[j] = Zero
        /\ \A j \in 1 .. 16 : u[j] = c[j]
    BY <1>7, <1>8, Zenon
  <2>1. /\ u[1] = a[1] /\ u[2] = a[2] /\ u[3] = a[3] /\ u[4] = a[4] /\ u[5] = a[5] /\ u[6] = a[6]
    <3>1. /\ 1 \in 1 .. 8 /\ 2 \in 1 .. 8 /\ 3 \in 1 .. 8 /\ 4 \in 1 .. 8 /\ 5 \in 1 .. 8 /\ 6 \in 1 .. 8
          /\ 1 \in 1 .. 16 /\ 2 \in 1 .. 16 /\ 3 \in 1 .. 16 /\ 4 \in 1 .. 16 /\ 5 \in 1 .. 16
          /\ 6 \in 1 .. 16
      OBVIOUS
    <3>2. /\ c[1] = a[1] /\ c[2] = a[2] /\ c[3] = a[3] /\ c[4] = a[4] /\ c[5] = a[5] /\ c[6] = a[6]
      BY <2>0, <3>1, Zenon
    <3>3. /\ u[1] = c[1] /\ u[2] = c[2] /\ u[3] = c[3] /\ u[4] = c[4] /\ u[5] = c[5] /\ u[6] = c[6]
      BY <2>0, <3>1, Zenon
    <3>. QED BY <3>2, <3>3, Zenon
  <2>2. \A j \in 9 .. 16 : u[j] = Zero
    <3>1. \A j \in 9 .. 16 : j \in 1 .. 16
      OBVIOUS
    <3>. QED BY <2>0, <3>1, Zenon
  <2>. QED BY <1>2, <2>1, <2>2, Zenon
<1>10. u[17] = KERNEL_DS /\ u[18] = KERNEL_DS /\ u[19] = Zero /\ u[20] = Zero
  <2>1. u[16 + 1] = d[1] /\ u[16 + 2] = d[2] /\ u[16 + 3] = d[3] /\ u[16 + 4] = d[4]
    BY <1>8
  <2>. QED BY <1>4, <2>1
<1>11. Bottom(u, 0)
  BY <1>9, Zenon DEF Bottom, A1, A2
<1>12. /\ Starts.top = 3 /\ Starts.ints = FALSE /\ Starts.eip = A3
       /\ Starts.reg["eax"] = Zero /\ Starts.reg["ecx"] = Zero /\ Starts.reg["edx"] = Zero
       /\ Starts.reg["ebx"] = Zero /\ Starts.reg["ebp"] = Zero /\ Starts.reg["esi"] = Zero
       /\ Starts.reg["edi"] = Zero /\ Starts.reg["ds"] = KERNEL_DS /\ Starts.reg["es"] = KERNEL_DS
       /\ Starts.reg["fs"] = Zero /\ Starts.reg["gs"] = Zero
  BY RegistersAre DEF Starts, A3
<1>13. ForIret(u, Starts)
  <2>1. u[Starts.top + 1] = F /\ u[Starts.top + 2] = KERNEL_CS /\ u[Starts.top + 3] = A3
    BY <1>9, <1>12
  <2>. QED BY <1>12, <2>1, Zenon DEF ForIret, F
<1>14. GeneralAt(u, Starts)
  BY <1>9, <1>12 DEF GeneralAt
<1>15. Saved(u, Starts, 17)
  BY <1>10, <1>12, <1>13, <1>14 DEF Saved
<1>. QED BY <1>8, <1>11, <1>15 DEF u

\* What setup_context() builds is a parked stack, and main() is at work.
LEMMA InitIInv == ASSUME Init PROVE IInv
<1>1. Typed
  <2>1. reg \in [Registers -> Words]
    <3>1. \A r \in Registers : <<r, 0>> \in Words
      BY DEF Words, Kinds
    <3>. QED BY <3>1, WordTypes DEF Init, Own, Main
  <2>2. Main \in Stacks /\ \A t \in Threads : t \in Stacks /\ t # Main
    BY ThreadsAssumption DEF Stacks, Main, Threads
  <2>3. esp \in Pointers /\ ints \in BOOLEAN /\ current_thread \in Stacks
    BY <2>2 DEF Init, Pointers, Main
  <2>4. eip \in Words /\ raised \in Nat \X Words
    BY WordTypes DEF Init, Words, Names, Nothing
  <2>5. mem \in [Stacks -> Seq(Words)]
    BY BuiltStack DEF Init
  <2>6. tcb \in [Threads -> Pointers]
    BY <2>2, BuiltStack DEF Init, Pointers
  <2>7. left \in [Stacks -> Seq(Contexts)] /\ kernel \in Kernels
    BY DEF Init
  <2>. QED BY <2>1, <2>3, <2>4, <2>5, <2>6, <2>7 DEF Typed
<1>2. /\ esp.stack = Main /\ esp.top = 0 /\ eip = <<"main", 1>> /\ current_thread = Main
      /\ \A s \in Stacks : left[s] = <<>>
      /\ Main \in Stacks /\ mem[Main] = <<>>
  BY DEF Init, Main, Stacks
<1>3. StacksSound
  BY <1>2 DEF StacksSound, Kept
<1>4. ParkedSound
  <2>1. ASSUME NEW t \in Threads PROVE Parked(t, mem[t], left[t], tcb[t])
    <3>1. t \in Stacks /\ t # Main /\ mem[t] = setup_context(t)
      BY ThreadsAssumption DEF Init, Stacks, Threads, Main
    <3>2. tcb[t] = [stack |-> t, top |-> 20] /\ Len(mem[t]) = 20
      BY <3>1, BuiltStack DEF Init
    <3>3. left[t] = <<>> /\ Len(left[t]) = 0
      BY <1>2, <3>1
    <3>4. Context(left[t], 0) = Starts /\ Starts.top + 17 = 20
      BY DEF Context, Starts
    <3>5. Bottom(mem[t], 0) /\ Saved(mem[t], Starts, 17)
      BY <3>1, BuiltStack, Zenon
    <3>6. 0 <= Nested + 1 /\ 20 <= Len(mem[t])
      BY <3>2, BoundsAssumption
    <3>. QED BY <3>2, <3>3, <3>4, <3>5, <3>6, Zenon DEF Parked
  <2>. QED BY <2>1, Zenon DEF ParkedSound
<1>5. PlacedSound
  <2>1. Now.eip = <<"main", 1>> /\ Now.top = 0 /\ Now.eip \in InC
    BY <1>2, NowIs DEF InC
  <2>2. Len(left[esp.stack]) = 0 /\ Len(mem[esp.stack]) = 0
    BY <1>2
  <2> DEFINE L == Context(left[esp.stack], 0)
  <2>3. AtBottom(Now.eip, esp.stack, mem[esp.stack], 0, Now)
    BY <1>2, <2>1 DEF AtBottom
  <2>4. AtC(Now.eip, esp.stack, mem[esp.stack], L, 0, Now)
    BY <2>1, <2>3, Zenon DEF AtC
  <2>5. Position(esp.stack, mem[esp.stack], L, 0, Now)
    BY <2>1, <2>4, OnC, Zenon
  <2>6. Told(mem[esp.stack], L, Now.eip, raised)
    BY <2>1 DEF Told, Labels
  <2>7. Now.top <= Len(mem[esp.stack]) /\ Now.top = Len(mem[esp.stack])
    BY <2>1, <2>2
  <2>. QED BY <2>2, <2>5, <2>6, <2>7, Zenon DEF PlacedSound, Placed
<1>6. CurrentSound
  BY <1>2 DEF CurrentSound, Tls
<1>. QED BY <1>1, <1>3, <1>4, <1>5, <1>6 DEF IInv

\* Every step keeps IInv, unless it is one that the code does not survive.
LEMMA NextIInv == ASSUME IInv, [Next]_vars, ~struck' PROVE IInv'
<1>1. CASE Step
  BY <1>1, StepKeepsIInv
<1>2. CASE CCode
  <2>1. ~shutdown_returns
    BY Zenon DEF shutdown_returns
  <2>. QED BY <1>2, <2>1, ThreadStarts, DispatchedAgain, FunctionReturns, Aborts, Dispatches,
              HandlerReturns, Zenon DEF CCode
<1>3. CASE \E u \in Threads : kick_off(u)
  BY <1>3, KicksOff, Zenon
<1>4. CASE \E u \in Threads \cup {NULL} : pass_on_CPU(u) \/ thread_shutdown(u) \/ end_turn(u)
  <2>1. PICK u \in Threads \cup {NULL} : pass_on_CPU(u) \/ thread_shutdown(u) \/ end_turn(u)
    BY <1>4
  <2>2. u # NULL
    BY <2>1, Zenon DEF pass_on_CPU, thread_shutdown, end_turn, dispatch_to
  <2>3. u \in Threads
    BY <2>2
  <2>. QED BY <2>1, <2>3, PassesOn, EndsTurn, Zenon
<1>5. CASE \E v \in Irqs : interrupt(v)
  BY <1>5, Interrupts, Zenon
<1>6. CASE \E v \in Faults : fault(v)
  BY <1>6, Faulting, Zenon
<1>7. CASE UNCHANGED vars
  <2>1. Typed' /\ StacksSound' /\ ParkedSound' /\ PlacedSound' /\ CurrentSound'
    BY <1>7, Zenon DEF IInv, vars, Typed, StacksSound, ParkedSound, PlacedSound, CurrentSound, Now, Snapshot
  <2>. QED BY <2>1 DEF IInv
<1>. QED BY <1>1, <1>2, <1>3, <1>4, <1>5, <1>6, <1>7, Zenon DEF Next

\* What the code does not survive is never forgotten.
LEMMA StruckStays ==
    ASSUME struck \in BOOLEAN, [Next]_vars
    PROVE  struck' \in BOOLEAN /\ (struck => struck')
<1>1. CASE Step
  <2>1. struck' = struck
    BY <1>1, Zenon DEF Step, push, pop, pushad, popad, pushfd, move, cli, kernel_segments, je, jmp,
       save_esp, make_current, load_esp, call, iret, Same
  <2>. QED BY <2>1
<1>2. CASE CCode
  <2>1. struck' = struck \/ struck' = TRUE
    BY <1>2, Zenon DEF CCode, thread_start, dispatched_again, function_returns, shutdown_returns, abort,
       dispatch, handler_returns, handler_resumed, Same
  <2>. QED BY <2>1
<1>3. ASSUME NEW u, NEW back, dispatch_to(u, back) PROVE struck' \in BOOLEAN /\ (struck => struck')
  BY <1>3 DEF dispatch_to
<1>4. CASE \E u \in Threads : kick_off(u)
  BY <1>3, <1>4, Zenon DEF kick_off
<1>5. CASE \E u \in Threads \cup {NULL} : pass_on_CPU(u) \/ thread_shutdown(u) \/ end_turn(u)
  BY <1>3, <1>5, Zenon DEF pass_on_CPU, thread_shutdown, end_turn
<1>6. CASE \E v \in Irqs : interrupt(v)
  BY <1>6 DEF interrupt
<1>7. CASE \E v \in Faults : fault(v)
  BY <1>7 DEF fault
<1>8. CASE UNCHANGED vars
  BY <1>8, Zenon DEF vars
<1>. QED BY <1>1, <1>2, <1>4, <1>5, <1>6, <1>7, <1>8, Zenon DEF Next

Sound == struck \in BOOLEAN /\ (Intact => IInv)

\* As long as nothing has happened that the code does not survive, an interrupt
\* before a fatal instruction or the dispatch of NULL or of a dead thread, each
\* context on a stack was left where it can be resumed, a waiting stack has a
\* whole context at its top, and the processor is at an instruction whose words
\* are on its stack.
THEOREM Invariant == Spec => []Sound
<1>1. Init => Sound
  BY InitIInv DEF Init, Sound
<1>2. Sound /\ [Next]_vars => Sound'
  <2> SUFFICES ASSUME Sound, [Next]_vars PROVE Sound'
    OBVIOUS
  <2>1. struck' \in BOOLEAN /\ (struck => struck')
    BY StruckStays, Zenon DEF Sound
  <2>2. ASSUME ~struck' PROVE IInv'
    BY <2>1, <2>2, NextIInv, Zenon DEF Sound, Intact
  <2>. QED BY <2>1, <2>2, Zenon DEF Sound, Intact
<1>. QED BY <1>1, <1>2, PTL DEF Spec

-----------------------------------------------------------------------------
(* The properties.                                                          *)

\* A processor is at most twenty words above the last context of its stack.
LEMMA TopNear == ASSUME IInv PROVE esp.top <= Base.top + 20 /\ Size <= Nested + 1
<1>1. /\ \/ Position(esp.stack, This, Base, Size, Now)
         \/ AtStub(This, Base, Size, Now, raised)
      /\ Base.top \in Nat /\ esp.top \in Nat /\ Size \in Nat
  BY Here, Zenon
<1>2. Nested \in Nat
  BY BoundsAssumption
<1>3. CASE \E i \in 1 .. 37 : AtSwitch(i, esp.stack, This, Base, Size, Now)
  <2>1. PICK i \in 1 .. 37 : AtSwitch(i, esp.stack, This, Base, Size, Now)
    BY <1>3
  <2>2. CASE i \in {1, 28, 29, 30} /\ Size \in 1 .. Nested + 1 /\ Now.top = Base.top + 1
    BY <1>1, <1>2, <2>2, NowIs
  <2>3. CASE i \in 1 .. 20 /\ Size \in 1 .. Nested + 1 /\ Leaving(i, This, Base, Now)
    <3>1. Now.top <= Base.top + 20
      <4>1. CASE i \in 1 .. 9
        <5>1. Moving(i, This, Base, Now)
          BY <2>3, <4>1 DEF Leaving
        <5>. QED BY <1>1, <4>1, <5>1 DEF Moving
      <4>2. CASE i \in {10, 11}
        BY <1>1, <2>3, <4>2 DEF Leaving
      <4>3. CASE i \in 12 .. 17
        <5>1. i - 11 \in 1 .. 6 /\ Saving(i - 11, This, Base, Now)
          BY <2>3, <4>3 DEF Leaving
        <5>2. SavedBy[i - 11] \in 5 .. 17 /\ Now.top = Base.top + SavedBy[i - 11]
          BY <5>1, Tables DEF Saving
        <5>. QED BY <1>1, <5>2
      <4>4. CASE i \in 18 .. 20
        BY <1>1, <2>3, <4>4 DEF Leaving
      <4>. QED BY <2>3, <4>1, <4>2, <4>3, <4>4
    <3>. QED BY <1>1, <1>2, <2>3, <3>1, NowIs
  <2>4. CASE i \in 21 .. 27 \cup 31 .. 37 /\ Size \in 0 .. Nested + 1
             /\ Loading(IF i <= 27 THEN i - 20 ELSE i - 30, This, Base, Now)
    <3> DEFINE j == IF i <= 27 THEN i - 20 ELSE i - 30
    <3>1. j \in 1 .. 7 /\ Loading(j, This, Base, Now)
      BY <2>4
    <3> HIDE DEF j
    <3>2. LeftBy[j] \in 3 .. 17 /\ Now.top = Base.top + LeftBy[j]
      BY <3>1, Tables DEF Loading
    <3>. QED BY <1>1, <1>2, <2>4, <3>2, NowIs
  <2>. QED BY <2>1, <2>2, <2>3, <2>4, Zenon DEF AtSwitch
<1>4. CASE \E k \in 1 .. 16 : AtCommon(k, esp.stack, This, Base, Size, Now)
  <2>1. PICK k \in 1 .. 16 : AtCommon(k, esp.stack, This, Base, Size, Now)
    BY <1>4
  <2>2. Size \in 1 .. Nested
    BY <2>1 DEF AtCommon
  <2>3. Now.top <= Base.top + 20
    <3>1. CASE k \in 1 .. 6
      <4>1. SavedBy[k] \in 5 .. 17 /\ Now.top = Base.top + SavedBy[k]
        BY <2>1, <3>1, Tables DEF AtCommon, Saving
      <4>. QED BY <1>1, <4>1
    <3>2. CASE k \in 7 .. 9
      BY <1>1, <2>1, <3>2 DEF AtCommon
    <3>3. CASE k \in 10 .. 16
      <4>1. k - 9 \in 1 .. 7 /\ Loading(k - 9, This, Base, Now)
        BY <2>1, <3>3 DEF AtCommon
      <4>2. LeftBy[k - 9] \in 3 .. 17 /\ Now.top = Base.top + LeftBy[k - 9]
        BY <4>1, Tables DEF Loading
      <4>. QED BY <1>1, <4>2
    <3>. QED BY <3>1, <3>2, <3>3
  <2>. QED BY <1>1, <1>2, <2>2, <2>3, NowIs
<1>5. CASE AtC(eip, esp.stack, This, Base, Size, Now)
  <2>1. CASE eip \in BottomPlaces /\ AtBottom(eip, esp.stack, This, Size, Now)
    BY <1>1, <1>2, <2>1, NowIs DEF BottomPlaces, AtBottom
  <2>2. CASE InDispatcher(eip, esp.stack, This, Base, Size, Now)
    BY <1>1, <1>2, <2>2, NowIs DEF InDispatcher
  <2>3. CASE Size \in 0 .. Nested /\ Now.top <= Base.top + 20
    BY <1>1, <1>2, <2>3, NowIs
  <2>. QED BY <1>5, <2>1, <2>2, <2>3, Zenon DEF AtC, BottomPlaces
<1>6. CASE AtStub(This, Base, Size, Now, raised)
  <2>1. PICK v \in 0 .. 47, k \in 0 .. 3 : InStub(v, k, This, Base, Size, Now, raised)
    BY <1>6, Zenon DEF AtStub
  <2>. QED BY <1>1, <1>2, <2>1, NowIs DEF InStub
<1>. QED BY <1>1, <1>3, <1>4, <1>5, <1>6, NowIs, Zenon DEF Position

\* The types, with the depths that IInv bounds.
LEMMA TypeHere == ASSUME IInv, struck \in BOOLEAN PROVE TypeOK
<1>1. /\ esp.stack \in Stacks /\ esp.top \in Nat /\ esp.top <= Len(This) /\ Base.top \in Nat /\ Size \in Nat
      /\ (Size = 0 => Base = Starts) /\ (Size # 0 => Base = left[esp.stack][Size])
      /\ Kept(esp.stack, This, left[esp.stack])
  BY Here, Zenon
<1>2. Base.top <= 20 * Size + 3
  <2>1. CASE Size = 0
    BY <1>1, <2>1 DEF Starts
  <2>2. CASE Size # 0
    <3>1. Size \in 1 .. Len(left[esp.stack])
      BY <1>1, <2>2 DEF Size
    <3>2. left[esp.stack][Size].top <= 20 * Size
      BY <3>1, <1>1, Zenon DEF Kept
    <3>. QED BY <1>1, <2>2, <3>2
  <2>. QED BY <2>1, <2>2
<1>3. Size # 0 => Base.top <= 20 * Size
  <2>1. ASSUME Size # 0 PROVE Base.top <= 20 * Size
    <3>1. Size \in 1 .. Len(left[esp.stack])
      BY <1>1, <2>1 DEF Size
    <3>2. left[esp.stack][Size].top <= 20 * Size
      BY <3>1, <1>1, Zenon DEF Kept
    <3>. QED BY <1>1, <2>1, <3>2
  <2>. QED BY <2>1
<1>4. esp.top < Deepest
  <2>1. esp.top <= Base.top + 20 /\ Size <= Nested + 1
    BY TopNear, Zenon
  <2>2. Nested \in Nat /\ Deepest \in Nat /\ 20 * (Nested + 2) < Deepest
    BY BoundsAssumption, DepthAssumption
  <2>3. CASE Size = 0
    BY <1>1, <1>2, <2>1, <2>2, <2>3
  <2>4. CASE Size # 0
    BY <1>1, <1>3, <2>1, <2>2, <2>4
  <2>. QED BY <2>3, <2>4
<1>5. esp.top \in 0 .. Deepest - 1
  BY <1>1, <1>4, BoundsAssumption
<1>6. /\ kernel \in Kernels /\ DOMAIN reg = Registers /\ ints \in BOOLEAN
      /\ \A t \in Threads : tcb[t].stack \in Stacks
      /\ current_thread \in Threads \cup {0}
  BY DEF IInv, Typed, Pointers, Stacks, Main
<1>. QED BY <1>1, <1>5, <1>6, Zenon DEF TypeOK, This

\* The operations of the instructions.
LEMMA OperationIs ==
    /\ \A o : Op(o).op = o
    /\ \A r : Push(r).op = "push" /\ Pop(r).op = "pop" /\ Jmp(r).op = "jmp"
    /\ \A n : PushByte(n).op = "push" /\ Add(n).op = "add"
    /\ \A r, n : Load(r, n).op = "load" /\ Store(n, r).op = "store"
BY DEF Op, Push, Pop, Jmp, PushByte, Add, Load, Store

\* restore_registers neither ends the switch nor changes the thread.
LEMMA RestoreOps ==
    ASSUME NEW j \in 1 .. 6
    PROVE  restore_registers[j].op \notin {"iret", "make_current"}
<1> DEFINE r == restore_registers
<1>1. /\ r[1] = Pop("gs") /\ r[2] = Pop("fs") /\ r[3] = Pop("es") /\ r[4] = Pop("ds")
      /\ r[5] = Op("popad") /\ r[6] = Add(2)
  BY RestoreText, Zenon
<1> HIDE DEF r
<1>2. /\ r[1].op = "pop" /\ r[2].op = "pop" /\ r[3].op = "pop" /\ r[4].op = "pop"
      /\ r[5].op = "popad" /\ r[6].op = "add"
  <2>1. /\ Pop("gs").op = "pop" /\ Pop("fs").op = "pop" /\ Pop("es").op = "pop"
        /\ Pop("ds").op = "pop" /\ Op("popad").op = "popad" /\ Add(2).op = "add"
    BY DEF Pop, Op, Add
  <2>. QED BY <1>1, <2>1, Zenon
<1>3. j \in {1, 2, 3, 4, 5, 6}
  OBVIOUS
<1>4. r[j].op \in {"pop", "popad", "add"}
  BY <1>2, <1>3, Zenon
<1>. QED BY <1>4 DEF r

\* Where an iret and a load of current_thread stand.
LEMMA SwitchOps ==
    ASSUME NEW i \in 1 .. 37
    PROVE  /\ threads_low_switch_to[i].op = "iret" => i \in {27, 37}
           /\ threads_low_switch_to[i].op = "make_current" => i \in {19, 29}
<1> DEFINE s == threads_low_switch_to
           r == restore_registers
<1>1. /\ s[1] = Op("je") /\ s[2] = Push("eax") /\ s[3] = Load("eax", 1)
      /\ s[4] = Store(-1, "eax") /\ s[5] = Add(2) /\ s[6] = Op("pushfd")
      /\ s[7] = Load("eax", -1) /\ s[8] = Push("cs") /\ s[9] = Add(-1)
      /\ s[10] = PushByte(0) /\ s[11] = PushByte(0)
      /\ s[12] = Op("pushad") /\ s[13] = Push("ds") /\ s[14] = Push("es")
      /\ s[15] = Push("fs") /\ s[16] = Push("gs") /\ s[17] = Op("save_esp")
      /\ s[18] = Load("eax", 17) /\ s[20] = Op("load_esp")
      /\ \A j \in 1 .. 6 : s[j + 20] = r[j] /\ s[j + 30] = r[j]
      /\ s[28] = Load("eax", 1) /\ s[30] = Op("load_esp")
  BY SwitchCode, Zenon
<1>2. \A j \in 1 .. 6 : r[j].op \notin {"iret", "make_current"}
  BY RestoreOps, Zenon
<1> HIDE DEF s, r
<1>4. CASE i \in 21 .. 26
  <2>1. i - 20 \in 1 .. 6 /\ (i - 20) + 20 = i
    BY <1>4
  <2>2. s[i] = r[i - 20]
    BY <1>1, <2>1, Zenon
  <2>. QED BY <1>2, <2>1, <2>2, Zenon DEF s
<1>5. CASE i \in 31 .. 36
  <2>1. i - 30 \in 1 .. 6 /\ (i - 30) + 30 = i
    BY <1>5
  <2>2. s[i] = r[i - 30]
    BY <1>1, <2>1, Zenon
  <2>. QED BY <1>2, <2>1, <2>2, Zenon DEF s
<1>6. CASE i \in 1 .. 9
  <2>1. /\ s[1].op = "je" /\ s[2].op = "push" /\ s[3].op = "load" /\ s[4].op = "store"
        /\ s[5].op = "add" /\ s[6].op = "pushfd" /\ s[7].op = "load" /\ s[8].op = "push"
        /\ s[9].op = "add"
    <3>1. /\ s[1] = Op("je") /\ s[2] = Push("eax") /\ s[3] = Load("eax", 1)
          /\ s[4] = Store(-1, "eax") /\ s[5] = Add(2) /\ s[6] = Op("pushfd")
          /\ s[7] = Load("eax", -1) /\ s[8] = Push("cs") /\ s[9] = Add(-1)
      BY <1>1, Zenon
    <3>2. /\ Op("je").op = "je" /\ Push("eax").op = "push" /\ Load("eax", 1).op = "load"
          /\ Store(-1, "eax").op = "store" /\ Add(2).op = "add" /\ Op("pushfd").op = "pushfd"
          /\ Load("eax", -1).op = "load" /\ Push("cs").op = "push" /\ Add(-1).op = "add"
      BY DEF Op, Push, Load, Store, Add
    <3>. QED BY <3>1, <3>2, Zenon
  <2>2. i \in {1, 2, 3, 4, 5, 6, 7, 8, 9}
    BY <1>6
  <2>3. s[i].op \in {"je", "push", "load", "store", "add", "pushfd"}
    BY <2>1, <2>2, Zenon
  <2>. QED BY <2>3 DEF s
<1>7. CASE i \in 10 .. 18 \cup {20, 28, 30}
  <2>1. /\ s[10].op = "push" /\ s[11].op = "push" /\ s[12].op = "pushad" /\ s[13].op = "push"
        /\ s[14].op = "push" /\ s[15].op = "push" /\ s[16].op = "push" /\ s[17].op = "save_esp"
        /\ s[18].op = "load" /\ s[20].op = "load_esp" /\ s[28].op = "load" /\ s[30].op = "load_esp"
    <3>1. /\ s[10] = PushByte(0) /\ s[11] = PushByte(0) /\ s[12] = Op("pushad") /\ s[13] = Push("ds")
          /\ s[14] = Push("es") /\ s[15] = Push("fs") /\ s[16] = Push("gs") /\ s[17] = Op("save_esp")
          /\ s[18] = Load("eax", 17) /\ s[20] = Op("load_esp") /\ s[28] = Load("eax", 1)
          /\ s[30] = Op("load_esp")
      BY <1>1, Zenon
    <3>2. /\ PushByte(0).op = "push" /\ Op("pushad").op = "pushad" /\ Push("ds").op = "push"
          /\ Push("es").op = "push" /\ Push("fs").op = "push" /\ Push("gs").op = "push"
          /\ Op("save_esp").op = "save_esp" /\ Load("eax", 17).op = "load"
          /\ Op("load_esp").op = "load_esp" /\ Load("eax", 1).op = "load"
      BY DEF Op, Push, PushByte, Load
    <3>. QED BY <3>1, <3>2, Zenon
  <2>2. i \in {10, 11, 12, 13, 14, 15, 16, 17, 18, 20, 28, 30}
    BY <1>7
  <2>3. s[i].op \in {"push", "pushad", "save_esp", "load", "load_esp"}
    BY <2>1, <2>2, ZenonT(60)
  <2>. QED BY <2>3 DEF s
<1>8. CASE i \in {19, 29}
  <2>1. s[19] = Op("make_current") /\ s[29] = Op("make_current")
    BY SwitchCode, Zenon DEF s
  <2>2. s[19].op = "make_current" /\ s[29].op = "make_current"
    <3>1. Op("make_current").op = "make_current"
      BY DEF Op
    <3>. QED BY <2>1, <3>1, Zenon
  <2>3. s[i].op = "make_current"
    BY <1>8, <2>2, Zenon
  <2>. QED BY <1>8, <2>3 DEF s
<1>9. CASE i \in {27, 37}
  <2>1. s[27] = Op("iret") /\ s[37] = Op("iret")
    BY SwitchCode, Zenon DEF s
  <2>2. s[27].op = "iret" /\ s[37].op = "iret"
    <3>1. Op("iret").op = "iret"
      BY DEF Op
    <3>. QED BY <2>1, <3>1, Zenon
  <2>3. s[i].op = "iret"
    BY <1>9, <2>2, Zenon
  <2>. QED BY <1>9, <2>3 DEF s
<1>10. \/ i \in 21 .. 26 \/ i \in 31 .. 36 \/ i \in 1 .. 9
       \/ i \in 10 .. 18 \cup {20, 28, 30} \/ i \in {19, 29} \/ i \in {27, 37}
  OBVIOUS
<1>. QED BY <1>4, <1>5, <1>6, <1>7, <1>8, <1>9, <1>10, Zenon

\* A common stub returns at its end only, and never changes the thread.
LEMMA StubOps ==
    ASSUME NEW k \in 1 .. 16
    PROVE  (common_stub[k].op = "iret" => k = 16) /\ common_stub[k].op # "make_current"
<1> DEFINE s == common_stub
           r == restore_registers
<1>1. /\ s[1] = Op("pushad") /\ s[2] = Push("ds") /\ s[3] = Push("es")
      /\ s[4] = Push("fs") /\ s[5] = Push("gs")
      /\ s[6] = Op("kernel_segments") /\ s[7] = Push("esp") /\ s[8] = Op("call")
      /\ s[9] = Pop("eax") /\ s[16] = Op("iret")
      /\ \A j \in 1 .. 6 : s[j + 9] = r[j]
  BY StubCode, Zenon
<1>2. \A j \in 1 .. 6 : r[j].op \notin {"iret", "make_current"}
  BY RestoreOps, Zenon
<1> HIDE DEF s, r
<1>4. CASE k \in 10 .. 15
  <2>1. k - 9 \in 1 .. 6 /\ (k - 9) + 9 = k
    BY <1>4
  <2>2. s[k] = r[k - 9]
    BY <1>1, <2>1, Zenon
  <2>. QED BY <1>2, <2>1, <2>2, Zenon DEF s
<1>5. CASE k \in 1 .. 9
  <2>1. /\ s[1].op = "pushad" /\ s[2].op = "push" /\ s[3].op = "push" /\ s[4].op = "push"
        /\ s[5].op = "push" /\ s[6].op = "kernel_segments" /\ s[7].op = "push"
        /\ s[8].op = "call" /\ s[9].op = "pop"
    <3>1. /\ Op("pushad").op = "pushad" /\ Push("ds").op = "push" /\ Push("es").op = "push"
          /\ Push("fs").op = "push" /\ Push("gs").op = "push" /\ Push("esp").op = "push"
          /\ Op("kernel_segments").op = "kernel_segments" /\ Op("call").op = "call"
          /\ Pop("eax").op = "pop"
      BY DEF Op, Push, Pop
    <3>. QED BY <1>1, <3>1, Zenon
  <2>2. k \in {1, 2, 3, 4, 5, 6, 7, 8, 9}
    BY <1>5
  <2>3. s[k].op \in {"pushad", "push", "kernel_segments", "call", "pop"}
    BY <2>1, <2>2, Zenon
  <2>. QED BY <2>3 DEF s
<1>6. CASE k = 16
  <2>1. s[k].op = "iret"
    BY <1>1, <1>6, OperationIs, Zenon
  <2>. QED BY <1>6, <2>1 DEF s
<1>. QED BY <1>4, <1>5, <1>6

\* Nor do the stubs of the single interrupts.
LEMMA EntryOps ==
    ASSUME NEW v \in 0 .. 47, NEW k \in 0 .. 3
    PROVE  Entry(v, k).op \notin {"iret", "make_current"}
<1>1. k \in {0, 1, 2, 3}
  OBVIOUS
<1> DEFINE o(j) == Entry(v, j).op
<1>2. CASE v \in HasCode
  <2>1. /\ Entry(v, 0) = Op("nop") /\ Entry(v, 1) = Op("cli")
        /\ Entry(v, 2) = PushByte(v) /\ Entry(v, 3) = Jmp("isr_common_stub")
    BY <1>2, EntryText, Zenon
  <2>2. o(0) = "nop" /\ o(1) = "cli" /\ o(2) = "push" /\ o(3) = "jmp"
    BY <2>1, OperationIs, Zenon
  <2> HIDE DEF o
  <2>3. o(k) \in {"nop", "cli", "push", "jmp"}
    BY <1>1, <2>2, Zenon
  <2>. QED BY <2>3 DEF o
<1>3. CASE v \notin HasCode
  <2>1. /\ Entry(v, 0) = Op("cli") /\ Entry(v, 1) = PushByte(0)
        /\ Entry(v, 2) = PushByte(v)
        /\ Entry(v, 3) \in {Jmp("irq_common_stub"), Jmp("isr_common_stub")}
    BY <1>3, EntryText, Zenon
  <2>2. o(0) = "cli" /\ o(1) = "push" /\ o(2) = "push" /\ o(3) = "jmp"
    BY <2>1, OperationIs, Zenon
  <2> HIDE DEF o
  <2>3. o(k) \in {"cli", "push", "jmp"}
    BY <1>1, <2>2, Zenon
  <2>. QED BY <2>3 DEF o
<1>. QED BY <1>2, <1>3

\* Wherever the processor is, there is code.
LEMMA Somewhere ==
    ASSUME IInv
    PROVE  \/ \E i \in 1 .. 37 : eip = Tls(i)
           \/ \E l \in Labels, k \in 1 .. 16 : eip = <<l, k>>
           \/ eip \in InC
           \/ \E v \in 0 .. 47, k \in 0 .. 3 : eip = StubAt(v, k)
<1>1. \/ Position(esp.stack, This, Base, Size, Now)
      \/ AtStub(This, Base, Size, Now, raised)
  BY Here, Zenon
<1>2. AtC(eip, esp.stack, This, Base, Size, Now) => eip \in InC
  BY Zenon DEF AtC, InC
<1>3. CASE Position(esp.stack, This, Base, Size, Now)
  BY <1>2, <1>3, NowIs, Zenon DEF Position
<1>4. CASE AtStub(This, Base, Size, Now, raised)
  BY <1>4, NowIs, Zenon DEF AtStub, StubAt
<1>. QED BY <1>1, <1>3, <1>4

\* At every iret and at every change of the thread IInv says what is on the
\* stack and in eax.
LEMMA NeverLostHere == ASSUME IInv PROVE NeverLost
<1>1. CASE \E i \in 1 .. 37 : eip = Tls(i)
  <2>1. PICK i \in 1 .. 37 : eip = Tls(i)
    BY <1>1
  <2>2. eip[1] = "threads_low_switch_to" /\ eip[2] = i
    BY <2>1 DEF Tls
  <2>3. /\ "threads_low_switch_to" \in DOMAIN code
        /\ code["threads_low_switch_to"] = threads_low_switch_to
    BY CodeIs
  <2>4. DOMAIN threads_low_switch_to = 1 .. 37
    BY SwitchText, Zenon
  <2>5. eip[1] \in DOMAIN code /\ eip[2] \in DOMAIN code[eip[1]]
    BY <2>2, <2>3, <2>4, Zenon
  <2>6. ASSUME Executes("make_current") PROVE reg["eax"] \in Named
    <3>1. code[eip[1]][eip[2]] = threads_low_switch_to[i]
      BY <2>2, <2>3, Zenon
    <3>2. threads_low_switch_to[i].op = "make_current"
      BY <2>6, <3>1, Zenon DEF Executes
    <3>3. i \in {19, 29}
      BY <3>2, SwitchOps, Zenon
    <3>4. AtSwitch(i, esp.stack, This, Base, Size, Now) /\ Now.reg = reg
      BY <2>1, SwitchHere, NowIs, Zenon
    <3>. QED BY <3>3, <3>4 DEF AtSwitch, Leaving
  <2>. QED BY <2>5, <2>6, Zenon DEF NeverLost, Named
<1>2. CASE \E l \in Labels, k \in 1 .. 16 : eip = <<l, k>>
  <2>1. PICK l \in Labels, k \in 1 .. 16 : eip = <<l, k>>
    BY <1>2
  <2>2. eip[1] = l /\ eip[2] = k
    BY <2>1
  <2>3. l \in DOMAIN code /\ code[l] = common_stub /\ DOMAIN common_stub = 1 .. 16
    BY CodeIs, StubText, Zenon
  <2>4. eip[1] \in DOMAIN code /\ eip[2] \in DOMAIN code[eip[1]]
    BY <2>2, <2>3, Zenon
  <2>5. ~Executes("make_current")
    BY <2>2, <2>3, StubOps, Zenon DEF Executes
  <2>. QED BY <2>4, <2>5, Zenon DEF NeverLost
<1>3. CASE eip \in InC
  <2>1. eip[1] \notin DOMAIN code
    BY <1>3, CodeIs DEF InC
  <2>. QED BY <1>3, <2>1, Zenon DEF NeverLost, Executes
<1>4. CASE \E v \in 0 .. 47, k \in 0 .. 3 : eip = StubAt(v, k)
  <2>1. PICK v \in 0 .. 47, k \in 0 .. 3 : eip = StubAt(v, k)
    BY <1>4
  <2>2. eip[1] = Gate[v][1] /\ eip[2] = Gate[v][2] + k /\ code[eip[1]][eip[2]] = Entry(v, k)
    BY <2>1 DEF StubAt, Entry
  <2>3. eip[1] \in DOMAIN code /\ eip[2] \in DOMAIN code[eip[1]]
    <3>1. DOMAIN code["irq"] = 1 .. 64 /\ DOMAIN code["isr"] = 1 .. 128
      BY CodeIs DEF irq_stubs, isr_stubs
    <3>2. "irq" \in DOMAIN code /\ "isr" \in DOMAIN code
      BY CodeIs
    <3>3. CASE v < 32
      <4>1. Gate[v] = <<"isr", 4 * v + 1>>
        BY <3>3, GateText, Zenon
      <4>2. eip[1] = "isr" /\ eip[2] = 4 * v + 1 + k
        BY <2>2, <4>1
      <4>3. 4 * v + 1 + k \in 1 .. 128
        BY <3>3
      <4>4. DOMAIN code[eip[1]] = 1 .. 128
        BY <3>1, <4>2, Zenon
      <4>. QED BY <3>2, <4>2, <4>3, <4>4, Zenon
    <3>4. CASE v >= 32
      <4>1. Gate[v] = <<"irq", 4 * (v - 32) + 1>>
        BY <3>4, GateText, Zenon
      <4>2. eip[1] = "irq" /\ eip[2] = 4 * (v - 32) + 1 + k
        BY <2>2, <4>1
      <4>3. 4 * (v - 32) + 1 + k \in 1 .. 64
        BY <3>4
      <4>4. DOMAIN code[eip[1]] = 1 .. 64
        BY <3>1, <4>2, Zenon
      <4>. QED BY <3>2, <4>2, <4>3, <4>4, Zenon
    <3>. QED BY <3>3, <3>4
  <2>4. ~Executes("make_current")
    <3>1. Entry(v, k).op # "make_current"
      BY EntryOps
    <3>. QED BY <2>2, <3>1, Zenon DEF Executes
  <2>. QED BY <2>3, <2>4, Zenon DEF NeverLost
<1>. QED BY <1>1, <1>2, <1>3, <1>4, Somewhere, Zenon

\* At the dispatcher the fields of REGS are the interrupt's number, its code
\* and the registers interrupted.
LEMMA DispatcherSeesHere == ASSUME IInv PROVE DispatcherSees
<1> SUFFICES ASSUME At1("dispatch", 1)
             PROVE  LET before == Last(left[esp.stack])
                    IN  /\ REGS("int_no")[2] = raised[1] /\ REGS("err_code") = raised[2]
                        /\ REGS("eip") = before.eip /\ REGS("eflags") = Flags(before.ints)
                        /\ \A r \in Registers : REGS(r) = before.reg[r]
  BY Zenon DEF DispatcherSees
<1> DEFINE L == Base
           at(j) == (L.top + 17) - j
<1>1. eip = <<"dispatch", 1>>
  BY DEF At1
<1>2. /\ InDispatcher(eip, esp.stack, This, Base, Size, Now) /\ Size \in 1 .. Nested
      /\ This[L.top + 4] = raised[2] /\ This[L.top + 5] = <<"number", raised[1]>>
  BY <1>1, DispatchHere, Zenon
<1>3. Last(left[esp.stack]) = L
  <2>1. Size # 0 => Base = left[esp.stack][Size]
    BY Here, Zenon
  <2>2. Size # 0
    BY <1>2
  <2>. QED BY <2>1, <2>2, Zenon DEF Last, Size
<1>4. L.top \in Nat
  BY Here, Zenon
<1>5. ForIret(This, L) /\ GeneralAt(This, L)
      /\ This[L.top + 14] = L.reg["ds"] /\ This[L.top + 15] = L.reg["es"]
      /\ This[L.top + 16] = L.reg["fs"] /\ This[L.top + 17] = L.reg["gs"]
  <2>1. Saved(This, L, 17)
    BY <1>2, Zenon DEF InDispatcher
  <2>. QED BY <2>1 DEF Saved
<1> HIDE DEF L
<1>6. /\ Offset("gs") = 0 /\ Offset("fs") = 1 /\ Offset("es") = 2 /\ Offset("ds") = 3
      /\ Offset("edi") = 4 /\ Offset("esi") = 5 /\ Offset("ebp") = 6 /\ Offset("ebx") = 8
      /\ Offset("edx") = 9 /\ Offset("ecx") = 10 /\ Offset("eax") = 11 /\ Offset("int_no") = 12
      /\ Offset("err_code") = 13 /\ Offset("eip") = 14 /\ Offset("eflags") = 16
  BY DEF Offset
<1>7. ASSUME NEW f, NEW j \in 0 .. 16, Offset(f) = j PROVE REGS(f) = This[at(j)]
  <2>1. Offset(f) \in 0 .. 16
    BY <1>7
  <2>. QED BY <1>1, <1>7, <2>1, REGSAre, Zenon DEF L
<1>8. /\ at(0) = L.top + 17 /\ at(1) = L.top + 16 /\ at(2) = L.top + 15 /\ at(3) = L.top + 14
      /\ at(4) = L.top + 13 /\ at(5) = L.top + 12 /\ at(6) = L.top + 11 /\ at(8) = L.top + 9
      /\ at(9) = L.top + 8 /\ at(10) = L.top + 7 /\ at(11) = L.top + 6 /\ at(12) = L.top + 5
      /\ at(13) = L.top + 4 /\ at(14) = L.top + 3 /\ at(16) = L.top + 1
  BY <1>4
<1> HIDE DEF at
<1>9. /\ 0 \in 0 .. 16 /\ 1 \in 0 .. 16 /\ 2 \in 0 .. 16 /\ 3 \in 0 .. 16 /\ 4 \in 0 .. 16
      /\ 5 \in 0 .. 16 /\ 6 \in 0 .. 16 /\ 8 \in 0 .. 16 /\ 9 \in 0 .. 16 /\ 10 \in 0 .. 16
      /\ 11 \in 0 .. 16 /\ 12 \in 0 .. 16 /\ 13 \in 0 .. 16 /\ 14 \in 0 .. 16 /\ 16 \in 0 .. 16
  OBVIOUS
<1>10. /\ REGS("int_no") = This[L.top + 5]
       /\ REGS("err_code") = This[L.top + 4]
       /\ REGS("eip") = This[L.top + 3]
       /\ REGS("eflags") = This[L.top + 1]
       /\ REGS("eax") = This[L.top + 6]
       /\ REGS("ecx") = This[L.top + 7]
       /\ REGS("edx") = This[L.top + 8]
       /\ REGS("ebx") = This[L.top + 9]
       /\ REGS("ebp") = This[L.top + 11]
       /\ REGS("esi") = This[L.top + 12]
       /\ REGS("edi") = This[L.top + 13]
       /\ REGS("ds") = This[L.top + 14]
       /\ REGS("es") = This[L.top + 15]
       /\ REGS("fs") = This[L.top + 16]
       /\ REGS("gs") = This[L.top + 17]
  <2>1. REGS("int_no") = This[at(12)]
    BY <1>6, <1>7, <1>9, Zenon
  <2>2. REGS("err_code") = This[at(13)]
    BY <1>6, <1>7, <1>9, Zenon
  <2>3. REGS("eip") = This[at(14)]
    BY <1>6, <1>7, <1>9, Zenon
  <2>4. REGS("eflags") = This[at(16)]
    BY <1>6, <1>7, <1>9, Zenon
  <2>5. REGS("eax") = This[at(11)]
    BY <1>6, <1>7, <1>9, Zenon
  <2>6. REGS("ecx") = This[at(10)]
    BY <1>6, <1>7, <1>9, Zenon
  <2>7. REGS("edx") = This[at(9)]
    BY <1>6, <1>7, <1>9, Zenon
  <2>8. REGS("ebx") = This[at(8)]
    BY <1>6, <1>7, <1>9, Zenon
  <2>9. REGS("ebp") = This[at(6)]
    BY <1>6, <1>7, <1>9, Zenon
  <2>10. REGS("esi") = This[at(5)]
    BY <1>6, <1>7, <1>9, Zenon
  <2>11. REGS("edi") = This[at(4)]
    BY <1>6, <1>7, <1>9, Zenon
  <2>12. REGS("ds") = This[at(3)]
    BY <1>6, <1>7, <1>9, Zenon
  <2>13. REGS("es") = This[at(2)]
    BY <1>6, <1>7, <1>9, Zenon
  <2>14. REGS("fs") = This[at(1)]
    BY <1>6, <1>7, <1>9, Zenon
  <2>15. REGS("gs") = This[at(0)]
    BY <1>6, <1>7, <1>9, Zenon
  <2>. QED BY <1>8, <2>1, <2>2, <2>3, <2>4, <2>5, <2>6, <2>7, <2>8, <2>9, <2>10, <2>11, <2>12, <2>13, <2>14, <2>15, Zenon
<1>11. REGS("int_no") = <<"number", raised[1]>> /\ REGS("err_code") = raised[2]
  BY <1>2, <1>10, Zenon DEF L
<1>12. REGS("eip") = L.eip /\ REGS("eflags") = Flags(L.ints)
  BY <1>5, <1>10, Zenon DEF ForIret
<1>13. /\ REGS("ds") = L.reg["ds"] /\ REGS("es") = L.reg["es"]
       /\ REGS("fs") = L.reg["fs"] /\ REGS("gs") = L.reg["gs"]
  BY <1>5, <1>10, Zenon
<1>14. /\ REGS("eax") = L.reg["eax"] /\ REGS("ecx") = L.reg["ecx"]
       /\ REGS("edx") = L.reg["edx"] /\ REGS("ebx") = L.reg["ebx"]
  BY <1>5, <1>10, Zenon DEF GeneralAt
<1>15. /\ REGS("ebp") = L.reg["ebp"] /\ REGS("esi") = L.reg["esi"] /\ REGS("edi") = L.reg["edi"]
  BY <1>5, <1>10, Zenon DEF GeneralAt
<1>16. \A r \in Registers : REGS(r) = L.reg[r]
  <2>1. \A r \in {"eax", "ecx", "edx", "ebx", "ebp", "esi", "edi", "ds", "es", "fs", "gs"} :
          REGS(r) = L.reg[r]
    BY <1>13, <1>14, <1>15, Zenon
  <2>. QED BY <2>1, RegistersAre, Zenon
<1>17. REGS("int_no")[2] = raised[1]
  BY <1>11
<1>. QED BY <1>3, <1>11, <1>12, <1>16, <1>17, Zenon

\* Where thread_shutdown() begins there is nothing on the stack but its own
\* return address.
LEMMA ShutdownHere == ASSUME IInv PROVE StackAtShutdown
<1> SUFFICES ASSUME At1("thread_shutdown", 1)
             PROVE  esp = [stack |-> current_thread, top |-> 1] /\ mem[current_thread] = <<Zero>>
  BY Zenon DEF StackAtShutdown
<1>1. eip = <<"thread_shutdown", 1>> /\ eip \in InC /\ eip \in BottomPlaces
  BY DEF At1, InC, BottomPlaces
<1>2. /\ AtBottom(eip, esp.stack, This, Size, Now) /\ esp.top = Len(This) /\ This \in Seq(Words)
      /\ current_thread = esp.stack /\ esp = [stack |-> esp.stack, top |-> esp.top]
  BY <1>1, CPlaces, Zenon
<1>3. esp.top = 1 /\ This[1] = Zero
  BY <1>1, <1>2, NowIs DEF AtBottom
<1>4. This = <<Zero>>
  <2>1. \A u \in Seq(Words) : Len(u) = 1 => u = <<u[1]>>
    OBVIOUS
  <2>2. This = <<This[1]>>
    BY <1>2, <1>3, <2>1, Zenon
  <2>. QED BY <1>3, <2>2, Zenon
<1>. QED BY <1>2, <1>3, <1>4, Zenon DEF This

\* iret goes back to what was left last.
LEMMA ReturnHere ==
    ASSUME IInv, iret
    PROVE  IF left[esp.stack] # <<>>
             THEN Snapshot(eip, esp.top)' = Last(left[esp.stack])
             ELSE /\ eip' = <<"thread_start", 1>> /\ ~ints' /\ esp'.top = 3
                  /\ reg["ds"] = KERNEL_DS /\ reg["es"] = KERNEL_DS
<1>1. Step /\ eip[1] \in DOMAIN code /\ It.op = "iret"
  BY DEF Step, iret, Executes, It
<1>2. Loading(7, This, Base, Now)
  <2>1. CASE \E i \in 1 .. 37 : eip = Tls(i)
    <3>1. PICK i \in 1 .. 37 : eip = Tls(i)
      BY <2>1
    <3>2. threads_low_switch_to[i].op = "iret"
      BY <1>1, <3>1, AtTls, Zenon
    <3>3. i \in {27, 37}
      BY <3>2, SwitchOps, Zenon
    <3>. QED BY <1>1, <3>1, <3>3, SwitchReturns, Zenon
  <2>2. CASE \E l \in Labels, k \in 1 .. 16 : eip = <<l, k>>
    <3>1. PICK l \in Labels, k \in 1 .. 16 : eip = <<l, k>>
      BY <2>2
    <3>2. common_stub[k].op = "iret"
      BY <1>1, <3>1, AtLabel, Zenon
    <3>3. k = 16
      BY <3>2, StubOps, Zenon
    <3>4. InCommon(l, 16)
      BY <1>1, <3>1, <3>3 DEF InCommon
    <3>. QED BY <3>4, CommonReturns, Zenon
  <2>3. CASE eip \in InC
    BY <1>1, <2>3, CodeIs DEF InC
  <2>4. CASE \E v \in 0 .. 47, k \in 0 .. 3 : eip = StubAt(v, k)
    <3>1. PICK v \in 0 .. 47, k \in 0 .. 3 : eip = StubAt(v, k)
      BY <2>4
    <3>2. It = Entry(v, k)
      BY <3>1 DEF It, StubAt, Entry
    <3>. QED BY <1>1, <3>2, EntryOps, Zenon
  <2>. QED BY <2>1, <2>2, <2>3, <2>4, Somewhere, Zenon
<1>3. Now' = Base /\ reg' = reg
  BY <1>2, IretDoes, Zenon DEF iret
<1>4. /\ Size \in Nat /\ (Size = 0 => Base = Starts) /\ (Size # 0 => Base = left[esp.stack][Size])
      /\ left[esp.stack] \in Seq(Contexts)
  BY Here, Zenon
<1>5. CASE left[esp.stack] # <<>>
  <2>1. Size # 0
    BY <1>4, <1>5 DEF Size
  <2>2. Base = Last(left[esp.stack])
    BY <1>4, <2>1, Zenon DEF Last, Size
  <2>. QED BY <1>3, <1>5, <2>2, Zenon DEF Now
<1>6. CASE left[esp.stack] = <<>>
  <2>1. Size = 0
    BY <1>6 DEF Size
  <2>2. /\ Starts.eip = <<"thread_start", 1>> /\ Starts.ints = FALSE /\ Starts.top = 3
        /\ Starts.reg["ds"] = KERNEL_DS /\ Starts.reg["es"] = KERNEL_DS
    BY RegistersAre DEF Starts
  <2>3. Now' = Starts
    BY <1>3, <1>4, <2>1
  <2>4. Now'.eip = eip' /\ Now'.ints = ints' /\ Now'.top = esp'.top /\ Now'.reg = reg'
    BY NowBecomes
  <2>5. /\ eip' = <<"thread_start", 1>> /\ ~ints' /\ esp'.top = 3
        /\ reg["ds"] = KERNEL_DS /\ reg["es"] = KERNEL_DS
    BY <1>3, <2>2, <2>3, <2>4, Zenon
  <2>. QED BY <1>6, <2>5, Zenon
<1>. QED BY <1>5, <1>6

\* Every state is of its type, as long as the code survives; in particular, if a
\* stack holds Nested contexts at most, it never grows beyond its bound.
THEOREM TypeCorrect == Spec => []TypeOK
<1>1. Sound => TypeOK
  BY TypeHere, Zenon DEF Sound, TypeOK
<1>. QED BY <1>1, Invariant, PTL

\* As long as no interrupt has come before a fatal instruction, and neither NULL
\* nor a dead thread has been dispatched, the processor goes on at an address of
\* code, whatever is pushed, moved and popped, and takes the thread that it
\* loads from a control block of a thread.
THEOREM NeverRunsAway == Spec => []NeverLost
<1>1. Sound => NeverLost
  BY NeverLostHere, Zenon DEF Sound, NeverLost
<1>. QED BY <1>1, Invariant, PTL

\* On the same condition C code runs on the stack of the thread that
\* current_thread names.
THEOREM RunsOnItsStack == Spec => []OnOwnStack
<1>1. Sound => OnOwnStack
  BY CPlaces, Zenon DEF Sound, OnOwnStack
<1>. QED BY <1>1, Invariant, PTL

\* On the same condition the REGS that a dispatcher is passed are the interrupt
\* that has happened and every register of the context that it has interrupted.
THEOREM DispatcherIsTold == Spec => []DispatcherSees
<1>1. Sound => DispatcherSees
  BY DispatcherSeesHere, Zenon DEF Sound, DispatcherSees
<1>. QED BY <1>1, Invariant, PTL

\* On the same condition a function that returns to thread_shutdown() has left
\* nothing on its stack.
THEOREM ShutdownStackClean == Spec => []StackAtShutdown
<1>1. Sound => StackAtShutdown
  BY ShutdownHere, Zenon DEF Sound, StackAtShutdown
<1>. QED BY <1>1, Invariant, PTL

\* On the same condition every iret, of a switch or of a common stub, gives the
\* stack back what it had when it lost the processor: registers, flag, address
\* and depth.
THEOREM ResumesAsLeft == Spec => ReturnsAsLeft
<1> DEFINE Back == IF left[esp.stack] # <<>>
                     THEN Snapshot(eip, esp.top)' = Last(left[esp.stack])
                     ELSE /\ eip' = <<"thread_start", 1>> /\ ~ints' /\ esp'.top = 3
                          /\ reg["ds"] = KERNEL_DS /\ reg["es"] = KERNEL_DS
<1>1. Sound /\ [Next]_vars => [iret /\ Intact => Back]_vars
  <2> SUFFICES ASSUME Sound, iret, Intact PROVE Back
    OBVIOUS
  <2>1. IInv
    BY Zenon DEF Sound
  <2>. QED BY <2>1, ReturnHere, Zenon
<1> HIDE DEF Back
<1>2. Spec => [][iret /\ Intact => Back]_vars
  BY <1>1, Invariant, PTL DEF Spec
<1>. QED BY <1>2 DEF ReturnsAsLeft, Back
=============================================================================
