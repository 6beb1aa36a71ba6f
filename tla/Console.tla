------------------------------ MODULE Console -------------------------------
(***************************************************************************)
(* The text console: console.C with the numbers and memory functions of    *)
(* utils.C, the timer that prints in its interrupt handler, and a failing  *)
(* assertion.  All state is static and nothing locks it, so that the       *)
(* kernels differ in who may be in the middle of putch():                  *)
(*   alone    one writer, interrupts off (threads of blocking-disk)        *)
(*   main     one writer and the timer's handler (main() of each kernel)   *)
(*   threads  several, as the end of a turn comes after the handler's      *)
(*            message (Kernel_thread_scheduler)                            *)
(*                                                                         *)
(* A step is a load or a store of the cursor: the kernels are compiled     *)
(* without optimisation.  Copying a part of the screen is one step.        *)
(***************************************************************************)
EXTENDS Integers, Sequences, FiniteSets, SequencesExt

CONSTANTS
    Columns, Rows,     \* 80 and 25
    TabStop,           \* 8
    Hz,                \* interrupts of the timer per second
    Writers,           \* who calls the console outside of interrupts
    Kernels,           \* which of the kernels
    Letters, Controls, \* characters printed: printable ones, and the others
    Texts,             \* those of them the kernels with several callers print
    Numbers,           \* numbers printed
    MaxOut, MaxShared, \* bounds: characters each writer prints, alone and not
    MaxSeconds         \* bound: messages of the timer

MaxInt == 2147483647
Timer == 0
Calls == Writers \cup {Timer}

ASSUME SizeAssumption ==
    Columns \in Nat \ {0} /\ Rows \in Nat \ {0, 1} /\ TabStop \in Nat \ {0} /\ MaxSeconds \in Nat
ASSUME WritersAssumption == Writers \subseteq Nat \ {0} /\ 1 \in Writers
ASSUME TextAssumption ==
    /\ Controls \subseteq {"backspace", "tab", "return", "newline", "other"}
    /\ Letters \cap {"backspace", "tab", "return", "newline", "other", "abort"} = {}
    /\ Texts \subseteq Letters \cup {"newline"}
    /\ Numbers \subseteq 0 .. MaxInt /\ Hz \in Nat \ {0}
    /\ Kernels \subseteq {"alone", "main", "threads"}

VARIABLES
    kernel,
    csr_x, csr_y,
    screen,            \* the cells from textmemptr on that are not blank
    at,                \* per caller: the step of putch(), and what it has loaded
    todo,              \* per caller: the characters still to be put
    running,           \* who has the processor
    ticks, seconds,    \* of the timer
    out,               \* per writer, how many characters it has asked for
    page               \* history: what an endless sheet of paper would show

cursor == <<csr_x, csr_y>>
vars   == <<kernel, csr_x, csr_y, screen, at, todo, running, ticks, seconds, out, page>>

-----------------------------------------------------------------------------
(* utils.C: the decimal digits from the last one on, ten of them, behind a  *)
(* zero byte that stops the search for the first that is not '0'.           *)
Units     == <<1, 10, 100, 1000, 10000, 100000, 1000000, 10000000, 100000000, 1000000000>>
digits(n) == [i \in 1 .. 10 |-> (n \div Units[i]) % 10]

MutantDropsZero(n) == LET temp == digits(n)
                          i    == SelectLastInSeq(temp, LAMBDA d : d # 0)
                      IN  Reverse(SubSeq(temp, 1, i))
uint2str(n) == LET temp == digits(n)
                   last == SelectLastInSeq(temp, LAMBDA d : d # 0)
                   i    == IF last = 0 THEN 1 ELSE last
               IN  Reverse(SubSeq(temp, 1, i))

-----------------------------------------------------------------------------
Cell(x, y)   == y * Columns + x
Row(i)       == i \div Columns
Positions    == {"idle", "back", "where", "show", "load x", "set x", "left", "margin",
                 "load y", "load y after edge", "set y", "set y after edge", "edge",
                 "scroll", "lines", "copy", "blank", "last"}
Idle         == [pc |-> "idle", v |-> 0]
Step(w, pc)  == at[w].pc = pc /\ running = w
Goes(w, pc, v) == at' = [at EXCEPT ![w] = [pc |-> pc, v |-> v]]
Char(w)      == Head(todo[w])
Put(i, c)    == [j \in DOMAIN screen \cup {i} |-> IF j = i THEN c ELSE screen[j]]

Aborted(w)   == Char(w) = "abort"        \* for(;;);

\* The same character on paper that does not end.
Typed(p, c) ==
    LET q == CASE c = "backspace" -> [p EXCEPT !.x = IF @ = 0 THEN 0 ELSE @ - 1]
               [] c = "tab"       -> [p EXCEPT !.x = (@ \div TabStop + 1) * TabStop]
               [] c = "return"    -> [p EXCEPT !.x = 0]
               [] c = "newline"   -> [p EXCEPT !.x = 0, !.y = @ + 1]
               [] c = "other"     -> p
               [] OTHER -> [p EXCEPT !.x = @ + 1,
                              !.ink = [j \in DOMAIN @ \cup {Cell(p.x, p.y)} |->
                                         IF j = Cell(p.x, p.y) THEN c ELSE @[j]]]
    IN  IF q.x >= Columns THEN [q EXCEPT !.x = 0, !.y = @ + 1] ELSE q

SimpleTimer == ticks = 0 /\ seconds = 0

\* All cells blank.
cls == [i \in {} |-> ""]

Init ==
    /\ kernel \in Kernels
    /\ csr_x = 0 /\ csr_y = 0 /\ screen = cls
    /\ at = [w \in Calls |-> Idle] /\ todo = [w \in Calls |-> <<>>]
    /\ running = 1
    /\ SimpleTimer
    /\ out = [w \in Writers |-> 0]
    /\ page = [x |-> 0, y |-> 0, ink |-> cls]

-----------------------------------------------------------------------------
(* putch(), one character of somebody.                                      *)
Same == UNCHANGED <<kernel, todo, running, ticks, seconds, out>>

putch(w) ==
    /\ running = w /\ at[w] = Idle /\ todo[w] # <<>> /\ ~Aborted(w)
    /\ page' = IF kernel = "alone" THEN Typed(page, Char(w)) ELSE page
    /\ CASE Char(w) = "backspace" -> IF csr_x # 0 THEN Goes(w, "back", 0) ELSE Goes(w, "edge", 0)
         [] Char(w) = "tab"     -> Goes(w, "set x", (csr_x + TabStop) - (csr_x % TabStop))
         [] Char(w) = "return"  -> Goes(w, "set x", 0)
         [] Char(w) = "newline" -> Goes(w, "left", 0)
         [] Char(w) = "other"   -> Goes(w, "edge", 0)
         [] OTHER               -> Goes(w, "where", csr_y * Columns)
    /\ UNCHANGED <<cursor, screen>> /\ Same

where(w) == /\ Step(w, "where")
            /\ Goes(w, "show", at[w].v + csr_x)
            /\ UNCHANGED <<cursor, screen, page>> /\ Same

show(w)  == /\ Step(w, "show")
            /\ screen' = Put(at[w].v, Char(w))
            /\ Goes(w, "load x", 0)
            /\ UNCHANGED <<cursor, page>> /\ Same

load_x(w) == /\ \/ Step(w, "load x") /\ Goes(w, "set x", csr_x + 1)
                \/ Step(w, "back")   /\ Goes(w, "set x", csr_x - 1)
             /\ UNCHANGED <<cursor, screen, page>> /\ Same

set_x(w) == /\ Step(w, "set x")
            /\ csr_x' = at[w].v
            /\ Goes(w, "edge", 0)
            /\ UNCHANGED <<csr_y, screen, page>> /\ Same

\* csr_x = 0; csr_y++;  for a newline, and at the edge of the screen.
new_line(w) == /\ \/ Step(w, "left")   /\ Goes(w, "load y", 0)
                  \/ Step(w, "margin") /\ Goes(w, "load y after edge", 0)
               /\ csr_x' = 0
               /\ UNCHANGED <<csr_y, screen, page>> /\ Same

load_y(w) == /\ \/ Step(w, "load y")            /\ Goes(w, "set y", csr_y + 1)
                \/ Step(w, "load y after edge") /\ Goes(w, "set y after edge", csr_y + 1)
             /\ UNCHANGED <<cursor, screen, page>> /\ Same

set_y(w) == /\ \/ Step(w, "set y")            /\ Goes(w, "edge", 0)
               \/ Step(w, "set y after edge") /\ Goes(w, "scroll", 0)
            /\ csr_y' = at[w].v
            /\ UNCHANGED <<csr_x, screen, page>> /\ Same

MutantPastEdge == Columns + 1
Width          == Columns

edge(w) == /\ Step(w, "edge")
           /\ Goes(w, IF csr_x >= Width THEN "margin" ELSE "scroll", 0)
           /\ UNCHANGED <<cursor, screen, page>> /\ Same

\* The end of putch(), and the next character.  move_cursor() selects two registers
\* of the display and, the lines being commented out, writes none: nothing moves.
Done(w) == /\ at' = [at EXCEPT ![w] = Idle]
           /\ todo' = [todo EXCEPT ![w] = Tail(@)]
           /\ UNCHANGED <<kernel, running, ticks, seconds, out>>

MutantAlways == csr_y >= 0
PastEnd      == csr_y >= Rows

scroll(w) == /\ Step(w, "scroll")
             /\ IF PastEnd THEN Goes(w, "lines", 0) /\ Same ELSE Done(w)
             /\ UNCHANGED <<cursor, screen, page>>

MutantOneLess(y) == y - Rows
lines(y)         == y - Rows + 1

count_lines(w) == /\ Step(w, "lines")
                  /\ Goes(w, "copy", lines(csr_y))
                  /\ UNCHANGED <<cursor, screen, page>> /\ Same

\* The rows that stay move up; the others keep what they have.  With a negative
\* count of lines memcpy() takes what is in front of the text memory, and goes
\* on with copies of that.
memcpy(up, kept) ==
    IF up < 0 THEN [j \in 0 .. kept - 1 |-> "outside"]
    ELSE [j \in {i \in 0 .. kept - 1 : i + up \in DOMAIN screen} \cup
                {i \in DOMAIN screen : i >= kept} |->
            IF j < kept THEN screen[j + up] ELSE screen[j]]

memsetw(row) == [j \in {i \in DOMAIN screen : Row(i) # row} |-> screen[j]]

copy(w) ==
    /\ Step(w, "copy")
    /\ screen' = memcpy(at[w].v * Columns, (Rows - at[w].v) * Columns)
    /\ Goes(w, "blank", at[w].v)
    /\ UNCHANGED <<cursor, page>> /\ Same

blank(w) ==
    /\ Step(w, "blank")
    /\ screen' = memsetw(Rows - at[w].v)
    /\ Goes(w, "last", 0)
    /\ UNCHANGED <<cursor, page>> /\ Same

last_line(w) == /\ Step(w, "last")
                /\ csr_y' = Rows - 1
                /\ Done(w)
                /\ UNCHANGED <<csr_x, screen, page>>

Steps(w) == \/ putch(w) \/ where(w) \/ show(w) \/ load_x(w) \/ set_x(w)
            \/ new_line(w) \/ load_y(w) \/ set_y(w) \/ edge(w)
            \/ scroll(w) \/ count_lines(w) \/ copy(w) \/ blank(w) \/ last_line(w)

-----------------------------------------------------------------------------
(* The callers.                                                             *)
Prints(w, text) == /\ running = w /\ at[w] = Idle /\ todo[w] = <<>>
                   /\ out[w] + Len(text) <= IF kernel = "alone" THEN MaxOut ELSE MaxShared
                   /\ out' = [out EXCEPT ![w] = @ + Len(text)]
                   /\ todo' = [todo EXCEPT ![w] = text]
                   /\ UNCHANGED <<kernel, cursor, screen, at, running, ticks, seconds, page>>

puts(w, c)  == Prints(w, <<c>>)

\* As it is for the numbers that are not negative.
int2str(n) == uint2str(n)

Digit(d)    == <<"0", "1", "2", "3", "4", "5", "6", "7", "8", "9">>[d + 1]
Text(ds)    == [i \in DOMAIN ds |-> Digit(ds[i])]
putui(w, n) == Prints(w, <<"<">> \o Text(uint2str(n)) \o <<">">>)
puti(w, n)  == Prints(w, Text(int2str(n)))

\* A failed assertion prints its message and loops.
assert_fails(w) == Prints(w, <<"!", "newline", "abort">>)

\* The timer: an interrupt, and its handler, which nothing interrupts.
MutantLateSecond == ticks + 1 > Hz
second_over      == ticks + 1 >= Hz

handle_interrupt ==
    /\ running # Timer /\ kernel # "alone"
    /\ IF second_over
         THEN /\ seconds < MaxSeconds
              /\ ticks' = 0 /\ seconds' = seconds + 1
              /\ todo' = [todo EXCEPT ![Timer] = <<"*", "newline">>]
              /\ running' = Timer
         ELSE /\ ticks' = ticks + 1
              /\ UNCHANGED <<seconds, todo, running>>
    /\ UNCHANGED <<kernel, cursor, screen, at, out, page>>

\* The handler is done; with the second a thread's turn is over.
handled(w) ==
    /\ running = Timer /\ todo[Timer] = <<>>
    /\ w \in Writers /\ (kernel = "main" => w = 1)
    /\ running' = w
    /\ UNCHANGED <<kernel, cursor, screen, at, todo, ticks, seconds, out, page>>

pass_on_CPU(w) ==
    /\ kernel = "threads" /\ running \in Writers /\ todo[running] = <<>>
    /\ w \in Writers \ {running}
    /\ running' = w
    /\ UNCHANGED <<kernel, cursor, screen, at, todo, ticks, seconds, out, page>>

Printed == IF kernel = "alone" THEN Letters \cup Controls ELSE Texts

\* Where callers interleave, a number is as good as so many letters.
Counted == IF kernel = "alone" THEN Numbers ELSE {}

Next ==
    \/ \E w \in Calls : Steps(w)
    \/ \E w \in Writers : \/ handled(w) \/ pass_on_CPU(w) \/ assert_fails(w)
                          \/ \E c \in Printed : puts(w, c)
                          \/ \E n \in Counted : putui(w, n) \/ puti(w, n)
    \/ handle_interrupt

Spec == Init /\ [][Next]_vars

-----------------------------------------------------------------------------
Characters == Letters \cup Controls \cup {"<", ">", "!", "*", "newline", "abort"}
                      \cup {Digit(d) : d \in 0 .. 9}

TypeOK ==
    /\ kernel \in Kernels
    /\ csr_x \in Nat /\ csr_y \in Nat
    /\ DOMAIN screen \subseteq Nat
    /\ at \in [Calls -> [pc : Positions, v : Int]]
    /\ todo \in [Calls -> Seq(Characters)]
    /\ running \in Calls
    /\ ticks \in 0 .. Hz - 1 /\ seconds \in 0 .. MaxSeconds

InPutch(w) == at[w] # Idle

(* Whoever is interrupted between whichever two accesses to the cursor, and *)
(* whatever others print meanwhile: once nobody is in the middle of putch() *)
(* the cursor is on the screen.                                             *)
AtRest == (\A w \in Calls : ~InPutch(w)) => csr_x < Columns /\ csr_y < Rows

(* The loops of scroll() count down to zero, so that a count below it would *)
(* not end: of more lines than the screen has, the rows left to copy would  *)
(* be one.  None ever is, in any kernel and whoever loses the processor     *)
(* where: a forced turn ends after the handler has printed its message,     *)
(* which leaves the cursor on the screen to whoever goes on.  Nothing is    *)
(* written further down than twice the screen, in a text memory that has    *)
(* room for eight.  A thread that loses its turn between the check and the  *)
(* count finds a row further up when it goes on; what it then copies lies   *)
(* in front of the screen by less than a screen, and only there.            *)
WithinMemory ==
    \A w \in Calls :
        /\ at[w].pc \in {"copy", "blank"} =>
             at[w].v \in (IF kernel = "threads" THEN 1 - Rows ELSE 0) .. Rows
        /\ at[w].pc = "show" => at[w].v \in 0 .. Cell(0, 2 * Rows) - 1

(* A writer that nobody disturbs sees the last rows of what it has written, *)
(* as if on paper: no row and no character is lost or left over where the   *)
(* screen scrolls, and the cursor is behind the last character.             *)
ShowsPage ==
    kernel = "alone" /\ ~InPutch(1) =>
        LET above == page.y - csr_y
        IN  /\ csr_x = page.x
            /\ csr_y = IF page.y < Rows THEN page.y ELSE Rows - 1
            /\ DOMAIN screen = {i \in 0 .. Cell(0, Rows) - 1 :
                                    i + Cell(0, above) \in DOMAIN page.ink}
            /\ \A i \in DOMAIN screen : screen[i] = page.ink[i + Cell(0, above)]

(* What makes AtRest inductive: a column past the edge is somebody's who has *)
(* yet to look at it, or to correct it; the same for a row.                 *)
ToCheckColumn == {"edge", "margin"}
ToCheckRow    == ToCheckColumn \cup {"load y after edge", "set y after edge", "scroll",
                                     "lines", "copy", "blank", "last"}

CursorSound ==
    /\ csr_x \in Int /\ csr_y \in Int
    /\ at \in [Calls -> [pc : Positions, v : Int]]
    /\ csr_x < Columns \/ \E w \in Calls : at[w].pc \in ToCheckColumn
    /\ csr_y < Rows    \/ \E w \in Calls : at[w].pc \in ToCheckRow

(* What makes TypeOK inductive: a backspace is one writer's alone, who moves *)
(* the cursor back where it is not at the margin, and who is in the middle   *)
(* of putch() has a character; the handler goes on until it has put both of  *)
(* its own, and without turns there is one writer.                           *)
Loaded == {"where", "show", "set x", "set y", "set y after edge"}

TurnsSound ==
    /\ \A w \in Calls : at[w].pc \in Loaded => at[w].v >= 0
    /\ \A w \in Calls : at[w].pc = "back" => kernel = "alone" /\ w = 1 /\ csr_x > 0
    /\ \A w \in Calls : at[w] # Idle => todo[w] # <<>>
    /\ kernel # "alone" => \A w \in Calls : todo[w] \in Seq(Characters \ {"backspace", "tab"})
    /\ todo[Timer] \in {<<>>, <<"newline">>, <<"*", "newline">>}
    /\ running # Timer => todo[Timer] = <<>>
    /\ kernel = "alone" => running = 1
    /\ kernel # "threads" => /\ running \in {1, Timer}
                             /\ \A w \in Writers \ {1} : at[w] = Idle

(* And WithinMemory: where the cursor may be by the position of the one who  *)
(* is running, which is a row further down for the handler, who may come     *)
(* when the writer has gone to a new row and has not scrolled; and what      *)
(* those who wait in the middle of putch() may have loaded.  The handler     *)
(* hands back a cursor that fits wherever the next writer goes on.           *)
Placing  == {"idle", "back", "where", "show", "load x", "set x"}
Turning  == {"left", "load y", "set y"}
Wrapping == {"margin", "load y after edge", "set y after edge"}
Ending   == {"scroll", "lines", "copy", "blank", "last"}

LastRow(w) == IF w = Timer THEN Rows ELSE Rows - 1

CursorFits(w, pc, x, y) ==
    /\ pc \in Placing  => y <= LastRow(w) /\ x <= IF w = Timer THEN Columns ELSE Columns - 1
    /\ pc \in Turning  => y < Rows /\ x < Columns
    /\ pc = "edge"     => y <= LastRow(w) \/ (y <= Rows /\ x < Columns)
    /\ pc \in Wrapping => y <= LastRow(w) /\ (pc = "margin" \/ x < Columns)
    /\ pc \in Ending   => y <= LastRow(w) + 1 /\ x < Columns
    /\ kernel # "alone" /\ w # Timer => x <= Columns

LoadedFits(w, pc, v, y) ==
    /\ pc = "where" => v <= LastRow(w) * Columns
    /\ pc = "show"  => v <= LastRow(w) * Columns + Columns
    /\ pc = "set x" /\ kernel # "alone" /\ w # Timer => v <= Columns
    /\ pc = "set y" => v <= Rows
    /\ pc = "set y after edge" => v <= LastRow(w) + 1
    /\ pc = "lines" /\ kernel # "threads" => y >= Rows - 1
    /\ pc \in {"copy", "blank"} => v > -Rows /\ v <= 2 /\ (kernel # "threads" => v >= 0)

FitsSound ==
    /\ \A w \in Calls : LoadedFits(w, at[w].pc, at[w].v, csr_y)
    /\ CursorFits(running, at[running].pc, csr_x, csr_y)
    /\ running = Timer /\ ~InPutch(Timer) /\ todo[Timer] # <<"*", "newline">> =>
         csr_x < Columns /\ csr_y < Rows
    /\ kernel # "threads" /\ at[1].pc = "lines" /\ at[Timer].pc \in {"set y", "set y after edge"} =>
         at[Timer].v >= Rows - 1

\* The number that the digits ds stand for, read from the first one on.
Decimal(ds) ==
    LET upto[i \in 0 .. Len(ds)] == IF i = 0 THEN 0 ELSE 10 * upto[i - 1] + ds[i]
    IN  upto[Len(ds)]

(* A number is printed in decimal without leading zeros, and 0 as one digit.*)
PrintsNumber ==
    [][\A w \in Writers, n \in Numbers :
         putui(w, n) => \E ds \in {uint2str(n)} :
                          /\ todo'[w] = <<"<">> \o Text(ds) \o <<">">>
                          /\ Decimal(ds) = n /\ Len(ds) > 0
                          /\ Len(ds) > 1 => ds[1] # 0]_vars
=============================================================================
