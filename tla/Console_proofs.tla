--------------------------- MODULE Console_proofs ---------------------------
(***************************************************************************)
(* For every size of the screen, every set of writers and every text, and  *)
(* wherever the writers and the timer's handler interrupt each other:      *)
(* where the cursor comes to rest, what scroll() counts and copies, what a *)
(* writer sees whom nobody disturbs, and what a number looks like.         *)
(*                                                                         *)
(* The first follows from CursorSound, which needs no turns.  The rest     *)
(* needs to know who may be where: ConsoleSound has, per position of the   *)
(* one who is in the middle of putch(), how far the cursor and what has    *)
(* been loaded of it may have got.  Moved and Ended are the two kinds of   *)
(* steps; an action's lemma shows that its positions fit one of them.      *)
(* PageSound relates the screen to the paper, again per position.          *)
(***************************************************************************)
EXTENDS Console, SequenceTheorems, WellFoundedInduction, TLAPS

\* A set of numbers that is not empty has a least element.
LEMMA LeastElement ==
    ASSUME NEW T \in SUBSET Nat, T # {}
    PROVE  \E x \in T : \A y \in T : x <= y
<1> DEFINE R == OpToRel(<, Nat)
<1>1. IsWellFoundedOn(R, Nat)
  BY NatLessThanWellFounded
<1>2. \A x, y \in Nat : <<x, y>> \in R <=> x < y
  BY DEF OpToRel
<1> HIDE DEF R
<1>3. PICK x \in T : \A y \in T : <<y, x>> \notin R
  BY <1>1, WFMin, Zenon
<1>4. ASSUME NEW y \in T PROVE x <= y
  <2>1. x \in Nat /\ y \in Nat
    OBVIOUS
  <2>2. ~(y < x)
    BY <1>2, <1>3, <2>1
  <2>. QED BY <2>1, <2>2
<1>. QED BY <1>4

LEMMA Sizes == Columns \in Nat \ {0} /\ Rows \in Nat \ {0, 1} /\ TabStop \in Nat \ {0}
BY SizeAssumption

LEMMA InitHolds == Init => CursorSound
<1>. SUFFICES ASSUME Init PROVE CursorSound
  OBVIOUS
<1>1. csr_x = 0 /\ csr_y = 0 /\ at = [w \in Calls |-> Idle]
  BY DEF Init
<1>2. Idle \in [pc : Positions, v : Int]
  BY DEF Idle, Positions
<1>. QED BY <1>1, <1>2, Sizes DEF CursorSound

LEMMA InPositions ==
    /\ "idle" \in Positions /\ "back" \in Positions /\ "where" \in Positions
    /\ "show" \in Positions /\ "load x" \in Positions /\ "set x" \in Positions
    /\ "left" \in Positions /\ "margin" \in Positions /\ "edge" \in Positions
    /\ "load y" \in Positions /\ "load y after edge" \in Positions
    /\ "set y" \in Positions /\ "set y after edge" \in Positions
    /\ "scroll" \in Positions /\ "lines" \in Positions /\ "copy" \in Positions
    /\ "blank" \in Positions /\ "last" \in Positions
BY DEF Positions

\* What a step of one caller does to the positions.
Reaches(w, pc) == /\ at' \in [Calls -> [pc : Positions, v : Int]]
                  /\ at'[w].pc = pc
                  /\ \A u \in Calls \ {w} : at'[u] = at[u]

LEMMA Moves ==
    ASSUME CursorSound, NEW w \in Calls, NEW pc \in Positions, NEW v \in Int,
           Goes(w, pc, v)
    PROVE  Reaches(w, pc)
BY DEF CursorSound, Goes, Reaches

LEMMA MovesPlain ==
    ASSUME CursorSound, NEW w \in Calls, NEW pc \in Positions, Goes(w, pc, 0)
    PROVE  Reaches(w, pc)
<1>1. \A v \in Int : Goes(w, pc, v) => Reaches(w, pc)
  BY Moves
<1>2. 0 \in Int
  OBVIOUS
<1>. QED BY <1>1, <1>2, Zenon

LEMMA DoneMoves ==
    ASSUME CursorSound, NEW w \in Calls, Done(w) PROVE Reaches(w, "idle")
<1>1. Goes(w, "idle", 0)
  BY DEF Done, Goes, Idle
<1>. QED BY <1>1, MovesPlain, InPositions, Zenon

\* A step that leaves the cursor alone, of a caller that has nothing to check
\* or goes on having it.
LEMMA KeepsChecking ==
    ASSUME CursorSound, csr_x' = csr_x, csr_y' = csr_y,
           NEW w \in Calls, NEW pc \in Positions, Reaches(w, pc),
           at[w].pc \in ToCheckColumn => pc \in ToCheckColumn \/ csr_x < Columns,
           at[w].pc \in ToCheckRow => pc \in ToCheckRow \/ csr_y < Rows
    PROVE  CursorSound'
<1>1. csr_x' < Columns \/ \E u \in Calls : at'[u].pc \in ToCheckColumn
  BY DEF CursorSound, Reaches
<1>2. csr_y' < Rows \/ \E u \in Calls : at'[u].pc \in ToCheckRow
  BY DEF CursorSound, Reaches
<1>. QED BY <1>1, <1>2 DEF CursorSound, Reaches

\* Which positions are not followed by a check, and which are.
LEMMA Checks ==
    /\ \A pc \in {"idle", "back", "where", "show", "load x", "set x", "left", "load y",
                  "set y"} : pc \notin ToCheckColumn /\ pc \notin ToCheckRow
    /\ \A pc \in {"edge", "margin"} : pc \in ToCheckColumn /\ pc \in ToCheckRow
    /\ \A pc \in {"load y after edge", "set y after edge", "scroll", "lines", "copy",
                  "blank", "last"} : pc \notin ToCheckColumn /\ pc \in ToCheckRow
BY DEF ToCheckColumn, ToCheckRow

LEMMA putchKeeps ==
    ASSUME CursorSound, NEW w \in Calls, putch(w) PROVE CursorSound'
<1>1. at[w] = Idle
  BY Zenon DEF putch
<1>2. UNCHANGED <<cursor, screen>>
  BY Zenon DEF putch
<1>3. /\ at[w].pc = "idle"
      /\ csr_x' = csr_x /\ csr_y' = csr_y
  BY <1>1, <1>2 DEF Idle, cursor
<1>4. csr_x \in Int /\ csr_y \in Int
  BY DEF CursorSound
<1>5. (csr_x + TabStop) - (csr_x % TabStop) \in Int /\ csr_y * Columns \in Int
  BY <1>4, Sizes
<1>6. \/ Goes(w, "back", 0) \/ Goes(w, "edge", 0) \/ Goes(w, "set x", 0)
      \/ Goes(w, "left", 0) \/ Goes(w, "where", csr_y * Columns)
      \/ Goes(w, "set x", (csr_x + TabStop) - (csr_x % TabStop))
  BY Zenon DEF putch
<1>7. \/ Reaches(w, "back") \/ Reaches(w, "edge") \/ Reaches(w, "set x")
      \/ Reaches(w, "left") \/ Reaches(w, "where")
  BY <1>5, <1>6, InPositions, Moves, MovesPlain, Zenon
<1>. QED BY <1>3, <1>7, KeepsChecking, Checks, InPositions

\* The steps of putch() up to the store of the column.
LEMMA placeKeeps ==
    ASSUME CursorSound, NEW w \in Calls, where(w) \/ show(w) \/ load_x(w)
    PROVE  CursorSound'
<1>1. at[w].pc \in {"where", "show", "load x", "back"}
  BY DEF where, show, load_x, Step
<1>2. csr_x' = csr_x /\ csr_y' = csr_y
  BY DEF where, show, load_x, cursor
<1>3. csr_x \in Int /\ at[w].v \in Int
  BY DEF CursorSound
<1>4. at[w].v + csr_x \in Int /\ csr_x + 1 \in Int /\ csr_x - 1 \in Int
  BY <1>3
<1>5. \/ Goes(w, "show", at[w].v + csr_x) \/ Goes(w, "load x", 0)
      \/ Goes(w, "set x", csr_x + 1) \/ Goes(w, "set x", csr_x - 1)
  BY Zenon DEF where, show, load_x
<1>6. Reaches(w, "show") \/ Reaches(w, "load x") \/ Reaches(w, "set x")
  BY <1>4, <1>5, InPositions, Moves, MovesPlain, Zenon
<1>. QED BY <1>1, <1>2, <1>6, KeepsChecking, Checks, InPositions

LEMMA set_xKeeps ==
    ASSUME CursorSound, NEW w \in Calls, set_x(w) PROVE CursorSound'
<1>1. Goes(w, "edge", 0) /\ csr_x' = at[w].v /\ csr_y' = csr_y
  BY DEF set_x
<1>2. Reaches(w, "edge")
  BY <1>1, InPositions, MovesPlain, Zenon
<1>3. csr_x' \in Int /\ csr_y' \in Int
  BY <1>1 DEF CursorSound
<1>. QED BY <1>2, <1>3, Checks DEF CursorSound, Reaches

LEMMA new_lineKeeps ==
    ASSUME CursorSound, NEW w \in Calls, new_line(w) PROVE CursorSound'
<1>1. \/ at[w].pc = "left" /\ Goes(w, "load y", 0)
      \/ at[w].pc = "margin" /\ Goes(w, "load y after edge", 0)
  BY DEF new_line, Step
<1>2. csr_x' = 0 /\ csr_y' = csr_y
  BY DEF new_line
<1>3. PICK pc \in Positions : /\ Reaches(w, pc)
                              /\ at[w].pc \in ToCheckRow => pc \in ToCheckRow
  <2>1. CASE at[w].pc = "left" /\ Goes(w, "load y", 0)
    <3>1. Reaches(w, "load y")
      BY <2>1, InPositions, MovesPlain, Zenon
    <3>. QED BY <2>1, <3>1, InPositions, Checks
  <2>2. CASE at[w].pc = "margin" /\ Goes(w, "load y after edge", 0)
    <3>1. Reaches(w, "load y after edge")
      BY <2>2, InPositions, MovesPlain, Zenon
    <3>. QED BY <2>2, <3>1, InPositions, Checks
  <2>. QED BY <1>1, <2>1, <2>2
<1>4. csr_y' < Rows \/ \E u \in Calls : at'[u].pc \in ToCheckRow
  BY <1>2, <1>3 DEF CursorSound, Reaches
<1>5. csr_x' \in Int /\ csr_y' \in Int /\ csr_x' < Columns
  BY <1>2, Sizes DEF CursorSound
<1>. QED BY <1>3, <1>4, <1>5 DEF CursorSound, Reaches

LEMMA load_yKeeps ==
    ASSUME CursorSound, NEW w \in Calls, load_y(w) PROVE CursorSound'
<1>1. csr_x' = csr_x /\ csr_y' = csr_y
  BY DEF load_y, cursor
<1>2. csr_y + 1 \in Int
  BY DEF CursorSound
<1>3. \/ at[w].pc = "load y" /\ Goes(w, "set y", csr_y + 1)
      \/ at[w].pc = "load y after edge" /\ Goes(w, "set y after edge", csr_y + 1)
  BY DEF load_y, Step
<1>4. \/ at[w].pc = "load y" /\ Reaches(w, "set y")
      \/ at[w].pc = "load y after edge" /\ Reaches(w, "set y after edge")
  BY <1>2, <1>3, InPositions, Moves, MovesPlain, Zenon
<1>. QED BY <1>1, <1>4, KeepsChecking, Checks, InPositions

LEMMA set_yKeeps ==
    ASSUME CursorSound, NEW w \in Calls, set_y(w) PROVE CursorSound'
<1>1. \/ at[w].pc = "set y" /\ Goes(w, "edge", 0)
      \/ at[w].pc = "set y after edge" /\ Goes(w, "scroll", 0)
  BY DEF set_y, Step
<1>2. csr_x' = csr_x /\ csr_y' = at[w].v
  BY DEF set_y
<1>3. /\ Reaches(w, "edge") \/ Reaches(w, "scroll")
      /\ at[w].pc \notin ToCheckColumn
  BY <1>1, InPositions, MovesPlain, Zenon DEF ToCheckColumn
<1>4. csr_x' < Columns \/ \E u \in Calls : at'[u].pc \in ToCheckColumn
  BY <1>2, <1>3 DEF CursorSound, Reaches
<1>5. csr_x' \in Int /\ csr_y' \in Int
  BY <1>2 DEF CursorSound
<1>6. at' \in [Calls -> [pc : Positions, v : Int]] /\ at'[w].pc \in ToCheckRow
  BY <1>3, Checks DEF Reaches
<1>. QED BY <1>4, <1>5, <1>6 DEF CursorSound

LEMMA edgeKeeps ==
    ASSUME CursorSound, NEW w \in Calls, edge(w) PROVE CursorSound'
<1>1. at[w].pc = "edge" /\ csr_x' = csr_x /\ csr_y' = csr_y
  BY DEF edge, Step, cursor
<1>2. CASE csr_x >= Columns
  <2>1. Goes(w, "margin", 0)
    BY <1>2 DEF edge, Width
  <2>2. Reaches(w, "margin")
    BY <2>1, InPositions, MovesPlain, Zenon
  <2>. QED BY <1>1, <2>2, KeepsChecking, Checks, InPositions
<1>3. CASE ~(csr_x >= Columns)
  <2>1. Goes(w, "scroll", 0)
    BY <1>3 DEF edge, Width
  <2>2. Reaches(w, "scroll")
    BY <2>1, InPositions, MovesPlain, Zenon
  <2>3. csr_x < Columns
    BY <1>3, Sizes DEF CursorSound
  <2>. QED BY <1>1, <2>2, <2>3, KeepsChecking, Checks, InPositions
<1>. QED BY <1>2, <1>3

LEMMA scrollKeeps ==
    ASSUME CursorSound, NEW w \in Calls, scroll(w) PROVE CursorSound'
<1>1. at[w].pc = "scroll" /\ csr_x' = csr_x /\ csr_y' = csr_y
  BY DEF scroll, Step, cursor
<1>2. CASE PastEnd
  <2>1. Goes(w, "lines", 0)
    BY <1>2 DEF scroll
  <2>2. Reaches(w, "lines")
    BY <2>1, InPositions, MovesPlain, Zenon
  <2>. QED BY <1>1, <2>2, KeepsChecking, Checks, InPositions
<1>3. CASE ~PastEnd
  <2>1. Reaches(w, "idle")
    BY <1>3, DoneMoves DEF scroll
  <2>2. csr_y < Rows
    BY <1>3, Sizes DEF PastEnd, CursorSound
  <2>. QED BY <1>1, <2>1, <2>2, KeepsChecking, Checks, InPositions
<1>. QED BY <1>2, <1>3

LEMMA screenKeeps ==
    ASSUME CursorSound, NEW w \in Calls, count_lines(w) \/ copy(w) \/ blank(w)
    PROVE  CursorSound'
<1>1. at[w].pc \in {"lines", "copy", "blank"} /\ csr_x' = csr_x /\ csr_y' = csr_y
  BY DEF count_lines, copy, blank, Step, cursor
<1>2. lines(csr_y) \in Int /\ at[w].v \in Int
  BY Sizes DEF CursorSound, lines
<1>3. Goes(w, "copy", lines(csr_y)) \/ Goes(w, "blank", at[w].v) \/ Goes(w, "last", 0)
  BY DEF count_lines, copy, blank
<1>4. Reaches(w, "copy") \/ Reaches(w, "blank") \/ Reaches(w, "last")
  BY <1>2, <1>3, InPositions, Moves, MovesPlain, Zenon
<1>. QED BY <1>1, <1>4, KeepsChecking, Checks, InPositions

LEMMA last_lineKeeps ==
    ASSUME CursorSound, NEW w \in Calls, last_line(w) PROVE CursorSound'
<1>1. Reaches(w, "idle") /\ at[w].pc = "last"
  BY DoneMoves DEF last_line, Step
<1>2. csr_x' = csr_x /\ csr_y' = Rows - 1
  BY DEF last_line
<1>3. csr_x' < Columns \/ \E u \in Calls : at'[u].pc \in ToCheckColumn
  BY <1>1, <1>2, Checks DEF CursorSound, Reaches
<1>4. csr_x' \in Int /\ csr_y' \in Int /\ csr_y' < Rows
  BY <1>2, Sizes DEF CursorSound
<1>5. at' \in [Calls -> [pc : Positions, v : Int]]
  BY <1>1 DEF Reaches
<1>. QED BY <1>3, <1>4, <1>5 DEF CursorSound

LEMMA NextKeeps == CursorSound /\ [Next]_vars => CursorSound'
<1>. SUFFICES ASSUME CursorSound, [Next]_vars PROVE CursorSound'
  OBVIOUS
<1>1. ASSUME UNCHANGED <<csr_x, csr_y, at>> PROVE CursorSound'
  BY <1>1 DEF CursorSound
<1>2. CASE UNCHANGED vars
  BY <1>1, <1>2 DEF vars
<1>3. ASSUME NEW w \in Calls, Steps(w) PROVE CursorSound'
  BY <1>3, putchKeeps, placeKeeps, set_xKeeps, new_lineKeeps, load_yKeeps, set_yKeeps,
     edgeKeeps, scrollKeeps, screenKeeps, last_lineKeeps DEF Steps
<1>4. ASSUME NEW w \in Writers, handled(w) \/ pass_on_CPU(w) PROVE CursorSound'
  BY <1>1, <1>4 DEF handled, pass_on_CPU, cursor
<1>5. ASSUME NEW w \in Writers, NEW text, Prints(w, text) PROVE CursorSound'
  BY <1>1, <1>5 DEF Prints, cursor
<1>6. CASE handle_interrupt
  BY <1>1, <1>6 DEF handle_interrupt, cursor
<1>. QED BY <1>2, <1>3, <1>4, <1>5, <1>6 DEF Next, puts, putui, puti, assert_fails

-----------------------------------------------------------------------------
\* Wherever writers and the timer's handler interrupt each other in putch(), the
\* cursor is on the screen when all of them are out of it.
THEOREM CursorComesToRest == Spec => []AtRest
<1>1. CursorSound => AtRest
  <2>1. ASSUME CursorSound, NEW w \in Calls, at[w] = Idle
        PROVE  at[w].pc \notin ToCheckColumn /\ at[w].pc \notin ToCheckRow
    BY <2>1 DEF Idle, ToCheckColumn, ToCheckRow
  <2>. QED BY <2>1 DEF CursorSound, AtRest, InPutch
<1>. QED BY <1>1, InitHolds, NextKeeps, PTL DEF Spec

-----------------------------------------------------------------------------
\* The bounds.
ConsoleSound == TypeOK /\ TurnsSound /\ FitsSound

LEMMA Callers ==
    /\ Timer \in Calls /\ 1 \in Calls /\ 1 # Timer /\ Writers \subseteq Calls
    /\ \A w \in Writers : w # Timer
BY WritersAssumption DEF Calls, Timer

\* A product grows with its first factor.
LEMMA Grows ==
    ASSUME NEW a \in Nat, NEW b \in Nat, a <= b, NEW c \in Nat PROVE a * c <= b * c
<1>1. PICK d \in Nat : b = a + d
  <2>1. b - a \in Nat /\ b = a + (b - a)
    OBVIOUS
  <2>. QED BY <2>1
<1>2. b * c = a * c + d * c
  BY <1>1
<1>3. d * c \in Nat /\ a * c \in Nat
  OBVIOUS
<1>. QED BY <1>2, <1>3

LEMMA LastRows ==
    /\ LastRow(Timer) = Rows /\ LastRow(1) = Rows - 1
    /\ \A w \in Calls : LastRow(w) \in Nat /\ Rows <= LastRow(w) + 1 /\ LastRow(w) <= Rows
BY Sizes, Callers DEF LastRow

\* The cursor and what has been loaded fit for whoever is running.
LEMMA Known ==
    ASSUME ConsoleSound, NEW w \in Calls, running = w
    PROVE  /\ CursorFits(w, at[w].pc, csr_x, csr_y)
           /\ LoadedFits(w, at[w].pc, at[w].v, csr_y)
BY DEF ConsoleSound, FitsSound

\* At rest the cursor fits wherever a writer has been interrupted.
LEMMA Resting ==
    ASSUME NEW x \in Nat, NEW y \in Nat, x < Columns, y < Rows, NEW w \in Calls \ {Timer}, NEW pc
    PROVE  CursorFits(w, pc, x, y)
<1>1. y <= LastRow(w) /\ x <= Columns - 1 /\ y <= LastRow(w) + 1 /\ x <= Columns /\ y <= Rows
  BY Sizes DEF LastRow
<1>. QED BY <1>1 DEF CursorFits

\* What CursorFits and LoadedFits say position by position.
LEMMA Places ==
    ASSUME NEW w, NEW x, NEW y
    PROVE  /\ \A pc \in {"idle", "back", "where", "show", "load x", "set x"} :
                CursorFits(w, pc, x, y) <=>
                  /\ y <= LastRow(w) /\ x <= IF w = Timer THEN Columns ELSE Columns - 1
                  /\ kernel # "alone" /\ w # Timer => x <= Columns
           /\ \A pc \in {"left", "load y", "set y"} :
                CursorFits(w, pc, x, y) <=>
                  /\ y < Rows /\ x < Columns
                  /\ kernel # "alone" /\ w # Timer => x <= Columns
           /\ CursorFits(w, "edge", x, y) <=>
                /\ y <= LastRow(w) \/ (y <= Rows /\ x < Columns)
                /\ kernel # "alone" /\ w # Timer => x <= Columns
           /\ CursorFits(w, "margin", x, y) <=>
                /\ y <= LastRow(w)
                /\ kernel # "alone" /\ w # Timer => x <= Columns
           /\ \A pc \in {"load y after edge", "set y after edge"} :
                CursorFits(w, pc, x, y) <=>
                  /\ y <= LastRow(w) /\ x < Columns
                  /\ kernel # "alone" /\ w # Timer => x <= Columns
           /\ \A pc \in {"scroll", "lines", "copy", "blank", "last"} :
                CursorFits(w, pc, x, y) <=>
                  /\ y <= LastRow(w) + 1 /\ x < Columns
                  /\ kernel # "alone" /\ w # Timer => x <= Columns
BY DEF CursorFits, Placing, Turning, Wrapping, Ending

LEMMA Loads ==
    ASSUME NEW w, NEW v, NEW y
    PROVE  /\ \A pc \in {"idle", "back", "load x", "left", "load y", "edge", "margin",
                         "load y after edge", "scroll", "last"} : LoadedFits(w, pc, v, y)
           /\ LoadedFits(w, "where", v, y) <=> v <= LastRow(w) * Columns
           /\ LoadedFits(w, "show", v, y) <=> v <= LastRow(w) * Columns + Columns
           /\ LoadedFits(w, "set x", v, y) <=> (kernel # "alone" /\ w # Timer => v <= Columns)
           /\ LoadedFits(w, "set y", v, y) <=> v <= Rows
           /\ LoadedFits(w, "set y after edge", v, y) <=> v <= LastRow(w) + 1
           /\ LoadedFits(w, "lines", v, y) <=> (kernel # "threads" => y >= Rows - 1)
           /\ \A pc \in {"copy", "blank"} :
                LoadedFits(w, pc, v, y) <=> v > -Rows /\ v <= 2 /\ (kernel # "threads" => v >= 0)
BY DEF LoadedFits

\* Without turns, who else is in the middle of scroll() is the writer, interrupted.
LEMMA Others ==
    ASSUME ConsoleSound, NEW w \in Calls, running = w, NEW u \in Calls, u # w
    PROVE  /\ kernel # "threads" /\ at[u].pc = "lines" => u = 1 /\ w = Timer
           /\ w # Timer => at[Timer].pc = "idle"
<1>1. Idle.pc = "idle"
  BY DEF Idle
<1>2. w # Timer => at[Timer] = Idle
  BY Callers DEF ConsoleSound, TurnsSound
<1>3. kernel # "threads" => w \in {1, Timer} /\ (u \in Writers \ {1} => at[u] = Idle)
  BY DEF ConsoleSound, TurnsSound
<1>. QED BY <1>1, <1>2, <1>3 DEF Calls

\* A step of w in putch() that does not end it.
LEMMA Moved ==
    ASSUME ConsoleSound, NEW w \in Calls, running = w, todo[w] # <<>>, Same,
           NEW pc \in Positions \ {"idle"}, NEW v \in Int, Goes(w, pc, v),
           csr_x' \in Nat, csr_y' \in Nat, DOMAIN screen' \subseteq Nat,
           pc \in Loaded => v >= 0,
           pc = "back" => kernel = "alone" /\ w = 1 /\ csr_x' > 0,
           CursorFits(w, pc, csr_x', csr_y'), LoadedFits(w, pc, v, csr_y'),
           kernel # "threads" /\ w = Timer /\ at[1].pc = "lines" =>
             csr_y' >= Rows - 1 /\ (pc \in {"set y", "set y after edge"} => v >= Rows - 1)
    PROVE  ConsoleSound'
<1>1. /\ at' \in [Calls -> [pc : Positions, v : Int]]
      /\ at'[w] = [pc |-> pc, v |-> v] /\ at'[w].pc = pc /\ at'[w].v = v
      /\ \A u \in Calls : u # w => at'[u] = at[u]
  BY DEF ConsoleSound, TypeOK, Goes
<1>2. UNCHANGED <<kernel, todo, running, ticks, seconds>>
  BY DEF Same
<1>3. TypeOK'
  BY <1>1, <1>2 DEF ConsoleSound, TypeOK
<1>4. TurnsSound'
  <2>1. \A u \in Calls : at'[u].pc \in Loaded => at'[u].v >= 0
    BY <1>1 DEF ConsoleSound, TurnsSound
  <2>2. ASSUME NEW u \in Calls, at'[u].pc = "back"
        PROVE  kernel' = "alone" /\ u = 1 /\ csr_x' > 0
    <3>1. CASE u = w
      BY <1>1, <1>2, <2>2, <3>1
    <3>2. CASE u # w
      <4>1. kernel = "alone" /\ u = 1
        BY <1>1, <2>2, <3>2 DEF ConsoleSound, TurnsSound
      <4>. QED BY <3>2, <4>1 DEF ConsoleSound, TurnsSound
    <3>. QED BY <3>1, <3>2
  <2>3. \A u \in Calls : at'[u] # Idle => todo'[u] # <<>>
    BY <1>1, <1>2 DEF ConsoleSound, TurnsSound
  <2>4. kernel' # "threads" => \A u \in Writers \ {1} : at'[u] = Idle
    BY <1>1, <1>2, Callers DEF ConsoleSound, TurnsSound
  <2>. QED BY <1>2, <2>1, <2>2, <2>3, <2>4 DEF ConsoleSound, TurnsSound
<1>5. FitsSound'
  <2>1. ASSUME NEW u \in Calls PROVE LoadedFits(u, at[u].pc, at[u].v, csr_y)'
    <3>1. CASE u = w
      <4>1. LoadedFits(w, at'[w].pc, at'[w].v, csr_y')
        BY <1>1
      <4>. QED BY <1>2, <3>1, <4>1 DEF LoadedFits
    <3>2. CASE u # w
      <4>1. at'[u] = at[u] /\ LoadedFits(u, at[u].pc, at[u].v, csr_y)
        BY <1>1, <3>2 DEF ConsoleSound, FitsSound
      <4>2. kernel # "threads" /\ at[u].pc = "lines" => u = 1 /\ w = Timer
        BY <3>2, Others
      <4>. QED BY <1>2, <4>1, <4>2 DEF LoadedFits
    <3>. QED BY <3>1, <3>2
  <2>2. CursorFits(running, at[running].pc, csr_x, csr_y)'
    <3>1. running' = w /\ at'[w].pc = pc
      BY <1>1, <1>2
    <3>. QED BY <1>2, <3>1 DEF CursorFits
  <2>3. at'[w] # Idle
    <3>1. Idle.pc = "idle"
      BY DEF Idle
    <3>. QED BY <1>1, <3>1
  <2>4. ASSUME kernel # "threads", at'[1].pc = "lines", at'[Timer].pc \in {"set y", "set y after edge"}
        PROVE  at'[Timer].v >= Rows - 1
    <3>1. CASE w = Timer
      BY <1>1, <2>4, <3>1, Callers
    <3>2. CASE w # Timer
      <4>1. at'[Timer] = at[Timer] /\ at[Timer].pc = "idle"
        BY <1>1, <3>2, Callers, Others
      <4>. QED BY <2>4, <4>1
    <3>. QED BY <3>1, <3>2
  <2>. QED BY <1>2, <2>1, <2>2, <2>3, <2>4 DEF FitsSound, InPutch
<1>. QED BY <1>3, <1>4, <1>5 DEF ConsoleSound

\* The rest of a text.
LEMMA Rest ==
    ASSUME NEW S, NEW s \in Seq(S), s # <<>> PROVE Tail(s) \in Seq(S)
  BY HeadTailProperties

\* The end of putch().
LEMMA Ended ==
    ASSUME ConsoleSound, NEW w \in Calls, running = w, todo[w] # <<>>, Done(w),
           csr_x' \in Nat, csr_y' \in Nat, DOMAIN screen' \subseteq Nat,
           csr_x' < Columns /\ csr_y' < Rows,
           kernel # "threads" /\ w = Timer /\ at[1].pc = "lines" => csr_y' >= Rows - 1
    PROVE  ConsoleSound'
<1>1. /\ at' \in [Calls -> [pc : Positions, v : Int]]
      /\ at'[w] = Idle
      /\ \A u \in Calls : u # w => at'[u] = at[u]
  <2>1. at' = [at EXCEPT ![w] = Idle] /\ at \in [Calls -> [pc : Positions, v : Int]]
    BY DEF ConsoleSound, TypeOK, Done
  <2>2. Idle \in [pc : Positions, v : Int]
    BY DEF Idle, Positions
  <2>. QED BY <2>1, <2>2
<1>2. UNCHANGED <<kernel, running, ticks, seconds>>
  BY DEF Done
<1>3. /\ todo'[w] = Tail(todo[w])
      /\ \A u \in Calls : u # w => todo'[u] = todo[u]
  BY DEF ConsoleSound, TypeOK, Done
<1>4. \A u \in Calls : todo[u] \in Seq(Characters)
  BY DEF ConsoleSound, TypeOK
<1>5. todo' \in [Calls -> Seq(Characters)]
  <2>1. todo' = [todo EXCEPT ![w] = Tail(todo[w])]
    BY DEF Done
  <2>2. Tail(todo[w]) \in Seq(Characters)
    BY <1>4, Rest
  <2>. QED BY <2>1, <2>2 DEF ConsoleSound, TypeOK
<1>6. TypeOK'
  BY <1>1, <1>2, <1>5 DEF ConsoleSound, TypeOK
<1>7. Idle.pc = "idle" /\ Idle.v = 0
  BY DEF Idle
<1>8. TurnsSound'
  <2>1. \A u \in Calls : at'[u].pc \in Loaded => at'[u].v >= 0
    BY <1>1, <1>7 DEF ConsoleSound, TurnsSound
  <2>2. ASSUME NEW u \in Calls, at'[u].pc = "back"
        PROVE  kernel' = "alone" /\ u = 1 /\ csr_x' > 0
    <3>1. u # w
      BY <1>1, <1>7, <2>2
    <3>2. kernel = "alone" /\ u = 1
      BY <1>1, <2>2, <3>1 DEF ConsoleSound, TurnsSound
    <3>. QED BY <3>1, <3>2 DEF ConsoleSound, TurnsSound
  <2>3. \A u \in Calls : at'[u] # Idle => todo'[u] # <<>>
    BY <1>1, <1>3 DEF ConsoleSound, TurnsSound
  <2>4. kernel' # "threads" => \A u \in Writers \ {1} : at'[u] = Idle
    BY <1>1, <1>2, Callers DEF ConsoleSound, TurnsSound
  <2>5. ASSUME kernel # "alone", NEW u \in Calls
        PROVE  todo'[u] \in Seq(Characters \ {"backspace", "tab"})
    <3>1. todo[u] \in Seq(Characters \ {"backspace", "tab"})
      BY <2>5 DEF ConsoleSound, TurnsSound
    <3>2. CASE u = w
      BY <1>3, <3>1, <3>2, Rest
    <3>. QED BY <1>3, <3>1, <3>2
  <2>6. todo'[Timer] \in {<<>>, <<"newline">>, <<"*", "newline">>}
    <3>1. todo[Timer] \in {<<>>, <<"newline">>, <<"*", "newline">>}
      BY DEF ConsoleSound, TurnsSound
    <3>2. Tail(<<"newline">>) = <<>> /\ Tail(<<"*", "newline">>) = <<"newline">>
      OBVIOUS
    <3>. QED BY <1>3, <3>1, <3>2, Callers, Zenon
  <2>7. running # Timer => todo'[Timer] = <<>>
    BY <1>3, Callers DEF ConsoleSound, TurnsSound
  <2>. QED BY <1>2, <2>1, <2>2, <2>3, <2>4, <2>5, <2>6, <2>7 DEF ConsoleSound, TurnsSound
<1>9. FitsSound'
  <2>1. ASSUME NEW u \in Calls PROVE LoadedFits(u, at[u].pc, at[u].v, csr_y)'
    <3>1. CASE u = w
      BY <1>1, <1>7, <3>1 DEF LoadedFits
    <3>2. CASE u # w
      <4>1. at'[u] = at[u] /\ LoadedFits(u, at[u].pc, at[u].v, csr_y)
        BY <1>1, <3>2 DEF ConsoleSound, FitsSound
      <4>2. kernel # "threads" /\ at[u].pc = "lines" => u = 1 /\ w = Timer
        BY <3>2, Others
      <4>. QED BY <1>2, <4>1, <4>2 DEF LoadedFits
    <3>. QED BY <3>1, <3>2
  <2>2. CursorFits(running, at[running].pc, csr_x, csr_y)'
    <3>1. running' = w /\ at'[w].pc = "idle"
      BY <1>1, <1>2, <1>7
    <3>2. CursorFits(w, "idle", csr_x', csr_y')
      <4>1. csr_y' <= LastRow(w) /\ csr_x' <= Columns - 1 /\ csr_x' <= Columns
        BY Sizes DEF LastRow
      <4>. QED BY <4>1, Places
    <3>. QED BY <1>2, <3>1, <3>2 DEF CursorFits
  <2>3. ASSUME kernel # "threads", at'[1].pc = "lines", at'[Timer].pc \in {"set y", "set y after edge"}
        PROVE  at'[Timer].v >= Rows - 1
    BY <1>1, <1>7, <2>3, Callers DEF ConsoleSound, FitsSound
  <2>. QED BY <1>2, <2>1, <2>2, <2>3 DEF FitsSound
<1>. QED BY <1>6, <1>8, <1>9 DEF ConsoleSound

\* What is known of a caller in the middle of putch().
LEMMA InStep ==
    ASSUME ConsoleSound, NEW w \in Calls, NEW pc, pc # "idle", Step(w, pc)
    PROVE  /\ running = w /\ todo[w] # <<>> /\ at[w].pc = pc /\ at[w].v \in Int
           /\ csr_x \in Nat /\ csr_y \in Nat /\ DOMAIN screen \subseteq Nat
           /\ pc \in Loaded => at[w].v \in Nat
           /\ CursorFits(w, pc, csr_x, csr_y)
           /\ LoadedFits(w, pc, at[w].v, csr_y)
           /\ kernel # "threads" /\ w = Timer /\ at[1].pc = "lines" =>
                csr_y >= Rows - 1 /\ (pc \in {"set y", "set y after edge"} => at[w].v >= Rows - 1)
<1>1. running = w /\ at[w].pc = pc
  BY DEF Step
<1>2. at[w] # Idle
  BY <1>1 DEF Idle
<1>3. /\ at[w].v \in Int /\ csr_x \in Nat /\ csr_y \in Nat /\ DOMAIN screen \subseteq Nat
      /\ todo[w] # <<>> /\ (pc \in Loaded => at[w].v \in Nat)
  BY <1>1, <1>2 DEF ConsoleSound, TypeOK, TurnsSound
<1>4. /\ CursorFits(w, pc, csr_x, csr_y)
      /\ LoadedFits(w, pc, at[w].v, csr_y)
  BY <1>1, Known
<1>5. ASSUME kernel # "threads", w = Timer, at[1].pc = "lines"
      PROVE  csr_y >= Rows - 1 /\ (pc \in {"set y", "set y after edge"} => at[w].v >= Rows - 1)
  <2>1. LoadedFits(1, "lines", at[1].v, csr_y)
    BY <1>5, Callers DEF ConsoleSound, FitsSound
  <2>2. csr_y >= Rows - 1
    BY <1>5, <2>1, Loads
  <2>. QED BY <1>1, <1>5, <2>2 DEF ConsoleSound, FitsSound
<1>. QED BY <1>1, <1>3, <1>4, <1>5

LEMMA Counts ==
    /\ 0 \in Int
    /\ \A v \in Nat : v \in Int /\ v >= 0 /\ v + 1 \in Nat /\ (v > 0 => v - 1 \in Nat)
OBVIOUS

\* A step to a position that loads nothing.
LEMMA MovedOn ==
    ASSUME ConsoleSound, NEW w \in Calls, running = w, todo[w] # <<>>, Same,
           NEW pc \in {"load x", "left", "load y", "edge", "margin", "load y after edge",
                       "scroll", "lines", "last"},
           Goes(w, pc, 0),
           csr_x' \in Nat, csr_y' \in Nat, DOMAIN screen' \subseteq Nat,
           CursorFits(w, pc, csr_x', csr_y'),
           kernel # "threads" /\ pc = "lines" => csr_y' >= Rows - 1,
           kernel # "threads" /\ w = Timer /\ at[1].pc = "lines" => csr_y' >= Rows - 1
    PROVE  ConsoleSound'
<1>1. /\ pc \in Positions \ {"idle"} /\ pc \notin Loaded
      /\ pc \notin {"back", "copy", "blank", "set y", "set y after edge"}
  BY DEF Positions, Loaded
<1>2. LoadedFits(w, pc, 0, csr_y')
  BY Loads
<1>. QED BY <1>1, <1>2, Counts, Moved

\* A step that loads a value to store or to go on with.
LEMMA MovedWith ==
    ASSUME ConsoleSound, NEW w \in Calls, running = w, todo[w] # <<>>, Same,
           NEW pc \in {"where", "show", "set x"}, NEW v \in Nat, Goes(w, pc, v),
           csr_x' = csr_x, csr_y' = csr_y, DOMAIN screen' \subseteq Nat,
           csr_x \in Nat, csr_y \in Nat,
           CursorFits(w, pc, csr_x, csr_y) /\ LoadedFits(w, pc, v, csr_y),
           kernel # "threads" /\ w = Timer /\ at[1].pc = "lines" => csr_y >= Rows - 1
    PROVE  ConsoleSound'
<1>1. /\ pc \in Positions \ {"idle"}
      /\ pc \notin {"back", "copy", "blank", "set y", "set y after edge"}
  BY DEF Positions
<1>2. v \in Int /\ v >= 0 /\ csr_x' \in Nat /\ csr_y' \in Nat
  BY Counts, Zenon
<1>3. CursorFits(w, pc, csr_x', csr_y') /\ LoadedFits(w, pc, v, csr_y')
  OBVIOUS
<1>. QED BY <1>1, <1>2, <1>3, Moved

LEMMA LoadedAt ==
    /\ "where" \in Loaded /\ "show" \in Loaded /\ "set x" \in Loaded
    /\ "set y" \in Loaded /\ "set y after edge" \in Loaded
BY DEF Loaded

LEMMA whereBounds ==
    ASSUME ConsoleSound, NEW w \in Calls, where(w) PROVE ConsoleSound'
<1> DEFINE v == at[w].v + csr_x
<1>1. /\ Step(w, "where") /\ Goes(w, "show", v) /\ Same
      /\ csr_x' = csr_x /\ csr_y' = csr_y /\ screen' = screen
  BY DEF where, cursor
<1>2. /\ running = w /\ todo[w] # <<>> /\ at[w].v \in Nat /\ csr_x \in Nat /\ csr_y \in Nat
      /\ DOMAIN screen \subseteq Nat
      /\ CursorFits(w, "where", csr_x, csr_y)
      /\ LoadedFits(w, "where", at[w].v, csr_y)
      /\ kernel # "threads" /\ w = Timer /\ at[1].pc = "lines" => csr_y >= Rows - 1
  BY <1>1, InStep, LoadedAt
<1>3. v \in Nat
  BY <1>2
<1>4. CursorFits(w, "show", csr_x, csr_y) /\ LoadedFits(w, "show", v, csr_y)
  <2>1. CursorFits(w, "show", csr_x, csr_y)
    BY <1>2, Places
  <2>5. csr_x <= IF w = Timer THEN Columns ELSE Columns - 1
    BY <1>2, Places
  <2>6. csr_x <= Columns
    BY <2>5, <1>2, Sizes
  <2>2. at[w].v <= LastRow(w) * Columns
    BY <1>2, Loads
  <2>3. LastRow(w) * Columns \in Nat
    BY <1>2, LastRows, Sizes
  <2>4. v <= LastRow(w) * Columns + Columns
    BY <1>2, <2>6, <2>2, <2>3, Sizes
  <2>. QED BY <2>1, <2>4, Loads
<1> HIDE DEF v
<1>5. DOMAIN screen' \subseteq Nat
  BY <1>1, <1>2
<1>. QED BY <1>1, <1>2, <1>3, <1>4, <1>5, MovedWith

LEMMA showBounds ==
    ASSUME ConsoleSound, NEW w \in Calls, show(w) PROVE ConsoleSound'
<1>1. /\ Step(w, "show") /\ Goes(w, "load x", 0) /\ Same
      /\ csr_x' = csr_x /\ csr_y' = csr_y /\ screen' = Put(at[w].v, Char(w))
  BY DEF show, cursor
<1>2. /\ running = w /\ todo[w] # <<>> /\ at[w].v \in Nat /\ csr_x \in Nat /\ csr_y \in Nat
      /\ DOMAIN screen \subseteq Nat
      /\ CursorFits(w, "show", csr_x, csr_y)
      /\ kernel # "threads" /\ w = Timer /\ at[1].pc = "lines" => csr_y >= Rows - 1
  BY <1>1, InStep, LoadedAt
<1>3. CursorFits(w, "load x", csr_x', csr_y')
  BY <1>1, <1>2, Places
<1>4. DOMAIN screen' \subseteq Nat
  BY <1>1, <1>2 DEF Put
<1>5. csr_x' \in Nat /\ csr_y' \in Nat
      /\ (kernel # "threads" /\ w = Timer /\ at[1].pc = "lines" => csr_y' >= Rows - 1)
  BY <1>1, <1>2
<1>. QED BY <1>1, <1>2, <1>3, <1>4, <1>5, MovedOn

LEMMA OneColumn == \A x \in Nat : x <= Columns - 1 => x + 1 <= Columns
BY Sizes

LEMMA load_xBounds ==
    ASSUME ConsoleSound, NEW w \in Calls, load_x(w) PROVE ConsoleSound'
<1>1. /\ Same /\ csr_x' = csr_x /\ csr_y' = csr_y /\ screen' = screen
      /\ \/ Step(w, "load x") /\ Goes(w, "set x", csr_x + 1)
         \/ Step(w, "back")   /\ Goes(w, "set x", csr_x - 1)
  BY DEF load_x, cursor
<1>2. CASE Step(w, "load x") /\ Goes(w, "set x", csr_x + 1)
  <2>1. /\ running = w /\ todo[w] # <<>> /\ csr_x \in Nat /\ csr_y \in Nat
        /\ DOMAIN screen \subseteq Nat
        /\ CursorFits(w, "load x", csr_x, csr_y)
        /\ kernel # "threads" /\ w = Timer /\ at[1].pc = "lines" => csr_y >= Rows - 1
    BY <1>2, InStep
  <2>2. CursorFits(w, "set x", csr_x, csr_y) /\ LoadedFits(w, "set x", csr_x + 1, csr_y)
    <3>1. CursorFits(w, "set x", csr_x, csr_y) /\ (w # Timer => csr_x <= Columns - 1)
      BY <2>1, Places
    <3>2. w # Timer => csr_x + 1 <= Columns
      BY <2>1, <3>1, OneColumn, Zenon
    <3>. QED BY <3>1, <3>2, Loads
  <2>3. csr_x + 1 \in Nat /\ DOMAIN screen' \subseteq Nat
    BY <1>1, <2>1, Counts, Zenon
  <2>. QED BY <1>1, <1>2, <2>1, <2>2, <2>3, MovedWith
<1>3. CASE Step(w, "back") /\ Goes(w, "set x", csr_x - 1)
  <2>1. /\ running = w /\ todo[w] # <<>> /\ csr_x \in Nat /\ csr_y \in Nat
        /\ DOMAIN screen \subseteq Nat /\ at[w].pc = "back"
        /\ CursorFits(w, "back", csr_x, csr_y)
    BY <1>3, InStep
  <2>2. kernel = "alone" /\ csr_x > 0 /\ w # Timer
    BY <2>1, Callers DEF ConsoleSound, TurnsSound
  <2>3. CursorFits(w, "set x", csr_x, csr_y) /\ LoadedFits(w, "set x", csr_x - 1, csr_y)
    BY <2>1, <2>2, Places, Loads
  <2>4. csr_x - 1 \in Nat /\ DOMAIN screen' \subseteq Nat
    BY <1>1, <2>1, <2>2, Counts, Zenon
  <2>. QED BY <1>1, <1>3, <2>1, <2>2, <2>3, <2>4, MovedWith
<1>. QED BY <1>1, <1>2, <1>3

LEMMA set_xBounds ==
    ASSUME ConsoleSound, NEW w \in Calls, set_x(w) PROVE ConsoleSound'
<1>1. /\ Step(w, "set x") /\ Goes(w, "edge", 0) /\ Same
      /\ csr_x' = at[w].v /\ csr_y' = csr_y /\ screen' = screen
  BY DEF set_x
<1>2. /\ running = w /\ todo[w] # <<>> /\ csr_y \in Nat /\ at[w].v \in Nat
      /\ DOMAIN screen \subseteq Nat
      /\ CursorFits(w, "set x", csr_x, csr_y)
      /\ LoadedFits(w, "set x", at[w].v, csr_y)
      /\ kernel # "threads" /\ w = Timer /\ at[1].pc = "lines" => csr_y >= Rows - 1
  BY <1>1, InStep, LoadedAt
<1>3. CursorFits(w, "edge", at[w].v, csr_y)
  <2>1. csr_y <= LastRow(w)
    BY <1>2, Places
  <2>2. kernel # "alone" /\ w # Timer => at[w].v <= Columns
    BY <1>2, Loads
  <2>. QED BY <2>1, <2>2, Places
<1>4. /\ CursorFits(w, "edge", csr_x', csr_y')
      /\ csr_x' \in Nat /\ csr_y' \in Nat /\ DOMAIN screen' \subseteq Nat
      /\ kernel # "threads" /\ w = Timer /\ at[1].pc = "lines" => csr_y' >= Rows - 1
  BY <1>1, <1>2, <1>3
<1>. QED BY <1>1, <1>2, <1>4, MovedOn

LEMMA new_lineBounds ==
    ASSUME ConsoleSound, NEW w \in Calls, new_line(w) PROVE ConsoleSound'
<1>1. /\ Same /\ csr_x' = 0 /\ csr_y' = csr_y /\ screen' = screen
      /\ \/ Step(w, "left")   /\ Goes(w, "load y", 0)
         \/ Step(w, "margin") /\ Goes(w, "load y after edge", 0)
  BY DEF new_line
<1>2. 0 \in Nat /\ 0 < Columns /\ 0 <= Columns
  BY Sizes
<1>3. CASE Step(w, "left") /\ Goes(w, "load y", 0)
  <2>1. /\ running = w /\ todo[w] # <<>> /\ csr_y \in Nat /\ DOMAIN screen \subseteq Nat
        /\ CursorFits(w, "left", csr_x, csr_y)
        /\ kernel # "threads" /\ w = Timer /\ at[1].pc = "lines" => csr_y >= Rows - 1
    BY <1>3, InStep
  <2>2. CursorFits(w, "load y", 0, csr_y)
    BY <1>2, <2>1, Places
  <2>3. /\ CursorFits(w, "load y", csr_x', csr_y')
        /\ csr_x' \in Nat /\ csr_y' \in Nat /\ DOMAIN screen' \subseteq Nat
        /\ kernel # "threads" /\ w = Timer /\ at[1].pc = "lines" => csr_y' >= Rows - 1
    BY <1>1, <1>2, <2>1, <2>2
  <2>. QED BY <1>1, <1>3, <2>1, <2>3, MovedOn
<1>4. CASE Step(w, "margin") /\ Goes(w, "load y after edge", 0)
  <2>1. /\ running = w /\ todo[w] # <<>> /\ csr_y \in Nat /\ DOMAIN screen \subseteq Nat
        /\ CursorFits(w, "margin", csr_x, csr_y)
        /\ kernel # "threads" /\ w = Timer /\ at[1].pc = "lines" => csr_y >= Rows - 1
    BY <1>4, InStep
  <2>2. CursorFits(w, "load y after edge", 0, csr_y)
    BY <1>2, <2>1, Places
  <2>3. /\ CursorFits(w, "load y after edge", csr_x', csr_y')
        /\ csr_x' \in Nat /\ csr_y' \in Nat /\ DOMAIN screen' \subseteq Nat
        /\ kernel # "threads" /\ w = Timer /\ at[1].pc = "lines" => csr_y' >= Rows - 1
    BY <1>1, <1>2, <2>1, <2>2
  <2>. QED BY <1>1, <1>4, <2>1, <2>3, MovedOn
<1>. QED BY <1>1, <1>3, <1>4

\* The row goes on by one.
LEMMA OneMore ==
    /\ \A y \in Nat : y < Rows => y + 1 <= Rows
    /\ \A w \in Calls : \A y \in Nat : y <= LastRow(w) => y + 1 <= LastRow(w) + 1
    /\ \A y \in Nat : y >= Rows - 1 => y + 1 >= Rows - 1
BY Sizes, LastRows

LEMMA load_yBounds ==
    ASSUME ConsoleSound, NEW w \in Calls, load_y(w) PROVE ConsoleSound'
<1> DEFINE v == csr_y + 1
<1>1. /\ Same /\ csr_x' = csr_x /\ csr_y' = csr_y /\ screen' = screen
      /\ \/ Step(w, "load y")            /\ Goes(w, "set y", v)
         \/ Step(w, "load y after edge") /\ Goes(w, "set y after edge", v)
  BY DEF load_y, cursor
<1>2. CASE Step(w, "load y") /\ Goes(w, "set y", v)
  <2>1. /\ running = w /\ todo[w] # <<>> /\ csr_x \in Nat /\ csr_y \in Nat
        /\ DOMAIN screen \subseteq Nat
        /\ CursorFits(w, "load y", csr_x, csr_y)
        /\ kernel # "threads" /\ w = Timer /\ at[1].pc = "lines" => csr_y >= Rows - 1
    BY <1>2, InStep
  <2>2. /\ v \in Int /\ v >= 0
        /\ kernel # "threads" /\ w = Timer /\ at[1].pc = "lines" => v >= Rows - 1
    BY <2>1, OneMore, Counts, Zenon
  <2>3. CursorFits(w, "set y", csr_x, csr_y) /\ LoadedFits(w, "set y", v, csr_y)
    <3>1. CursorFits(w, "set y", csr_x, csr_y) /\ csr_y < Rows
      BY <2>1, Places
    <3>2. v <= Rows
      BY <2>1, <3>1, OneMore, Zenon
    <3>. QED BY <3>1, <3>2, Loads
  <2> HIDE DEF v
  <2>4. /\ CursorFits(w, "set y", csr_x', csr_y') /\ LoadedFits(w, "set y", v, csr_y')
        /\ csr_x' \in Nat /\ csr_y' \in Nat /\ DOMAIN screen' \subseteq Nat
        /\ kernel # "threads" /\ w = Timer /\ at[1].pc = "lines" => csr_y' >= Rows - 1
    BY <1>1, <2>1, <2>3
  <2>5. "set y" \in Positions \ {"idle"} /\ "set y" \notin {"back", "copy", "blank"}
    BY InPositions
  <2>. QED BY <1>1, <1>2, <2>1, <2>2, <2>4, <2>5, Moved
<1>3. CASE Step(w, "load y after edge") /\ Goes(w, "set y after edge", v)
  <2>1. /\ running = w /\ todo[w] # <<>> /\ csr_x \in Nat /\ csr_y \in Nat
        /\ DOMAIN screen \subseteq Nat
        /\ CursorFits(w, "load y after edge", csr_x, csr_y)
        /\ kernel # "threads" /\ w = Timer /\ at[1].pc = "lines" => csr_y >= Rows - 1
    BY <1>3, InStep
  <2>2. /\ v \in Int /\ v >= 0
        /\ kernel # "threads" /\ w = Timer /\ at[1].pc = "lines" => v >= Rows - 1
    BY <2>1, OneMore, Counts, Zenon
  <2>3. /\ CursorFits(w, "set y after edge", csr_x, csr_y)
        /\ LoadedFits(w, "set y after edge", v, csr_y)
    <3>1. /\ CursorFits(w, "set y after edge", csr_x, csr_y)
          /\ csr_y <= LastRow(w)
      BY <2>1, Places
    <3>2. v <= LastRow(w) + 1
      BY <2>1, <3>1, OneMore, Zenon
    <3>. QED BY <3>1, <3>2, Loads
  <2> HIDE DEF v
  <2>4. /\ CursorFits(w, "set y after edge", csr_x', csr_y')
        /\ LoadedFits(w, "set y after edge", v, csr_y')
        /\ csr_x' \in Nat /\ csr_y' \in Nat /\ DOMAIN screen' \subseteq Nat
        /\ kernel # "threads" /\ w = Timer /\ at[1].pc = "lines" => csr_y' >= Rows - 1
    BY <1>1, <2>1, <2>3
  <2>5. /\ "set y after edge" \in Positions \ {"idle"}
        /\ "set y after edge" \notin {"back", "copy", "blank"}
    BY InPositions
  <2>. QED BY <1>1, <1>3, <2>1, <2>2, <2>4, <2>5, Moved
<1>. QED BY <1>1, <1>2, <1>3

LEMMA set_yBounds ==
    ASSUME ConsoleSound, NEW w \in Calls, set_y(w) PROVE ConsoleSound'
<1>1. /\ Same /\ csr_x' = csr_x /\ csr_y' = at[w].v /\ screen' = screen
      /\ \/ Step(w, "set y")            /\ Goes(w, "edge", 0)
         \/ Step(w, "set y after edge") /\ Goes(w, "scroll", 0)
  BY DEF set_y
<1>2. CASE Step(w, "set y") /\ Goes(w, "edge", 0)
  <2>1. /\ running = w /\ todo[w] # <<>> /\ csr_x \in Nat /\ at[w].v \in Nat
        /\ DOMAIN screen \subseteq Nat
        /\ CursorFits(w, "set y", csr_x, csr_y) /\ LoadedFits(w, "set y", at[w].v, csr_y)
        /\ kernel # "threads" /\ w = Timer /\ at[1].pc = "lines" => at[w].v >= Rows - 1
    BY <1>2, InStep, LoadedAt
  <2>2. CursorFits(w, "edge", csr_x, at[w].v)
    <3>1. /\ csr_x < Columns
          /\ kernel # "alone" /\ w # Timer => csr_x <= Columns
      BY <2>1, Places
    <3>2. at[w].v <= Rows
      BY <2>1, Loads
    <3>. QED BY <3>1, <3>2, Places
  <2>3. /\ CursorFits(w, "edge", csr_x', csr_y')
        /\ csr_x' \in Nat /\ csr_y' \in Nat /\ DOMAIN screen' \subseteq Nat
        /\ kernel # "threads" /\ w = Timer /\ at[1].pc = "lines" => csr_y' >= Rows - 1
    BY <1>1, <2>1, <2>2
  <2>. QED BY <1>1, <1>2, <2>1, <2>3, MovedOn
<1>3. CASE Step(w, "set y after edge") /\ Goes(w, "scroll", 0)
  <2>1. /\ running = w /\ todo[w] # <<>> /\ csr_x \in Nat /\ at[w].v \in Nat
        /\ DOMAIN screen \subseteq Nat
        /\ CursorFits(w, "set y after edge", csr_x, csr_y)
        /\ LoadedFits(w, "set y after edge", at[w].v, csr_y)
        /\ kernel # "threads" /\ w = Timer /\ at[1].pc = "lines" => at[w].v >= Rows - 1
    BY <1>3, InStep, LoadedAt
  <2>2. CursorFits(w, "scroll", csr_x, at[w].v)
    <3>1. /\ csr_x < Columns
          /\ kernel # "alone" /\ w # Timer => csr_x <= Columns
      BY <2>1, Places
    <3>2. at[w].v <= LastRow(w) + 1
      BY <2>1, Loads
    <3>. QED BY <3>1, <3>2, Places
  <2>3. /\ CursorFits(w, "scroll", csr_x', csr_y')
        /\ csr_x' \in Nat /\ csr_y' \in Nat /\ DOMAIN screen' \subseteq Nat
        /\ kernel # "threads" /\ w = Timer /\ at[1].pc = "lines" => csr_y' >= Rows - 1
    BY <1>1, <2>1, <2>2
  <2>. QED BY <1>1, <1>3, <2>1, <2>3, MovedOn
<1>. QED BY <1>1, <1>2, <1>3

LEMMA edgeBounds ==
    ASSUME ConsoleSound, NEW w \in Calls, edge(w) PROVE ConsoleSound'
<1>1. /\ Step(w, "edge") /\ Same /\ csr_x' = csr_x /\ csr_y' = csr_y /\ screen' = screen
      /\ Goes(w, IF csr_x >= Columns THEN "margin" ELSE "scroll", 0)
  BY DEF edge, cursor, Width
<1>2. /\ running = w /\ todo[w] # <<>> /\ csr_x \in Nat /\ csr_y \in Nat
      /\ DOMAIN screen \subseteq Nat
      /\ CursorFits(w, "edge", csr_x, csr_y)
      /\ kernel # "threads" /\ w = Timer /\ at[1].pc = "lines" => csr_y >= Rows - 1
  BY <1>1, InStep
<1>3. /\ csr_y <= LastRow(w) \/ (csr_y <= Rows /\ csr_x < Columns)
      /\ kernel # "alone" /\ w # Timer => csr_x <= Columns
  BY <1>2, Places
<1>4. CASE csr_x >= Columns
  <2>1. ~(csr_x < Columns)
    BY <1>2, <1>4, Sizes
  <2>2. CursorFits(w, "margin", csr_x, csr_y)
    BY <1>3, <2>1, Places
  <2>3. /\ CursorFits(w, "margin", csr_x', csr_y')
        /\ csr_x' \in Nat /\ csr_y' \in Nat /\ DOMAIN screen' \subseteq Nat
        /\ kernel # "threads" /\ w = Timer /\ at[1].pc = "lines" => csr_y' >= Rows - 1
    BY <1>1, <1>2, <2>2
  <2>4. Goes(w, "margin", 0)
    BY <1>1, <1>4
  <2>. QED BY <1>1, <1>2, <2>3, <2>4, MovedOn
<1>5. CASE ~(csr_x >= Columns)
  <2>1. csr_x < Columns
    BY <1>2, <1>5, Sizes
  <2>2. csr_y <= LastRow(w) + 1
    BY <1>2, <1>3, LastRows, Sizes
  <2>3. CursorFits(w, "scroll", csr_x, csr_y)
    BY <1>3, <2>1, <2>2, Places
  <2>4. /\ CursorFits(w, "scroll", csr_x', csr_y')
        /\ csr_x' \in Nat /\ csr_y' \in Nat /\ DOMAIN screen' \subseteq Nat
        /\ kernel # "threads" /\ w = Timer /\ at[1].pc = "lines" => csr_y' >= Rows - 1
    BY <1>1, <1>2, <2>3
  <2>5. Goes(w, "scroll", 0)
    BY <1>1, <1>5
  <2>. QED BY <1>1, <1>2, <2>4, <2>5, MovedOn
<1>. QED BY <1>4, <1>5

LEMMA scrollBounds ==
    ASSUME ConsoleSound, NEW w \in Calls, scroll(w) PROVE ConsoleSound'
<1>1. /\ Step(w, "scroll") /\ csr_x' = csr_x /\ csr_y' = csr_y /\ screen' = screen
      /\ IF csr_y >= Rows THEN Goes(w, "lines", 0) /\ Same ELSE Done(w)
  BY DEF scroll, cursor, PastEnd
<1>2. /\ running = w /\ todo[w] # <<>> /\ csr_x \in Nat /\ csr_y \in Nat
      /\ DOMAIN screen \subseteq Nat
      /\ CursorFits(w, "scroll", csr_x, csr_y)
      /\ kernel # "threads" /\ w = Timer /\ at[1].pc = "lines" => csr_y >= Rows - 1
  BY <1>1, InStep
<1>3. /\ csr_x' \in Nat /\ csr_y' \in Nat /\ DOMAIN screen' \subseteq Nat
      /\ csr_x' < Columns /\ CursorFits(w, "lines", csr_x', csr_y')
      /\ kernel # "threads" /\ w = Timer /\ at[1].pc = "lines" => csr_y' >= Rows - 1
  BY <1>1, <1>2, Places
<1>4. CASE csr_y >= Rows
  <2>1. csr_y' >= Rows - 1
    BY <1>1, <1>2, <1>4, Sizes
  <2>. QED BY <1>1, <1>2, <1>3, <1>4, <2>1, MovedOn
<1>5. CASE ~(csr_y >= Rows)
  <2>1. csr_y' < Rows
    BY <1>1, <1>2, <1>5, Sizes
  <2>. QED BY <1>1, <1>2, <1>3, <1>5, <2>1, Ended
<1>. QED BY <1>4, <1>5

\* How many rows there are to scroll.
LEMMA RowsLeft ==
    ASSUME NEW y \in Nat
    PROVE  /\ lines(y) \in Int /\ lines(y) > -Rows
           /\ y >= Rows - 1 => lines(y) >= 0
           /\ y <= Rows + 1 => lines(y) <= 2
BY Sizes DEF lines

LEMMA count_linesBounds ==
    ASSUME ConsoleSound, NEW w \in Calls, count_lines(w) PROVE ConsoleSound'
<1> DEFINE v == lines(csr_y)
<1>1. /\ Step(w, "lines") /\ Goes(w, "copy", v) /\ Same
      /\ csr_x' = csr_x /\ csr_y' = csr_y /\ screen' = screen
  BY DEF count_lines, cursor
<1>2. /\ running = w /\ todo[w] # <<>> /\ csr_x \in Nat /\ csr_y \in Nat
      /\ DOMAIN screen \subseteq Nat
      /\ CursorFits(w, "lines", csr_x, csr_y)
      /\ LoadedFits(w, "lines", at[w].v, csr_y)
      /\ kernel # "threads" /\ w = Timer /\ at[1].pc = "lines" => csr_y >= Rows - 1
  BY <1>1, InStep
<1>3. v \in Int /\ v > -Rows
  BY <1>2, RowsLeft
<1>4. CursorFits(w, "copy", csr_x, csr_y) /\ LoadedFits(w, "copy", v, csr_y)
  <2>1. CursorFits(w, "copy", csr_x, csr_y) /\ csr_y <= LastRow(w) + 1
    BY <1>2, Places
  <2>2. kernel # "threads" => csr_y >= Rows - 1
    BY <1>2, Loads
  <2>3. csr_y <= Rows + 1
    BY <1>2, <2>1, LastRows, Sizes
  <2>4. v <= 2 /\ (kernel # "threads" => v >= 0)
    BY <1>2, <2>2, <2>3, RowsLeft
  <2>. QED BY <1>3, <2>1, <2>4, Loads
<1> HIDE DEF v
<1>5. /\ "copy" \in Positions \ {"idle"} /\ "copy" \notin {"back", "set y", "set y after edge"}
      /\ "copy" \notin Loaded
  BY InPositions DEF Loaded
<1>6. /\ csr_x' \in Nat /\ csr_y' \in Nat /\ DOMAIN screen' \subseteq Nat
      /\ CursorFits(w, "copy", csr_x', csr_y')
      /\ LoadedFits(w, "copy", v, csr_y')
      /\ kernel # "threads" /\ w = Timer /\ at[1].pc = "lines" => csr_y' >= Rows - 1
  BY <1>1, <1>2, <1>4
<1>. QED BY <1>1, <1>2, <1>3, <1>5, <1>6, Moved

\* What scroll() leaves on the screen is in the cells from textmemptr on.
LEMMA copied ==
    ASSUME DOMAIN screen \subseteq Nat, NEW up, NEW kept
    PROVE  DOMAIN memcpy(up, kept) \subseteq Nat
<1>1. 0 .. kept - 1 \subseteq Nat
  OBVIOUS
<1>2. CASE up < 0
  BY <1>1, <1>2 DEF memcpy
<1>3. CASE ~(up < 0)
  BY <1>1, <1>3 DEF memcpy
<1>. QED BY <1>2, <1>3

LEMMA copyBounds ==
    ASSUME ConsoleSound, NEW w \in Calls, copy(w) PROVE ConsoleSound'
<1> DEFINE v == at[w].v
<1>1. /\ Step(w, "copy") /\ Goes(w, "blank", v) /\ Same
      /\ csr_x' = csr_x /\ csr_y' = csr_y
      /\ screen' = memcpy(v * Columns, (Rows - v) * Columns)
  BY DEF copy, cursor
<1>2. /\ running = w /\ todo[w] # <<>> /\ csr_x \in Nat /\ csr_y \in Nat /\ v \in Int
      /\ DOMAIN screen \subseteq Nat /\ at[w].pc = "copy"
      /\ CursorFits(w, "copy", csr_x, csr_y)
      /\ LoadedFits(w, "copy", v, csr_y)
      /\ kernel # "threads" /\ w = Timer /\ at[1].pc = "lines" => csr_y >= Rows - 1
  BY <1>1, InStep
<1>3. v > -Rows
  BY <1>2, Loads
<1>4. CursorFits(w, "blank", csr_x, csr_y) /\ LoadedFits(w, "blank", v, csr_y)
  BY <1>2, Places, Loads
<1> HIDE DEF v
<1>5. /\ "blank" \in Positions \ {"idle"} /\ "blank" \notin {"back", "set y", "set y after edge"}
      /\ "blank" \notin Loaded
  BY InPositions DEF Loaded
<1>6. /\ csr_x' \in Nat /\ csr_y' \in Nat
      /\ CursorFits(w, "blank", csr_x', csr_y')
      /\ LoadedFits(w, "blank", v, csr_y')
      /\ kernel # "threads" /\ w = Timer /\ at[1].pc = "lines" => csr_y' >= Rows - 1
  BY <1>1, <1>2, <1>4
<1>7. DOMAIN screen' \subseteq Nat
  BY <1>1, <1>2, copied
<1>. QED BY <1>1, <1>2, <1>3, <1>5, <1>6, <1>7, Moved

LEMMA blankBounds ==
    ASSUME ConsoleSound, NEW w \in Calls, blank(w) PROVE ConsoleSound'
<1>1. /\ Step(w, "blank") /\ Goes(w, "last", 0) /\ Same
      /\ csr_x' = csr_x /\ csr_y' = csr_y /\ screen' = memsetw(Rows - at[w].v)
  BY DEF blank, cursor
<1>2. /\ running = w /\ todo[w] # <<>> /\ csr_x \in Nat /\ csr_y \in Nat
      /\ DOMAIN screen \subseteq Nat
      /\ CursorFits(w, "blank", csr_x, csr_y)
      /\ kernel # "threads" /\ w = Timer /\ at[1].pc = "lines" => csr_y >= Rows - 1
  BY <1>1, InStep
<1>3. DOMAIN screen' \subseteq Nat
  BY <1>1, <1>2 DEF memsetw
<1>4. /\ csr_x' \in Nat /\ csr_y' \in Nat
      /\ CursorFits(w, "last", csr_x', csr_y')
      /\ kernel # "threads" /\ w = Timer /\ at[1].pc = "lines" => csr_y' >= Rows - 1
  BY <1>1, <1>2, Places
<1>. QED BY <1>1, <1>2, <1>3, <1>4, MovedOn

LEMMA last_lineBounds ==
    ASSUME ConsoleSound, NEW w \in Calls, last_line(w) PROVE ConsoleSound'
<1>1. /\ Step(w, "last") /\ Done(w)
      /\ csr_x' = csr_x /\ csr_y' = Rows - 1 /\ screen' = screen
  BY DEF last_line
<1>2. /\ running = w /\ todo[w] # <<>> /\ csr_x \in Nat /\ DOMAIN screen \subseteq Nat
      /\ CursorFits(w, "last", csr_x, csr_y)
  BY <1>1, InStep
<1>3. csr_x < Columns
  BY <1>2, Places
<1>4. Rows - 1 \in Nat /\ Rows - 1 < Rows /\ Rows - 1 >= Rows - 1
  BY Sizes
<1>5. /\ csr_x' \in Nat /\ csr_y' \in Nat /\ DOMAIN screen' \subseteq Nat
      /\ csr_x' < Columns /\ csr_y' < Rows
      /\ csr_y' >= Rows - 1
  BY <1>1, <1>2, <1>3, <1>4
<1>. QED BY <1>1, <1>2, <1>5, Ended

\* The character a caller comes with.
LEMMA Comes ==
    ASSUME ConsoleSound, NEW w \in Calls, todo[w] # <<>>
    PROVE  /\ kernel # "alone" => Char(w) # "backspace" /\ Char(w) # "tab"
           /\ w = Timer /\ Char(w) = "newline" => todo[w] = <<"newline">>
<1>1. ASSUME kernel # "alone" PROVE Char(w) # "backspace" /\ Char(w) # "tab"
  <2>1. todo[w] \in Seq(Characters \ {"backspace", "tab"})
    BY <1>1 DEF ConsoleSound, TurnsSound
  <2>. QED BY <2>1, HeadTailProperties DEF Char
<1>2. ASSUME w = Timer, Char(w) = "newline" PROVE todo[w] = <<"newline">>
  <2>1. todo[w] \in {<<"newline">>, <<"*", "newline">>}
    BY <1>2 DEF ConsoleSound, TurnsSound
  <2>2. Head(<<"*", "newline">>) = "*"
    OBVIOUS
  <2>. QED BY <1>2, <2>1, <2>2 DEF Char
<1>. QED BY <1>1, <1>2

\* The column of the next tab stop.
LEMMA NextTab ==
    ASSUME NEW x \in Nat PROVE (x + TabStop) - (x % TabStop) \in Nat
<1>1. TabStop \in Nat \ {0}
  BY SizeAssumption
<1>2. x % TabStop \in 0 .. TabStop - 1
  BY <1>1
<1>. QED BY <1>1, <1>2

LEMMA putchBounds ==
    ASSUME ConsoleSound, NEW w \in Calls, putch(w) PROVE ConsoleSound'
<1>1. /\ running = w /\ at[w] = Idle /\ todo[w] # <<>>
      /\ Same /\ csr_x' = csr_x /\ csr_y' = csr_y /\ screen' = screen
  BY DEF putch, cursor
<1>2. (CASE Char(w) = "backspace" -> IF csr_x # 0 THEN Goes(w, "back", 0) ELSE Goes(w, "edge", 0)
         [] Char(w) = "tab"     -> Goes(w, "set x", (csr_x + TabStop) - (csr_x % TabStop))
         [] Char(w) = "return"  -> Goes(w, "set x", 0)
         [] Char(w) = "newline" -> Goes(w, "left", 0)
         [] Char(w) = "other"   -> Goes(w, "edge", 0)
         [] OTHER               -> Goes(w, "where", csr_y * Columns))
  BY DEF putch
<1>3. /\ csr_x \in Nat /\ csr_y \in Nat /\ DOMAIN screen \subseteq Nat
      /\ csr_x' \in Nat /\ csr_y' \in Nat /\ DOMAIN screen' \subseteq Nat
  BY <1>1 DEF ConsoleSound, TypeOK
<1>4. Idle.pc = "idle"
  BY DEF Idle
<1>5. CursorFits(w, "idle", csr_x, csr_y)
  BY <1>1, <1>4, Known
<1>6. /\ csr_y <= LastRow(w)
      /\ csr_x <= IF w = Timer THEN Columns ELSE Columns - 1
      /\ kernel # "alone" /\ w # Timer => csr_x <= Columns
  BY <1>5, Places
<1>7. kernel # "threads" /\ w = Timer /\ at[1].pc = "lines" => csr_y >= Rows - 1
  <2>1. LoadedFits(1, at[1].pc, at[1].v, csr_y)
    BY Callers DEF ConsoleSound, FitsSound
  <2>. QED BY <2>1, Loads
<1>8. \A pc \in {"back", "set x", "where", "edge"} : CursorFits(w, pc, csr_x, csr_y)
  BY <1>6, Places
<1>9. ASSUME Char(w) = "backspace" PROVE ConsoleSound'
  <2>1. kernel = "alone" /\ w = 1
    BY <1>1, <1>9, Comes DEF ConsoleSound, TurnsSound
  <2>2. CASE csr_x # 0
    <3>1. Goes(w, "back", 0)
      BY <1>2, <1>9, <2>2
    <3>2. csr_x' > 0
      BY <1>1, <1>3, <2>2
    <3>3. /\ "back" \in Positions \ {"idle"} /\ "back" \notin Loaded
          /\ "back" \notin {"copy", "blank", "set y", "set y after edge"}
      BY InPositions DEF Loaded
    <3>4. CursorFits(w, "back", csr_x', csr_y') /\ LoadedFits(w, "back", 0, csr_y') /\ w # Timer
      BY <1>1, <1>8, <2>1, Loads, Callers
    <3>. QED BY <1>1, <1>3, <2>1, <3>1, <3>2, <3>3, <3>4, Counts, Moved
  <2>3. CASE csr_x = 0
    <3>1. Goes(w, "edge", 0)
      BY <1>2, <1>9, <2>3
    <3>2. CursorFits(w, "edge", csr_x', csr_y') /\ w # Timer
      BY <1>1, <1>8, <2>1, Callers
    <3>. QED BY <1>1, <1>3, <3>1, <3>2, MovedOn
  <2>. QED BY <2>2, <2>3
<1>10. ASSUME Char(w) = "tab" PROVE ConsoleSound'
  <2> DEFINE v == (csr_x + TabStop) - (csr_x % TabStop)
  <2>1. kernel = "alone"
    BY <1>1, <1>10, Comes
  <2>2. Goes(w, "set x", v)
    BY <1>2, <1>10
  <2>3. v \in Nat
    BY <1>3, NextTab
  <2> HIDE DEF v
  <2>4. CursorFits(w, "set x", csr_x, csr_y) /\ LoadedFits(w, "set x", v, csr_y)
    BY <1>8, <2>1, Loads
  <2>. QED BY <1>1, <1>3, <1>7, <2>2, <2>3, <2>4, MovedWith
<1>11. ASSUME Char(w) = "return" PROVE ConsoleSound'
  <2>1. Goes(w, "set x", 0)
    BY <1>2, <1>11
  <2>2. 0 \in Nat /\ 0 <= Columns
    BY Sizes
  <2>3. CursorFits(w, "set x", csr_x, csr_y) /\ LoadedFits(w, "set x", 0, csr_y)
    BY <1>8, <2>2, Loads
  <2>. QED BY <1>1, <1>3, <1>7, <2>1, <2>2, <2>3, MovedWith
<1>12. ASSUME Char(w) = "newline" PROVE ConsoleSound'
  <2>1. Goes(w, "left", 0)
    BY <1>2, <1>12
  <2>2. csr_y < Rows /\ csr_x < Columns
    <3>1. CASE w = Timer
      <4>1. todo[Timer] = <<"newline">> /\ ~InPutch(Timer) /\ running = Timer
        BY <1>1, <1>12, <3>1, Comes DEF InPutch
      <4>2. <<"newline">> # <<"*", "newline">>
        OBVIOUS
      <4>. QED BY <4>1, <4>2 DEF ConsoleSound, FitsSound
    <3>2. CASE w # Timer
      <4>1. csr_y <= Rows - 1 /\ csr_x <= Columns - 1
        BY <1>6, <3>2 DEF LastRow
      <4>. QED BY <1>3, <4>1, Sizes
    <3>. QED BY <3>1, <3>2
  <2>3. CursorFits(w, "left", csr_x, csr_y)
    BY <1>6, <2>2, Places
  <2>4. /\ CursorFits(w, "left", csr_x', csr_y')
        /\ kernel # "threads" /\ w = Timer /\ at[1].pc = "lines" => csr_y' >= Rows - 1
    BY <1>1, <1>7, <2>3
  <2>. QED BY <1>1, <1>3, <2>1, <2>4, MovedOn
<1>13. ASSUME Char(w) = "other" PROVE ConsoleSound'
  <2>1. Goes(w, "edge", 0)
    BY <1>2, <1>13
  <2>2. /\ CursorFits(w, "edge", csr_x', csr_y')
        /\ kernel # "threads" /\ w = Timer /\ at[1].pc = "lines" => csr_y' >= Rows - 1
    BY <1>1, <1>7, <1>8
  <2>. QED BY <1>1, <1>3, <2>1, <2>2, MovedOn
<1>14. ASSUME Char(w) \notin {"backspace", "tab", "return", "newline", "other"}
       PROVE  ConsoleSound'
  <2> DEFINE v == csr_y * Columns
  <2>1. Goes(w, "where", v)
    BY <1>2, <1>14
  <2>2. v \in Nat
    BY <1>3, Sizes
  <2>3. v <= LastRow(w) * Columns
    <3>1. LastRow(w) \in Nat
      BY <1>5, LastRows
    <3>. QED BY <1>3, <1>6, <3>1, Sizes, Grows
  <2> HIDE DEF v
  <2>4. CursorFits(w, "where", csr_x, csr_y) /\ LoadedFits(w, "where", v, csr_y)
    BY <1>8, <2>3, Loads
  <2>. QED BY <1>1, <1>3, <1>7, <2>1, <2>2, <2>4, MovedWith
<1>. QED BY <1>9, <1>10, <1>11, <1>12, <1>13, <1>14

-----------------------------------------------------------------------------
\* The texts.
Plain == Characters \ {"backspace", "tab"}

LEMMA Fixed ==
    /\ {"<", ">", "!", "*", "newline", "abort"} \subseteq Plain
    /\ \A d \in 0 .. 9 : Digit(d) \in Characters
    /\ Letters \subseteq Plain /\ Controls \subseteq Characters
    /\ Texts \subseteq Plain
<1>1. {"<", ">", "!", "*", "newline", "abort"} \subseteq Plain
  BY DEF Plain, Characters
<1>2. Letters \subseteq Plain
  <2> SUFFICES ASSUME NEW c \in Letters PROVE c \in Plain
    OBVIOUS
  <2>1. c # "backspace" /\ c # "tab"
    BY TextAssumption
  <2>2. c \in Characters
    BY DEF Characters
  <2>. QED BY <2>1, <2>2 DEF Plain
<1>3. Texts \subseteq Plain
  BY <1>1, <1>2, TextAssumption
<1>4. \A d \in 0 .. 9 : Digit(d) \in Characters
  BY DEF Characters
<1>5. Controls \subseteq Characters
  BY DEF Characters
<1>. QED BY <1>1, <1>2, <1>3, <1>4, <1>5

\* A subset of 1 .. 10 that is not empty has a greatest element.
LEMMA LastOfTen ==
    ASSUME NEW I \in SUBSET (1 .. 10), I # {} PROVE \E m \in I : \A j \in I : m >= j
<1> DEFINE T == {k \in 0 .. 9 : 10 - k \in I}
<1>1. T \in SUBSET Nat
  OBVIOUS
<1>2. T # {}
  <2>1. PICK i \in I : TRUE
    OBVIOUS
  <2>2. 10 - i \in 0 .. 9 /\ 10 - (10 - i) = i
    BY <2>1
  <2>. QED BY <2>1, <2>2
<1>3. PICK k \in T : \A l \in T : k <= l
  BY <1>1, <1>2, LeastElement
<1>4. 10 - k \in I /\ k \in 0 .. 9
  BY <1>3
<1>5. ASSUME NEW j \in I PROVE 10 - k >= j
  <2>1. j \in 1 .. 10 /\ 10 - j \in 0 .. 9 /\ 10 - (10 - j) = j
    OBVIOUS
  <2>2. 10 - j \in T
    BY <2>1
  <2>. QED BY <1>3, <1>4, <2>1, <2>2
<1>. QED BY <1>4, <1>5

LEMMA OneDigit == ASSUME NEW n \in Nat, NEW u \in Nat \ {0} PROVE (n \div u) % 10 \in 0 .. 9
OBVIOUS

LEMMA TenDigits == ASSUME NEW n \in Nat PROVE digits(n) \in [1 .. 10 -> 0 .. 9]
<1>1. \A i \in 1 .. 10 : Units[i] \in Nat \ {0}
  BY DEF Units
<1>2. ASSUME NEW i \in 1 .. 10 PROVE (n \div Units[i]) % 10 \in 0 .. 9
  BY <1>1, OneDigit
<1>. QED BY <1>2 DEF digits

LEMMA LastDigit ==
    ASSUME NEW s \in [1 .. 10 -> 0 .. 9]
    PROVE  SelectLastInSeq(s, LAMBDA d : d # 0) \in 0 .. 10
<1> DEFINE I == {i \in 1 .. Len(s) : s[i] # 0}
<1>1. Len(s) = 10
  OBVIOUS
<1>2. SelectLastInSeq(s, LAMBDA d : d # 0) = IF I # {} THEN Max(I) ELSE 0
  BY DEF SelectLastInSeq
<1>3. I # {} => Max(I) \in 1 .. 10
  <2>1. I \in SUBSET (1 .. 10)
    BY <1>1
  <2> HIDE DEF I
  <2>2. I # {} => \E m \in I : \A j \in I : m >= j
    BY <2>1, LastOfTen
  <2>3. I # {} => Max(I) \in I
    BY <2>2 DEF Max
  <2>. QED BY <2>1, <2>3
<1>. QED BY <1>2, <1>3

\* A number is printed with characters of the table.
LEMMA NumberText ==
    ASSUME NEW n \in Nat PROVE Text(uint2str(n)) \in Seq(Characters)
<1> DEFINE s == digits(n)
           k == SelectLastInSeq(s, LAMBDA d : d # 0)
           i == IF k = 0 THEN 1 ELSE k
           u == SubSeq(s, 1, i)
<1>1. s \in [1 .. 10 -> 0 .. 9]
  BY TenDigits
<1>2. k \in 0 .. 10
  BY <1>1, LastDigit
<1>3. uint2str(n) = Reverse(u)
  BY DEF uint2str
<1> HIDE DEF s, k
<1>4. u \in Seq(0 .. 9)
  BY <1>1, <1>2
<1> HIDE DEF u
<1>5. Reverse(u) \in Seq(0 .. 9)
  BY <1>4 DEF Reverse
<1>6. ASSUME NEW ds \in Seq(0 .. 9) PROVE Text(ds) \in Seq(Characters)
  <2>1. \A j \in 1 .. Len(ds) : ds[j] \in 0 .. 9
    OBVIOUS
  <2>2. Text(ds) = [j \in 1 .. Len(ds) |-> Digit(ds[j])]
    BY DEF Text
  <2>3. \A j \in 1 .. Len(ds) : Digit(ds[j]) \in Characters
    BY <2>1, Fixed
  <2>4. Text(ds) \in [1 .. Len(ds) -> Characters]
    BY <2>2, <2>3, Zenon
  <2>. QED BY <2>4, IsASeq
<1>. QED BY <1>3, <1>5, <1>6

\* The digit that is found last is not 0, and all behind it are.
LEMMA LastNonzero ==
    ASSUME NEW s \in [1 .. 10 -> 0 .. 9],
           NEW k, k = SelectLastInSeq(s, LAMBDA d : d # 0)
    PROVE  /\ k # 0 => s[k] # 0
           /\ \A j \in 1 .. 10 : j > k => s[j] = 0
<1> DEFINE I == {i \in 1 .. Len(s) : s[i] # 0}
<1>1. Len(s) = 10
  OBVIOUS
<1>2. k = IF I # {} THEN Max(I) ELSE 0
  BY DEF SelectLastInSeq
<1>3. I # {} => Max(I) \in I /\ \A j \in I : Max(I) >= j
  <2>1. I \in SUBSET (1 .. 10)
    BY <1>1
  <2> HIDE DEF I
  <2>2. I # {} => \E m \in I : \A j \in I : m >= j
    BY <2>1, LastOfTen
  <2>. QED BY <2>2 DEF Max
<1>4. CASE I = {}
  <2>1. \A j \in 1 .. 10 : s[j] = 0
    BY <1>1, <1>4
  <2>. QED BY <1>2, <1>4, <2>1
<1>5. CASE I # {}
  <2>1. k \in I /\ \A j \in I : k >= j
    <3> HIDE DEF I
    <3>. QED BY <1>2, <1>3, <1>5
  <2>2. \A j \in 1 .. 10 : j > k => j \notin I
    <3>1. I \subseteq 1 .. 10
      BY <1>1
    <3> HIDE DEF I
    <3>. QED BY <2>1, <3>1
  <2>. QED BY <1>1, <2>1, <2>2
<1>. QED BY <1>4, <1>5

\* Digits are read from the left by multiplying what has been read by ten: any
\* function that does so has the value at its end.
LEMMA DecimalIs ==
    ASSUME NEW ds, Len(ds) \in Nat, NEW f,
           f = [i \in 0 .. Len(ds) |-> IF i = 0 THEN 0 ELSE 10 * f[i - 1] + ds[i]]
    PROVE  Decimal(ds) = f[Len(ds)]
<1> DEFINE Reads(h) == h = [i \in 0 .. Len(ds) |-> IF i = 0 THEN 0 ELSE 10 * h[i - 1] + ds[i]]
           g == CHOOSE h : Reads(h)
           T == {i \in 0 .. Len(ds) : f[i] # g[i]}
<1>1. Reads(f) /\ Reads(g)
  <2>1. Reads(f)
    OBVIOUS
  <2> HIDE DEF Reads
  <2>. QED BY <2>1
<1>2. Decimal(ds) = g[Len(ds)]
  BY DEF Decimal
<1> HIDE DEF g
<1>3. ASSUME T # {} PROVE FALSE
  <2>1. PICK x \in T : \A y \in T : x <= y
    <3>1. T \in SUBSET Nat
      OBVIOUS
    <3> HIDE DEF T
    <3>. QED BY <1>3, <3>1, LeastElement
  <2>2. x \in 0 .. Len(ds) /\ f[x] # g[x]
    BY <2>1
  <2>3. f[0] = 0 /\ g[0] = 0
    BY <1>1
  <2>4. x # 0 /\ x - 1 \in 0 .. Len(ds) /\ x - 1 \notin T
    <3>1. x # 0
      BY <2>2, <2>3, Zenon
    <3>2. x - 1 \in 0 .. Len(ds) /\ ~(x <= x - 1)
      BY <2>2, <3>1
    <3> HIDE DEF T
    <3>. QED BY <2>1, <3>1, <3>2, Zenon
  <2>5. f[x - 1] = g[x - 1]
    BY <2>4
  <2>6. f[x] = 10 * f[x - 1] + ds[x]
    BY <2>2, <2>4
  <2>7. g[x] = 10 * g[x - 1] + ds[x]
    BY <1>1, <2>2, <2>4, Zenon
  <2>. QED BY <2>2, <2>5, <2>6, <2>7, Zenon
<1>4. Len(ds) \in 0 .. Len(ds)
  OBVIOUS
<1>. QED BY <1>2, <1>3, <1>4

\* The last digit, and what is left without it.
LEMMA TakesDigit ==
    ASSUME NEW n \in Nat, NEW u \in Nat \ {0}
    PROVE  /\ n \div u \in Nat
           /\ n \div u = 10 * (n \div (10 * u)) + ((n \div u) % 10)
<1>1. n \div u \in Nat
  BY SMT
<1>2. (n \div u) \div 10 = n \div (10 * u)
  BY SMT
<1>3. ASSUME NEW q \in Nat PROVE q = 10 * (q \div 10) + (q % 10)
  BY SMT
<1>. QED BY <1>1, <1>2, <1>3

\* What is left of n before the k-th digit from the last one is taken.
Quotient(n, k) == IF k = 11 THEN 0 ELSE n \div Units[k]

\* A number up to MaxInt has ten digits at most.
Billion == 1000000000
LEMMA TenAtMost == \A n \in Nat : n <= MaxInt => n \div Billion <= 9
BY SMT DEF MaxInt, Billion

\* Each digit is what a quotient is more than ten times the next.
LEMMA Quotients ==
    ASSUME NEW n \in 0 .. MaxInt, NEW k \in 1 .. 10
    PROVE  /\ Quotient(n, k) \in Nat
           /\ Quotient(n, k) = 10 * Quotient(n, k + 1) + digits(n)[k]
<1>1. n \in Nat /\ n <= MaxInt
  OBVIOUS
<1>2. Units[k] \in Nat \ {0}
  BY SMT DEF Units
<1>3. digits(n)[k] = (n \div Units[k]) % 10 /\ Quotient(n, k) = n \div Units[k]
  <2>1. k # 11
    OBVIOUS
  <2>. QED BY <2>1 DEF digits, Quotient
<1>4. CASE k \in 1 .. 9
  <2>1. Units[k + 1] = 10 * Units[k]
    BY <1>4, SMT DEF Units
  <2>2. Quotient(n, k + 1) = n \div (10 * Units[k])
    <3>1. k + 1 # 11
      BY <1>4
    <3>. QED BY <2>1, <3>1, Zenon DEF Quotient
  <2>. QED BY <1>1, <1>2, <1>3, <2>2, TakesDigit, Zenon
<1>5. CASE k = 10
  <2>1. Units[10] = Billion
    BY SMT DEF Units, Billion
  <2>2. n \div Units[k] \in 0 .. 9
    <3>1. n \div Units[k] <= 9
      BY <1>1, <1>5, <2>1, TenAtMost, Zenon
    <3>2. n \div Units[k] \in Nat
      BY <1>1, <1>2, TakesDigit, Zenon
    <3>. QED BY <3>1, <3>2
  <2>3. Quotient(n, k + 1) = 0
    BY <1>5 DEF Quotient
  <2>. QED BY <1>3, <2>2, <2>3
<1>. QED BY <1>4, <1>5

\* Zeros in front do not count.
LEMMA NothingLeft ==
    ASSUME NEW n \in 0 .. MaxInt, NEW k \in 0 .. 10,
           \A j \in 1 .. 10 : j > k => digits(n)[j] = 0
    PROVE  Quotient(n, k + 1) = 0
<1> DEFINE Q == [j \in 1 .. 11 |-> Quotient(n, j)]
<1>1. \A j \in 1 .. 10 : Quotient(n, j) = 10 * Quotient(n, j + 1) + digits(n)[j]
  BY Quotients
<1>2. Q[11] = 0 /\ \A j \in 1 .. 10 : j > k => Q[j] = 10 * Q[j + 1]
  <2>1. Q[11] = 0
    BY DEF Quotient
  <2>2. ASSUME NEW j \in 1 .. 10, j > k PROVE Q[j] = 10 * Q[j + 1]
    <3>1. Q[j] = Quotient(n, j) /\ Q[j + 1] = Quotient(n, j + 1)
      OBVIOUS
    <3>2. digits(n)[j] = 0
      BY <2>2
    <3>3. Quotient(n, j + 1) \in Nat
      <4>1. CASE j = 10
        BY <4>1 DEF Quotient
      <4>2. CASE j # 10
        <5>1. j + 1 \in 1 .. 10
          BY <4>2
        <5>. QED BY <5>1, Quotients
      <4>. QED BY <4>1, <4>2
    <3> HIDE DEF Q
    <3>. QED BY <1>1, <3>1, <3>2, <3>3
  <2>. QED BY <2>1, <2>2
<1>3. Quotient(n, k + 1) = Q[k + 1]
  OBVIOUS
<1> HIDE DEF Q
<1>4. Q[k + 1] = 0
  <2>1. ASSUME NEW j \in 1 .. 10, j > k, Q[j + 1] = 0 PROVE Q[j] = 0
    BY <1>2, <2>1
  <2>2. Q[11] = 0 /\ (k < 10 => Q[10] = 0) /\ (k < 9 => Q[9] = 0) /\ (k < 8 => Q[8] = 0)
    BY <1>2, <2>1
  <2>3. /\ (k < 7 => Q[7] = 0) /\ (k < 6 => Q[6] = 0) /\ (k < 5 => Q[5] = 0) /\ (k < 4 => Q[4] = 0)
    BY <2>1, <2>2
  <2>4. (k < 3 => Q[3] = 0) /\ (k < 2 => Q[2] = 0) /\ (k < 1 => Q[1] = 0)
    BY <2>1, <2>3
  <2>. QED BY <2>2, <2>3, <2>4
<1>. QED BY <1>3, <1>4

\* The digits that are printed stand for the number: read up to the jth of
\* them, they are what is left of it before the others are taken off.
LEMMA PrintsDecimal ==
    ASSUME NEW n \in 0 .. MaxInt, NEW ds, ds = uint2str(n)
    PROVE  Decimal(ds) = n /\ Len(ds) > 0 /\ (Len(ds) > 1 => ds[1] # 0)
<1> DEFINE s == digits(n)
           k == SelectLastInSeq(s, LAMBDA d : d # 0)
           i == IF k = 0 THEN 1 ELSE k
           u == SubSeq(s, 1, i)
           f == [j \in 0 .. i |-> Quotient(n, (i - j) + 1)]
<1>1. n \in Nat
  OBVIOUS
<1>2. s \in [1 .. 10 -> 0 .. 9]
  BY <1>1, TenDigits
<1>3. k \in 0 .. 10
  BY <1>2, LastDigit
<1>4. (k # 0 => s[k] # 0) /\ \A j \in 1 .. 10 : j > k => s[j] = 0
  BY <1>2, LastNonzero
<1>5. ds = Reverse(u)
  BY DEF uint2str
<1> HIDE DEF k
<1>6. Quotient(n, i + 1) = 0
  <2>1. \A j \in 1 .. 10 : j > i => digits(n)[j] = 0
    BY <1>3, <1>4
  <2>2. i \in 0 .. 10
    BY <1>3
  <2> HIDE DEF i
  <2>. QED BY <2>1, <2>2, NothingLeft
<1> HIDE DEF s
<1>7. i \in 1 .. 10 /\ (i > 1 => s[i] # 0)
  BY <1>3, <1>4
<1> HIDE DEF i
<1>8. Len(u) = i /\ \A j \in 1 .. i : u[j] = s[j]
  BY <1>2, <1>7
<1> HIDE DEF u
<1>9. Len(ds) = i /\ \A j \in 1 .. i : ds[j] = s[(i - j) + 1]
  BY <1>5, <1>7, <1>8 DEF Reverse
<1>10. \A j \in 0 .. i : f[j] = IF j = 0 THEN 0 ELSE 10 * f[j - 1] + ds[j]
  <2>1. f[0] = 0
    BY <1>6, <1>7
  <2>2. ASSUME NEW j \in 1 .. i PROVE f[j] = 10 * f[j - 1] + ds[j]
    <3>1. (i - j) + 1 \in 1 .. 10 /\ j \in 0 .. i /\ j - 1 \in 0 .. i /\ (i - (j - 1)) + 1 = ((i - j) + 1) + 1
      BY <1>7
    <3>2. f[j] = Quotient(n, (i - j) + 1) /\ f[j - 1] = Quotient(n, ((i - j) + 1) + 1)
      BY <3>1
    <3>3. ds[j] = digits(n)[(i - j) + 1]
      BY <1>9 DEF s
    <3>. QED BY <3>1, <3>2, <3>3, Quotients, Zenon
  <2> HIDE DEF f
  <2>. QED BY <1>7, <2>1, <2>2
<1>11. f = [j \in 0 .. Len(ds) |-> IF j = 0 THEN 0 ELSE 10 * f[j - 1] + ds[j]]
  <2>1. f = [j \in 0 .. i |-> f[j]]
    OBVIOUS
  <2> HIDE DEF f
  <2>. QED BY <1>9, <1>10, <2>1
<1>12. f[i] = n
  <2>1. f[i] = Quotient(n, 1)
    BY <1>7
  <2>2. Quotient(n, 1) = n \div 1
    BY SMT DEF Quotient, Units
  <2>3. n \div 1 = n
    BY <1>1
  <2>. QED BY <2>1, <2>2, <2>3
<1>13. Decimal(ds) = f[Len(ds)]
  <2> HIDE DEF f
  <2>. QED BY <1>7, <1>9, <1>11, DecimalIs
<1>14. ds[1] = s[i]
  BY <1>7, <1>9
<1>. QED BY <1>7, <1>9, <1>12, <1>13, <1>14

LEMMA InitBounds == Init => ConsoleSound
<1> SUFFICES ASSUME Init PROVE ConsoleSound
  OBVIOUS
<1>1. /\ kernel \in Kernels /\ csr_x = 0 /\ csr_y = 0 /\ DOMAIN screen = {}
      /\ at = [w \in Calls |-> Idle] /\ todo = [w \in Calls |-> <<>>]
      /\ running = 1 /\ ticks = 0 /\ seconds = 0
  BY DEF Init, cls, SimpleTimer
<1>2. Idle \in [pc : Positions, v : Int]
  BY DEF Idle, Positions
<1>6. Idle.pc = "idle" /\ Idle.v = 0
  BY DEF Idle
<1>3. TypeOK
  <2>1. <<>> \in Seq(Characters)
    OBVIOUS
  <2>2. 0 \in 0 .. Hz - 1 /\ 0 \in 0 .. MaxSeconds
    BY TextAssumption, SizeAssumption
  <2>. QED BY <1>1, <1>2, <2>1, <2>2, Callers DEF TypeOK
<1>4. TurnsSound
  <2>1. <<>> \in Seq(Characters \ {"backspace", "tab"})
    OBVIOUS
  <2>. QED BY <1>1, <1>6, <2>1, Callers DEF TurnsSound, Loaded
<1>5. FitsSound
  <2>1. 0 <= Rows - 1 /\ 0 <= Columns - 1 /\ 0 < Rows /\ 0 < Columns
    BY Sizes
  <2>2. CursorFits(1, "idle", 0, 0)
    <3>1. 0 <= LastRow(1) /\ 0 <= Columns /\ 1 # Timer
      BY <2>1, Callers, LastRows, Sizes
    <3>. QED BY <2>1, <3>1, Places
  <2>3. \A w \in Calls : LoadedFits(w, "idle", 0, 0)
    BY Loads
  <2>. QED BY <1>1, <1>6, <2>2, <2>3, Callers DEF FitsSound, InPutch
<1>. QED BY <1>3, <1>4, <1>5 DEF ConsoleSound

LEMMA PrintsBounds ==
    ASSUME ConsoleSound, NEW w \in Writers, NEW text \in Seq(Characters), Prints(w, text),
           kernel # "alone" => text \in Seq(Characters \ {"backspace", "tab"})
    PROVE  ConsoleSound'
<1>1. /\ running = w /\ at[w] = Idle
      /\ todo' = [todo EXCEPT ![w] = text]
      /\ kernel' = kernel /\ csr_x' = csr_x /\ csr_y' = csr_y /\ screen' = screen /\ at' = at
      /\ running' = running /\ ticks' = ticks /\ seconds' = seconds
  BY DEF Prints, cursor
<1>2. w \in Calls /\ w # Timer /\ Timer \in Calls
  BY Callers
<1>3. /\ todo' \in [Calls -> Seq(Characters)] /\ todo'[w] = text
      /\ \A u \in Calls : u # w => todo'[u] = todo[u]
  BY <1>1, <1>2 DEF ConsoleSound, TypeOK
<1>4. TypeOK'
  BY <1>1, <1>3 DEF ConsoleSound, TypeOK
<1>5. TurnsSound'
  BY <1>1, <1>2, <1>3 DEF ConsoleSound, TurnsSound
<1>6. FitsSound'
  BY <1>1, <1>2, <1>3 DEF ConsoleSound, FitsSound, InPutch, CursorFits, LoadedFits
<1>. QED BY <1>4, <1>5, <1>6 DEF ConsoleSound

LEMMA callsBound ==
    ASSUME ConsoleSound, NEW w \in Writers,
           \/ assert_fails(w)
           \/ \E c \in Printed : puts(w, c)
           \/ \E n \in Counted : putui(w, n) \/ puti(w, n)
    PROVE  ConsoleSound'
<1>1. CASE assert_fails(w)
  <2>1. <<"!", "newline", "abort">> \in Seq(Plain)
    BY Fixed
  <2>2. <<"!", "newline", "abort">> \in Seq(Characters)
    BY Fixed DEF Plain
  <2>. QED BY <1>1, <2>1, <2>2, PrintsBounds DEF assert_fails, Plain
<1>2. ASSUME NEW c \in Printed, puts(w, c) PROVE ConsoleSound'
  <2>1. c \in Characters /\ (kernel # "alone" => c \in Plain)
    BY Fixed DEF Printed, Plain
  <2>2. <<c>> \in Seq(Characters) /\ (kernel # "alone" => <<c>> \in Seq(Plain))
    BY <2>1
  <2>. QED BY <1>2, <2>2, PrintsBounds DEF puts, Plain
<1>3. ASSUME NEW n \in Counted, putui(w, n) \/ puti(w, n) PROVE ConsoleSound'
  <2>1. n \in Nat /\ kernel = "alone"
    BY TextAssumption DEF Counted
  <2>2. Text(uint2str(n)) \in Seq(Characters)
    BY <2>1, NumberText
  <2>3. <<"<">> \in Seq(Characters) /\ <<">">> \in Seq(Characters)
    BY Fixed DEF Plain
  <2>4. <<"<">> \o Text(uint2str(n)) \o <<">">> \in Seq(Characters)
    BY <2>2, <2>3, ConcatProperties
  <2>. QED BY <1>3, <2>1, <2>2, <2>4, PrintsBounds DEF putui, puti, int2str
<1>. QED BY <1>1, <1>2, <1>3

\* Between two positions of the writer the cursor is where the handler may find it.
LEMMA Interruptible ==
    ASSUME NEW w \in Calls \ {Timer}, NEW pc \in Positions, NEW x \in Nat, NEW y \in Nat,
           kernel # "alone", CursorFits(w, pc, x, y)
    PROVE  CursorFits(Timer, "idle", x, y)
<1>1. x <= Columns
  BY DEF CursorFits
<1>2. y <= Rows
  <2>1. /\ pc \in Placing \cup Wrapping \cup {"edge"} => y <= LastRow(w) \/ y <= Rows
        /\ pc \in Turning => y < Rows
        /\ pc \in Ending  => y <= LastRow(w) + 1
    BY DEF CursorFits
  <2>2. pc \in Placing \cup Wrapping \cup {"edge"} \cup Turning \cup Ending
    BY DEF Positions, Placing, Wrapping, Turning, Ending
  <2>. QED BY <2>1, <2>2, Sizes DEF LastRow
<1>. QED BY <1>1, <1>2, Places, LastRows

LEMMA handle_interruptBounds ==
    ASSUME ConsoleSound, handle_interrupt PROVE ConsoleSound'
<1>1. /\ running # Timer /\ kernel # "alone"
      /\ kernel' = kernel /\ csr_x' = csr_x /\ csr_y' = csr_y /\ screen' = screen /\ at' = at
  BY DEF handle_interrupt, cursor
<1>2. Hz \in Nat \ {0} /\ MaxSeconds \in Nat /\ ticks \in 0 .. Hz - 1 /\ seconds \in 0 .. MaxSeconds
  BY TextAssumption, SizeAssumption DEF ConsoleSound, TypeOK
<1>3. CASE second_over
  <2>1. /\ ticks' = 0 /\ seconds' = seconds + 1 /\ seconds < MaxSeconds
        /\ todo' = [todo EXCEPT ![Timer] = <<"*", "newline">>]
        /\ running' = Timer
    BY <1>3 DEF handle_interrupt
  <2>2. <<"*", "newline">> \in Seq(Plain) /\ <<"*", "newline">> \in Seq(Characters)
    BY Fixed DEF Plain
  <2>3. /\ todo' \in [Calls -> Seq(Characters)] /\ todo'[Timer] = <<"*", "newline">>
        /\ \A u \in Calls : u # Timer => todo'[u] = todo[u]
    BY <2>1, <2>2, Callers DEF ConsoleSound, TypeOK
  <2>4. ticks' \in 0 .. Hz - 1 /\ seconds' \in 0 .. MaxSeconds
    BY <1>2, <2>1
  <2>5. TypeOK'
    BY <1>1, <2>1, <2>3, <2>4, Callers DEF ConsoleSound, TypeOK
  <2>6. at[Timer] = Idle
    BY <1>1, Callers DEF ConsoleSound, TurnsSound
  <2>7. <<"*", "newline">> # <<>> /\ <<"*", "newline">> # <<"newline">>
    OBVIOUS
  <2>8. TurnsSound'
    <3>1. /\ \A u \in Calls : at'[u].pc \in Loaded => at'[u].v >= 0
          /\ \A u \in Calls : at'[u].pc = "back" => kernel' = "alone" /\ u = 1 /\ csr_x' > 0
      BY <1>1 DEF ConsoleSound, TurnsSound
    <3>2. \A u \in Calls : at'[u] # Idle => todo'[u] # <<>>
      BY <1>1, <2>3, <2>6 DEF ConsoleSound, TurnsSound
    <3>3. \A u \in Calls : todo'[u] \in Seq(Plain)
      BY <1>1, <2>2, <2>3 DEF ConsoleSound, TurnsSound, Plain
    <3>4. kernel' # "threads" => \A u \in Writers \ {1} : at'[u] = Idle
      BY <1>1 DEF ConsoleSound, TurnsSound
    <3>. QED BY <1>1, <2>1, <2>3, <3>1, <3>2, <3>3, <3>4 DEF TurnsSound, Plain
  <2>9. FitsSound'
    <3>1. running \in Calls \ {Timer} /\ at[running].pc \in Positions
      BY <1>1 DEF ConsoleSound, TypeOK
    <3>2. csr_x \in Nat /\ csr_y \in Nat /\ CursorFits(running, at[running].pc, csr_x, csr_y)
      BY DEF ConsoleSound, TypeOK, FitsSound
    <3>3. CursorFits(Timer, "idle", csr_x, csr_y)
      BY <1>1, <3>1, <3>2, Interruptible
    <3>4. at[Timer].pc = "idle" /\ ~(at[Timer].pc \in {"set y", "set y after edge"})
      BY <2>6 DEF Idle
    <3>5. \A w \in Calls : LoadedFits(w, at[w].pc, at[w].v, csr_y)'
      BY <1>1 DEF ConsoleSound, FitsSound, LoadedFits
    <3>6. CursorFits(running, at[running].pc, csr_x, csr_y)'
      BY <1>1, <2>1, <3>3, <3>4 DEF CursorFits
    <3>. QED BY <1>1, <2>3, <3>4, <3>5, <3>6 DEF FitsSound
  <2>. QED BY <2>5, <2>8, <2>9 DEF ConsoleSound
<1>4. CASE ~second_over
  <2>1. ticks' = ticks + 1 /\ seconds' = seconds /\ todo' = todo /\ running' = running
    BY <1>4 DEF handle_interrupt
  <2>2. ticks' \in 0 .. Hz - 1
    BY <1>2, <1>4, <2>1 DEF second_over
  <2>3. TypeOK'
    BY <1>1, <2>1, <2>2 DEF ConsoleSound, TypeOK
  <2>4. TurnsSound'
    BY <1>1, <2>1 DEF ConsoleSound, TurnsSound
  <2>5. FitsSound'
    BY <1>1, <2>1 DEF ConsoleSound, FitsSound, InPutch, CursorFits, LoadedFits
  <2>. QED BY <2>3, <2>4, <2>5 DEF ConsoleSound
<1>. QED BY <1>3, <1>4

\* The processor goes to a writer.
LEMMA turnBounds ==
    ASSUME ConsoleSound, NEW w \in Writers, handled(w) \/ pass_on_CPU(w)
    PROVE  ConsoleSound'
<1>1. /\ running' = w /\ todo[Timer] = <<>>
      /\ kernel' = kernel /\ csr_x' = csr_x /\ csr_y' = csr_y /\ screen' = screen /\ at' = at
      /\ todo' = todo /\ ticks' = ticks /\ seconds' = seconds
  BY Callers DEF handled, pass_on_CPU, cursor, ConsoleSound, TurnsSound
<1>2. w \in Calls /\ w # Timer
  BY Callers
<1>3. kernel # "threads" => w = 1
  <2>1. kernel \in {"alone", "main", "threads"}
    BY TextAssumption DEF ConsoleSound, TypeOK
  <2>2. CASE handled(w)
    <3>1. running = Timer /\ (kernel = "main" => w = 1)
      BY <2>2 DEF handled
    <3>2. kernel # "alone"
      BY <3>1, Callers DEF ConsoleSound, TurnsSound
    <3>. QED BY <2>1, <3>1, <3>2
  <2>3. CASE pass_on_CPU(w)
    BY <2>3 DEF pass_on_CPU
  <2>. QED BY <2>2, <2>3
<1>4. TypeOK'
  BY <1>1, <1>2 DEF ConsoleSound, TypeOK
<1>5. kernel = "alone" => w = 1
  BY <1>3
<1>6. TurnsSound'
  BY <1>1, <1>2, <1>3, <1>5 DEF ConsoleSound, TurnsSound
<1>7. csr_x \in Nat /\ csr_y \in Nat /\ csr_x < Columns /\ csr_y < Rows
  <2>1. CASE handled(w)
    <3>1. running = Timer /\ <<>> # <<"*", "newline">> /\ ~InPutch(Timer)
      BY <1>1, <2>1, Callers DEF handled, ConsoleSound, TurnsSound, InPutch
    <3>. QED BY <1>1, <3>1 DEF ConsoleSound, TypeOK, FitsSound
  <2>2. CASE pass_on_CPU(w)
    <3>1. running \in Writers /\ running \in Calls /\ running # Timer /\ at[running] = Idle
      BY <2>2, Callers DEF pass_on_CPU, ConsoleSound, TurnsSound
    <3>2. CursorFits(running, "idle", csr_x, csr_y)
      BY <3>1, Known DEF Idle
    <3>3. csr_y <= Rows - 1 /\ csr_x <= Columns - 1
      BY <3>1, <3>2, Places DEF LastRow
    <3>. QED BY <3>3, Sizes DEF ConsoleSound, TypeOK
  <2>. QED BY <2>1, <2>2
<1>8. FitsSound'
  <2>1. \A u \in Calls : LoadedFits(u, at[u].pc, at[u].v, csr_y)'
    BY <1>1 DEF ConsoleSound, FitsSound, LoadedFits
  <2>2. CursorFits(w, at[w].pc, csr_x, csr_y)
    BY <1>2, <1>7, Resting
  <2>3. CursorFits(running, at[running].pc, csr_x, csr_y)'
    BY <1>1, <2>2 DEF CursorFits
  <2>. QED BY <1>1, <1>2, <2>1, <2>3 DEF ConsoleSound, FitsSound
<1>. QED BY <1>4, <1>6, <1>8 DEF ConsoleSound

LEMMA StepsBounds ==
    ASSUME ConsoleSound, NEW w \in Calls, Steps(w) PROVE ConsoleSound'
BY whereBounds, showBounds, load_xBounds, set_xBounds, new_lineBounds, load_yBounds,
   set_yBounds, edgeBounds, scrollBounds, count_linesBounds, copyBounds, blankBounds,
   last_lineBounds, putchBounds
DEF Steps

LEMMA NextBounds == ConsoleSound /\ [Next]_vars => ConsoleSound'
<1> SUFFICES ASSUME ConsoleSound, [Next]_vars PROVE ConsoleSound'
  OBVIOUS
<1>1. CASE \E w \in Calls : Steps(w)
  BY <1>1, StepsBounds
<1>2. CASE \E w \in Writers : handled(w) \/ pass_on_CPU(w)
  BY <1>2, turnBounds
<1>3. CASE \E w \in Writers : \/ assert_fails(w)
                              \/ \E c \in Printed : puts(w, c)
                              \/ \E n \in Counted : putui(w, n) \/ puti(w, n)
  BY <1>3, callsBound
<1>4. CASE handle_interrupt
  BY <1>4, handle_interruptBounds
<1>5. CASE UNCHANGED vars
  <2>1. /\ kernel' = kernel /\ csr_x' = csr_x /\ csr_y' = csr_y /\ screen' = screen /\ at' = at
        /\ todo' = todo /\ running' = running /\ ticks' = ticks /\ seconds' = seconds
    BY <1>5 DEF vars
  <2>2. TypeOK'
    BY <2>1 DEF ConsoleSound, TypeOK
  <2>3. TurnsSound'
    BY <2>1 DEF ConsoleSound, TurnsSound
  <2>4. FitsSound'
    BY ZenonT(60), <2>1 DEF ConsoleSound, FitsSound, InPutch, CursorFits, LoadedFits
  <2>. QED BY <2>2, <2>3, <2>4 DEF ConsoleSound
<1>. QED BY <1>1, <1>2, <1>3, <1>4, <1>5 DEF Next

\* Whoever prints and whoever is interrupted, the cursor is never left of or above the
\* screen, and only characters are printed.
THEOREM TypeCorrect == Spec => []TypeOK
<1>1. ConsoleSound => TypeOK
  BY DEF ConsoleSound
<1>. QED BY <1>1, InitBounds, NextBounds, PTL DEF Spec

\* In every kernel, and whoever is interrupted or loses the processor in putch(), scroll()
\* copies and blanks at most two rows and nothing is written below twice the screen; with
\* turns, what scroll() copies may lie in front of the screen, by less than a screen.
THEOREM ScrollsWithin == Spec => []WithinMemory
<1>1. ConsoleSound => WithinMemory
  <2> SUFFICES ASSUME ConsoleSound, NEW w \in Calls
               PROVE  /\ at[w].pc \in {"copy", "blank"} =>
                           at[w].v \in (IF kernel = "threads" THEN 1 - Rows ELSE 0) .. Rows
                      /\ at[w].pc = "show" => at[w].v \in 0 .. Cell(0, 2 * Rows) - 1
    BY DEF WithinMemory
  <2>1. at[w].v \in Int /\ LoadedFits(w, at[w].pc, at[w].v, csr_y)
    BY DEF ConsoleSound, TypeOK, FitsSound
  <2>2. ASSUME at[w].pc \in {"copy", "blank"}
        PROVE  at[w].v \in (IF kernel = "threads" THEN 1 - Rows ELSE 0) .. Rows
    <3>1. at[w].v > -Rows /\ at[w].v <= 2 /\ (kernel # "threads" => at[w].v >= 0)
      BY <2>1, <2>2, Loads
    <3>. QED BY <2>1, <3>1, Sizes
  <2>3. ASSUME at[w].pc = "show" PROVE at[w].v \in 0 .. Cell(0, 2 * Rows) - 1
    <3>1. at[w].v <= LastRow(w) * Columns + Columns /\ at[w].v \in Int /\ at[w].v >= 0
      BY <2>1, <2>3, Loads, LoadedAt DEF ConsoleSound, TurnsSound
    <3>2. LastRow(w) \in Nat /\ LastRow(w) <= Rows
      BY <3>1, LastRows
    <3>3. LastRow(w) * Columns <= Rows * Columns
      BY <3>2, Sizes, Grows
    <3>4. 2 * Columns <= Rows * Columns
      BY Sizes, Grows
    <3>5. (2 * Rows) * Columns = Rows * Columns + Rows * Columns /\ 2 * Columns = Columns + Columns
      BY Sizes
    <3>6. Rows * Columns \in Nat /\ LastRow(w) * Columns \in Nat
      BY <3>2, Sizes
    <3>7. at[w].v < (2 * Rows) * Columns
      BY <3>1, <3>3, <3>4, <3>5, <3>6, Sizes
    <3>8. Cell(0, 2 * Rows) = (2 * Rows) * Columns
      BY Sizes DEF Cell
    <3>9. (2 * Rows) * Columns \in Nat
      BY <3>5, <3>6
    <3>. QED BY <3>1, <3>7, <3>8, <3>9
  <2>. QED BY <2>2, <2>3
<1>. QED BY <1>1, InitBounds, NextBounds, PTL DEF Spec

-----------------------------------------------------------------------------
\* What a writer that nobody disturbs sees.  The screen sc shows the paper pg from row a
\* on,
Shows(a, sc, pg) ==
    /\ DOMAIN sc = {i \in 0 .. Rows * Columns - 1 : i + a * Columns \in DOMAIN pg.ink}
    /\ \A i \in DOMAIN sc : sc[i] = pg.ink[i + a * Columns]

\* but for one cell, where the character c is to come,
ShowsBut(a, cell, sc, pg, c) ==
    /\ cell \in 0 .. Rows * Columns - 1
    /\ cell + a * Columns \in DOMAIN pg.ink /\ pg.ink[cell + a * Columns] = c
    /\ DOMAIN sc \cup {cell} =
         {i \in 0 .. Rows * Columns - 1 : i + a * Columns \in DOMAIN pg.ink}
    /\ \A i \in DOMAIN sc \ {cell} : sc[i] = pg.ink[i + a * Columns]

\* or but for the last row, which has been copied and is to be blanked.
ShowsAbove(a, sc, pg) ==
    /\ DOMAIN sc \subseteq 0 .. Rows * Columns - 1
    /\ \A i \in 0 .. (Rows - 1) * Columns - 1 :
         /\ i \in DOMAIN sc <=> i + a * Columns \in DOMAIN pg.ink
         /\ i \in DOMAIN sc => sc[i] = pg.ink[i + a * Columns]

\* The paper's cursor is at x, y of the screen when that has been compared with the width.
Wraps(a, x, y, pg) == IF x >= Columns THEN pg.x = 0 /\ pg.y = a + y + 1
                                      ELSE pg.x = x /\ pg.y = a + y

IsPage(p) == p = [x |-> p.x, y |-> p.y, ink |-> p.ink]

\* What the writer at pc, who has loaded v and comes with c, sees on the screen and on
\* the paper, which it has written already.
Sees(a, pc, v, x, y, sc, pg, c) ==
    /\ a \in Nat /\ (a = 0 \/ y >= Rows - 1)
    /\ IsPage(pg) /\ DOMAIN pg.ink \subseteq 0 .. (a + Rows) * Columns - 1
    /\ pc = "where" => /\ v = y * Columns
                       /\ ShowsBut(a, v + x, sc, pg, c) /\ Wraps(a, x + 1, y, pg)
    /\ pc = "show"  => ShowsBut(a, v, sc, pg, c) /\ Wraps(a, x + 1, y, pg)
    /\ pc \notin {"where", "show", "blank", "last"} => Shows(a, sc, pg)
    /\ pc = "load x" => Wraps(a, x + 1, y, pg)
    /\ pc = "back"   => Wraps(a, x - 1, y, pg)
    /\ pc = "set x"  => Wraps(a, v, y, pg)
    /\ pc \in {"left", "load y", "margin", "load y after edge"} =>
         pg.x = 0 /\ pg.y = a + y + 1
    /\ pc \in {"set y", "set y after edge"} => pg.x = 0 /\ pg.y = a + v /\ v = y + 1
    /\ pc \in {"load y", "load y after edge", "set y", "set y after edge"} => x = 0
    /\ pc = "edge" => Wraps(a, x, y, pg)
    /\ pc \in {"idle", "scroll", "lines", "copy", "blank", "last"} =>
         pg.x = x /\ pg.y = a + y
    /\ pc \in {"lines", "copy", "blank", "last"} => y = Rows
    /\ pc \in {"copy", "blank"} => v = 1
    /\ pc = "blank" => ShowsAbove(a + 1, sc, pg)
    /\ pc = "last"  => Shows(a + 1, sc, pg)

PageSound ==
    kernel = "alone" =>
        \E a : Sees(a, at[1].pc, at[1].v, csr_x, csr_y, screen, page, Char(1))

\* The steps of putch() that leave the screen as it is.
LEMMA SeesOn ==
    ASSUME NEW a, NEW v \in Int, NEW x \in Nat, NEW y \in Nat, NEW sc, NEW pg, NEW c
    PROVE  /\ Sees(a, "where", v, x, y, sc, pg, c) => Sees(a, "show", v + x, x, y, sc, pg, c)
           /\ Sees(a, "load x", v, x, y, sc, pg, c) => Sees(a, "set x", x + 1, x, y, sc, pg, c)
           /\ Sees(a, "back", v, x, y, sc, pg, c) => Sees(a, "set x", x - 1, x, y, sc, pg, c)
           /\ Sees(a, "set x", v, x, y, sc, pg, c) => Sees(a, "edge", 0, v, y, sc, pg, c)
           /\ Sees(a, "left", v, x, y, sc, pg, c) => Sees(a, "load y", 0, 0, y, sc, pg, c)
           /\ Sees(a, "margin", v, x, y, sc, pg, c) =>
                Sees(a, "load y after edge", 0, 0, y, sc, pg, c)
BY DEF Sees

LEMMA SeesRow ==
    ASSUME NEW a, NEW v \in Int, NEW x \in Nat, NEW y \in Nat, NEW sc, NEW pg, NEW c
    PROVE  /\ Sees(a, "load y", v, x, y, sc, pg, c) => Sees(a, "set y", y + 1, x, y, sc, pg, c)
           /\ Sees(a, "load y after edge", v, x, y, sc, pg, c) =>
                Sees(a, "set y after edge", y + 1, x, y, sc, pg, c)
           /\ Sees(a, "set y", v, x, y, sc, pg, c) => Sees(a, "edge", 0, x, v, sc, pg, c)
           /\ Sees(a, "set y after edge", v, x, y, sc, pg, c) =>
                Sees(a, "scroll", 0, x, v, sc, pg, c)
<1>1. ASSUME Sees(a, "load y", v, x, y, sc, pg, c)
      PROVE  Sees(a, "set y", y + 1, x, y, sc, pg, c)
  BY <1>1 DEF Sees
<1>2. ASSUME Sees(a, "load y after edge", v, x, y, sc, pg, c)
      PROVE  Sees(a, "set y after edge", y + 1, x, y, sc, pg, c)
  BY <1>2 DEF Sees
<1>3. ASSUME Sees(a, "set y", v, x, y, sc, pg, c)
      PROVE  Sees(a, "edge", 0, x, v, sc, pg, c)
  <2>1. a = 0 \/ v >= Rows - 1
    BY <1>3, Sizes DEF Sees
  <2>2. Wraps(a, x, v, pg)
    BY <1>3, Sizes DEF Sees, Wraps
  <2>. QED BY <1>3, <2>1, <2>2 DEF Sees
<1>4. ASSUME Sees(a, "set y after edge", v, x, y, sc, pg, c)
      PROVE  Sees(a, "scroll", 0, x, v, sc, pg, c)
  <2>1. a = 0 \/ v >= Rows - 1
    BY <1>4, Sizes DEF Sees
  <2>. QED BY <1>4, <2>1 DEF Sees
<1>. QED BY <1>1, <1>2, <1>3, <1>4

LEMMA SeesEdge ==
    ASSUME NEW a, NEW v \in Int, NEW x \in Nat, NEW y \in Nat, NEW sc, NEW pg, NEW c
    PROVE  /\ Sees(a, "edge", v, x, y, sc, pg, c) /\ x >= Columns =>
                Sees(a, "margin", 0, x, y, sc, pg, c)
           /\ Sees(a, "edge", v, x, y, sc, pg, c) /\ ~(x >= Columns) =>
                Sees(a, "scroll", 0, x, y, sc, pg, c)
           /\ Sees(a, "scroll", v, x, y, sc, pg, c) => Sees(a, "idle", 0, x, y, sc, pg, c)
           /\ Sees(a, "scroll", v, x, y, sc, pg, c) /\ y = Rows =>
                Sees(a, "lines", 0, x, y, sc, pg, c)
           /\ Sees(a, "lines", v, x, y, sc, pg, c) => Sees(a, "copy", 1, x, y, sc, pg, c)
<1>1. ASSUME Sees(a, "edge", v, x, y, sc, pg, c), x >= Columns
      PROVE  Sees(a, "margin", 0, x, y, sc, pg, c)
  BY <1>1 DEF Sees, Wraps
<1>2. ASSUME Sees(a, "edge", v, x, y, sc, pg, c), ~(x >= Columns)
      PROVE  Sees(a, "scroll", 0, x, y, sc, pg, c)
  BY <1>2 DEF Sees, Wraps
<1>3. Sees(a, "scroll", v, x, y, sc, pg, c) => Sees(a, "idle", 0, x, y, sc, pg, c)
  BY DEF Sees
<1>4. Sees(a, "scroll", v, x, y, sc, pg, c) /\ y = Rows => Sees(a, "lines", 0, x, y, sc, pg, c)
  BY DEF Sees
<1>5. Sees(a, "lines", v, x, y, sc, pg, c) => Sees(a, "copy", 1, x, y, sc, pg, c)
  BY DEF Sees
<1>. QED BY <1>1, <1>2, <1>3, <1>4, <1>5

\* A character appears on the screen.
LEMMA SeesShow ==
    ASSUME NEW a, NEW v \in Int, NEW x \in Nat, NEW y \in Nat, NEW pg, NEW c, NEW sc,
           Sees(a, "show", v, x, y, screen, pg, c), sc = Put(v, c)
    PROVE  Sees(a, "load x", 0, x, y, sc, pg, c)
<1>1. ShowsBut(a, v, screen, pg, c) /\ Wraps(a, x + 1, y, pg)
  BY DEF Sees
<1>2. /\ DOMAIN sc = DOMAIN screen \cup {v} /\ sc[v] = c
      /\ \A j \in DOMAIN screen \ {v} : sc[j] = screen[j]
  BY DEF Put
<1>3. Shows(a, sc, pg)
  <2>1. DOMAIN sc = {i \in 0 .. Rows * Columns - 1 : i + a * Columns \in DOMAIN pg.ink}
    BY <1>1, <1>2 DEF ShowsBut
  <2>2. ASSUME NEW i \in DOMAIN sc PROVE sc[i] = pg.ink[i + a * Columns]
    <3>1. CASE i = v
      BY <1>1, <1>2, <3>1 DEF ShowsBut
    <3>2. CASE i # v
      BY <1>1, <1>2, <3>2 DEF ShowsBut
    <3>. QED BY <3>1, <3>2
  <2>. QED BY <2>1, <2>2 DEF Shows
<1>. QED BY <1>1, <1>3 DEF Sees

\* Products, and the number of a row.
LEMMA Products ==
    ASSUME NEW a \in Nat, NEW b \in Nat
    PROVE  /\ (a + b) * Columns = a * Columns + b * Columns
           /\ a * Columns \in Nat /\ b * Columns \in Nat
           /\ 1 * Columns = Columns
           /\ (Rows - 1) * Columns \in Nat /\ (Rows - 1) * Columns + Columns = Rows * Columns
BY Sizes

LEMMA LastRowIs ==
    ASSUME NEW i \in 0 .. Rows * Columns - 1
    PROVE  Row(i) = Rows - 1 <=> i >= (Rows - 1) * Columns
<1>1. i \in Nat /\ Columns \in Nat \ {0}
  BY Sizes, Products
<1>2. i \div Columns \in Nat /\ i % Columns \in 0 .. Columns - 1
      /\ i = (i \div Columns) * Columns + (i % Columns)
  BY <1>1
<1> DEFINE r == i \div Columns
           m == i % Columns
<1> HIDE DEF r, m
<1>3. r \in Nat /\ m \in 0 .. Columns - 1 /\ i = r * Columns + m /\ r * Columns \in Nat
  BY <1>1, <1>2 DEF r, m
<1>4. CASE r <= Rows - 2
  <2>1. (r + 1) * Columns <= (Rows - 1) * Columns
    BY <1>3, <1>4, Sizes, Grows
  <2>2. (r + 1) * Columns = r * Columns + 1 * Columns
    BY <1>3, Products
  <2> DEFINE p == r * Columns
             q == (Rows - 1) * Columns
  <2>3. p \in Nat /\ q \in Nat /\ p + Columns <= q /\ i = p + m
    BY <1>3, <2>1, <2>2, Products
  <2> HIDE DEF p, q
  <2>4. i < q
    BY <1>1, <1>3, <2>3
  <2>5. i < (Rows - 1) * Columns
    BY <2>4 DEF q
  <2>. QED BY <1>1, <1>3, <1>4, <2>5, Products, Sizes DEF Row, r
<1>5. CASE r >= Rows
  <2>1. Rows * Columns <= r * Columns
    BY <1>3, <1>5, Sizes, Grows
  <2>2. Rows * Columns \in Nat
    BY Sizes
  <2>. QED BY <1>1, <1>3, <2>1, <2>2
<1>6. CASE r = Rows - 1
  BY <1>1, <1>3, <1>6, Products DEF Row, r
<1>. QED BY <1>3, <1>4, <1>5, <1>6, Sizes

\* scroll() moves the rows up,
LEMMA SeesCopy ==
    ASSUME NEW a, NEW v \in Int, NEW x \in Nat, NEW y \in Nat, NEW pg, NEW c, NEW sc,
           Sees(a, "copy", v, x, y, screen, pg, c), sc = memcpy(v * Columns, (Rows - v) * Columns)
    PROVE  Sees(a, "blank", v, x, y, sc, pg, c)
<1> DEFINE kept == (Rows - 1) * Columns
           shift == a * Columns
<1>1. v = 1 /\ a \in Nat /\ Shows(a, screen, pg)
  BY DEF Sees
<1>2. v * Columns = Columns /\ (Rows - v) * Columns = kept
  BY <1>1, Products, Sizes
<1>3. /\ kept \in Nat /\ shift \in Nat /\ kept + Columns = Rows * Columns
      /\ (a + 1) * Columns = shift + Columns /\ Columns \in Nat \ {0}
  BY <1>1, Products, Sizes
<1>4. sc = [j \in {i \in 0 .. kept - 1 : i + Columns \in DOMAIN screen} \cup
                  {i \in DOMAIN screen : i >= kept} |->
               IF j < kept THEN screen[j + Columns] ELSE screen[j]]
  <2>1. ~(Columns < 0)
    BY <1>3
  <2>. QED BY <1>2, <2>1 DEF memcpy
<1> HIDE DEF kept, shift
<1>5. /\ DOMAIN screen = {i \in 0 .. Rows * Columns - 1 : i + shift \in DOMAIN pg.ink}
      /\ \A i \in DOMAIN screen : screen[i] = pg.ink[i + shift]
  BY <1>1 DEF Shows, shift
<1>6. DOMAIN sc \subseteq 0 .. Rows * Columns - 1
  BY <1>3, <1>4, <1>5
<1>7. ASSUME NEW i \in 0 .. kept - 1
      PROVE  /\ i \in DOMAIN sc <=> i + (a + 1) * Columns \in DOMAIN pg.ink
             /\ i \in DOMAIN sc => sc[i] = pg.ink[i + (a + 1) * Columns]
  <2>1. i \in DOMAIN sc <=> i + Columns \in DOMAIN screen
    BY <1>3, <1>4
  <2>2. /\ i + Columns \in 0 .. Rows * Columns - 1
        /\ (i + Columns) + shift = i + (a + 1) * Columns
    BY <1>3
  <2>3. i + Columns \in DOMAIN screen <=> i + (a + 1) * Columns \in DOMAIN pg.ink
    BY <1>5, <2>2
  <2>4. i \in DOMAIN sc => sc[i] = screen[i + Columns]
    BY <1>3, <1>4
  <2>. QED BY <1>5, <2>1, <2>2, <2>3, <2>4
<1>8. ShowsAbove(a + 1, sc, pg)
  BY <1>6, <1>7 DEF ShowsAbove, kept
<1>. QED BY <1>1, <1>8 DEF Sees

\* blanks the last one,
LEMMA SeesBlank ==
    ASSUME NEW a, NEW v \in Int, NEW x \in Nat, NEW y \in Nat, NEW pg, NEW c, NEW sc,
           Sees(a, "blank", v, x, y, screen, pg, c), sc = memsetw(Rows - v)
    PROVE  Sees(a, "last", 0, x, y, sc, pg, c)
<1> DEFINE kept == (Rows - 1) * Columns
           shift == (a + 1) * Columns
<1>1. /\ v = 1 /\ a \in Nat /\ ShowsAbove(a + 1, screen, pg)
      /\ DOMAIN pg.ink \subseteq 0 .. (a + Rows) * Columns - 1
  BY DEF Sees
<1>2. sc = [j \in {i \in DOMAIN screen : Row(i) # Rows - 1} |-> screen[j]]
  BY <1>1 DEF memsetw
<1>3. /\ kept \in Nat /\ shift \in Nat /\ kept + Columns = Rows * Columns /\ Columns \in Nat \ {0}
      /\ (a + Rows) * Columns = kept + shift
  <2>1. a + 1 \in Nat /\ Rows - 1 \in Nat /\ a + Rows = (a + 1) + (Rows - 1)
    BY <1>1, Sizes
  <2>. QED BY <2>1, Products, Sizes
<1> HIDE DEF kept, shift
<1>4. /\ DOMAIN screen \subseteq 0 .. Rows * Columns - 1
      /\ \A i \in 0 .. kept - 1 : /\ i \in DOMAIN screen <=> i + shift \in DOMAIN pg.ink
                                  /\ i \in DOMAIN screen => screen[i] = pg.ink[i + shift]
  BY <1>1 DEF ShowsAbove, kept, shift
<1>5. \A i \in DOMAIN screen : i \in DOMAIN sc <=> i < kept
  <2>1. \A i \in 0 .. Rows * Columns - 1 : Row(i) = Rows - 1 <=> i >= kept
    BY LastRowIs DEF kept
  <2>2. \A i \in 0 .. Rows * Columns - 1 : i < kept <=> ~(i >= kept)
    BY <1>3
  <2>. QED BY <1>2, <1>4, <2>1, <2>2
<1>6. DOMAIN sc = {i \in 0 .. Rows * Columns - 1 : i + shift \in DOMAIN pg.ink}
  <2>1. DOMAIN sc \subseteq DOMAIN screen
    BY <1>2
  <2>2. ASSUME NEW i \in DOMAIN sc
        PROVE  i \in 0 .. Rows * Columns - 1 /\ i + shift \in DOMAIN pg.ink
    BY <1>3, <1>4, <1>5, <2>1
  <2>3. ASSUME NEW i \in 0 .. Rows * Columns - 1, i + shift \in DOMAIN pg.ink
        PROVE  i \in DOMAIN sc
    <3>1. i + shift < kept + shift
      BY <1>1, <1>3, <2>3
    <3>2. i \in 0 .. kept - 1
      BY <1>3, <3>1
    <3>. QED BY <1>3, <1>4, <1>5, <2>3, <3>2
  <2>. QED BY <2>2, <2>3
<1>7. ASSUME NEW i \in DOMAIN sc PROVE sc[i] = pg.ink[i + shift]
  <2>1. i \in DOMAIN screen /\ sc[i] = screen[i]
    BY <1>2
  <2>2. i \in 0 .. kept - 1
    BY <1>3, <1>4, <1>5, <2>1
  <2>. QED BY <1>4, <2>1, <2>2
<1>8. Shows(a + 1, sc, pg)
  BY <1>6, <1>7 DEF Shows, shift
<1>. QED BY <1>1, <1>8 DEF Sees

\* and one more row of the paper has gone.
LEMMA SeesLast ==
    ASSUME NEW a, NEW v \in Int, NEW x \in Nat, NEW y \in Nat, NEW sc, NEW pg, NEW c, NEW d,
           Sees(a, "last", v, x, y, sc, pg, c)
    PROVE  Sees(a + 1, "idle", 0, x, Rows - 1, sc, pg, d)
<1>1. /\ a \in Nat /\ IsPage(pg) /\ pg.x = x /\ pg.y = a + Rows /\ Shows(a + 1, sc, pg)
      /\ DOMAIN pg.ink \subseteq 0 .. (a + Rows) * Columns - 1
  BY DEF Sees
<1>2. a + 1 \in Nat /\ pg.y = (a + 1) + (Rows - 1) /\ Rows - 1 >= Rows - 1
  BY <1>1, Sizes
<1>3. DOMAIN pg.ink \subseteq 0 .. ((a + 1) + Rows) * Columns - 1
  <2>1. /\ a + Rows \in Nat /\ (a + 1) + Rows = (a + Rows) + 1
        /\ ((a + Rows) + 1) * Columns = (a + Rows) * Columns + 1 * Columns
        /\ (a + Rows) * Columns \in Nat /\ 1 * Columns \in Nat
    BY <1>1, Sizes, Products
  <2> DEFINE m == (a + Rows) * Columns
             n == ((a + 1) + Rows) * Columns
  <2>2. m \in Nat /\ n \in Nat /\ m <= n
    BY <2>1
  <2>3. DOMAIN pg.ink \subseteq 0 .. m - 1
    BY <1>1
  <2> HIDE DEF m, n
  <2>4. 0 .. m - 1 \subseteq 0 .. n - 1
    BY <2>2
  <2>5. DOMAIN pg.ink \subseteq 0 .. n - 1
    BY <2>3, <2>4
  <2>. QED BY <2>5 DEF n
<1>. QED BY <1>1, <1>2, <1>3 DEF Sees

\* What a character does to the paper, whose cursor goes to the next row at the edge.
Paper(x, y, ink) == IF x >= Columns THEN [x |-> 0, y |-> y + 1, ink |-> ink]
                                    ELSE [x |-> x, y |-> y, ink |-> ink]

Inked(ink, cell, c) == [j \in DOMAIN ink \cup {cell} |-> IF j = cell THEN c ELSE ink[j]]

LEMMA TypedIs ==
    ASSUME NEW x \in Nat, NEW y \in Nat, NEW ink, NEW p, p = [x |-> x, y |-> y, ink |-> ink],
           NEW c
    PROVE  /\ c = "backspace" /\ x # 0 => Typed(p, c) = Paper(x - 1, y, ink)
           /\ c = "backspace" /\ x = 0 => Typed(p, c) = Paper(x, y, ink)
           /\ c = "tab"     => Typed(p, c) = Paper((x \div TabStop + 1) * TabStop, y, ink)
           /\ c = "return"  => Typed(p, c) = Paper(0, y, ink)
           /\ c = "newline" => Typed(p, c) = Paper(0, y + 1, ink)
           /\ c = "other"   => Typed(p, c) = Paper(x, y, ink)
           /\ c \notin {"backspace", "tab", "return", "newline", "other"} =>
                Typed(p, c) = Paper(x + 1, y, Inked(ink, Cell(x, y), c))
<1> DEFINE Wrapped(q) == IF q.x >= Columns THEN [q EXCEPT !.x = 0, !.y = @ + 1] ELSE q
           blot == Cell(x, y)
           inked == Inked(ink, blot, c)
<1>1. \A X, Y, I : Wrapped([x |-> X, y |-> Y, ink |-> I]) = Paper(X, Y, I)
  <2> SUFFICES ASSUME NEW X, NEW Y, NEW I
               PROVE  Wrapped([x |-> X, y |-> Y, ink |-> I]) = Paper(X, Y, I)
    OBVIOUS
  <2>1. [[x |-> X, y |-> Y, ink |-> I] EXCEPT !.x = 0] = [x |-> 0, y |-> Y, ink |-> I]
    OBVIOUS
  <2>2. [[x |-> 0, y |-> Y, ink |-> I] EXCEPT !.y = Y + 1] = [x |-> 0, y |-> Y + 1, ink |-> I]
    OBVIOUS
  <2>. QED BY <2>1, <2>2 DEF Paper
<1>2. \A q : (IF q.x >= Columns THEN [q EXCEPT !.x = 0, !.y = @ + 1] ELSE q) = Wrapped(q)
  OBVIOUS
<1>3. p.x = x /\ p.y = y /\ p.ink = ink
  OBVIOUS
<1> HIDE DEF Wrapped
<1>4. CASE c = "backspace"
  <2>1. Typed(p, c) = Wrapped([p EXCEPT !.x = IF @ = 0 THEN 0 ELSE @ - 1])
    BY <1>2, <1>4 DEF Typed
  <2>2. /\ x = 0  => [p EXCEPT !.x = IF @ = 0 THEN 0 ELSE @ - 1] = [x |-> x, y |-> y, ink |-> ink]
        /\ x # 0 => [p EXCEPT !.x = IF @ = 0 THEN 0 ELSE @ - 1] = [x |-> x - 1, y |-> y, ink |-> ink]
    OBVIOUS
  <2>. QED BY <1>1, <1>4, <2>1, <2>2
<1>5. CASE c = "tab"
  <2>1. Typed(p, c) = Wrapped([p EXCEPT !.x = (@ \div TabStop + 1) * TabStop])
    BY <1>2, <1>5 DEF Typed
  <2>2. [p EXCEPT !.x = (@ \div TabStop + 1) * TabStop]
          = [x |-> (x \div TabStop + 1) * TabStop, y |-> y, ink |-> ink]
    OBVIOUS
  <2>. QED BY <1>1, <1>5, <2>1, <2>2
<1>6. CASE c = "return"
  <2>1. Typed(p, c) = Wrapped([p EXCEPT !.x = 0])
    BY <1>2, <1>6 DEF Typed
  <2>2. [p EXCEPT !.x = 0] = [x |-> 0, y |-> y, ink |-> ink]
    OBVIOUS
  <2>. QED BY <1>1, <1>6, <2>1, <2>2
<1>7. CASE c = "newline"
  <2>1. Typed(p, c) = Wrapped([p EXCEPT !.x = 0, !.y = @ + 1])
    BY <1>2, <1>7 DEF Typed
  <2>2. [p EXCEPT !.x = 0, !.y = @ + 1] = [x |-> 0, y |-> y + 1, ink |-> ink]
    <3>1. [p EXCEPT !.x = 0] = [x |-> 0, y |-> y, ink |-> ink]
      OBVIOUS
    <3>2. [[x |-> 0, y |-> y, ink |-> ink] EXCEPT !.y = y + 1]
            = [x |-> 0, y |-> y + 1, ink |-> ink]
      OBVIOUS
    <3>. QED BY <1>3, <3>1, <3>2
  <2>. QED BY <1>1, <1>7, <2>1, <2>2
<1>8. CASE c = "other"
  <2>1. Typed(p, c) = Wrapped(p)
    BY <1>2, <1>8 DEF Typed
  <2>. QED BY <1>1, <1>8, <2>1
<1>9. CASE c \notin {"backspace", "tab", "return", "newline", "other"}
  <2> DEFINE q == [p EXCEPT !.x = @ + 1,
                            !.ink = [j \in DOMAIN @ \cup {Cell(p.x, p.y)} |->
                                       IF j = Cell(p.x, p.y) THEN c ELSE @[j]]]
  <2>1. Typed(p, c) = Wrapped(q)
    BY <1>2, <1>9 DEF Typed
  <2>2. q = [x |-> x + 1, y |-> y, ink |-> inked]
    <3>1. [p EXCEPT !.x = @ + 1] = [x |-> x + 1, y |-> y, ink |-> ink]
      OBVIOUS
    <3>2. \A I : [[x |-> x + 1, y |-> y, ink |-> ink] EXCEPT !.ink = I]
                   = [x |-> x + 1, y |-> y, ink |-> I]
      OBVIOUS
    <3> DEFINE blotted == [j \in DOMAIN p.ink \cup {Cell(p.x, p.y)} |->
                              IF j = Cell(p.x, p.y) THEN c ELSE p.ink[j]]
    <3>3. blotted = inked
      BY <1>3 DEF Inked
    <3>4. q = [[p EXCEPT !.x = @ + 1] EXCEPT !.ink = blotted]
      OBVIOUS
    <3> HIDE DEF blotted, inked, q
    <3>. QED BY <3>1, <3>2, <3>3, <3>4
  <2>. QED BY <1>1, <1>9, <2>1, <2>2
<1>. QED BY <1>4, <1>5, <1>6, <1>7, <1>8, <1>9

LEMMA PaperWraps ==
    ASSUME NEW a \in Nat, NEW x \in Nat, NEW y \in Nat, NEW ink, NEW pg,
           pg = Paper(x, a + y, ink)
    PROVE  IsPage(pg) /\ pg.ink = ink /\ Wraps(a, x, y, pg)
BY DEF Paper, IsPage, Wraps

\* The multiple of TabStop behind a column, computed in two ways.
LEMMA TabStops ==
    ASSUME NEW x \in Nat
    PROVE  (x \div TabStop + 1) * TabStop = (x + TabStop) - (x % TabStop)
<1>1. TabStop \in Nat \ {0}
  BY Sizes
<1>2. x \div TabStop \in Nat /\ x % TabStop \in Nat
      /\ x = (x \div TabStop) * TabStop + (x % TabStop)
  BY <1>1
<1> DEFINE q == x \div TabStop
           r == x % TabStop
<1>3. q \in Nat /\ r \in Nat /\ x = q * TabStop + r
  BY <1>2
<1> HIDE DEF q, r
<1>4. (q + 1) * TabStop = q * TabStop + TabStop /\ q * TabStop \in Nat
  BY <1>1, <1>3
<1>5. (q + 1) * TabStop = (x + TabStop) - r
  BY <1>1, <1>3, <1>4
<1>. QED BY <1>5 DEF q, r

LEMMA SeesPutch ==
    ASSUME NEW a, NEW v \in Int, NEW x \in Nat, NEW y \in Nat, NEW sc, NEW pg, NEW d, NEW c,
           Sees(a, "idle", v, x, y, sc, pg, d), x < Columns, y < Rows,
           NEW to, to = Typed(pg, c)
    PROVE  /\ c = "backspace" /\ x # 0 => Sees(a, "back", 0, x, y, sc, to, c)
           /\ c = "backspace" /\ x = 0 => Sees(a, "edge", 0, x, y, sc, to, c)
           /\ c = "tab"     => Sees(a, "set x", (x + TabStop) - (x % TabStop), x, y, sc, to, c)
           /\ c = "return"  => Sees(a, "set x", 0, x, y, sc, to, c)
           /\ c = "newline" => Sees(a, "left", 0, x, y, sc, to, c)
           /\ c = "other"   => Sees(a, "edge", 0, x, y, sc, to, c)
           /\ c \notin {"backspace", "tab", "return", "newline", "other"} =>
                Sees(a, "where", y * Columns, x, y, sc, to, c)
<1>1. /\ a \in Nat /\ (a = 0 \/ y >= Rows - 1) /\ IsPage(pg) /\ pg.x = x /\ pg.y = a + y
      /\ DOMAIN pg.ink \subseteq 0 .. (a + Rows) * Columns - 1 /\ Shows(a, sc, pg)
  BY DEF Sees
<1>2. pg = [x |-> x, y |-> a + y, ink |-> pg.ink] /\ a + y \in Nat
  BY <1>1 DEF IsPage
<1>3. \A X \in Nat, Y \in Nat :
        to = Paper(X, a + Y, pg.ink) =>
          /\ IsPage(to) /\ to.ink = pg.ink /\ Wraps(a, X, Y, to) /\ Shows(a, sc, to)
          /\ DOMAIN to.ink \subseteq 0 .. (a + Rows) * Columns - 1
  BY <1>1, PaperWraps DEF Shows
<1>4. ASSUME c = "backspace", x # 0 PROVE Sees(a, "back", 0, x, y, sc, to, c)
  <2>1. x - 1 \in Nat /\ to = Paper(x - 1, a + y, pg.ink)
    BY <1>2, <1>4, TypedIs
  <2>. QED BY <1>1, <1>3, <2>1 DEF Sees
<1>5. ASSUME c = "backspace", x = 0 PROVE Sees(a, "edge", 0, x, y, sc, to, c)
  <2>1. to = Paper(x, a + y, pg.ink)
    BY <1>2, <1>5, TypedIs
  <2>. QED BY <1>1, <1>3, <2>1 DEF Sees
<1>6. ASSUME c = "tab" PROVE Sees(a, "set x", (x + TabStop) - (x % TabStop), x, y, sc, to, c)
  <2> DEFINE X == (x + TabStop) - (x % TabStop)
  <2>1. X \in Nat /\ to = Paper(X, a + y, pg.ink)
    BY <1>2, <1>6, TypedIs, TabStops, NextTab
  <2> HIDE DEF X
  <2>2. Sees(a, "set x", X, x, y, sc, to, c)
    BY <1>1, <1>3, <2>1 DEF Sees
  <2>. QED BY <2>2 DEF X
<1>7. ASSUME c = "return" PROVE Sees(a, "set x", 0, x, y, sc, to, c)
  <2>1. 0 \in Nat /\ to = Paper(0, a + y, pg.ink)
    BY <1>2, <1>7, TypedIs
  <2>. QED BY <1>1, <1>3, <2>1 DEF Sees
<1>8. ASSUME c = "newline" PROVE Sees(a, "left", 0, x, y, sc, to, c)
  <2>1. 0 \in Nat /\ y + 1 \in Nat /\ a + (y + 1) = (a + y) + 1
    BY <1>1
  <2>2. to = Paper(0, a + (y + 1), pg.ink)
    BY <1>2, <1>8, <2>1, TypedIs
  <2>3. to.x = 0 /\ to.y = a + y + 1
    BY <1>1, <2>1, <2>2, Sizes DEF Paper
  <2>. QED BY <1>1, <1>3, <2>1, <2>2, <2>3 DEF Sees
<1>9. ASSUME c = "other" PROVE Sees(a, "edge", 0, x, y, sc, to, c)
  <2>1. to = Paper(x, a + y, pg.ink)
    BY <1>2, <1>9, TypedIs
  <2>. QED BY <1>1, <1>3, <2>1 DEF Sees
<1>10. ASSUME c \notin {"backspace", "tab", "return", "newline", "other"}
       PROVE  Sees(a, "where", y * Columns, x, y, sc, to, c)
  <2> DEFINE cell == y * Columns + x
             inked == Inked(pg.ink, Cell(x, a + y), c)
  <2>1. to = Paper(x + 1, a + y, inked) /\ x + 1 \in Nat
    BY <1>2, <1>10, TypedIs
  <2>2. IsPage(to) /\ to.ink = inked /\ Wraps(a, x + 1, y, to)
    BY <1>1, <2>1, PaperWraps
  <2>3. cell \in 0 .. Rows * Columns - 1
    <3>1. y * Columns \in Nat /\ Rows * Columns \in Nat /\ y * Columns + Columns = (y + 1) * Columns
      BY Sizes
    <3>2. (y + 1) * Columns <= Rows * Columns
      BY Sizes, Grows
    <3>. QED BY <3>1, <3>2, Sizes
  <2>4. Cell(x, a + y) = cell + a * Columns /\ a * Columns \in Nat
    <3>1. (a + y) * Columns = a * Columns + y * Columns
          /\ a * Columns \in Nat /\ y * Columns \in Nat
      BY <1>1, Products
    <3>. QED BY <3>1 DEF Cell
  <2>5. (a + Rows) * Columns = a * Columns + Rows * Columns /\ Rows * Columns \in Nat
    BY <1>1, Products, Sizes
  <2>6. /\ DOMAIN inked = DOMAIN pg.ink \cup {cell + a * Columns}
        /\ inked[cell + a * Columns] = c
        /\ \A j \in DOMAIN pg.ink : j # cell + a * Columns => inked[j] = pg.ink[j]
    BY <2>4 DEF Inked
  <2> HIDE DEF cell, inked
  <2>7. DOMAIN inked \subseteq 0 .. (a + Rows) * Columns - 1
    BY <1>1, <2>3, <2>4, <2>5, <2>6
  <2>8. ShowsBut(a, cell, sc, to, c)
    <3>1. /\ DOMAIN sc = {i \in 0 .. Rows * Columns - 1 : i + a * Columns \in DOMAIN pg.ink}
          /\ \A i \in DOMAIN sc : sc[i] = pg.ink[i + a * Columns]
      BY <1>1 DEF Shows
    <3>2. \A i \in 0 .. Rows * Columns - 1 : i + a * Columns = cell + a * Columns <=> i = cell
      BY <2>3, <2>4
    <3>3. DOMAIN sc \cup {cell} =
            {i \in 0 .. Rows * Columns - 1 : i + a * Columns \in DOMAIN inked}
      BY <2>3, <2>6, <3>1, <3>2
    <3>4. \A i \in DOMAIN sc \ {cell} : sc[i] = inked[i + a * Columns]
      BY <2>6, <3>1, <3>2
    <3>. QED BY <2>2, <2>3, <2>6, <3>3, <3>4 DEF ShowsBut
  <2>9. Sees(a, "where", y * Columns, x, y, sc, to, c)
    BY <1>1, <2>2, <2>7, <2>8 DEF Sees, cell
  <2>. QED BY <2>9
<1>. QED BY <1>4, <1>5, <1>6, <1>7, <1>8, <1>9, <1>10

\* The steps of the writer.
LEMMA Seen ==
    ASSUME NEW a, NEW pc, NEW v, at'[1] = [pc |-> pc, v |-> v],
           Sees(a, pc, v, csr_x', csr_y', screen', page', Char(1)')
    PROVE  PageSound'
BY DEF PageSound

LEMMA SeenOn ==
    ASSUME ConsoleSound, Same, NEW pc, NEW v, Goes(1, pc, v), NEW a,
           Sees(a, pc, v, csr_x', csr_y', screen', page', Char(1))
    PROVE  PageSound'
<1>1. at'[1] = [pc |-> pc, v |-> v]
  BY Callers DEF ConsoleSound, TypeOK, Goes
<1>2. Char(1)' = Char(1)
  BY DEF Same, Char
<1>. QED BY <1>1, <1>2, Seen

LEMMA SeesIdle ==
    ASSUME NEW a, NEW v, NEW x, NEW y, NEW sc, NEW pg, NEW c, NEW d,
           Sees(a, "idle", v, x, y, sc, pg, c)
    PROVE  Sees(a, "idle", 0, x, y, sc, pg, d)
BY DEF Sees

LEMMA SeenDone ==
    ASSUME ConsoleSound, Done(1), NEW a, NEW c,
           Sees(a, "idle", 0, csr_x', csr_y', screen', page', c)
    PROVE  PageSound'
<1>1. at'[1] = [pc |-> "idle", v |-> 0]
  BY Callers DEF ConsoleSound, TypeOK, Done, Idle
<1>2. Sees(a, "idle", 0, csr_x', csr_y', screen', page', Char(1)')
  BY SeesIdle
<1>. QED BY <1>1, <1>2, Seen

LEMMA InSight ==
    ASSUME ConsoleSound, PageSound, kernel = "alone", NEW pc, pc # "idle", Step(1, pc)
    PROVE  /\ at[1].v \in Int /\ csr_x \in Nat /\ csr_y \in Nat
           /\ pc \in Loaded => at[1].v \in Nat
           /\ CursorFits(1, pc, csr_x, csr_y)
           /\ \E a : Sees(a, pc, at[1].v, csr_x, csr_y, screen, page, Char(1))
<1>1. /\ at[1].pc = pc /\ at[1].v \in Int /\ csr_x \in Nat /\ csr_y \in Nat
      /\ (pc \in Loaded => at[1].v \in Nat) /\ CursorFits(1, pc, csr_x, csr_y)
  BY InStep, Callers
<1>. QED BY <1>1 DEF PageSound

LEMMA putchSeen ==
    ASSUME ConsoleSound, PageSound, kernel = "alone", putch(1) PROVE PageSound'
<1>1. /\ at[1] = Idle /\ Same /\ csr_x' = csr_x /\ csr_y' = csr_y /\ screen' = screen
      /\ page' = Typed(page, Char(1))
  BY DEF putch, cursor
<1>2. (CASE Char(1) = "backspace" -> IF csr_x # 0 THEN Goes(1, "back", 0) ELSE Goes(1, "edge", 0)
         [] Char(1) = "tab"     -> Goes(1, "set x", (csr_x + TabStop) - (csr_x % TabStop))
         [] Char(1) = "return"  -> Goes(1, "set x", 0)
         [] Char(1) = "newline" -> Goes(1, "left", 0)
         [] Char(1) = "other"   -> Goes(1, "edge", 0)
         [] OTHER               -> Goes(1, "where", csr_y * Columns))
  BY DEF putch
<1>3. csr_x \in Nat /\ csr_y \in Nat /\ Idle.pc = "idle" /\ Idle.v = 0
  BY DEF ConsoleSound, TypeOK, Idle
<1>4. csr_x < Columns /\ csr_y < Rows
  <2>1. running = 1
    BY DEF ConsoleSound, TurnsSound
  <2>2. CursorFits(1, "idle", csr_x, csr_y)
    BY <1>1, <1>3, <2>1, Known, Callers
  <2>3. csr_y <= Rows - 1 /\ csr_x <= Columns - 1
    BY <2>2, Places, LastRows, Callers
  <2>. QED BY <1>3, <2>3, Sizes
<1>5. PICK a : Sees(a, "idle", 0, csr_x, csr_y, screen, page, Char(1))
  BY <1>1, <1>3 DEF PageSound
<1>6. /\ Char(1) = "backspace" /\ csr_x # 0 =>
           Sees(a, "back", 0, csr_x, csr_y, screen, page', Char(1))
      /\ Char(1) = "backspace" /\ csr_x = 0 =>
           Sees(a, "edge", 0, csr_x, csr_y, screen, page', Char(1))
      /\ Char(1) = "tab"     => Sees(a, "set x", (csr_x + TabStop) - (csr_x % TabStop),
                                     csr_x, csr_y, screen, page', Char(1))
      /\ Char(1) = "return"  => Sees(a, "set x", 0, csr_x, csr_y, screen, page', Char(1))
      /\ Char(1) = "newline" => Sees(a, "left", 0, csr_x, csr_y, screen, page', Char(1))
      /\ Char(1) = "other"   => Sees(a, "edge", 0, csr_x, csr_y, screen, page', Char(1))
      /\ Char(1) \notin {"backspace", "tab", "return", "newline", "other"} =>
           Sees(a, "where", csr_y * Columns, csr_x, csr_y, screen, page', Char(1))
  BY <1>1, <1>3, <1>4, <1>5, Counts, SeesPutch
<1>7. \A pc, v : Goes(1, pc, v) /\ Sees(a, pc, v, csr_x, csr_y, screen, page', Char(1)) =>
                   PageSound'
  BY <1>1, SeenOn
<1>8. CASE Char(1) = "backspace"
  BY <1>2, <1>6, <1>7, <1>8
<1>9. CASE Char(1) = "tab"
  <2>1. Goes(1, "set x", (csr_x + TabStop) - (csr_x % TabStop))
    BY <1>2, <1>9
  <2>. QED BY <1>6, <1>7, <1>9, <2>1, Zenon
<1>10. CASE Char(1) = "return"
  BY <1>2, <1>6, <1>7, <1>10
<1>11. CASE Char(1) = "newline"
  BY <1>2, <1>6, <1>7, <1>11
<1>12. CASE Char(1) = "other"
  BY <1>2, <1>6, <1>7, <1>12
<1>13. CASE Char(1) \notin {"backspace", "tab", "return", "newline", "other"}
  <2>1. Goes(1, "where", csr_y * Columns)
    BY <1>2, <1>13
  <2>. QED BY <1>6, <1>7, <1>13, <2>1, Zenon
<1>. QED BY <1>8, <1>9, <1>10, <1>11, <1>12, <1>13

LEMMA StepsSeen ==
    ASSUME ConsoleSound, PageSound, kernel = "alone", Steps(1) PROVE PageSound'
<1>1. CASE putch(1)
  BY <1>1, putchSeen
<1>2. CASE where(1)
  <2>1. /\ Step(1, "where") /\ Goes(1, "show", at[1].v + csr_x) /\ Same
        /\ csr_x' = csr_x /\ csr_y' = csr_y /\ screen' = screen /\ page' = page
    BY <1>2 DEF where, cursor
  <2>2. PICK a : Sees(a, "where", at[1].v, csr_x, csr_y, screen, page, Char(1))
    BY <2>1, InSight
  <2>3. Sees(a, "show", at[1].v + csr_x, csr_x, csr_y, screen, page, Char(1))
    BY <2>1, <2>2, InSight, SeesOn
  <2>. QED BY <2>1, <2>3, SeenOn
<1>3. CASE show(1)
  <2>1. /\ Step(1, "show") /\ Goes(1, "load x", 0) /\ Same /\ screen' = Put(at[1].v, Char(1))
        /\ csr_x' = csr_x /\ csr_y' = csr_y /\ page' = page
    BY <1>3 DEF show, cursor
  <2>. QED BY <2>1, InSight, SeesShow, SeenOn
<1>4. CASE load_x(1)
  <2>1. /\ \/ Step(1, "load x") /\ Goes(1, "set x", csr_x + 1)
           \/ Step(1, "back")   /\ Goes(1, "set x", csr_x - 1)
        /\ Same /\ csr_x' = csr_x /\ csr_y' = csr_y /\ screen' = screen /\ page' = page
    BY <1>4 DEF load_x, cursor
  <2>2. CASE Step(1, "load x") /\ Goes(1, "set x", csr_x + 1)
    <3>1. PICK a : Sees(a, "load x", at[1].v, csr_x, csr_y, screen, page, Char(1))
      BY <2>2, InSight
    <3>2. Sees(a, "set x", csr_x + 1, csr_x, csr_y, screen, page, Char(1))
      BY <2>2, <3>1, InSight, SeesOn
    <3>. QED BY <2>1, <2>2, <3>2, SeenOn
  <2>3. CASE Step(1, "back") /\ Goes(1, "set x", csr_x - 1)
    <3>1. PICK a : Sees(a, "back", at[1].v, csr_x, csr_y, screen, page, Char(1))
      BY <2>3, InSight
    <3>2. Sees(a, "set x", csr_x - 1, csr_x, csr_y, screen, page, Char(1))
      BY <2>3, <3>1, InSight, SeesOn
    <3>. QED BY <2>1, <2>3, <3>2, SeenOn
  <2>. QED BY <2>1, <2>2, <2>3
<1>5. CASE set_x(1)
  <2>1. /\ Step(1, "set x") /\ Goes(1, "edge", 0) /\ Same /\ csr_x' = at[1].v
        /\ csr_y' = csr_y /\ screen' = screen /\ page' = page
    BY <1>5 DEF set_x
  <2>. QED BY <2>1, InSight, SeesOn, SeenOn
<1>6. CASE new_line(1)
  <2>1. /\ \/ Step(1, "left")   /\ Goes(1, "load y", 0)
           \/ Step(1, "margin") /\ Goes(1, "load y after edge", 0)
        /\ Same /\ csr_x' = 0 /\ csr_y' = csr_y /\ screen' = screen /\ page' = page
    BY <1>6 DEF new_line
  <2>2. CASE Step(1, "left") /\ Goes(1, "load y", 0)
    <3>1. PICK a : Sees(a, "left", at[1].v, csr_x, csr_y, screen, page, Char(1))
      BY <2>2, InSight
    <3>2. Sees(a, "load y", 0, 0, csr_y, screen, page, Char(1))
      BY <2>2, <3>1, InSight, SeesOn
    <3>. QED BY <2>1, <2>2, <3>2, SeenOn
  <2>3. CASE Step(1, "margin") /\ Goes(1, "load y after edge", 0)
    <3>1. PICK a : Sees(a, "margin", at[1].v, csr_x, csr_y, screen, page, Char(1))
      BY <2>3, InSight
    <3>2. Sees(a, "load y after edge", 0, 0, csr_y, screen, page, Char(1))
      BY <2>3, <3>1, InSight, SeesOn
    <3>. QED BY <2>1, <2>3, <3>2, SeenOn
  <2>. QED BY <2>1, <2>2, <2>3
<1>7. CASE load_y(1)
  <2>1. /\ \/ Step(1, "load y")            /\ Goes(1, "set y", csr_y + 1)
           \/ Step(1, "load y after edge") /\ Goes(1, "set y after edge", csr_y + 1)
        /\ Same /\ csr_x' = csr_x /\ csr_y' = csr_y /\ screen' = screen /\ page' = page
    BY <1>7 DEF load_y, cursor
  <2>2. CASE Step(1, "load y") /\ Goes(1, "set y", csr_y + 1)
    <3>1. PICK a : Sees(a, "load y", at[1].v, csr_x, csr_y, screen, page, Char(1))
      BY <2>2, InSight
    <3>2. Sees(a, "set y", csr_y + 1, csr_x, csr_y, screen, page, Char(1))
      BY <2>2, <3>1, InSight, SeesRow
    <3>. QED BY <2>1, <2>2, <3>2, SeenOn
  <2>3. CASE Step(1, "load y after edge") /\ Goes(1, "set y after edge", csr_y + 1)
    <3>1. PICK a : Sees(a, "load y after edge", at[1].v, csr_x, csr_y, screen, page, Char(1))
      BY <2>3, InSight
    <3>2. Sees(a, "set y after edge", csr_y + 1, csr_x, csr_y, screen, page, Char(1))
      BY <2>3, <3>1, InSight, SeesRow
    <3>. QED BY <2>1, <2>3, <3>2, SeenOn
  <2>. QED BY <2>1, <2>2, <2>3
<1>8. CASE set_y(1)
  <2>1. /\ \/ Step(1, "set y")            /\ Goes(1, "edge", 0)
           \/ Step(1, "set y after edge") /\ Goes(1, "scroll", 0)
        /\ Same /\ csr_x' = csr_x /\ csr_y' = at[1].v /\ screen' = screen /\ page' = page
    BY <1>8 DEF set_y
  <2>2. CASE Step(1, "set y") /\ Goes(1, "edge", 0)
    <3>1. PICK a : Sees(a, "set y", at[1].v, csr_x, csr_y, screen, page, Char(1))
      BY <2>2, InSight
    <3>2. at[1].v \in Nat
      BY <2>2, InSight DEF Loaded
    <3>3. Sees(a, "edge", 0, csr_x, at[1].v, screen, page, Char(1))
      BY <2>2, <3>1, <3>2, InSight, SeesRow
    <3>. QED BY <2>1, <2>2, <3>3, SeenOn
  <2>3. CASE Step(1, "set y after edge") /\ Goes(1, "scroll", 0)
    <3>1. PICK a : Sees(a, "set y after edge", at[1].v, csr_x, csr_y, screen, page, Char(1))
      BY <2>3, InSight
    <3>2. at[1].v \in Nat
      BY <2>3, InSight DEF Loaded
    <3>3. Sees(a, "scroll", 0, csr_x, at[1].v, screen, page, Char(1))
      BY <2>3, <3>1, <3>2, InSight, SeesRow
    <3>. QED BY <2>1, <2>3, <3>3, SeenOn
  <2>. QED BY <2>1, <2>2, <2>3
<1>9. CASE edge(1)
  <2>1. /\ Step(1, "edge") /\ Goes(1, IF csr_x >= Columns THEN "margin" ELSE "scroll", 0)
        /\ Same /\ csr_x' = csr_x /\ csr_y' = csr_y /\ screen' = screen /\ page' = page
    BY <1>9 DEF edge, Width, cursor
  <2>2. CASE csr_x >= Columns
    BY <2>1, <2>2, InSight, SeesEdge, SeenOn
  <2>3. CASE ~(csr_x >= Columns)
    BY <2>1, <2>3, InSight, SeesEdge, SeenOn
  <2>. QED BY <2>2, <2>3
<1>10. CASE scroll(1)
  <2>1. /\ Step(1, "scroll") /\ IF PastEnd THEN Goes(1, "lines", 0) /\ Same ELSE Done(1)
        /\ csr_x' = csr_x /\ csr_y' = csr_y /\ screen' = screen /\ page' = page
    BY <1>10 DEF scroll, cursor
  <2>2. CASE PastEnd
    <3>1. csr_y <= (Rows - 1) + 1 /\ csr_y \in Nat
      BY <2>1, InSight, Places, LastRows, Callers
    <3>2. csr_y = Rows
      BY <2>2, <3>1, Sizes DEF PastEnd
    <3>. QED BY <2>1, <2>2, <3>2, InSight, SeesEdge, SeenOn
  <2>3. CASE ~PastEnd
    BY <2>1, <2>3, InSight, SeesEdge, SeenDone
  <2>. QED BY <2>2, <2>3
<1>11. CASE count_lines(1)
  <2>1. /\ Step(1, "lines") /\ Goes(1, "copy", lines(csr_y)) /\ Same
        /\ csr_x' = csr_x /\ csr_y' = csr_y /\ screen' = screen /\ page' = page
    BY <1>11 DEF count_lines, cursor
  <2>2. PICK a : Sees(a, "lines", at[1].v, csr_x, csr_y, screen, page, Char(1))
    BY <2>1, InSight
  <2>3. lines(csr_y) = 1
    BY <2>2, Sizes DEF Sees, lines
  <2>. QED BY <2>1, <2>2, <2>3, InSight, SeesEdge, SeenOn
<1>12. CASE copy(1)
  <2>1. /\ Step(1, "copy") /\ Goes(1, "blank", at[1].v) /\ Same
        /\ screen' = memcpy(at[1].v * Columns, (Rows - at[1].v) * Columns)
        /\ csr_x' = csr_x /\ csr_y' = csr_y /\ page' = page
    BY <1>12 DEF copy, cursor
  <2>. QED BY <2>1, InSight, SeesCopy, SeenOn
<1>13. CASE blank(1)
  <2>1. /\ Step(1, "blank") /\ Goes(1, "last", 0) /\ Same /\ screen' = memsetw(Rows - at[1].v)
        /\ csr_x' = csr_x /\ csr_y' = csr_y /\ page' = page
    BY <1>13 DEF blank, cursor
  <2>. QED BY <2>1, InSight, SeesBlank, SeenOn
<1>14. CASE last_line(1)
  <2>1. /\ Step(1, "last") /\ Done(1) /\ csr_y' = Rows - 1
        /\ csr_x' = csr_x /\ screen' = screen /\ page' = page
    BY <1>14 DEF last_line
  <2>2. PICK a : Sees(a, "last", at[1].v, csr_x, csr_y, screen, page, Char(1))
    BY <2>1, InSight
  <2>3. Sees(a + 1, "idle", 0, csr_x, Rows - 1, screen, page, Char(1))
    BY <2>1, <2>2, InSight, SeesLast
  <2>. QED BY <2>1, <2>3, SeenDone
<1>. QED BY <1>1, <1>2, <1>3, <1>4, <1>5, <1>6, <1>7, <1>8, <1>9, <1>10, <1>11, <1>12, <1>13,
            <1>14 DEF Steps

LEMMA InitSees == Init => PageSound
<1> SUFFICES ASSUME Init PROVE PageSound
  OBVIOUS
<1> DEFINE sheet == [x |-> 0, y |-> 0, ink |-> cls]
<1>1. /\ csr_x = 0 /\ csr_y = 0 /\ DOMAIN screen = {} /\ DOMAIN cls = {}
      /\ page = sheet /\ at[1].pc = "idle"
  BY Callers DEF Init, cls, Idle
<1>2. sheet.x = 0 /\ sheet.y = 0 /\ sheet.ink = cls /\ IsPage(sheet)
  BY DEF IsPage
<1> HIDE DEF sheet
<1>3. Shows(0, screen, page)
  BY <1>1, <1>2 DEF Shows
<1>4. Sees(0, "idle", at[1].v, 0, 0, screen, page, Char(1))
  BY <1>1, <1>2, <1>3 DEF Sees
<1>. QED BY <1>1, <1>4 DEF PageSound

LEMMA NextSees == ConsoleSound /\ PageSound /\ [Next]_vars => PageSound'
<1> SUFFICES ASSUME ConsoleSound, PageSound, [Next]_vars, kernel' = "alone" PROVE PageSound'
  BY DEF PageSound
<1>1. CASE \E w \in Calls : Steps(w)
  <2>1. PICK w \in Calls : Steps(w)
    BY <1>1
  <2>2. running = w /\ kernel' = kernel
    BY <2>1 DEF Steps, putch, where, show, load_x, set_x, new_line, load_y, set_y, edge,
                scroll, count_lines, copy, blank, last_line, Step, Same, Done
  <2>3. w = 1
    BY <2>2 DEF ConsoleSound, TurnsSound
  <2>. QED BY <2>1, <2>2, <2>3, StepsSeen
<1>2. CASE \E w \in Writers : handled(w) \/ pass_on_CPU(w)
  BY <1>2, Callers DEF handled, pass_on_CPU, ConsoleSound, TurnsSound
<1>3. ASSUME NEW w \in Writers, NEW text, Prints(w, text) PROVE PageSound'
  <2>1. /\ running = w /\ at[w] = Idle /\ kernel' = kernel /\ at' = at
        /\ csr_x' = csr_x /\ csr_y' = csr_y /\ screen' = screen /\ page' = page
    BY <1>3 DEF Prints, cursor
  <2>2. at[1] = [pc |-> "idle", v |-> 0] /\ at[1].pc = "idle"
    BY <2>1 DEF ConsoleSound, TurnsSound, Idle
  <2>3. PICK a : Sees(a, "idle", at[1].v, csr_x, csr_y, screen, page, Char(1))
    BY <2>1, <2>2 DEF PageSound
  <2>4. Sees(a, "idle", 0, csr_x, csr_y, screen, page, Char(1)')
    BY <2>3, SeesIdle
  <2>. QED BY <2>1, <2>2, <2>4, Seen
<1>4. CASE \E w \in Writers : \/ assert_fails(w)
                              \/ \E c \in Printed : puts(w, c)
                              \/ \E n \in Counted : putui(w, n) \/ puti(w, n)
  BY <1>3, <1>4 DEF assert_fails, puts, putui, puti
<1>5. CASE handle_interrupt
  BY <1>5 DEF handle_interrupt
<1>6. CASE UNCHANGED vars
  <2>1. /\ kernel' = kernel /\ at' = at /\ csr_x' = csr_x /\ csr_y' = csr_y
        /\ screen' = screen /\ page' = page /\ todo' = todo
    BY <1>6 DEF vars
  <2>. QED BY <2>1 DEF PageSound, Char
<1>. QED BY <1>1, <1>2, <1>4, <1>5, <1>6 DEF Next

\* A writer whom nobody disturbs sees the last rows of what it has written, as if on
\* paper, with no row or character lost or left over where putch() wraps and scroll()
\* moves the screen up, and the cursor behind the last character.
THEOREM LastRowsShown == Spec => []ShowsPage
<1>1. Init => ConsoleSound /\ PageSound
  BY InitBounds, InitSees
<1>2. ConsoleSound /\ PageSound => ShowsPage
  <2> SUFFICES ASSUME ConsoleSound, PageSound, kernel = "alone", at[1] = Idle
               PROVE  LET above == page.y - csr_y
                      IN  /\ csr_x = page.x
                          /\ csr_y = IF page.y < Rows THEN page.y ELSE Rows - 1
                          /\ DOMAIN screen = {i \in 0 .. Cell(0, Rows) - 1 :
                                                  i + Cell(0, above) \in DOMAIN page.ink}
                          /\ \A i \in DOMAIN screen : screen[i] = page.ink[i + Cell(0, above)]
    BY DEF ShowsPage, InPutch
  <2>1. at[1].pc = "idle" /\ csr_x \in Nat /\ csr_y \in Nat /\ running = 1
    BY DEF Idle, ConsoleSound, TypeOK, TurnsSound
  <2>2. PICK a : Sees(a, "idle", at[1].v, csr_x, csr_y, screen, page, Char(1))
    BY <2>1 DEF PageSound
  <2>3. /\ a \in Nat /\ (a = 0 \/ csr_y >= Rows - 1) /\ Shows(a, screen, page)
        /\ page.x = csr_x /\ page.y = a + csr_y
    BY <2>2 DEF Sees
  <2>4. csr_y <= Rows - 1
    <3>1. CursorFits(1, "idle", csr_x, csr_y)
      BY <2>1, Known, Callers
    <3>. QED BY <3>1, Places, LastRows
  <2>5. csr_y = IF page.y < Rows THEN page.y ELSE Rows - 1
    BY <2>1, <2>3, <2>4, Sizes
  <2>6. page.y - csr_y = a
    BY <2>1, <2>3
  <2>7. Cell(0, Rows) = Rows * Columns /\ Cell(0, a) = a * Columns
    BY <2>3, Sizes DEF Cell
  <2>. QED BY <2>3, <2>5, <2>6, <2>7 DEF Shows
<1>3. ConsoleSound /\ PageSound /\ [Next]_vars => (ConsoleSound /\ PageSound)'
  BY NextBounds, NextSees
<1>. QED BY <1>1, <1>2, <1>3, PTL DEF Spec

\* What uint2str() makes of a number, between the brackets that a writer puts
\* around it, are its decimal digits without leading zeros.
THEOREM NumbersInDecimal == Spec => PrintsNumber
<1> DEFINE A == \A w \in Writers, n \in Numbers :
                  putui(w, n) => \E ds \in {uint2str(n)} :
                                   /\ todo'[w] = <<"<">> \o Text(ds) \o <<">">>
                                   /\ Decimal(ds) = n /\ Len(ds) > 0
                                   /\ Len(ds) > 1 => ds[1] # 0
<1>1. TypeOK /\ [Next]_vars => [A]_vars
  <2> SUFFICES ASSUME TypeOK, NEW w \in Writers, NEW n \in Numbers, putui(w, n)
               PROVE  /\ todo'[w] = <<"<">> \o Text(uint2str(n)) \o <<">">>
                      /\ Decimal(uint2str(n)) = n /\ Len(uint2str(n)) > 0
                      /\ Len(uint2str(n)) > 1 => uint2str(n)[1] # 0
    BY Zenon
  <2>1. n \in 0 .. MaxInt
    BY TextAssumption, Zenon
  <2>2. todo'[w] = <<"<">> \o Text(uint2str(n)) \o <<">">>
    <3>1. todo' = [todo EXCEPT ![w] = <<"<">> \o Text(uint2str(n)) \o <<">">>]
      BY Zenon DEF putui, Prints
    <3>2. w \in DOMAIN todo
      BY DEF TypeOK, Calls
    <3>. QED BY <3>1, <3>2, Zenon
  <2>. QED BY <2>1, <2>2, PrintsDecimal, Zenon
<1> HIDE DEF A
<1>2. Spec => [][A]_vars
  BY <1>1, TypeCorrect, PTL DEF Spec
<1>. QED BY <1>2 DEF PrintsNumber, A
=============================================================================
