---------------------------- MODULE ConsoleProofs ----------------------------
(***************************************************************************)
(* Proofs that the cursor comes back, and that the screen shows the end of *)
(* the text while printers do not overlap, for any number of printers, any *)
(* text and any size of the screen, of a tab and of the page.              *)
(***************************************************************************)
EXTENDS Console, WellFoundedInduction, TLAPS

InLine == {"line", "scroll1", "dec", "decreased", "inc", "increased", "home"}
InChar == {"add", "added", "wrap", "down", "below", "last", "bottom", "mod", "modulo"}
Places == {"idle", "row", "column", "store", "cursor"} \cup InLine \cup InChar

(* Every variable that the cursor depends on has its type.                 *)
Typed ==
  /\ x \in Nat /\ y \in Int
  /\ at \in [Printers -> Places]
  /\ char \in [Printers -> Chars \cup {Blank}]
  /\ reg \in [Printers -> Int]

(* Where a printer is, tells what it prints and what is in its register.   *)
Local(p) ==
  /\ at[p] \in InLine => char[p] = "newline"
  /\ at[p] \in InChar \cup {"row", "column", "store"} => char[p] # "newline"
  /\ at[p] = "added" => reg[p] \in Nat
  /\ at[p] = "modulo" => reg[p] \in Cols

(* A column outside of the row has a printer that has yet to bring it back.*)
BringsColumn == {"wrap", "down", "below", "last", "bottom", "mod", "modulo"}
ColumnPending == x \in Cols \/ \E p \in Printers : at[p] \in BringsColumn

(* As long as no newline overlaps, one that is printed is alone,           *)
NewlineAlone ==
  \A p, q \in Printers :
    p # q /\ at[p] # "idle" /\ at[q] # "idle" => char[p] # "newline"

(* it knows the row at each of its statements,                             *)
LineKnows(p) ==
  /\ at[p] \in {"line", "home"} => y \in Rows
  /\ at[p] \in {"scroll1", "dec", "decreased"} => y = Height - 1
  /\ at[p] = "decreased" => reg[p] = Height - 2
  /\ at[p] \in {"inc", "increased"} => y \in -1 .. Height - 2
  /\ at[p] = "increased" => reg[p] = y + 1

(* and a row off the screen has a printer that has yet to bring it back.   *)
RowPending ==
  /\ \A p \in Printers : at[p] = "below" => reg[p] \in Nat
  /\ y \in Rows \/ \E p \in Printers :
                      \/ at[p] \in {"last", "bottom"} /\ y >= Height
                      \/ at[p] \in {"inc", "increased"}

RowInv ==
  ~lines => NewlineAlone /\ RowPending /\ \A p \in Printers : LineKnows(p)

CInv == Typed /\ ColumnPending /\ RowInv /\ \A p \in Printers : Local(p)

(* What carrying a column into rows relies on. *)
LEMMA Quotient ==
  ASSUME NEW n \in Nat, NEW w \in Nat \ {0}
  PROVE  n % w \in 0 .. w - 1 /\ n \div w \in Nat
  OBVIOUS

(* The invariant holds at the start, when no printer is in put_char. *)
LEMMA InitC == Init => CInv
  <1>1. SUFFICES ASSUME Init PROVE CInv
    OBVIOUS
  <1>2. x = 0 /\ y = 0 /\ x \in Cols /\ y \in Rows
    BY <1>1, ConsoleAssumption DEF Init, Cols, Rows
  <1>3. Typed /\ \A p \in Printers : Local(p)
    BY <1>1, <1>2 DEF Init, Typed, Local, Places, InLine, InChar
  <1>4. QED
    BY <1>1, <1>2, <1>3
    DEF Init, CInv, ColumnPending, RowInv, NewlineAlone, RowPending, LineKnows

(* What every step of a printer has in common.                             *)
Moves(p, here, next) ==
  /\ at[p] = here /\ at'[p] = next
  /\ \A q \in Printers \ {p} : at'[q] = at[q] /\ reg'[q] = reg[q] /\ char'[q] = char[q]
  /\ Typed'

Keeps(p, here, next) ==
  Moves(p, here, next) /\ lines' = lines /\ UNCHANGED char

(* A step of one printer that writes its register at most keeps the types  *)
(* and moves nobody else.                                                  *)
LEMMA StepKeeps ==
  ASSUME Typed, NEW p \in Printers, NEW here, NEW next \in Places, Step(p, here, next),
         x' \in Nat, y' \in Int,
         \/ UNCHANGED reg
         \/ \E v \in Int : reg' = [reg EXCEPT ![p] = v]
  PROVE  Keeps(p, here, next)
  BY DEF Typed, Step, Goto, Keeps, Moves, history

(* A load into a register, of whatever value, does so too and leaves the   *)
(* cursor alone.                                                           *)
LEMMA LoadKeeps ==
  ASSUME Typed, NEW p \in Printers, NEW here, NEW next \in Places, NEW v \in Int,
         Load(p, here, next, v)
  PROVE  Keeps(p, here, next) /\ UNCHANGED cursor /\ reg'[p] = v
  <1>1. Step(p, here, next) /\ reg' = [reg EXCEPT ![p] = v] /\ UNCHANGED <<x, y>>
    BY DEF Load, cursor
  <1>2. x' \in Nat /\ y' \in Int
    BY <1>1 DEF Typed
  <1>3. Keeps(p, here, next)
    BY <1>1, <1>2, StepKeeps
  <1>4. QED
    BY <1>1, <1>3 DEF Typed, cursor

(* The statements of advance_line, as steps between places.                *)
LineEffect(p) ==
  \/ y >= Height - 1 /\ Keeps(p, "line", "scroll1") /\ UNCHANGED <<cursor, reg>>
  \/ y < Height - 1 /\ Keeps(p, "line", "inc") /\ UNCHANGED <<cursor, reg>>
  \/ Keeps(p, "scroll1", "dec") /\ UNCHANGED <<cursor, reg>>
  \/ Keeps(p, "dec", "decreased") /\ UNCHANGED cursor /\ reg'[p] = y - 1
  \/ Keeps(p, "inc", "increased") /\ UNCHANGED cursor /\ reg'[p] = y + 1
  \/ Keeps(p, "decreased", "inc") /\ UNCHANGED <<x, reg>> /\ y' = reg[p]
  \/ Keeps(p, "increased", "home") /\ UNCHANGED <<x, reg>> /\ y' = reg[p]
  \/ Keeps(p, "home", "cursor") /\ UNCHANGED <<y, reg>> /\ x' = 0

(* Those of advance_char_n.                                                *)
CharEffect(p) ==
  \/ Keeps(p, "add", "added") /\ UNCHANGED cursor /\ reg'[p] \in Nat
  \/ Keeps(p, "added", "wrap") /\ UNCHANGED <<y, reg>> /\ x' = reg[p]
  \/ x >= Width /\ Keeps(p, "wrap", "down") /\ UNCHANGED <<cursor, reg>>
  \/ x < Width /\ Keeps(p, "wrap", "cursor") /\ UNCHANGED <<cursor, reg>>
  \/ Keeps(p, "down", "below") /\ UNCHANGED cursor /\ reg'[p] \in Int /\ reg'[p] >= y
  \/ Keeps(p, "below", "last") /\ UNCHANGED <<x, reg>> /\ y' = reg[p]
  \/ y > Height - 1 /\ Keeps(p, "last", "bottom") /\ UNCHANGED <<cursor, reg>>
  \/ y <= Height - 1 /\ Keeps(p, "last", "mod") /\ UNCHANGED <<cursor, reg>>
  \/ Keeps(p, "bottom", "mod") /\ UNCHANGED <<x, reg>> /\ y' = Height - 1
  \/ Keeps(p, "mod", "modulo") /\ UNCHANGED cursor /\ reg'[p] \in Cols
  \/ Keeps(p, "modulo", "cursor") /\ UNCHANGED <<y, reg>> /\ x' = reg[p]

(* Those of put_char and put_char_at, and the return.                      *)
OutsideEffect(p) ==
  \/ /\ \/ Moves(p, "idle", "line") /\ char'[p] = "newline"
        \/ \E next \in {"add", "row"} : Moves(p, "idle", next) /\ char'[p] # "newline"
     /\ UNCHANGED cursor /\ reg'[p] = reg[p]
     /\ ~lines' => ~lines /\ \A q \in Printers \ {p} :
                               at[q] # "idle" => char'[p] # "newline" /\ char[q] # "newline"
  \/ Keeps(p, "row", "column") /\ UNCHANGED <<cursor, reg>>
  \/ Keeps(p, "column", "store") /\ UNCHANGED <<cursor, reg>>
  \/ Keeps(p, "store", "add") /\ UNCHANGED <<cursor, reg>>
  \/ Moves(p, "cursor", "idle") /\ UNCHANGED <<cursor, lines>>

(* advance_line: every statement has one of the effects listed in          *)
(* LineEffect.                                                             *)
LEMMA LineSteps ==
  ASSUME Typed, NEW p \in Printers, AdvanceLine(p), \A q \in Printers : Local(q)
  PROVE  LineEffect(p)
  <1> USE DEF Typed
  <1>1. {"scroll1", "dec", "decreased", "inc", "increased", "home", "cursor"} \subseteq Places
    BY DEF Places, InLine
  <1>2. ASSUME LineTest(p) PROVE LineEffect(p)
    BY <1>1, <1>2, StepKeeps DEF LineTest, Test, Step, LineEffect, cursor
  <1>3. ASSUME LineScroll(p) PROVE LineEffect(p)
    BY <1>1, <1>3, StepKeeps DEF LineScroll, LineEffect, cursor
  <1>4. ASSUME LineDec(p) PROVE LineEffect(p)
    BY <1>1, <1>4, LoadKeeps DEF LineDec, LineEffect
  <1>5. ASSUME LineInc(p) PROVE LineEffect(p)
    BY <1>1, <1>5, LoadKeeps DEF LineInc, LineEffect
  <1>6. ASSUME LineSet(p) PROVE LineEffect(p)
    BY <1>1, <1>6, StepKeeps DEF LineSet, SetRow, SetColumn, LineEffect
  <1>7. QED
    BY <1>2, <1>3, <1>4, <1>5, <1>6 DEF AdvanceLine

(* advance_cursor for a character: every statement has one of the effects  *)
(* listed in CharEffect.                                                   *)
LEMMA CharSteps ==
  ASSUME Typed, NEW p \in Printers, AdvanceChar(p), \A q \in Printers : Local(q)
  PROVE  CharEffect(p)
  <1> USE DEF Typed
  <1>1. {"added", "wrap", "down", "below", "last", "bottom", "mod", "modulo", "cursor"}
          \subseteq Places
    BY DEF Places, InChar
  <1>2. ASSUME Add(p) PROVE CharEffect(p)
    <2>1. x + Columns(p) \in Nat
      BY ConsoleAssumption DEF Columns
    <2>2. CASE Load(p, "add", "added", x + Columns(p))
      BY <1>1, <2>1, <2>2, LoadKeeps DEF CharEffect
    <2>3. CASE SetColumn(p, "added", reg[p])
      <3>1. Step(p, "added", "wrap") /\ x' = reg[p] /\ UNCHANGED <<y, reg>>
        BY <2>3 DEF SetColumn
      <3>2. reg[p] \in Nat
        BY <3>1 DEF Local, Step, Goto
      <3>3. QED
        BY <1>1, <3>1, <3>2, StepKeeps DEF CharEffect
    <2>4. QED
      BY <1>2, <2>2, <2>3 DEF Add
  <1>3. ASSUME WrapTest(p) PROVE CharEffect(p)
    BY <1>1, <1>3, StepKeeps DEF WrapTest, Test, Step, CharEffect, cursor
  <1>4. ASSUME Down(p) PROVE CharEffect(p)
    <2>1. x \div Width \in Nat
      BY ConsoleAssumption, Quotient
    <2>2. CASE Load(p, "down", "below", y + x \div Width)
      <3>1. (y + x \div Width) \in Int /\ (y + x \div Width) >= y
        BY <2>1
      <3>2. QED
        BY <1>1, <2>2, <3>1, LoadKeeps DEF CharEffect
    <2>3. CASE SetRow(p, "below", "last", reg[p])
      BY <1>1, <2>3, StepKeeps DEF SetRow, CharEffect
    <2>4. QED
      BY <1>4, <2>2, <2>3 DEF Down
  <1>5. ASSUME Bottom(p) PROVE CharEffect(p)
    BY <1>1, <1>5, StepKeeps, ConsoleAssumption
    DEF Bottom, Test, SetRow, CharEffect, cursor
  <1>6. ASSUME Mod(p) PROVE CharEffect(p)
    <2>1. x % Width \in Cols
      BY ConsoleAssumption, Quotient DEF Cols
    <2>2. CASE Load(p, "mod", "modulo", x % Width)
      BY <1>1, <2>1, <2>2, LoadKeeps DEF CharEffect, Cols
    <2>3. CASE SetColumn(p, "modulo", reg[p])
      <3>1. Step(p, "modulo", "cursor") /\ x' = reg[p] /\ UNCHANGED <<y, reg>>
        BY <2>3 DEF SetColumn
      <3>2. reg[p] \in Nat
        BY <3>1 DEF Local, Step, Goto, Cols
      <3>3. QED
        BY <1>1, <3>1, <3>2, StepKeeps DEF CharEffect
    <2>4. QED
      BY <1>6, <2>2, <2>3 DEF Mod
  <1>7. QED
    BY <1>2, <1>3, <1>4, <1>5, <1>6 DEF AdvanceChar

(* The call, the argument loads, the store and the return have the effects *)
(* listed in OutsideEffect.                                                *)
LEMMA OutsideSteps ==
  ASSUME Typed, NEW p \in Printers, \A q \in Printers : Local(q),
         \/ \E c \in Chars : PutChar(p, c)
         \/ ArgRow(p) \/ ArgColumn(p) \/ Store(p) \/ UpdateCursor(p)
  PROVE  OutsideEffect(p)
  <1> USE DEF Typed
  <1>1. {"idle", "line", "row", "column", "store", "add"} \subseteq Places
    BY DEF Places, InLine, InChar
  <1>2. ASSUME NEW c \in Chars, PutChar(p, c) PROVE OutsideEffect(p)
    <2>1. PICK next \in {"line", "add", "row"} :
            /\ Goto(p, "idle", next)
            /\ next = "line" <=> c = "newline"
      BY <1>2 DEF PutChar
    <2>2. /\ char' = [char EXCEPT ![p] = c] /\ UNCHANGED <<cursor, reg>>
          /\ lines' = (lines \/ \E q \in Printers \ {p} :
                                  at[q] # "idle" /\ "newline" \in {c, char[q]})
      BY <1>2 DEF PutChar
    <2>3. Moves(p, "idle", next) /\ char'[p] = c
      BY <1>1, <2>1, <2>2 DEF Moves, Goto, cursor
    <2>4. ~lines' => ~lines /\ \A q \in Printers \ {p} :
                               at[q] # "idle" => char'[p] # "newline" /\ char[q] # "newline"
      BY <2>2, <2>3
    <2>5. QED
      BY <2>1, <2>2, <2>3, <2>4 DEF OutsideEffect
  <1>3. ASSUME ArgRow(p) \/ ArgColumn(p) \/ Store(p) PROVE OutsideEffect(p)
    BY <1>1, <1>3
    DEF ArgRow, ArgColumn, Store, Goto, OutsideEffect, Keeps, Moves, cursor, local, history
  <1>4. ASSUME UpdateCursor(p) PROVE OutsideEffect(p)
    BY <1>1, <1>4 DEF UpdateCursor, Goto, OutsideEffect, Moves, cursor, history
  <1>5. QED
    BY <1>2, <1>3, <1>4

-----------------------------------------------------------------------------
(* Each part of the invariant is kept by each kind of step.                *)
Effect(p) == LineEffect(p) \/ CharEffect(p) \/ OutsideEffect(p)

(* No effect disturbs a type. *)
LEMMA KeepsTyped ==
  ASSUME CInv, NEW p \in Printers, Effect(p)
  PROVE  Typed'
  BY DEF Effect, LineEffect, CharEffect, OutsideEffect, Keeps, Moves

(* No effect takes a printer to a place that does not fit what it prints. *)
LEMMA KeepsLocal ==
  ASSUME CInv, NEW p \in Printers, Effect(p)
  PROVE  \A q \in Printers : Local(q)'
  <1>1. \A q \in Printers : Local(q)
    BY DEF CInv
  <1>2. ASSUME NEW q \in Printers, q # p PROVE Local(q)'
    <2>1. at'[q] = at[q] /\ reg'[q] = reg[q] /\ char'[q] = char[q]
      BY <1>2 DEF Effect, LineEffect, CharEffect, OutsideEffect, Keeps, Moves
    <2>2. QED
      BY <1>1, <2>1 DEF Local
  <1>3. Local(p)'
    <2>1. CASE LineEffect(p)
      BY <1>1, <2>1 DEF LineEffect, Keeps, Moves, Local, InLine, InChar
    <2>2. CASE CharEffect(p)
      BY <1>1, <2>2 DEF CharEffect, Keeps, Moves, Local, InLine, InChar
    <2>3. CASE OutsideEffect(p)
      BY <1>1, <2>3 DEF OutsideEffect, Keeps, Moves, Local, InLine, InChar
    <2>4. QED
      BY <2>1, <2>2, <2>3 DEF Effect
  <1>4. QED
    BY <1>2, <1>3

(* A column that an effect moves out of the row leaves a printer behind    *)
(* that will bring it back.                                                *)
LEMMA KeepsColumn ==
  ASSUME CInv, NEW p \in Printers, Effect(p)
  PROVE  ColumnPending'
  <1>1. x \in Nat /\ ColumnPending /\ Local(p) /\ Width \in Nat \ {0}
    BY ConsoleAssumption DEF CInv, Typed
  <1>2. \A q \in Printers \ {p} : at'[q] = at[q]
    BY DEF Effect, LineEffect, CharEffect, OutsideEffect, Keeps, Moves
  <1>3. CASE at'[p] \in BringsColumn
    BY <1>3 DEF ColumnPending
  <1>4. CASE at'[p] \notin BringsColumn
    <2>1. \/ x' \in Cols
          \/ x' = x /\ at[p] \notin BringsColumn
      <3>1. CASE LineEffect(p)
        BY <1>1, <3>1 DEF LineEffect, Keeps, Moves, BringsColumn, cursor, Cols
      <3>2. CASE CharEffect(p)
        BY <1>1, <1>4, <3>2 DEF CharEffect, Keeps, Moves, Local, BringsColumn, cursor, Cols
      <3>3. CASE OutsideEffect(p)
        BY <1>1, <3>3 DEF OutsideEffect, Keeps, Moves, BringsColumn, cursor
      <3>4. QED
        BY <3>1, <3>2, <3>3 DEF Effect
    <2>2. QED
      BY <1>1, <1>2, <2>1 DEF ColumnPending, Cols
  <1>5. QED
    BY <1>3, <1>4

(* With ~lines a printer in the middle of a newline is alone, and while    *)
(* one prints something else nobody is in the middle of a newline.         *)
LEMMA Company ==
  ASSUME CInv, ~lines, NEW p \in Printers, at[p] # "idle", NEW q \in Printers, q # p
  PROVE  /\ at[q] \notin InLine
         /\ char[p] = "newline" => at[q] = "idle"
  <1>1. NewlineAlone /\ Local(q)
    BY DEF CInv, RowInv
  <1>2. QED
    BY <1>1 DEF NewlineAlone, Local, InLine

(* The same for the row, as long as no newline overlaps. *)
LEMMA KeepsRow ==
  ASSUME CInv, NEW p \in Printers, Effect(p)
  PROVE  RowInv'
  <1>1. SUFFICES ASSUME ~lines' PROVE (NewlineAlone /\ RowPending)' /\ \A q \in Printers : LineKnows(q)'
    BY DEF RowInv
  <1>2. ~lines
    BY <1>1 DEF Effect, LineEffect, CharEffect, OutsideEffect, Keeps
  <1>3. /\ NewlineAlone /\ RowPending /\ \A q \in Printers : LineKnows(q) /\ Local(q)
        /\ y \in Int /\ Height \in Nat \ {0} /\ Typed /\ Typed'
    BY <1>2, KeepsTyped, ConsoleAssumption DEF CInv, RowInv, Typed
  <1>4. \A q \in Printers \ {p} : at'[q] = at[q] /\ reg'[q] = reg[q] /\ char'[q] = char[q]
    BY DEF Effect, LineEffect, CharEffect, OutsideEffect, Keeps, Moves
  <1>5. CASE LineEffect(p)
    <2>1. at[p] \in InLine /\ char[p] = "newline" /\ at[p] # "idle"
      BY <1>3, <1>5 DEF LineEffect, Keeps, Moves, InLine, Local
    <2>2. \A q \in Printers \ {p} : at[q] = "idle" /\ at'[q] = "idle"
      BY <1>2, <1>4, <2>1, Company
    <2>3. NewlineAlone'
      BY <2>2 DEF NewlineAlone
    <2>4. LineKnows(p)'
      BY <1>3, <1>5 DEF LineEffect, Keeps, Moves, LineKnows, cursor, Rows
    <2>5. \A q \in Printers : LineKnows(q)'
      BY <2>2, <2>4 DEF LineKnows
    <2>6. y' \in Rows \/ at'[p] \in {"inc", "increased"}
      <3>1. y \in Rows \/ at[p] \in {"inc", "increased"}
        BY <2>1, <2>2, <1>3 DEF RowPending, InLine
      <3>2. QED
        BY <1>3, <1>5, <3>1 DEF LineEffect, Keeps, Moves, LineKnows, cursor, Rows
    <2>7. RowPending'
      BY <1>5, <2>2, <2>6 DEF RowPending, LineEffect, Keeps, Moves
    <2>8. QED
      BY <2>3, <2>5, <2>7
  <1>6. CASE CharEffect(p)
    <2>1. at[p] \in InChar /\ char[p] # "newline" /\ char'[p] = char[p] /\ at[p] # "idle"
      BY <1>3, <1>6 DEF CharEffect, Keeps, Moves, InChar, Local
    <2>2. \A q \in Printers : at[q] \notin InLine /\ at'[q] \notin InLine
      <3>1. at[p] \notin InLine /\ at'[p] \notin InLine
        BY <1>6, <2>1 DEF CharEffect, Keeps, Moves, InChar, InLine
      <3>2. QED
        BY <1>2, <1>4, <2>1, <3>1, Company
    <2>3. NewlineAlone'
      BY <1>3, <1>4, <2>1 DEF NewlineAlone
    <2>4. \A q \in Printers : LineKnows(q)'
      BY <2>2 DEF LineKnows, InLine
    <2>5. y \in Nat
      BY <1>3, <2>2 DEF RowPending, InLine, Rows
    <2>6. RowPending'
      <3>1. ASSUME NEW q \in Printers, at'[q] = "below" PROVE reg'[q] \in Nat
        <4>1. CASE q # p
          BY <1>3, <1>4, <3>1, <4>1 DEF RowPending
        <4>2. CASE q = p
          BY <1>6, <2>5, <3>1, <4>2 DEF CharEffect, Keeps, Moves
        <4>3. QED
          BY <4>1, <4>2
      <3>2. \/ y' \in Rows
            \/ at'[p] \in {"last", "bottom"} /\ y' >= Height
            \/ y' = y /\ ~(at[p] \in {"last", "bottom"} /\ y >= Height)
        BY <1>3, <1>6, <2>5 DEF CharEffect, Keeps, Moves, cursor, Rows, RowPending
      <3>3. QED
        BY <1>3, <1>4, <2>2, <3>1, <3>2 DEF RowPending, InLine
    <2>7. QED
      BY <2>3, <2>4, <2>6
  <1>7. CASE OutsideEffect(p)
    <2>1. y' = y
      BY <1>7 DEF OutsideEffect, cursor
    <2>2. NewlineAlone'
      <3>1. CASE at[p] = "idle"
        BY <1>1, <1>3, <1>4, <1>7, <3>1 DEF OutsideEffect, Keeps, Moves, NewlineAlone
      <3>2. CASE at[p] # "idle"
        BY <1>3, <1>4, <1>7, <3>2 DEF OutsideEffect, Keeps, Moves, NewlineAlone
      <3>3. QED
        BY <3>1, <3>2
    <2>3. RowPending'
      BY <1>3, <1>4, <1>7, <2>1 DEF OutsideEffect, Keeps, Moves, RowPending
    <2>4. LineKnows(p)'
      <3>1. CASE at'[p] = "line"
        <4>1. char'[p] = "newline" /\ at[p] = "idle"
          BY <1>7, <3>1 DEF OutsideEffect, Keeps, Moves
        <4>2. \A q \in Printers \ {p} : at[q] = "idle"
          BY <1>1, <1>7, <3>1, <4>1 DEF OutsideEffect, Keeps, Moves
        <4>3. y \in Rows
          BY <1>3, <4>1, <4>2 DEF RowPending
        <4>4. QED
          BY <2>1, <3>1, <4>3 DEF LineKnows
      <3>2. CASE at'[p] # "line"
        BY <1>7, <3>2 DEF OutsideEffect, Keeps, Moves, LineKnows
      <3>3. QED
        BY <3>1, <3>2
    <2>5. ASSUME NEW q \in Printers, q # p PROVE LineKnows(q)'
      BY <1>3, <1>4, <2>1, <2>5 DEF LineKnows
    <2>6. QED
      BY <2>2, <2>3, <2>4, <2>5
  <1>8. QED
    BY <1>5, <1>6, <1>7 DEF Effect

(* Every step of any printer preserves the invariant. *)
LEMMA StepC == CInv /\ [Next]_vars => CInv'
  <1>1. ASSUME CInv, Next PROVE CInv'
    <2>1. PICK p \in Printers : Effect(p)
      BY <1>1, LineSteps, CharSteps, OutsideSteps DEF CInv, Next, Effect
    <2>2. QED
      BY <1>1, <2>1, KeepsTyped, KeepsLocal, KeepsColumn, KeepsRow DEF CInv
  <1>2. ASSUME CInv, UNCHANGED vars PROVE CInv'
    BY <1>2
    DEF CInv, Typed, Local, ColumnPending, RowInv, NewlineAlone, RowPending, LineKnows,
        vars, cursor, local, history
  <1>3. QED
    BY <1>1, <1>2

(* However many printers overlap, put_char leaves the column in the row    *)
(* when the last of them returns, and the row on the screen if no newline  *)
(* was among what overlapped.                                              *)
THEOREM CursorReturns == Spec => []CursorComesBack
  <1>1. CInv => CursorComesBack
    BY DEF CInv, ColumnPending, RowInv, RowPending, CursorComesBack, Quiet, BringsColumn
  <1>2. QED
    BY <1>1, InitC, StepC, PTL DEF Spec

-----------------------------------------------------------------------------
(* What the screen shows while a single printer is at work.  A place is a  *)
(* cell of the page without end that Place counts in.                      *)
Row(place) == place \div Width
Col(place) == place % Width

(* The row of that page which the screen's first row shows. *)
Top(row) == IF row < Height THEN 0 ELSE row - (Height - 1)

(* The screen shows the page from row top on, but for the cell hole.       *)
ShowsBut(top, hole) ==
  \A r \in Rows, c \in Cols :
    LET cell == (top + r) * Width + c
    IN  cell # hole => video[r][c] = CellOnPage(cell)

NoHole == -1
Shows(top) == ShowsBut(top, NoHole)

(* Nobody is in put_char. *)
Settled ==
  LET after == Place[Len(text)]
      top   == Top(Row(after))
  IN  /\ x = Col(after) /\ y = Row(after) - top
      /\ vga = y * Width + x
      /\ Shows(top)

(* The last character of the text is on its way from one place, before, to *)
(* the next, after.                                                        *)
Before == Place[Len(text) - 1]
After  == Place[Len(text)]

OldRow  == Row(Before)
NewRow  == Row(After)
OldTop  == Top(OldRow)
NewTop  == Top(NewRow)
Wide(p) == Col(Before) + Columns(p)

(* The cursor has not moved yet, *)
Unmoved == x = Col(Before) /\ y = OldRow - OldTop

(* or it has moved along the row and out of it. *)
Moved(p) == x = Wide(p) /\ Wide(p) >= Width

(* What each statement finds. *)
Finds(p, here) ==
  CASE here \in {"row", "column", "store"} ->
         /\ Unmoved /\ char[p] \in Letters /\ ShowsBut(OldTop, Before)
         /\ here # "row" => arg[p].y = y
         /\ here = "store" => arg[p].x = x
    [] here \in {"add", "line"} -> Unmoved /\ Shows(OldTop)
    [] here = "added"     -> Unmoved /\ Shows(OldTop) /\ reg[p] = Wide(p)
    [] here = "wrap"      -> x = Wide(p) /\ y = OldRow - OldTop /\ Shows(OldTop)
    [] here = "down"      -> Moved(p) /\ y = OldRow - OldTop /\ Shows(OldTop)
    [] here = "below"     -> Moved(p) /\ reg[p] = NewRow - OldTop /\ Shows(OldTop)
    [] here = "last"      -> Moved(p) /\ y = NewRow - OldTop /\ Shows(OldTop)
    [] here = "bottom"    -> Moved(p) /\ NewRow >= Height /\ Shows(NewTop)
    [] here = "mod"       -> Moved(p) /\ y = NewRow - NewTop /\ Shows(NewTop)
    [] here = "modulo"    -> reg[p] = Col(After) /\ y = NewRow - NewTop /\ Shows(NewTop)
    [] here = "cursor"    -> x = Col(After) /\ y = NewRow - NewTop /\ Shows(NewTop)
    [] here = "scroll1"   -> y = Height - 1 /\ y = OldRow - OldTop /\ Shows(OldTop)
    [] here = "dec"       -> y = Height - 1 /\ NewRow >= Height /\ Shows(NewTop)
    [] here = "decreased" -> reg[p] = Height - 2 /\ NewRow >= Height /\ Shows(NewTop)
    [] here = "inc"       -> y = NewRow - 1 - NewTop /\ Shows(NewTop)
    [] here = "increased" -> reg[p] = NewRow - NewTop /\ Shows(NewTop)
    [] here = "home"      -> y = NewRow - NewTop /\ Shows(NewTop)

Printing(p) == Len(text) > 0 /\ text[Len(text)] = char[p] /\ Finds(p, at[p])

TextTyped ==
  /\ text \in Seq(Chars) /\ Len(text) <= MaxText
  /\ Len(text) <= count /\ count \in Nat
  /\ video \in [Rows -> [Cols -> Chars \cup {Blank}]]
  /\ arg \in [Printers -> [x : Nat, y : Int]]

(* One printer at most, and the screen is in step with it. *)
InStep ==
  /\ ~fault
  /\ \A p, q \in Printers : at[p] # "idle" /\ at[q] # "idle" => p = q
  /\ (\A p \in Printers : at[p] = "idle") => Settled
  /\ \A p \in Printers : at[p] # "idle" => Printing(p)

SInv == TextTyped /\ (~mixed => InStep)

-----------------------------------------------------------------------------
(* Numbers: a set of them that is not empty has a least one.               *)
LEMMA Least ==
  ASSUME NEW S \in SUBSET Nat, S # {}
  PROVE  \E n \in S : \A m \in S : n <= m
  <1>1. PICK n \in S : \A m \in S : ~ (<<m, n>> \in OpToRel(<, Nat))
    BY NatLessThanWellFounded, WFMin
  <1>2. \A m \in S : ~ (m < n)
    BY <1>1 DEF OpToRel
  <1>3. QED
    BY <1>2

(* A set that has 0, and with each number up to a bound the next, has them *)
(* all up to the bound: induction, for a property that is given as a set.  *)
LEMMA Induction ==
  ASSUME NEW M \in Nat, NEW S, 0 \in S,
         \A n \in 0 .. M - 1 : n \in S => n + 1 \in S
  PROVE  0 .. M \subseteq S
  <1>1. SUFFICES ASSUME (0 .. M) \ S # {} PROVE FALSE
    OBVIOUS
  <1>2. PICK n \in (0 .. M) \ S : \A m \in (0 .. M) \ S : n <= m
    <2>1. (0 .. M) \ S \in SUBSET Nat
      OBVIOUS
    <2>2. QED
      BY <1>1, <2>1, Least
  <1>3. n - 1 \in 0 .. M - 1 /\ n - 1 \notin (0 .. M) \ S
    BY <1>2
  <1>4. QED
    BY <1>2, <1>3

(* What is known of the sizes. *)
LEMMA Sizes ==
  /\ Width \in Nat \ {0} /\ Height \in Nat \ {0} /\ MaxText \in Nat
  /\ Tab \in Nat /\ Tab > 0 /\ Tab <= Width
  BY ConsoleAssumption

(* A place is its row and its column, in this way only.                    *)
LEMMA Split ==
  ASSUME NEW place \in Nat
  PROVE  /\ Row(place) \in Nat /\ Col(place) \in Cols /\ Col(place) \in Nat
         /\ place = Row(place) * Width + Col(place)
  BY Sizes DEF Row, Col, Cols

(* A row and a column in it make one place, and are got back from it.      *)
LEMMA Put ==
  ASSUME NEW row \in Nat, NEW c \in Cols
  PROVE  /\ row * Width + c \in Nat
         /\ Row(row * Width + c) = row /\ Col(row * Width + c) = c
  <1>1. /\ Width \in Nat \ {0} /\ c \in Nat /\ c < Width
    BY Sizes DEF Cols
  <1>2. \A q \in Nat, d \in Nat \ {0}, r \in Nat :
           r < d => (q * d + r) \div d = q /\ (q * d + r) % d = r /\ q * d + r \in Nat
    BY SMTT(30)
  <1>3. QED
    BY <1>1, <1>2 DEF Row, Col

(* A column behind the row's end is carried into the rows below.           *)
LEMMA Carry ==
  ASSUME NEW row \in Nat, NEW c \in Nat
  PROVE  /\ row * Width + c \in Nat
         /\ Row(row * Width + c) = row + Row(c) /\ Col(row * Width + c) = Col(c)
         /\ Row(c) \in Nat /\ Col(c) \in Cols
         /\ c < Width => Row(c) = 0 /\ Col(c) = c
         /\ c >= Width => Row(c) >= 1
  <1>1. /\ Row(c) \in Nat /\ Col(c) \in Cols /\ Col(c) \in Nat
        /\ c = Row(c) * Width + Col(c)
    BY Split
  <1>2. row * Width + c = (row + Row(c)) * Width + Col(c)
    <2>1. \A a, b, w, d \in Nat : a * w + (b * w + d) = (a + b) * w + d
      BY SMTT(30)
    <2>2. row * Width + (Row(c) * Width + Col(c)) = (row + Row(c)) * Width + Col(c)
      BY <1>1, <2>1, Sizes
    <2>3. QED
      BY <1>1, <2>2, Zenon
  <1>3. row + Row(c) \in Nat
    BY <1>1
  <1>4. c < Width => Row(c) = 0 /\ Col(c) = c
    BY Sizes DEF Row, Col
  <1>5. c >= Width => Row(c) >= 1
    <2>1. Row(c) = 0 => c = Col(c)
      BY <1>1, Sizes, SMTT(20)
    <2>2. QED
      BY <1>1, <2>1, Sizes DEF Cols
  <1>6. QED
    BY <1>1, <1>2, <1>3, <1>4, <1>5, Put

(* A place in a row further down is further on.                            *)
LEMMA Below ==
  ASSUME NEW p \in Nat, NEW q \in Nat, Row(p) < Row(q)
  PROVE  p < q
  <1>1. \A a, b \in Nat, w \in Nat \ {0} : \A c, d \in 0 .. w - 1 :
          a < b => a * w + c < b * w + d
    <2>1. SUFFICES ASSUME NEW a \in Nat, NEW b \in Nat, NEW w \in Nat \ {0},
                          NEW c \in 0 .. w - 1, NEW d \in 0 .. w - 1, a < b
                   PROVE  a * w + c < b * w + d
      OBVIOUS
    <2>2. PICK e \in Nat : b = a + 1 + e
      <3>1. b - a - 1 \in Nat /\ b = a + 1 + (b - a - 1)
        BY <2>1
      <3>2. QED
        BY <3>1
    <2>3. b * w = a * w + w + e * w /\ a * w \in Nat /\ e * w \in Nat
      BY <2>2, SMTT(30)
    <2>4. QED
      BY <2>3
  <1>2. /\ Row(p) \in Nat /\ Col(p) \in 0 .. Width - 1 /\ p = Row(p) * Width + Col(p)
        /\ Row(q) \in Nat /\ Col(q) \in 0 .. Width - 1 /\ q = Row(q) * Width + Col(q)
    BY Split DEF Cols
  <1>3. Row(p) * Width + Col(p) < Row(q) * Width + Col(q)
    BY <1>1, <1>2, Sizes
  <1>4. QED
    BY <1>2, <1>3, Zenon

-----------------------------------------------------------------------------
(* Place, of any text. *)
Advance(c, place) ==
  CASE c = "newline" -> (place \div Width + 1) * Width
    [] c = "tab"     -> place + Tab
    [] OTHER         -> place + 1

PlaceOf(t) ==
  CHOOSE place : place = [k \in 0 .. MaxText |->
    IF k = 0 THEN 0 ELSE Advance(t[k], place[k - 1])]

(* Such a function exists up to any length, by induction, so that the      *)
(* recursion of Place defines one.                                         *)
LEMMA PlaceExists ==
  ASSUME NEW t
  PROVE  \E place : place = [k \in 0 .. MaxText |->
                      IF k = 0 THEN 0 ELSE Advance(t[k], place[k - 1])]
  <1> DEFINE IsPlace(f, n) == f = [k \in 0 .. n |-> IF k = 0 THEN 0 ELSE Advance(t[k], f[k - 1])]
             S == {n \in Nat : \E f : IsPlace(f, n)}
  <1>1. 0 \in S
    <2>1. IsPlace([k \in 0 .. 0 |-> 0], 0)
      OBVIOUS
    <2>2. QED
      BY <2>1
  <1>2. ASSUME NEW n \in 0 .. MaxText - 1, n \in S PROVE n + 1 \in S
    <2>1. n \in Nat
      BY Sizes
    <2>2. PICK f : IsPlace(f, n)
      BY <1>2
    <2> DEFINE g == [k \in 0 .. n + 1 |-> IF k = 0 THEN 0 ELSE Advance(t[k], f[k - 1])]
    <2>3. \A k \in 0 .. n : g[k] = f[k]
      BY <2>1, <2>2
    <2>4. ASSUME NEW k \in 0 .. n + 1 PROVE g[k] = IF k = 0 THEN 0 ELSE Advance(t[k], g[k - 1])
      <3>1. CASE k = 0
        BY <3>1, <2>1
      <3>2. CASE k # 0
        <4>1. k - 1 \in 0 .. n
          BY <3>2, <2>1
        <4>2. g[k - 1] = f[k - 1]
          BY <4>1, <2>3
        <4>3. g[k] = Advance(t[k], f[k - 1])
          BY <3>2
        <4>4. QED
          BY <3>2, <4>2, <4>3
      <3>3. QED
        BY <3>1, <3>2
    <2>5. g = [k \in 0 .. n + 1 |-> IF k = 0 THEN 0 ELSE Advance(t[k], g[k - 1])]
      <3> HIDE DEF g
      <3>1. \A k \in 0 .. n + 1 : g[k] = IF k = 0 THEN 0 ELSE Advance(t[k], g[k - 1])
        BY <2>4
      <3>2. g = [k \in 0 .. n + 1 |-> g[k]]
        BY DEF g
      <3>3. QED
        BY <3>1, <3>2
    <2>6. IsPlace(g, n + 1)
      BY <2>5
    <2>7. n + 1 \in Nat
      BY <2>1
    <2>8. QED
      <3> HIDE DEF IsPlace, g
      <3>1. QED
        BY <2>6, <2>7
  <1>3. MaxText \in S
    <2> HIDE DEF S
    <2>1. 0 .. MaxText \subseteq S
      BY <1>1, <1>2, Sizes, Induction
    <2>2. QED
      BY <2>1, Sizes
  <1>4. QED
    BY <1>3

(* A character takes the cursor onwards. *)
LEMMA Onwards ==
  ASSUME NEW c, NEW place \in Nat
  PROVE  Advance(c, place) \in Nat /\ place < Advance(c, place)
  <1>1. CASE c = "newline"
    <2>1. Row(place) + 1 \in Nat /\ 0 \in Cols
      BY Split, Sizes DEF Cols
    <2>2. /\ (Row(place) + 1) * Width + 0 \in Nat
          /\ Row((Row(place) + 1) * Width + 0) = Row(place) + 1
      BY <2>1, Put
    <2>3. (Row(place) + 1) * Width \in Nat
      BY <2>1, Sizes, SMTT(20)
    <2>4. (Row(place) + 1) * Width + 0 = (Row(place) + 1) * Width
      BY <2>3
    <2>5. Row(place) \in Nat /\ Row(place) < Row((Row(place) + 1) * Width)
      BY <2>2, <2>4, Split
    <2>6. QED
      BY <1>1, <2>3, <2>5, Below DEF Advance, Row
  <1>2. CASE c # "newline"
    BY <1>2, Sizes DEF Advance
  <1>3. QED
    BY <1>1, <1>2

(* Place starts at the first cell, and each character advances it. *)
LEMMA PlaceSteps ==
  ASSUME NEW t
  PROVE  /\ PlaceOf(t)[0] = 0
         /\ \A k \in 1 .. MaxText : PlaceOf(t)[k] = Advance(t[k], PlaceOf(t)[k - 1])
  <1> DEFINE P == PlaceOf(t)
  <1>1. P = [k \in 0 .. MaxText |-> IF k = 0 THEN 0 ELSE Advance(t[k], P[k - 1])]
    BY PlaceExists DEF PlaceOf
  <1> HIDE DEF P
  <1>2. P[0] = 0
    BY <1>1, Sizes
  <1>3. ASSUME NEW k \in 1 .. MaxText PROVE P[k] = Advance(t[k], P[k - 1])
    BY <1>1, Sizes
  <1>4. QED
    BY <1>2, <1>3 DEF P

(* Every place is a number. *)
LEMMA PlaceNat ==
  ASSUME NEW t
  PROVE  \A k \in 0 .. MaxText : PlaceOf(t)[k] \in Nat
  <1> DEFINE S == {k \in Nat : PlaceOf(t)[k] \in Nat}
  <1>1. 0 \in S
    BY PlaceSteps
  <1>2. ASSUME NEW n \in 0 .. MaxText - 1, n \in S PROVE n + 1 \in S
    <2>1. n + 1 \in 1 .. MaxText /\ (n + 1) - 1 = n
      BY Sizes
    <2>2. PlaceOf(t)[n + 1] = Advance(t[n + 1], PlaceOf(t)[n])
      BY <2>1, PlaceSteps
    <2>3. QED
      BY <1>2, <2>1, <2>2, Onwards
  <1>3. 0 .. MaxText \subseteq S
    <2> HIDE DEF S
    <2>1. QED
      BY <1>1, <1>2, Sizes, Induction
  <1>4. QED
    BY <1>3

(* No two characters have the same place: places grow. *)
LEMMA PlacesGrow ==
  ASSUME NEW t, NEW j \in 0 .. MaxText
  PROVE  \A k \in 0 .. MaxText : j < k => PlaceOf(t)[j] < PlaceOf(t)[k]
  <1> DEFINE S == {k \in Nat : j < k => PlaceOf(t)[j] < PlaceOf(t)[k]}
  <1>1. 0 \in S
    OBVIOUS
  <1>2. ASSUME NEW n \in 0 .. MaxText - 1, n \in S PROVE n + 1 \in S
    <2>1. n + 1 \in 1 .. MaxText /\ (n + 1) - 1 = n /\ n \in 0 .. MaxText /\ n + 1 \in 0 .. MaxText
      BY Sizes
    <2>2. PlaceOf(t)[n + 1] = Advance(t[n + 1], PlaceOf(t)[n])
      BY <2>1, PlaceSteps
    <2>3. PlaceOf(t)[n] \in Nat /\ PlaceOf(t)[j] \in Nat /\ PlaceOf(t)[n + 1] \in Nat
      BY <2>1, PlaceNat
    <2>4. PlaceOf(t)[n] < PlaceOf(t)[n + 1]
      BY <2>2, <2>3, Onwards
    <2>5. j < n + 1 => j < n \/ j = n
      BY <2>1
    <2>6. QED
      BY <1>2, <2>1, <2>3, <2>4, <2>5
  <1>3. 0 .. MaxText \subseteq S
    <2> HIDE DEF S
    <2>1. QED
      BY <1>1, <1>2, Sizes, Induction
  <1>4. QED
    BY <1>3

(* What is appended to a text leaves the places in it alone. *)
LEMMA PlacesStay ==
  ASSUME NEW t \in Seq(Chars), NEW c \in Chars, Len(t) < MaxText
  PROVE  \A k \in 0 .. Len(t) : PlaceOf(Append(t, c))[k] = PlaceOf(t)[k]
  <1> DEFINE S == {k \in Nat : PlaceOf(Append(t, c))[k] = PlaceOf(t)[k]}
  <1>1. 0 \in S
    BY PlaceSteps
  <1>2. ASSUME NEW n \in 0 .. Len(t) - 1, n \in S PROVE n + 1 \in S
    <2>1. /\ n + 1 \in 1 .. MaxText /\ (n + 1) - 1 = n /\ n + 1 \in Nat
          /\ n + 1 \in 1 .. Len(t)
      BY Sizes
    <2>2. Append(t, c)[n + 1] = t[n + 1]
      BY <2>1
    <2>3. /\ PlaceOf(t)[n + 1] = Advance(t[n + 1], PlaceOf(t)[n])
          /\ PlaceOf(Append(t, c))[n + 1] = Advance(Append(t, c)[n + 1], PlaceOf(Append(t, c))[n])
      <3> HIDE DEF S
      <3>1. QED
        BY <2>1, PlaceSteps
    <2>4. QED
      BY <1>2, <2>1, <2>2, <2>3
  <1>3. 0 .. Len(t) \subseteq S
    <2>1. Len(t) \in Nat
      OBVIOUS
    <2> HIDE DEF S
    <2>2. QED
      BY <1>1, <1>2, <2>1, Induction
  <1>4. QED
    BY <1>3

-----------------------------------------------------------------------------
(* The page, of any text. *)
Printed(t, cell) ==
  LET here == {k \in DOMAIN t : t[k] \in Letters /\ PlaceOf(t)[k - 1] = cell}
  IN  IF here = {} THEN Blank ELSE t[CHOOSE k \in here : TRUE]

(* A letter is at its place,                                               *)
LEMMA LetterPrinted ==
  ASSUME NEW t \in Seq(Chars), Len(t) <= MaxText, NEW k \in 1 .. Len(t), t[k] \in Letters
  PROVE  Printed(t, PlaceOf(t)[k - 1]) = t[k]
  <1> DEFINE here == {j \in DOMAIN t : t[j] \in Letters /\ PlaceOf(t)[j - 1] = PlaceOf(t)[k - 1]}
             i == CHOOSE j \in here : TRUE
  <1>1. k \in here
    OBVIOUS
  <1>2. i \in here
    BY <1>1
  <1>3. i = k
    <2>1. i \in 1 .. Len(t) /\ PlaceOf(t)[i - 1] = PlaceOf(t)[k - 1]
      <3> HIDE DEF i
      <3>1. QED
        BY <1>2
    <2> HIDE DEF i
    <2>2. i - 1 \in 0 .. MaxText /\ k - 1 \in 0 .. MaxText
      BY <2>1, Sizes
    <2>3. PlaceOf(t)[i - 1] \in Nat /\ PlaceOf(t)[k - 1] \in Nat
      BY <2>2, PlaceNat
    <2>4. ~(i - 1 < k - 1) /\ ~(k - 1 < i - 1)
      BY <2>1, <2>2, <2>3, PlacesGrow
    <2>5. QED
      BY <2>1, <2>4
  <1>4. Printed(t, PlaceOf(t)[k - 1]) = t[i]
    BY <1>1 DEF Printed
  <1> HIDE DEF i
  <1>5. QED
    BY <1>3, <1>4

(* and nothing is where no letter has its place. *)
LEMMA NothingPrinted ==
  ASSUME NEW t \in Seq(Chars), NEW cell,
         \A k \in 1 .. Len(t) : t[k] \in Letters => PlaceOf(t)[k - 1] # cell
  PROVE  Printed(t, cell) = Blank
  BY DEF Printed

(* Behind the last character's place the page is empty. *)
LEMMA NothingAhead ==
  ASSUME NEW t \in Seq(Chars), Len(t) > 0, Len(t) <= MaxText,
         NEW cell \in Nat, PlaceOf(t)[Len(t) - 1] < cell
  PROVE  Printed(t, cell) = Blank
  <1>1. ASSUME NEW k \in 1 .. Len(t) PROVE PlaceOf(t)[k - 1] < cell
    <2>1. k - 1 \in 0 .. MaxText /\ Len(t) - 1 \in 0 .. MaxText
      BY Sizes
    <2>2. PlaceOf(t)[k - 1] \in Nat /\ PlaceOf(t)[Len(t) - 1] \in Nat
      BY <2>1, PlaceNat
    <2>3. k - 1 = Len(t) - 1 \/ PlaceOf(t)[k - 1] < PlaceOf(t)[Len(t) - 1]
      BY <2>1, PlacesGrow
    <2>4. QED
      BY <2>2, <2>3
  <1>2. \A k \in 1 .. Len(t) : PlaceOf(t)[k - 1] # cell
    <2>1. ASSUME NEW k \in 1 .. Len(t) PROVE PlaceOf(t)[k - 1] # cell
      BY <1>1
    <2>2. QED
      BY <2>1
  <1>3. QED
    BY <1>2, NothingPrinted

(* One more character prints one cell, if it is a letter. *)
LEMMA OneMore ==
  ASSUME NEW t \in Seq(Chars), NEW c \in Chars, Len(t) < MaxText, NEW cell
  PROVE  Printed(Append(t, c), cell) =
           IF c \in Letters /\ cell = PlaceOf(t)[Len(t)] THEN c ELSE Printed(t, cell)
  <1> DEFINE u == Append(t, c)
  <1>1. /\ u \in Seq(Chars) /\ Len(u) = Len(t) + 1 /\ Len(u) <= MaxText /\ Len(t) \in Nat
        /\ u[Len(u)] = c /\ \A k \in 1 .. Len(t) : u[k] = t[k]
        /\ Len(t) <= MaxText
    BY Sizes
  <1>2. \A k \in 0 .. Len(t) : PlaceOf(u)[k] = PlaceOf(t)[k]
    BY PlacesStay
  <1> HIDE DEF u
  <1>3. CASE c \in Letters /\ cell = PlaceOf(t)[Len(t)]
    <2>1. Len(u) \in 1 .. Len(u) /\ PlaceOf(u)[Len(u) - 1] = cell
      BY <1>1, <1>2, <1>3
    <2>2. Printed(u, cell) = c
      BY <1>1, <1>3, <2>1, LetterPrinted
    <2>3. QED
      BY <1>3, <2>2 DEF u
  <1>4. CASE ~(c \in Letters /\ cell = PlaceOf(t)[Len(t)])
    <2>1. CASE \E k \in 1 .. Len(t) : t[k] \in Letters /\ PlaceOf(t)[k - 1] = cell
      <3>1. PICK k \in 1 .. Len(t) : t[k] \in Letters /\ PlaceOf(t)[k - 1] = cell
        BY <2>1
      <3>2. k \in 1 .. Len(u) /\ k - 1 \in 0 .. Len(t) /\ u[k] = t[k]
        BY <1>1
      <3>3. Printed(t, cell) = t[k]
        BY <1>1, <3>1, LetterPrinted
      <3>4. Printed(u, cell) = t[k]
        BY <1>1, <1>2, <3>1, <3>2, LetterPrinted
      <3>5. QED
        BY <1>4, <3>3, <3>4 DEF u
    <2>2. CASE \A k \in 1 .. Len(t) : t[k] \in Letters => PlaceOf(t)[k - 1] # cell
      <3>1. Printed(t, cell) = Blank
        BY <2>2, NothingPrinted
      <3>2. ASSUME NEW k \in 1 .. Len(u), u[k] \in Letters PROVE PlaceOf(u)[k - 1] # cell
        <4>1. k - 1 \in 0 .. Len(t) /\ PlaceOf(u)[k - 1] = PlaceOf(t)[k - 1]
          BY <1>1, <1>2
        <4>2. CASE k = Len(u)
          BY <1>1, <1>4, <3>2, <4>1, <4>2
        <4>3. CASE k # Len(u)
          <5>1. k \in 1 .. Len(t)
            BY <1>1, <4>3
          <5>2. QED
            BY <1>1, <2>2, <3>2, <4>1, <5>1
        <4>4. QED
          BY <4>2, <4>3
      <3>3. Printed(u, cell) = Blank
        BY <1>1, <3>2, NothingPrinted
      <3>4. QED
        BY <1>4, <3>1, <3>3 DEF u
    <2>3. QED
      BY <2>1, <2>2
  <1>5. QED
    BY <1>3, <1>4

(* Place and CellOnPage are those of the text, in each state and the next. *)
LEMMA OfText ==
  /\ Place = PlaceOf(text) /\ Place' = PlaceOf(text')
  /\ \A cell : CellOnPage(cell) = Printed(text, cell)
  /\ \A cell : CellOnPage(cell)' = Printed(text', cell)
  <1>1. Place = PlaceOf(text) /\ Place' = PlaceOf(text')
    BY DEF Place, PlaceOf, Advance
  <1>2. \A cell : CellOnPage(cell) = Printed(text, cell)
    BY <1>1 DEF CellOnPage, Printed
  <1>3. \A cell : CellOnPage(cell)' = Printed(text', cell)
    BY <1>1 DEF CellOnPage, Printed
  <1>4. QED
    BY <1>1, <1>2, <1>3

-----------------------------------------------------------------------------
(* Where the last character of the text takes the cursor. *)
LEMMA Positions ==
  ASSUME TextTyped, CInv, NEW p \in Printers, Len(text) > 0, text[Len(text)] = char[p]
  PROVE  /\ Before \in Nat /\ After \in Nat
         /\ Row(Before) \in Nat /\ Col(Before) \in Cols /\ Row(After) \in Nat
         /\ Before = Row(Before) * Width + Col(Before)
         /\ char[p] = "newline" => Row(After) = Row(Before) + 1 /\ Col(After) = 0
         /\ char[p] # "newline" =>
              LET wide == Col(Before) + Columns(p)
              IN  /\ wide \in Nat
                  /\ Row(After) = Row(Before) + Row(wide) /\ Col(After) = Col(wide)
                  /\ Row(wide) \in Nat /\ Col(wide) \in Cols
                  /\ wide < Width => Row(wide) = 0 /\ Col(wide) = wide
                  /\ wide >= Width => Row(wide) >= 1
  <1>1. Len(text) \in 1 .. MaxText /\ Len(text) - 1 \in 0 .. MaxText /\ Len(text) \in 0 .. MaxText
    BY Sizes DEF TextTyped
  <1>2. Before \in Nat /\ After \in Nat /\ After = Advance(char[p], Before)
    BY <1>1, OfText, PlaceNat, PlaceSteps DEF Before, After
  <1>3. /\ Row(Before) \in Nat /\ Col(Before) \in Cols /\ Row(After) \in Nat
        /\ Before = Row(Before) * Width + Col(Before) /\ Col(Before) \in Nat
    BY <1>2, Split
  <1>4. CASE char[p] = "newline"
    <2>1. 0 \in Cols /\ Row(Before) + 1 \in Nat /\ (Row(Before) + 1) * Width \in Nat
      BY <1>3, Sizes, SMTT(20) DEF Cols
    <2>2. After = (Row(Before) + 1) * Width + 0
      BY <1>2, <1>4, <2>1 DEF Advance, Row
    <2>3. QED
      BY <1>2, <1>3, <1>4, <2>1, <2>2, Put
  <1>5. CASE char[p] # "newline"
    <2> DEFINE wide == Col(Before) + Columns(p)
    <2>1. wide \in Nat
      BY <1>3, Sizes DEF Columns
    <2>2. After = Before + Columns(p)
      BY <1>2, <1>5 DEF Advance, Columns
    <2>3. After = Row(Before) * Width + wide
      <3>1. Row(Before) * Width \in Nat /\ Columns(p) \in Nat
        BY <1>3, Sizes, SMTT(20) DEF Columns
      <3>2. QED
        BY <1>3, <2>2, <3>1
    <2> HIDE DEF wide
    <2>4. /\ Row(After) = Row(Before) + Row(wide) /\ Col(After) = Col(wide)
          /\ Row(wide) \in Nat /\ Col(wide) \in Cols
          /\ wide < Width => Row(wide) = 0 /\ Col(wide) = wide
          /\ wide >= Width => Row(wide) >= 1
      BY <1>3, <2>1, <2>3, Carry
    <2>5. QED
      BY <1>2, <1>3, <1>5, <2>1, <2>4 DEF wide
  <1>6. QED
    BY <1>4, <1>5

(* Steps that leave the text alone leave its places and its page alone. *)
LEMMA SameText ==
  ASSUME text' = text
  PROVE  /\ Before' = Before /\ After' = After /\ Len(text)' = Len(text)
         /\ \A cell : CellOnPage(cell)' = CellOnPage(cell)
  BY OfText DEF Before, After

(* If they leave the screen alone too, it shows what it showed. *)
LEMMA SameScreen ==
  ASSUME text' = text, video' = video
  PROVE  \A top, hole : ShowsBut(top, hole)' <=> ShowsBut(top, hole)
  BY SameText DEF ShowsBut

(* Scrolling a screen that shows the page from top on shows it from top + n *)
(* on, if nothing has been printed below it.                               *)
LEMMA ScrollShows ==
  ASSUME TextTyped, text' = text, Len(text) > 0,
         NEW top \in Nat, NEW n \in Nat, Shows(top), video' = Scroll(n),
         Before \in Nat, Row(Before) < top + Height
  PROVE  Shows(top + n)'
  <1>1. SUFFICES ASSUME NEW r \in Rows, NEW c \in Cols
                 PROVE  video'[r][c] = CellOnPage((top + n + r) * Width + c)
    BY SameText DEF Shows, ShowsBut
  <1>2. r \in Nat /\ r < Height /\ c \in Nat /\ top + n + r \in Nat /\ Row(Before) \in Nat
    BY Sizes, Split DEF Rows, Cols
  <1>3. CASE r < Height - n
    <2>1. r + n \in Rows /\ video'[r] = video[r + n]
      BY <1>2, <1>3, Sizes DEF Rows, Scroll
    <2>2. \A i \in Rows : (top + i) * Width + c \in Nat
      <3>1. ASSUME NEW i \in Rows PROVE (top + i) * Width + c \in Nat
        <4>1. top + i \in Nat
          BY Sizes DEF Rows
        <4>2. QED
          BY <4>1, Put
      <3>2. QED
        BY <3>1
    <2>3. video[r + n][c] = CellOnPage((top + (r + n)) * Width + c)
      BY <2>1, <2>2 DEF Shows, ShowsBut, NoHole
    <2>4. top + (r + n) = top + n + r
      BY <1>2
    <2>5. QED
      BY <2>1, <2>3, <2>4
  <1>4. CASE r >= Height - n
    <2>1. video'[r] = ClearLine
      BY <1>2, <1>4, Sizes DEF Rows, Scroll
    <2>2. video'[r][c] = Blank
      BY <2>1 DEF ClearLine
    <2> DEFINE cell == (top + n + r) * Width + c
    <2>3. cell \in Nat /\ Row(cell) = top + n + r
      BY <1>2, Put
    <2> HIDE DEF cell
    <2>4. Row(Before) < Row(cell)
      BY <1>2, <1>4, <2>3, Sizes
    <2>5. PlaceOf(text)[Len(text) - 1] < cell
      BY <2>3, <2>4, Below, OfText DEF Before
    <2>6. CellOnPage(cell) = Blank
      BY <2>3, <2>5, NothingAhead, OfText DEF TextTyped
    <2>7. QED
      BY <2>2, <2>6 DEF cell
  <1>5. QED
    BY <1>2, <1>3, <1>4, Sizes

-----------------------------------------------------------------------------
(* A printer that moves on, alone, with the screen in step with it.        *)
LEMMA Arrives ==
  ASSUME Typed, InStep, NEW p \in Printers, NEW here \in Places, NEW next \in Places,
         Goto(p, here, next), next # "idle", here # "idle", ~fault', Printing(p)'
  PROVE  InStep'
  <1>1. \A q \in Printers \ {p} : at'[q] = "idle"
    BY DEF InStep, Goto, Typed
  <1>2. at'[p] = next
    BY DEF Goto, Typed
  <1>3. QED
    BY <1>1, <1>2 DEF InStep

(* What is known of a printer's numbers, whatever its statement.           *)
Facts(p) ==
  /\ Width \in Nat \ {0} /\ Height \in Nat \ {0} /\ x \in Nat /\ y \in Int
  /\ OldRow \in Nat /\ NewRow \in Nat /\ Wide(p) \in Nat
  /\ Before \in Nat /\ Before = OldRow * Width + Col(Before)
  /\ Col(Before) \in Nat /\ Col(Before) < Width
  /\ OldTop = Top(OldRow) /\ NewTop = Top(NewRow)
  /\ char[p] = "newline" => NewRow = OldRow + 1 /\ Col(After) = 0
  /\ char[p] # "newline" =>
       /\ NewRow = OldRow + Row(Wide(p)) /\ Col(After) = Col(Wide(p))
       /\ Row(Wide(p)) \in Nat /\ Col(Wide(p)) \in Nat
       /\ Wide(p) < Width => Row(Wide(p)) = 0 /\ Col(Wide(p)) = Wide(p)
       /\ Wide(p) >= Width => Row(Wide(p)) >= 1

(* Those facts hold at every statement. *)
LEMMA FactsHold ==
  ASSUME TextTyped, CInv, NEW p \in Printers, Printing(p)
  PROVE  Facts(p) /\ Local(p)
  <1>1. Typed /\ Local(p)
    BY DEF CInv
  <1>2. Columns(p) \in Nat
    BY Sizes DEF Columns
  <1>3. Len(text) > 0 /\ text[Len(text)] = char[p]
    BY DEF Printing
  <1>4. Wide(p) \in Nat
    BY <1>2, <1>3, Positions, Sizes DEF Wide, Cols
  <1>5. QED
    BY <1>1, <1>3, <1>4, Positions, Sizes
    DEF Facts, Cols, Typed, OldRow, NewRow, OldTop, NewTop, Wide

(* A step to the statement next that leaves the text alone, and what it    *)
(* does to the numbers that the text determines: nothing.                  *)
Goes(p, next) ==
  /\ at'[p] = next /\ char' = char /\ Len(text') > 0 /\ text'[Len(text')] = char'[p]
  /\ OldRow' = OldRow /\ NewRow' = NewRow /\ OldTop' = OldTop /\ NewTop' = NewTop
  /\ Before' = Before /\ After' = After /\ Wide(p)' = Wide(p)

Same(p, next) ==
  /\ Goes(p, next)
  /\ Shows(OldTop)' <=> Shows(OldTop)
  /\ Shows(NewTop)' <=> Shows(NewTop)
  /\ ShowsBut(OldTop, Before)' <=> ShowsBut(OldTop, Before)

(* A step between statements that keeps the text is one that Goes; *)
LEMMA StepGoes ==
  ASSUME Typed, NEW p \in Printers, Printing(p), NEW here, NEW next, Goto(p, here, next),
         char' = char, text' = text
  PROVE  Goes(p, next)
  <1>1. Before' = Before /\ After' = After
    BY SameText
  <1>2. OldRow' = OldRow /\ NewRow' = NewRow
    BY <1>1 DEF OldRow, NewRow, Row
  <1>3. OldTop' = OldTop /\ NewTop' = NewTop
    BY <1>2 DEF OldTop, NewTop, Top
  <1>4. Wide(p)' = Wide(p)
    BY <1>1 DEF Wide, Col, Columns
  <1>5. at'[p] = next
    BY DEF Typed, Goto
  <1>6. Len(text') > 0 /\ text'[Len(text')] = char'[p]
    BY DEF Printing
  <1>7. QED
    BY <1>1, <1>2, <1>3, <1>4, <1>5, <1>6 DEF Goes

(* if it keeps the screen as well, that shows the same. *)
LEMMA StepSame ==
  ASSUME Typed, NEW p \in Printers, Printing(p), NEW here, NEW next, Goto(p, here, next),
         char' = char, text' = text, video' = video
  PROVE  Same(p, next)
  <1>1. Goes(p, next)
    BY StepGoes
  <1>2. \A top, hole : ShowsBut(top, hole)' <=> ShowsBut(top, hole)
    BY SameScreen
  <1>3. QED
    BY <1>1, <1>2 DEF Same, Goes, Shows, NoHole

(* Each statement leaves what the next one finds: those of advance_line,   *)
(* but for the scrolling.                                                  *)
LEMMA LineFinds ==
  ASSUME TextTyped, CInv, NEW p \in Printers, Printing(p),
         LineTest(p) \/ LineDec(p) \/ LineInc(p) \/ LineSet(p)
  PROVE  Printing(p)' /\ fault' = fault
  <1>0. Facts(p) /\ Local(p) /\ Typed
    BY FactsHold DEF CInv
  <1> USE DEF Finds, Unmoved
  <1>1. CASE LineTest(p)
    <2>1. at[p] = "line" /\ fault' = fault /\ UNCHANGED <<x, y>>
      BY <1>1 DEF LineTest, Test, Step, Goto, cursor
    <2>2. char[p] = "newline" /\ Finds(p, "line")
      BY <1>0, <2>1 DEF Local, InLine, Printing
    <2>3. CASE y >= Height - 1 /\ Test(p, "line", "scroll1")
      <3>1. Same(p, "scroll1")
        BY <1>0, <2>3, StepSame DEF Test, Step, history
      <3>2. y = Height - 1
        BY <1>0, <2>2, <2>3 DEF Facts, Top
      <3>3. Finds(p, "scroll1")'
        BY <2>1, <2>2, <3>1, <3>2 DEF Same, Goes
      <3>4. QED
        BY <2>1, <3>1, <3>3 DEF Printing, Same, Goes
    <2>4. CASE y < Height - 1 /\ Test(p, "line", "inc")
      <3>1. Same(p, "inc")
        BY <1>0, <2>4, StepSame DEF Test, Step, history
      <3>2. NewTop = OldTop /\ y = NewRow - 1 - NewTop
        BY <1>0, <2>2, <2>4 DEF Facts, Top
      <3>3. Finds(p, "inc")'
        BY <2>1, <2>2, <3>1, <3>2 DEF Same, Goes
      <3>4. QED
        BY <2>1, <3>1, <3>3 DEF Printing, Same, Goes
    <2>5. QED
      BY <1>1, <2>3, <2>4 DEF LineTest
  <1>2. CASE LineDec(p)
    <2>1. /\ at[p] = "dec" /\ fault' = fault /\ UNCHANGED <<x, y>> /\ reg'[p] = y - 1
          /\ Same(p, "decreased")
      BY <1>0, <1>2, StepSame DEF LineDec, Load, Step, Goto, cursor, history, Typed
    <2>2. Finds(p, "dec")
      BY <2>1 DEF Printing
    <2>3. Finds(p, "decreased")'
      BY <1>0, <2>1, <2>2 DEF Facts, Same, Goes
    <2>4. QED
      BY <2>1, <2>3 DEF Printing, Same, Goes
  <1>3. CASE LineInc(p)
    <2>1. /\ at[p] = "inc" /\ fault' = fault /\ UNCHANGED <<x, y>> /\ reg'[p] = y + 1
          /\ Same(p, "increased")
      BY <1>0, <1>3, StepSame DEF LineInc, Load, Step, Goto, cursor, history, Typed
    <2>2. Finds(p, "inc")
      BY <2>1 DEF Printing
    <2>3. reg'[p] = NewRow - NewTop
      BY <1>0, <2>1, <2>2 DEF Facts, Top
    <2>4. Finds(p, "increased")'
      BY <2>1, <2>2, <2>3 DEF Same, Goes
    <2>5. QED
      BY <2>1, <2>4 DEF Printing, Same, Goes
  <1>4. CASE LineSet(p)
    <2>1. CASE SetRow(p, "decreased", "inc", reg[p])
      <3>1. at[p] = "decreased" /\ fault' = fault /\ y' = reg[p] /\ Same(p, "inc")
        BY <1>0, <2>1, StepSame DEF SetRow, Step, Goto, history
      <3>2. Finds(p, "decreased")
        BY <3>1 DEF Printing
      <3>3. y' = NewRow - 1 - NewTop
        BY <1>0, <3>1, <3>2 DEF Facts, Top
      <3>4. Finds(p, "inc")'
        BY <3>1, <3>2, <3>3 DEF Same, Goes
      <3>5. QED
        BY <3>1, <3>4 DEF Printing, Same, Goes
    <2>2. CASE SetRow(p, "increased", "home", reg[p])
      <3>1. at[p] = "increased" /\ fault' = fault /\ y' = reg[p] /\ Same(p, "home")
        BY <1>0, <2>2, StepSame DEF SetRow, Step, Goto, history
      <3>2. Finds(p, "increased")
        BY <3>1 DEF Printing
      <3>3. Finds(p, "home")'
        BY <3>1, <3>2 DEF Same, Goes
      <3>4. QED
        BY <3>1, <3>3 DEF Printing, Same, Goes
    <2>3. CASE SetColumn(p, "home", 0)
      <3>0. Goto(p, "home", "cursor") /\ UNCHANGED <<y, video, char, text, fault>> /\ x' = 0
        BY <2>3 DEF SetColumn, Step, history
      <3>1. at[p] = "home" /\ fault' = fault /\ x' = 0 /\ y' = y /\ Same(p, "cursor")
        BY <1>0, <3>0, StepSame DEF Goto
      <3>2. Finds(p, "home") /\ Col(After) = 0
        BY <1>0, <3>1 DEF Printing, Local, InLine, Facts
      <3>3. Col(After)' = Col(After)
        BY <3>1 DEF Col, Same, Goes
      <3>4. Finds(p, "cursor")'
        BY <3>1, <3>2, <3>3 DEF Same, Goes
      <3>5. QED
        BY <3>1, <3>4 DEF Printing, Same, Goes
    <2>4. QED
      BY <1>4, <2>1, <2>2, <2>3 DEF LineSet
  <1>5. QED
    BY <1>1, <1>2, <1>3, <1>4

(* The arguments of put_char_at are the cursor, as nobody else moves it.   *)
LEMMA ArgFinds ==
  ASSUME TextTyped, CInv, NEW p \in Printers, Printing(p), ArgRow(p) \/ ArgColumn(p)
  PROVE  Printing(p)' /\ fault' = fault
  <1>0. Facts(p) /\ Local(p) /\ Typed /\ arg \in [Printers -> [x : Nat, y : Int]]
    BY FactsHold DEF CInv, TextTyped
  <1> USE DEF Finds, Unmoved
  <1>1. CASE ArgRow(p)
    <2>0. Goto(p, "row", "column") /\ UNCHANGED <<x, y, video, char, text, fault>>
      BY <1>1 DEF ArgRow, cursor, history
    <2>1. /\ at[p] = "row" /\ fault' = fault /\ UNCHANGED <<x, y>> /\ arg'[p].y = y
          /\ Same(p, "column")
      BY <1>0, <1>1, <2>0, StepSame DEF ArgRow, Goto
    <2>2. Finds(p, "row")
      BY <2>1 DEF Printing
    <2>3. Finds(p, "column")'
      BY <2>1, <2>2 DEF Col, Same, Goes
    <2>4. QED
      BY <2>1, <2>3 DEF Printing, Same, Goes
  <1>2. CASE ArgColumn(p)
    <2>0. Goto(p, "column", "store") /\ UNCHANGED <<x, y, video, char, text, fault>>
      BY <1>2 DEF ArgColumn, cursor, history
    <2>1. /\ at[p] = "column" /\ fault' = fault /\ UNCHANGED <<x, y>> /\ arg'[p].x = x
          /\ arg'[p].y = arg[p].y /\ Same(p, "store")
      BY <1>0, <1>2, <2>0, StepSame DEF ArgColumn, Goto
    <2>2. Finds(p, "column")
      BY <2>1 DEF Printing
    <2>3. Finds(p, "store")'
      BY <2>1, <2>2 DEF Col, Same, Goes
    <2>4. QED
      BY <2>1, <2>3 DEF Printing, Same, Goes
  <1>3. QED
    BY <1>1, <1>2

(* The statements of advance_char_n, but for the scrolling.                *)
LEMMA CharFinds ==
  ASSUME TextTyped, CInv, NEW p \in Printers, Printing(p),
         Add(p) \/ WrapTest(p) \/ Down(p) \/ Mod(p)
  PROVE  Printing(p)' /\ fault' = fault
  <1>0. Facts(p) /\ Local(p) /\ Typed
    BY FactsHold DEF CInv
  <1> USE DEF Finds, Unmoved, Moved
  <1>1. CASE Add(p)
    <2>1. CASE Load(p, "add", "added", x + Columns(p))
      <3>1. Goto(p, "add", "added") /\ UNCHANGED <<x, y, video, char, text, fault>>
        BY <2>1 DEF Load, Step, cursor, history
      <3>2. Same(p, "added") /\ Finds(p, "add")
        BY <1>0, <3>1, StepSame DEF Goto, Printing
      <3>3. reg'[p] = Wide(p)
        BY <1>0, <2>1, <3>2 DEF Load, Wide, Typed
      <3>4. Finds(p, "added")'
        BY <3>1, <3>2, <3>3 DEF Same, Goes, Col
      <3>5. QED
        BY <3>1, <3>2, <3>4 DEF Same, Goes, Printing
    <2>2. CASE SetColumn(p, "added", reg[p])
      <3>1. Goto(p, "added", "wrap") /\ UNCHANGED <<y, video, char, text, fault>> /\ x' = reg[p]
        BY <2>2 DEF SetColumn, Step, history
      <3>2. Same(p, "wrap") /\ Finds(p, "added")
        BY <1>0, <3>1, StepSame DEF Goto, Printing
      <3>3. Finds(p, "wrap")'
        BY <3>1, <3>2 DEF Same, Goes
      <3>4. QED
        BY <3>1, <3>2, <3>3 DEF Same, Goes, Printing
    <2>3. QED
      BY <1>1, <2>1, <2>2 DEF Add
  <1>2. CASE WrapTest(p)
    <2>1. at[p] = "wrap" /\ UNCHANGED <<x, y, video, char, text, fault>>
      BY <1>2 DEF WrapTest, Test, Step, Goto, cursor, history
    <2>2. Finds(p, "wrap") /\ char[p] # "newline"
      BY <1>0, <2>1 DEF Printing, Local, InChar
    <2>3. CASE x >= Width /\ Test(p, "wrap", "down")
      <3>1. Same(p, "down")
        BY <1>0, <2>1, <2>3, StepSame DEF Test, Step
      <3>2. Finds(p, "down")'
        BY <2>1, <2>2, <2>3, <3>1 DEF Same, Goes
      <3>3. QED
        BY <2>1, <3>1, <3>2 DEF Same, Goes, Printing
    <2>4. CASE x < Width /\ Test(p, "wrap", "cursor")
      <3>1. Same(p, "cursor")
        BY <1>0, <2>1, <2>4, StepSame DEF Test, Step
      <3>2. NewRow = OldRow /\ NewTop = OldTop /\ x = Col(After)
        BY <1>0, <2>2, <2>4 DEF Facts
      <3>3. Finds(p, "cursor")'
        BY <2>1, <2>2, <3>1, <3>2 DEF Same, Goes, Col
      <3>4. QED
        BY <2>1, <3>1, <3>3 DEF Same, Goes, Printing
    <2>5. QED
      BY <1>2, <2>3, <2>4 DEF WrapTest
  <1>3. CASE Down(p)
    <2>1. CASE Load(p, "down", "below", y + x \div Width)
      <3>1. Goto(p, "down", "below") /\ UNCHANGED <<x, y, video, char, text, fault>>
        BY <2>1 DEF Load, Step, cursor, history
      <3>2. Same(p, "below") /\ Finds(p, "down") /\ char[p] # "newline"
        BY <1>0, <3>1, StepSame DEF Goto, Printing, Local, InChar
      <3>3. reg'[p] = y + Row(Wide(p))
        BY <1>0, <2>1, <3>2 DEF Load, Typed, Row
      <3>4. reg'[p] = NewRow - OldTop
        BY <1>0, <3>2, <3>3 DEF Facts, Top
      <3>5. Finds(p, "below")'
        BY <3>1, <3>2, <3>4 DEF Same, Goes
      <3>6. QED
        BY <3>1, <3>2, <3>5 DEF Same, Goes, Printing
    <2>2. CASE SetRow(p, "below", "last", reg[p])
      <3>1. Goto(p, "below", "last") /\ UNCHANGED <<x, video, char, text, fault>> /\ y' = reg[p]
        BY <2>2 DEF SetRow, Step, history
      <3>2. Same(p, "last") /\ Finds(p, "below")
        BY <1>0, <3>1, StepSame DEF Goto, Printing
      <3>3. Finds(p, "last")'
        BY <3>1, <3>2 DEF Same, Goes
      <3>4. QED
        BY <3>1, <3>2, <3>3 DEF Same, Goes, Printing
    <2>3. QED
      BY <1>3, <2>1, <2>2 DEF Down
  <1>4. CASE Mod(p)
    <2>1. CASE Load(p, "mod", "modulo", x % Width)
      <3>1. Goto(p, "mod", "modulo") /\ UNCHANGED <<x, y, video, char, text, fault>>
        BY <2>1 DEF Load, Step, cursor, history
      <3>2. Same(p, "modulo") /\ Finds(p, "mod") /\ char[p] # "newline"
        BY <1>0, <3>1, StepSame DEF Goto, Printing, Local, InChar
      <3>3. reg'[p] = Col(Wide(p))
        BY <1>0, <2>1, <3>2 DEF Load, Typed, Col
      <3>4. reg'[p] = Col(After)
        BY <1>0, <3>2, <3>3 DEF Facts
      <3>5. Finds(p, "modulo")'
        BY <3>1, <3>2, <3>4 DEF Same, Goes, Col
      <3>6. QED
        BY <3>1, <3>2, <3>5 DEF Same, Goes, Printing
    <2>2. CASE SetColumn(p, "modulo", reg[p])
      <3>1. Goto(p, "modulo", "cursor") /\ UNCHANGED <<y, video, char, text, fault>> /\ x' = reg[p]
        BY <2>2 DEF SetColumn, Step, history
      <3>2. Same(p, "cursor") /\ Finds(p, "modulo")
        BY <1>0, <3>1, StepSame DEF Goto, Printing
      <3>3. Finds(p, "cursor")'
        BY <3>1, <3>2 DEF Same, Goes, Col
      <3>4. QED
        BY <3>1, <3>2, <3>3 DEF Same, Goes, Printing
    <2>3. QED
      BY <1>4, <2>1, <2>2 DEF Mod
  <1>5. QED
    BY <1>1, <1>2, <1>3, <1>4

(* Scrolling, by one row for a newline and by as many as the cursor is     *)
(* below the screen for another character.                                 *)
LEMMA ScrollFinds ==
  ASSUME TextTyped, CInv, NEW p \in Printers, Printing(p), LineScroll(p) \/ Bottom(p)
  PROVE  Printing(p)' /\ fault' = fault
  <1>0. Facts(p) /\ Local(p) /\ Typed /\ Len(text) > 0
    BY FactsHold DEF CInv, Printing
  <1> USE DEF Finds, Unmoved, Moved
  <1>1. CASE LineScroll(p)
    <2>1. Goto(p, "scroll1", "dec") /\ UNCHANGED <<x, y, char, text, fault>> /\ video' = Scroll(1)
      BY <1>1 DEF LineScroll, Step, cursor, history
    <2>2. Goes(p, "dec") /\ Finds(p, "scroll1") /\ char[p] = "newline"
      BY <1>0, <2>1, StepGoes DEF Goto, Printing, Local, InLine
    <2>3. /\ NewTop = OldTop + 1 /\ NewRow >= Height /\ OldTop \in Nat
          /\ OldRow < OldTop + Height
      <3>1. y = Height - 1 /\ y = OldRow - OldTop
        BY <2>2
      <3>2. /\ Height \in Nat \ {0} /\ OldRow \in Nat /\ NewRow = OldRow + 1
            /\ OldTop = Top(OldRow) /\ NewTop = Top(NewRow)
        BY <1>0, <2>2 DEF Facts
      <3>3. QED
        BY <3>1, <3>2 DEF Top
    <2>4. Shows(OldTop + 1)'
      <3>1. Row(Before) < OldTop + Height /\ Before \in Nat
        BY <1>0, <2>3 DEF OldRow, Facts
      <3> DEFINE t == OldTop
      <3>2. t \in Nat /\ Shows(t) /\ Row(Before) < t + Height /\ t' = t
        BY <2>2, <2>3, <3>1 DEF Goes
      <3>3. \A top \in Nat : top = t => Shows(top + 1)'
        <4> HIDE DEF t
        <4>1. QED
          BY <1>0, <2>1, <3>1, <3>2, ScrollShows
      <3>4. QED
        BY <3>2, <3>3
    <2>5. Shows(NewTop)'
      BY <2>2, <2>3, <2>4 DEF Goes
    <2>6. Finds(p, "dec")'
      BY <2>1, <2>2, <2>3, <2>5 DEF Goes
    <2>7. QED
      BY <2>1, <2>2, <2>6 DEF Goes, Printing
  <1>2. CASE Bottom(p)
    <2>1. CASE y > Height - 1 /\ Step(p, "last", "bottom") /\ video' = Scroll(y - (Height - 1))
               /\ UNCHANGED <<cursor, reg>>
      <3>1. Goto(p, "last", "bottom") /\ UNCHANGED <<x, y, char, text, fault>>
        BY <2>1 DEF Step, cursor, history
      <3>2. Goes(p, "bottom") /\ Finds(p, "last") /\ char[p] # "newline"
        BY <1>0, <3>1, StepGoes DEF Goto, Printing, Local, InChar
      <3> DEFINE n == y - (Height - 1)
                 t == OldTop
      <3>3. y = NewRow - t /\ Moved(p) /\ Shows(t)
        BY <3>2
      <3>4. /\ Height \in Nat \ {0} /\ OldRow \in Nat /\ NewRow \in Nat /\ y \in Int
            /\ t = Top(OldRow) /\ NewTop = Top(NewRow) /\ NewRow >= OldRow + 1
        BY <1>0, <3>2, <3>3 DEF Facts
      <3>5. /\ t \in Nat /\ n \in Nat /\ OldRow < t + Height
            /\ NewRow >= Height /\ NewTop = t + n
        BY <2>1, <3>3, <3>4 DEF Top
      <3>6. Row(Before) < t + Height /\ Before \in Nat
        BY <1>0, <3>5 DEF OldRow, Facts
      <3>7. \A top, m \in Nat : top = t /\ m = n => Shows(top + m)'
        <4>1. video' = Scroll(n)
          BY <2>1
        <4> HIDE DEF t, n
        <4>2. QED
          BY <1>0, <3>1, <3>3, <3>6, <4>1, ScrollShows
      <3>8. Shows(NewTop)'
        <4>1. NewTop' = t + n
          BY <3>2, <3>5 DEF Goes
        <4>2. \A top, m \in Nat : top = t /\ m = n => Shows(NewTop)'
          <5>1. SUFFICES ASSUME NEW top \in Nat, NEW m \in Nat, top = t, m = n
                         PROVE  Shows(NewTop)'
            OBVIOUS
          <5>2. Shows(top + m)' /\ NewTop' = top + m
            BY <3>7, <4>1, <5>1
          <5>3. QED
            BY <5>2 DEF Shows, ShowsBut
        <4>3. QED
          BY <3>5, <4>2
      <3>9. Finds(p, "bottom")'
        BY <3>1, <3>2, <3>3, <3>5, <3>8 DEF Goes
      <3>10. QED
        BY <3>1, <3>2, <3>9 DEF Goes, Printing
    <2>2. CASE y <= Height - 1 /\ Test(p, "last", "mod")
      <3>1. Goto(p, "last", "mod") /\ UNCHANGED <<x, y, video, char, text, fault>>
        BY <2>2 DEF Test, Step, cursor, history
      <3>2. Same(p, "mod") /\ Finds(p, "last") /\ char[p] # "newline"
        BY <1>0, <3>1, StepSame DEF Goto, Printing, Local, InChar
      <3>3. y = NewRow - OldTop /\ Moved(p) /\ Shows(OldTop)
        BY <3>2
      <3>4. NewTop = OldTop
        <4>1. /\ Height \in Nat \ {0} /\ OldRow \in Nat /\ NewRow \in Nat /\ y \in Int
              /\ OldTop = Top(OldRow) /\ NewTop = Top(NewRow) /\ NewRow >= OldRow + 1
          BY <1>0, <3>2, <3>3 DEF Facts
        <4>2. QED
          BY <2>2, <3>3, <4>1 DEF Top
      <3>5. Finds(p, "mod")'
        BY <3>1, <3>2, <3>3, <3>4 DEF Same, Goes
      <3>6. QED
        BY <3>1, <3>2, <3>5 DEF Same, Goes, Printing
    <2>3. CASE SetRow(p, "bottom", "mod", Height - 1)
      <3>1. Goto(p, "bottom", "mod") /\ UNCHANGED <<x, video, char, text, fault>> /\ y' = Height - 1
        BY <2>3 DEF SetRow, Step, history
      <3>2. Same(p, "mod") /\ Finds(p, "bottom")
        BY <1>0, <3>1, StepSame DEF Goto, Printing
      <3>3. NewRow - NewTop = Height - 1
        BY <1>0, <3>2 DEF Facts, Top
      <3>4. Finds(p, "mod")'
        BY <3>1, <3>2, <3>3 DEF Same, Goes
      <3>5. QED
        BY <3>1, <3>2, <3>4 DEF Same, Goes, Printing
    <2>4. QED
      BY <1>2, <2>1, <2>2, <2>3 DEF Bottom
  <1>3. QED
    BY <1>1, <1>2

(* A cell of the screen is in the page that is mapped. *)
LEMMA CellMapped ==
  ASSUME NEW r \in Rows, NEW c \in Cols
  PROVE  Width * r + c \in 0 .. Mapped - 1 /\ Width * r + c = r * Width + c
  <1>1. /\ r \in Nat /\ r < Height /\ c \in Nat /\ c < Width /\ Width \in Nat /\ Height \in Nat
        /\ Mapped \in Nat /\ Mapped >= Width * Height
    BY Sizes, ConsoleAssumption DEF Rows, Cols
  <1>2. PICK d \in Nat : Height = r + 1 + d
    <2>1. Height - r - 1 \in Nat /\ Height = r + 1 + (Height - r - 1)
      BY <1>1
    <2>2. QED
      BY <2>1
  <1>3. /\ Width * Height = Width * r + Width + Width * d
        /\ Width * r = r * Width /\ Width * r \in Nat /\ Width * d \in Nat
    BY <1>1, <1>2, SMTT(30)
  <1>4. QED
    BY <1>1, <1>3

(* The letter is stored in the cell that is its place. *)
LEMMA StoreFinds ==
  ASSUME TextTyped, CInv, NEW p \in Printers, Printing(p), Store(p)
  PROVE  Printing(p)' /\ fault' = FALSE
  <1>1. Facts(p) /\ Local(p) /\ Typed
    BY FactsHold DEF CInv
  <1>2. Goto(p, "store", "add") /\ UNCHANGED <<x, y, char, text>>
    BY DEF Store, cursor, local, history
  <1>3. Goes(p, "add") /\ Finds(p, "store")
    BY <1>1, <1>2, StepGoes DEF Goto, Printing
  <1>4. /\ x = Col(Before) /\ y = OldRow - OldTop /\ char[p] \in Letters
        /\ ShowsBut(OldTop, Before) /\ arg[p].x = x /\ arg[p].y = y
    BY <1>3 DEF Finds, Unmoved
  <1>5. y \in Rows /\ x \in Cols /\ OldTop \in Nat /\ OldRow \in Nat /\ OldRow = OldTop + y
    BY <1>1, <1>4 DEF Facts, Top, Rows, Cols
  <1> DEFINE cell == Width * arg[p].y + arg[p].x
  <1>6. cell \in 0 .. Mapped - 1 /\ cell \div Width = y /\ cell % Width = x
    <2>1. cell = y * Width + x /\ cell \in 0 .. Mapped - 1
      BY <1>4, <1>5, CellMapped
    <2>2. y \in Nat
      BY <1>5, Sizes DEF Rows
    <2>3. QED
      BY <1>5, <2>1, <2>2, Put DEF Row, Col
  <1>7. video' = [video EXCEPT ![y][x] = char[p]] /\ fault' = FALSE
    BY <1>5, <1>6 DEF Store
  <1>8. ASSUME NEW r \in Rows, NEW c \in Cols
        PROVE  video'[r][c] = CellOnPage((OldTop + r) * Width + c)
    <2>1. OldTop + r \in Nat /\ r \in Nat
      BY <1>5, Sizes DEF Rows
    <2>2. /\ (OldTop + r) * Width + c \in Nat
          /\ Row((OldTop + r) * Width + c) = OldTop + r /\ Col((OldTop + r) * Width + c) = c
      BY <2>1, Put
    <2>3. CASE r = y /\ c = x
      <3>1. Before = (OldTop + r) * Width + c
        BY <1>1, <1>4, <1>5, <2>3 DEF Facts
      <3>2. Len(text) > 0 /\ text[Len(text)] = char[p] /\ text \in Seq(Chars) /\ Len(text) <= MaxText
        BY DEF Printing, TextTyped
      <3>3. CellOnPage(Before) = char[p]
        BY <1>4, <3>2, LetterPrinted, OfText DEF Before
      <3>4. video'[r][c] = char[p]
        BY <1>5, <1>7, <2>3 DEF TextTyped
      <3>5. QED
        BY <3>1, <3>3, <3>4
    <2>4. CASE ~(r = y /\ c = x)
      <3>1. (OldTop + r) * Width + c # Before
        BY <1>4, <1>5, <2>1, <2>2, <2>4 DEF OldRow, Rows
      <3>2. video'[r][c] = video[r][c]
        BY <1>5, <1>7, <2>4 DEF TextTyped
      <3>3. QED
        BY <1>4, <3>1, <3>2 DEF ShowsBut
    <2>5. QED
      BY <2>3, <2>4
  <1>9. Shows(OldTop)'
    <2>1. OldTop' = OldTop /\ \A c : CellOnPage(c)' = CellOnPage(c)
      BY <1>2, <1>3, SameText DEF Goes
    <2>2. QED
      BY <1>8, <2>1 DEF Shows, ShowsBut
  <1>10. Finds(p, "add")'
    BY <1>2, <1>3, <1>4, <1>9 DEF Finds, Unmoved, Goes, Col
  <1>11. QED
    BY <1>3, <1>7, <1>10 DEF Goes, Printing

(* A character that nothing overlaps is begun on a screen that is settled. *)
LEMMA PutFinds ==
  ASSUME TextTyped, CInv, NEW p \in Printers, NEW c \in Chars, PutChar(p, c),
         Settled, ~mixed'
  PROVE  Printing(p)'
  <1>1. /\ text \in Seq(Chars) /\ Len(text) < MaxText /\ Len(text) \in Nat
        /\ text' = Append(text, c) /\ UNCHANGED <<x, y, video>> /\ char'[p] = c
    BY Sizes DEF TextTyped, PutChar, cursor, CInv, Typed
  <1>2. Len(text') = Len(text) + 1 /\ text'[Len(text')] = c
    BY <1>1
  <1>3. Before' = After
    <2>1. Before' = Place'[Len(text)]
      BY <1>1, <1>2 DEF Before
    <2>2. QED
      BY <1>1, <2>1, OfText, PlacesStay DEF After
  <1>4. OldRow' = NewRow /\ OldTop' = NewTop /\ Col(Before)' = Col(After)
    <2>1. OldRow' = NewRow
      BY <1>3 DEF OldRow, NewRow, Row
    <2>2. QED
      BY <1>3, <2>1 DEF OldTop, NewTop, Top, Col
  <1>5. Unmoved' /\ Shows(NewTop)
    BY <1>1, <1>4 DEF Settled, Unmoved, After, NewRow, NewTop
  <1>6. ASSUME NEW cell, c \in Letters => cell # After
        PROVE  CellOnPage(cell)' = CellOnPage(cell)
    BY <1>1, <1>6, OneMore, OfText DEF After
  <1>7. c \in Letters => ShowsBut(OldTop, Before)'
    <2>1. NewTop \in Nat
      <3>1. After \in Nat
        BY <1>1, PlaceNat, OfText, Sizes DEF After
      <3>2. NewRow \in Nat
        BY <3>1, Split DEF NewRow
      <3>3. QED
        BY <3>2, Sizes DEF NewTop, Top
    <2>2. ASSUME NEW r \in Rows, NEW i \in Cols PROVE (NewTop + r) * Width + i # NoHole
      <3>1. NewTop + r \in Nat
        BY <2>1, Sizes DEF Rows
      <3>2. (NewTop + r) * Width + i \in Nat
        BY <3>1, Put
      <3>3. QED
        BY <3>2 DEF NoHole
    <2>3. ASSUME c \in Letters, NEW r \in Rows, NEW i \in Cols,
                 (NewTop + r) * Width + i # After
          PROVE  video[r][i] = Printed(text', (NewTop + r) * Width + i)
      <3> DEFINE cell == (NewTop + r) * Width + i
      <3>1. video[r][i] = Printed(text, cell)
        BY <1>5, <2>2, OfText DEF Shows, ShowsBut
      <3>2. Printed(text', cell) = Printed(text, cell)
        <4> HIDE DEF cell
        <4>1. cell # After
          BY <2>3 DEF cell
        <4>2. QED
          BY <1>1, <4>1, OneMore, OfText DEF After
      <3>3. QED
        BY <3>1, <3>2
    <2>4. c \in Letters => \A r \in Rows, i \in Cols :
             LET cell == (OldTop' + r) * Width + i
             IN  cell # Before' => video'[r][i] = Printed(text', cell)
      BY <1>1, <1>3, <1>4, <2>3
    <2>5. QED
      BY <2>4, OfText DEF ShowsBut
  <1>8. c \notin Letters => Shows(OldTop)'
    BY <1>1, <1>4, <1>5, <1>6 DEF Shows, ShowsBut, NoHole
  <1>9. \/ at'[p] = "line" /\ c \notin Letters
        \/ at'[p] = "add" /\ c \notin Letters
        \/ at'[p] = "row" /\ c \in Letters
    BY ConsoleAssumption DEF PutChar, Goto, CInv, Typed, Chars
  <1>10. Finds(p, at[p])'
    BY <1>1, <1>5, <1>7, <1>8, <1>9 DEF Finds
  <1>11. QED
    BY <1>1, <1>2, <1>10 DEF Printing

(* The statements between the call of put_char and its return.             *)
Inside(p) == ArgRow(p) \/ ArgColumn(p) \/ Store(p) \/ AdvanceLine(p) \/ AdvanceChar(p)

(* They go from statement to statement and begin no character. *)
LEMMA InsideGoes ==
  ASSUME NEW p \in Printers, Inside(p)
  PROVE  /\ \E here, next \in Places \ {"idle"} : Goto(p, here, next)
         /\ UNCHANGED history
  <1> USE DEF Places, InLine, InChar
  <1>1. CASE ArgRow(p) \/ ArgColumn(p) \/ Store(p)
    BY <1>1 DEF ArgRow, ArgColumn, Store
  <1>2. CASE AdvanceLine(p)
    BY <1>2 DEF AdvanceLine, LineTest, LineScroll, LineDec, LineInc, LineSet, Test, Load, SetRow,
       SetColumn, Step
  <1>3. CASE AdvanceChar(p)
    BY <1>3 DEF AdvanceChar, Add, WrapTest, Down, Bottom, Mod, Test, Load, SetRow, SetColumn, Step
  <1>4. QED
    BY <1>1, <1>2, <1>3 DEF Inside

(* Each of them leaves what the next one finds, and writes into the page.  *)
LEMMA InsideFinds ==
  ASSUME TextTyped, CInv, NEW p \in Printers, Inside(p), Printing(p), ~fault
  PROVE  Printing(p)' /\ ~fault'
  <1>1. CASE ArgRow(p) \/ ArgColumn(p)
    BY <1>1, ArgFinds
  <1>2. CASE Store(p)
    BY <1>2, StoreFinds
  <1>3. CASE AdvanceLine(p)
    BY <1>3, LineFinds, ScrollFinds DEF AdvanceLine
  <1>4. CASE AdvanceChar(p)
    BY <1>4, CharFinds, ScrollFinds DEF AdvanceChar
  <1>5. QED
    BY <1>1, <1>2, <1>3, <1>4 DEF Inside

(* The text, the screen and the arguments keep their types. *)
LEMMA KeepsText ==
  ASSUME TextTyped, CInv, NEW p \in Printers,
         \/ \E c \in Chars : PutChar(p, c)
         \/ Inside(p) \/ UpdateCursor(p)
  PROVE  TextTyped'
  <1>1. /\ x \in Nat /\ y \in Int /\ char \in [Printers -> Chars \cup {Blank}]
        /\ ClearLine \in [Cols -> Chars \cup {Blank}]
    BY DEF CInv, Typed, ClearLine
  <1> USE DEF TextTyped
  <1>2. ASSUME NEW n \in Nat, video' = Scroll(n)
        PROVE  video' \in [Rows -> [Cols -> Chars \cup {Blank}]]
    BY <1>1, <1>2, Sizes DEF Scroll, Rows
  <1>3. CASE \E c \in Chars : PutChar(p, c)
    <2>1. PICK c \in Chars : PutChar(p, c)
      BY <1>3
    <2>2. /\ count' = count + 1 /\ count < MaxText /\ UNCHANGED <<video, arg>>
          /\ text' = <<>> \/ text' = Append(text, c)
      BY <2>1 DEF PutChar
    <2>3. text' \in Seq(Chars) /\ Len(text') <= Len(text) + 1
      <3>1. CASE text' = <<>>
        BY <3>1
      <3>2. CASE text' = Append(text, c)
        BY <3>2
      <3>3. QED
        BY <2>2, <3>1, <3>2
    <2>4. Len(text') <= MaxText /\ Len(text') <= count' /\ count' \in Nat
      BY <2>2, <2>3, Sizes
    <2>5. QED
      BY <2>2, <2>3, <2>4
  <1>4. CASE ArgRow(p) \/ ArgColumn(p)
    <2>1. UNCHANGED <<text, count, video>>
      BY <1>4 DEF ArgRow, ArgColumn, history
    <2>2. \/ arg' = [arg EXCEPT ![p].y = y]
          \/ arg' = [arg EXCEPT ![p].x = x]
      BY <1>4 DEF ArgRow, ArgColumn
    <2>3. arg' \in [Printers -> [x : Nat, y : Int]]
      <3>1. arg[p] \in [x : Nat, y : Int]
        OBVIOUS
      <3>2. [arg[p] EXCEPT !.y = y] \in [x : Nat, y : Int]
        BY <1>1, <3>1
      <3>3. [arg[p] EXCEPT !.x = x] \in [x : Nat, y : Int]
        BY <1>1, <3>1
      <3>4. QED
        BY <2>2, <3>2, <3>3
    <2>4. QED
      BY <2>1, <2>3
  <1>5. CASE Store(p)
    <2>1. UNCHANGED <<text, count, arg>>
      BY <1>5 DEF Store, history, local
    <2> DEFINE cell == Width * arg[p].y + arg[p].x
               row  == cell \div Width
    <2>2. video' = IF row \in Rows THEN [video EXCEPT ![row][cell % Width] = char[p]]
                                   ELSE video
      BY <1>5 DEF Store
    <2> HIDE DEF cell
    <2>3. video' \in [Rows -> [Cols -> Chars \cup {Blank}]]
      <3>1. ASSUME row \in Rows
            PROVE  [video[row] EXCEPT ![cell % Width] = char[p]] \in [Cols -> Chars \cup {Blank}]
        BY <1>1, <3>1
      <3>2. QED
        BY <2>2, <3>1
    <2>4. QED
      BY <2>1, <2>3
  <1>6. CASE AdvanceLine(p) \/ AdvanceChar(p)
    <2>1. UNCHANGED <<text, count, arg>>
      BY <1>6 DEF AdvanceLine, LineTest, LineScroll, LineDec, LineInc, LineSet, AdvanceChar, Add,
         WrapTest, Down, Bottom, Mod, Test, Load, SetRow, SetColumn, Step, history
    <2>2. video' = video \/ \E n \in Nat : video' = Scroll(n)
      <3>1. CASE LineScroll(p)
        BY <3>1 DEF LineScroll
      <3>2. CASE Bottom(p)
        <4>1. y > Height - 1 => y - (Height - 1) \in Nat
          BY <1>1, Sizes
        <4>2. QED
          BY <3>2, <4>1 DEF Bottom, Test, SetRow
      <3>3. QED
        BY <1>6, <3>1, <3>2 DEF AdvanceLine, LineTest, LineDec, LineInc, LineSet, AdvanceChar, Add,
           WrapTest, Down, Mod, Test, Load, SetRow, SetColumn
    <2>3. video' \in [Rows -> [Cols -> Chars \cup {Blank}]]
      BY <1>2, <2>2
    <2>4. QED
      BY <2>1, <2>3
  <1>7. CASE UpdateCursor(p)
    BY <1>7 DEF UpdateCursor, cursor, history, NoArg
  <1>8. QED
    BY <1>3, <1>4, <1>5, <1>6, <1>7 DEF Inside

(* The screen is settled at the start, *)
LEMMA InitS == Init => SInv
  <1>1. SUFFICES ASSUME Init PROVE SInv
    OBVIOUS
  <1>2. /\ text = <<>> /\ text \in Seq(Chars) /\ Len(text) = 0 /\ x = 0 /\ y = 0 /\ vga = 0
        /\ video = [r \in Rows |-> [c \in Cols |-> Blank]]
    BY <1>1 DEF Init, ClearLine
  <1>3. Place[0] = 0
    BY OfText, PlaceSteps
  <1>4. Row(0) = 0 /\ Col(0) = 0 /\ Top(0) = 0 /\ 0 * Width + 0 = 0
    BY Sizes DEF Row, Col, Top
  <1>5. \A cell : CellOnPage(cell) = Blank
    <2>1. \A k \in 1 .. Len(text) : text[k] \in Letters => FALSE
      BY <1>2
    <2>2. ASSUME NEW cell PROVE CellOnPage(cell) = Blank
      <3>1. Printed(text, cell) = Blank
        BY <1>2, <2>1, NothingPrinted
      <3>2. QED
        BY <3>1, OfText
    <2>3. QED
      BY <2>2
  <1>6. Settled
    BY <1>2, <1>3, <1>4, <1>5 DEF Settled, Shows, ShowsBut
  <1>7. TextTyped
    BY <1>1, <1>2, Sizes DEF Init, TextTyped, NoArg
  <1>8. QED
    BY <1>1, <1>6, <1>7 DEF Init, SInv, InStep

(* and every step keeps it in step with the text. *)
LEMMA StepS == CInv /\ SInv /\ [Next]_vars => SInv'
  <1>1. ASSUME CInv, SInv, Next PROVE SInv'
    <2>1. PICK p \in Printers : \/ \E c \in Chars : PutChar(p, c)
                                \/ Inside(p) \/ UpdateCursor(p)
      BY <1>1 DEF Next, Inside
    <2>2. TextTyped /\ TextTyped' /\ Typed
      BY <1>1, <2>1, KeepsText DEF SInv, CInv
    <2>3. SUFFICES ASSUME ~mixed' PROVE InStep'
      BY <2>2 DEF SInv
    <2>4. ~mixed
      BY <2>1, <2>3, InsideGoes DEF PutChar, UpdateCursor, history
    <2>5. InStep
      BY <1>1, <2>4 DEF SInv
    <2>6. CASE Inside(p)
      <3>1. PICK here, next \in Places \ {"idle"} : Goto(p, here, next)
        BY <2>6, InsideGoes
      <3>2. Printing(p) /\ ~fault
        BY <2>2, <2>5, <3>1 DEF InStep, Goto
      <3>3. Printing(p)' /\ ~fault'
        BY <1>1, <2>2, <2>6, <3>2, InsideFinds
      <3>4. QED
        BY <2>2, <2>5, <3>1, <3>3, Arrives
    <2>7. CASE UpdateCursor(p)
      <3>1. /\ at[p] = "cursor" /\ at' = [at EXCEPT ![p] = "idle"] /\ ~fault'
            /\ vga' = y * Width + x /\ UNCHANGED <<x, y, video, text>>
        BY <2>7 DEF UpdateCursor, Goto, cursor, history
      <3>2. \A q \in Printers : at'[q] = "idle"
        BY <2>2, <2>5, <3>1 DEF InStep, Typed
      <3>3. Printing(p)
        BY <2>5, <3>1 DEF InStep
      <3>4. x = Col(After) /\ y = NewRow - NewTop /\ Shows(NewTop)
        BY <3>1, <3>3 DEF Printing, Finds
      <3>5. After' = After /\ \A top, hole : ShowsBut(top, hole)' <=> ShowsBut(top, hole)
        BY <3>1, SameText, SameScreen
      <3>6. NewRow' = NewRow /\ NewTop' = NewTop /\ Col(After)' = Col(After)
        BY <3>5 DEF NewRow, NewTop, Row, Col, Top
      <3>7. x' = Col(After)' /\ y' = NewRow' - NewTop' /\ Shows(NewTop)'
        BY <3>1, <3>4, <3>5, <3>6 DEF Shows, NoHole
      <3>8. Settled'
        BY <3>1, <3>7 DEF Settled, After, NewRow, NewTop
      <3>9. QED
        BY <3>1, <3>2, <3>8 DEF InStep
    <2>8. CASE \E c \in Chars : PutChar(p, c)
      <3>1. PICK c \in Chars : PutChar(p, c)
        BY <2>8
      <3>2. Alone(p) /\ ~fault' /\ at[p] = "idle"
        BY <2>3, <3>1 DEF PutChar, Goto
      <3>3. Settled
        BY <2>5, <3>2 DEF InStep, Alone
      <3>4. Printing(p)'
        BY <1>1, <2>2, <2>3, <3>1, <3>3, PutFinds
      <3>5. \A q \in Printers \ {p} : at'[q] = "idle"
        BY <2>2, <3>1, <3>2 DEF PutChar, Goto, Alone, Typed
      <3>6. at'[p] # "idle"
        BY <2>2, <3>1 DEF PutChar, Goto, Typed
      <3>7. QED
        BY <3>2, <3>4, <3>5, <3>6 DEF InStep
    <2>9. QED
      BY <2>1, <2>6, <2>7, <2>8
  <1>2. ASSUME SInv, UNCHANGED vars PROVE SInv'
    <2>1. /\ UNCHANGED <<video, x, y, vga, at, char, arg, reg, fault, count, text, mixed>>
      BY <1>2 DEF vars, cursor, local, history
    <2>2. UNCHANGED Place
      BY <2>1, OfText
    <2>3. \A cell : CellOnPage(cell)' = CellOnPage(cell)
      BY <2>1, SameText
    <2>4. \A top, hole : ShowsBut(top, hole)' <=> ShowsBut(top, hole)
      BY <2>1, SameScreen
    <2>5. Settled' <=> Settled
      BY <2>1, <2>2, <2>4 DEF Settled, Shows, NoHole, Row, Col, Top
    <2>6. ASSUME NEW p \in Printers PROVE Printing(p)' <=> Printing(p)
      <3>1. Before' = Before /\ After' = After /\ Len(text)' = Len(text)
        BY <2>1, SameText
      <3>2. OldRow' = OldRow /\ NewRow' = NewRow
        BY <3>1 DEF OldRow, NewRow, Row
      <3>3. OldTop' = OldTop /\ NewTop' = NewTop
        BY <3>2 DEF OldTop, NewTop, Top
      <3>4. /\ Shows(OldTop)' <=> Shows(OldTop)
            /\ Shows(NewTop)' <=> Shows(NewTop)
            /\ ShowsBut(OldTop, Before)' <=> ShowsBut(OldTop, Before)
        BY <2>4, <3>1, <3>3 DEF Shows, NoHole
      <3>5. Wide(p)' = Wide(p) /\ Col(After)' = Col(After) /\ Col(Before)' = Col(Before)
        BY <2>1, <3>1 DEF Wide, Col, Columns
      <3>6. QED
        BY <2>1, <3>1, <3>2, <3>3, <3>4, <3>5 DEF Printing, Finds, Unmoved, Moved
    <2>7. QED
      BY <1>2, <2>1, <2>5, <2>6 DEF SInv, TextTyped, InStep
  <1>3. QED
    BY <1>1, <1>2

(* For any size of the screen and any text the screen shows the end of the *)
(* text and the cursor stands behind it, as long as no two printers        *)
(* overlap, and nothing is written outside of the page.                    *)
THEOREM ScreenShown == Spec => []ScreenShowsEnd
  <1>1. Spec => [](CInv /\ SInv)
    BY InitC, InitS, StepC, StepS, PTL DEF Spec
  <1>2. CInv /\ SInv => ScreenShowsEnd
    <2>1. SUFFICES ASSUME SInv, ~mixed PROVE ScreenShowsEnd
      BY DEF ScreenShowsEnd
    <2>2. InStep
      BY <2>1 DEF SInv
    <2> DEFINE place == Place[Len(text)]
               top   == Top(place \div Width)
    <2>3. CASE Quiet
      <3>1. Settled /\ text \in Seq(Chars) /\ Len(text) \in 0 .. MaxText
        BY <2>1, <2>2, <2>3 DEF InStep, Quiet, SInv, TextTyped
      <3>2. place \in Nat
        BY <3>1, PlaceNat, OfText
      <3> HIDE DEF place
      <3>3. /\ Row(place) \in Nat /\ Col(place) \in Cols /\ place = Row(place) * Width + Col(place)
            /\ x = Col(place) /\ y = Row(place) - top /\ vga = y * Width + x /\ Shows(top)
        BY <3>1, <3>2, Split DEF Settled, place, Row
      <3>4. top \in Int /\ top + y = Row(place)
        BY <3>3, Sizes DEF Top, Row
      <3>5. (top + y) * Width + x = place
        BY <3>3, <3>4
      <3>6. top \in Nat
        BY <3>3, Sizes DEF Top, Row
      <3>7. ASSUME NEW r \in Rows, NEW c \in Cols
            PROVE  video[r][c] = CellOnPage((top + r) * Width + c)
        <4>1. top + r \in Nat
          BY <3>6, Sizes DEF Rows
        <4>2. (top + r) * Width + c \in Nat
          BY <4>1, Put
        <4>3. QED
          BY <3>3, <4>2 DEF Shows, ShowsBut, NoHole
      <3>8. QED
        BY <2>2, <3>3, <3>5, <3>7 DEF ScreenShowsEnd, place, Top, InStep
    <2>4. CASE ~Quiet
      BY <2>2, <2>4 DEF ScreenShowsEnd, InStep
    <2>5. QED
      BY <2>3, <2>4
  <1>3. QED
    BY <1>1, <1>2, PTL
=============================================================================
