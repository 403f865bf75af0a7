------------------------------ MODULE Console ------------------------------
(***************************************************************************)
(* The text screen, kernel/printk/printk.c: characters go to video memory  *)
(* at a cursor, and the screen scrolls when the cursor leaves its last row.*)
(*                                                                         *)
(* main, task2, kalloc_test and idle all print, the timer switches between *)
(* them anywhere, and printk takes no lock.  A step here is one access to  *)
(* the shared cursor: the build is not optimised, so that even cur_pos_y++ *)
(* is a load and a store.  Three steps take two loads at once: Down, the   *)
(* test in Bottom with the argument of the scrolling behind it, and        *)
(* UpdateCursor.  An interrupt handler that prints is a printer that       *)
(* happens not to be interrupted.                                          *)
(***************************************************************************)
EXTENDS Integers, Sequences

CONSTANTS Printers,
          Width, Height,  \* 80 and 25
          Mapped,         \* character cells in the page printk_setup maps, 2048
          Tab,            \* columns a tab advances, 4
          Letters,        \* what leaves a mark on the screen
          MaxText         \* bound: characters printed

Blank == "blank"

ASSUME ConsoleAssumption ==
  /\ Width \in Nat \ {0} /\ Height \in Nat \ {0} /\ Tab \in 1 .. Width
  /\ Mapped \in Nat /\ Mapped >= Width * Height
  /\ Letters \cap {Blank, "newline", "tab"} = {}
  /\ MaxText \in Nat

Chars == Letters \cup {"newline", "tab"}
Rows  == 0 .. Height - 1
Cols  == 0 .. Width - 1

VARIABLES video,  \* [Rows -> [Cols -> character]]
          x, y,   \* cur_pos_x, cur_pos_y
          vga,    \* the cell where the hardware shows the cursor
          at,     \* [Printers -> next statement of put_char, "idle" outside]
          char,   \* [Printers -> the character]
          arg,    \* [Printers -> arguments x and y of put_char_at]
          reg,    \* [Printers -> a value on its way to cur_pos_x or cur_pos_y]
          fault,  \* a write outside the page: behind it a page fault stops the
                  \* kernel, before it lies other data; the model stops there
          count,  \* characters begun
          text,   \* history: all printed since the screen was cleared
          mixed,  \* history: two printers were in put_char at once
          lines   \* history: a newline was among what they printed then

cursor  == <<x, y>>
local   == <<char, arg, reg>>
history == <<count, text, mixed, lines>>
vars == <<video, cursor, vga, at, local, fault, history>>

NoArg == [x |-> 0, y |-> 0]

ClearLine == [c \in Cols |-> Blank]

(* printk_setup and clear_screen.  They leave the hardware's cursor where  *)
(* the BIOS had it; vga says where it is from the first character on, and  *)
(* is 0 before that.                                                       *)
Init ==
  /\ video = [r \in Rows |-> ClearLine]
  /\ x = 0 /\ y = 0 /\ vga = 0
  /\ at = [p \in Printers |-> "idle"]
  /\ char = [p \in Printers |-> Blank]
  /\ arg = [p \in Printers |-> NoArg]
  /\ reg = [p \in Printers |-> 0]
  /\ fault = FALSE
  /\ count = 0 /\ text = <<>> /\ mixed = FALSE /\ lines = FALSE

ScrollSwapped(times) ==   \* mutant: memcpy called with C's order of arguments
  [r \in Rows |-> IF r >= Height - times THEN ClearLine
                  ELSE IF r >= times THEN video[r - times] ELSE video[r]]

(* scroll_screen: rows move up, the last ones are cleared. *)
Scroll(times) ==
  [r \in Rows |-> IF r < Height - times THEN video[r + times] ELSE ClearLine]

-----------------------------------------------------------------------------
Goto(p, here, next) == ~fault /\ at[p] = here /\ at' = [at EXCEPT ![p] = next]

Step(p, here, next) == Goto(p, here, next) /\ UNCHANGED <<vga, char, arg, fault, history>>

Test(p, here, next) == Step(p, here, next) /\ UNCHANGED <<video, cursor, reg>>

Load(p, here, next, v) ==
  /\ Step(p, here, next)
  /\ reg' = [reg EXCEPT ![p] = v]
  /\ UNCHANGED <<video, cursor>>

Alone(p) == \A q \in Printers \ {p} : at[q] = "idle"

(* put_char: which way a character goes.  What was printed is remembered   *)
(* until two printers overlap.                                             *)
PutChar(p, c) ==
  /\ count < MaxText
  /\ Goto(p, "idle", CASE c = "newline" -> "line"
                       [] c = "tab"     -> "add"
                       [] OTHER         -> "row")
  /\ char' = [char EXCEPT ![p] = c]
  /\ count' = count + 1
  /\ mixed' = (mixed \/ ~Alone(p))
  /\ lines' = (lines \/ \E q \in Printers \ {p} :
                          at[q] # "idle" /\ "newline" \in {c, char[q]})
  /\ text' = IF mixed' THEN <<>> ELSE Append(text, c)
  /\ UNCHANGED <<video, cursor, vga, arg, reg, fault>>

(* put_char_at: its arguments are read from the right to the left. *)
ArgRow(p) ==
  /\ Goto(p, "row", "column")
  /\ arg' = [arg EXCEPT ![p].y = y]
  /\ UNCHANGED <<video, cursor, vga, char, reg, fault, history>>

ArgColumn(p) ==
  /\ Goto(p, "column", "store")
  /\ arg' = [arg EXCEPT ![p].x = x]
  /\ UNCHANGED <<video, cursor, vga, char, reg, fault, history>>

(* A cell behind the last row is still in the page, or no longer. *)
Store(p) ==
  LET cell == Width * arg[p].y + arg[p].x
      row  == cell \div Width
  IN  /\ Goto(p, "store", "add")
      /\ video' = IF row \in Rows THEN [video EXCEPT ![row][cell % Width] = char[p]]
                                  ELSE video
      /\ fault' = (cell \notin 0 .. Mapped - 1)
      /\ UNCHANGED <<cursor, vga, local, history>>

-----------------------------------------------------------------------------
(* advance_line *)
LineTest(p) ==
  \/ y >= Height - 1 /\ Test(p, "line", "scroll1")
  \/ y < Height - 1 /\ Test(p, "line", "inc")

LineScroll(p) ==
  /\ Step(p, "scroll1", "dec")
  /\ video' = Scroll(1)
  /\ UNCHANGED <<cursor, reg>>

LineDec(p) == Load(p, "dec", "decreased", y - 1)
LineInc(p) == Load(p, "inc", "increased", y + 1)

SetRow(p, here, next, v) ==
  /\ Step(p, here, next)
  /\ y' = v
  /\ UNCHANGED <<video, x, reg>>

SetColumn(p, here, v) ==
  /\ Step(p, here, IF here = "added" THEN "wrap" ELSE "cursor")
  /\ x' = v
  /\ UNCHANGED <<video, y, reg>>

LineSet(p) ==
  \/ SetRow(p, "decreased", "inc", reg[p])
  \/ SetRow(p, "increased", "home", reg[p])
  \/ SetColumn(p, "home", 0)

AdvanceLine(p) == LineTest(p) \/ LineScroll(p) \/ LineDec(p) \/ LineInc(p) \/ LineSet(p)

(* advance_char_n *)
Columns(p) == IF char[p] = "tab" THEN Tab ELSE 1

Add(p) == Load(p, "add", "added", x + Columns(p)) \/ SetColumn(p, "added", reg[p])

WrapTest(p) ==
  \/ x >= Width /\ Test(p, "wrap", "down")
  \/ x < Width /\ Test(p, "wrap", "cursor")

(* cur_pos_y + cur_pos_x / 80: its two loads are one step. *)
Down(p) ==
  \/ Load(p, "down", "below", y + x \div Width)
  \/ SetRow(p, "below", "last", reg[p])

BottomForgotten(p) ==   \* mutant: cur_pos_y = 24 is left out
  \/ /\ y > Height - 1 /\ Step(p, "last", "mod")
     /\ video' = Scroll(y - (Height - 1)) /\ UNCHANGED <<cursor, reg>>
  \/ y <= Height - 1 /\ Test(p, "last", "mod")

(* The row of the test is also that of the scrolling. *)
Bottom(p) ==
  \/ /\ y > Height - 1 /\ Step(p, "last", "bottom")
     /\ video' = Scroll(y - (Height - 1)) /\ UNCHANGED <<cursor, reg>>
  \/ y <= Height - 1 /\ Test(p, "last", "mod")
  \/ SetRow(p, "bottom", "mod", Height - 1)

Mod(p) == Load(p, "mod", "modulo", x % Width) \/ SetColumn(p, "modulo", reg[p])

AdvanceChar(p) == Add(p) \/ WrapTest(p) \/ Down(p) \/ Bottom(p) \/ Mod(p)

(* update_cursor_vga, and the return, which forgets the local variables. *)
UpdateCursor(p) ==
  /\ Goto(p, "cursor", "idle")
  /\ vga' = y * Width + x
  /\ char' = [char EXCEPT ![p] = Blank]
  /\ arg' = [arg EXCEPT ![p] = NoArg]
  /\ reg' = [reg EXCEPT ![p] = 0]
  /\ UNCHANGED <<video, cursor, fault, history>>

Next ==
  \E p \in Printers :
    \/ \E c \in Chars : PutChar(p, c)
    \/ ArgRow(p) \/ ArgColumn(p) \/ Store(p)
    \/ AdvanceLine(p) \/ AdvanceChar(p) \/ UpdateCursor(p)

Spec == Init /\ [][Next]_vars

-----------------------------------------------------------------------------
(* Where the cursor is after k characters of the text, on a page that has  *)
(* no end and whose cells are numbered along its rows.                     *)
Place[k \in 0 .. MaxText] ==
  IF k = 0 THEN 0
  ELSE LET p == Place[k - 1]
       IN  CASE text[k] = "newline" -> (p \div Width + 1) * Width
             [] text[k] = "tab"     -> p + Tab
             [] OTHER               -> p + 1

CellOnPage(p) ==
  LET here == {k \in DOMAIN text : text[k] \in Letters /\ Place[k - 1] = p}
  IN  IF here = {} THEN Blank ELSE text[CHOOSE k \in here : TRUE]

Quiet == ~fault /\ \A p \in Printers : at[p] = "idle"

(* As long as no two printers overlap, the screen shows the end of that    *)
(* page, down to the cursor's row, and the cursor where it is: no row is   *)
(* lost, doubled or left over by scrolling, tabs and long lines, and none  *)
(* is written behind the screen's page.                                    *)
ScreenShowsEnd ==
  ~mixed =>
    LET place == Place[Len(text)]
        row   == place \div Width
        top   == IF row < Height THEN 0 ELSE row - (Height - 1)
    IN  /\ ~fault
        /\ Quiet =>
             /\ (top + y) * Width + x = place
             /\ vga = y * Width + x
             /\ \A r \in Rows, c \in Cols :
                  video[r][c] = CellOnPage((top + r) * Width + c)

(* However printers overlap, the column is inside the row when the last of *)
(* them is done: each that moved it out tests it again.  The row is on the *)
(* screen if no newline was among what overlapped: advance_line tests it   *)
(* only before it moves, and lost updates carry it any way.                *)
CursorComesBack ==
  Quiet => x \in Cols /\ (~lines => y \in Rows)
=============================================================================
