------------------------------ MODULE Console ------------------------------
(***************************************************************************)
(* The shell's line editor (shell_run in shell/shell.c) and the text       *)
(* screen it echoes to (kernel/vga.c).  The shell prints with interrupts   *)
(* on: its vga_putchar loads the cursor, and sys_write of a user process,  *)
(* which runs with interrupts off, may fall anywhere before it stores it.  *)
(***************************************************************************)
EXTENDS Integers, Sequences

CONSTANTS
  VGA_ROWS, VGA_COLS, INPUT_MAX,
  Keys,        \* printing characters that are typed
  MaxOverrun   \* bound: rows a user process prints below the screen

BS == "backspace"
NL == "newline"
Blank == " "
PROMPT == <<">", Blank>>
CLEAR == "clear"
Replies == {<<>>, <<"?", NL>>, <<CLEAR>>}   \* what a command prints, or vga_init

Cells == 0..(VGA_ROWS * VGA_COLS - 1)

ASSUME ConsoleAssumption ==
  /\ VGA_ROWS \in Nat \ {0} /\ VGA_COLS \in Nat \ {0} /\ INPUT_MAX \in Nat \ {0}
  /\ Len(PROMPT) + INPUT_MAX <= VGA_ROWS * VGA_COLS
  /\ Keys \cap {BS, NL, CLEAR} = {}

VARIABLES
  vga_row, vga_col, screen,
  buf,       \* the first buf_len characters of the input line
  out,       \* what the shell has still to print
  pc,        \* where it is in vga_putchar
  r, k,      \* the row and column it has loaded
  alone      \* history: no user process has printed since the last Enter

vga == <<vga_row, vga_col, screen>>
vars == <<vga, buf, out, pc, r, k, alone>>

Init ==
  /\ vga_row = 0 /\ vga_col = 0
  /\ screen = [i \in Cells |-> Blank]
  /\ buf = <<>>
  /\ out = PROMPT
  /\ pc = "idle"
  /\ r = 0 /\ k = 0
  /\ alone = TRUE

----------------------------------------------------------------------------
(* shell_run: one character from the keyboard *)

Ready == pc = "idle" /\ out = <<>>

Backspace ==
  /\ Ready /\ buf # <<>>
  /\ buf' = SubSeq(buf, 1, Len(buf) - 1)
  /\ out' = <<BS>>
  /\ UNCHANGED <<vga, pc, r, k, alone>>

Enter(reply) ==
  /\ Ready
  /\ buf' = <<>>
  /\ out' = <<NL>> \o reply \o PROMPT
  /\ alone' = TRUE
  /\ UNCHANGED <<vga, pc, r, k>>

TypeChar(c) ==
  /\ Ready /\ Len(buf) < INPUT_MAX - 1
  /\ buf' = Append(buf, c)
  /\ out' = <<c>>
  /\ UNCHANGED <<vga, pc, r, k, alone>>

----------------------------------------------------------------------------
(* vga_putchar and vga_scroll *)

\* A cell written; below the last row the write misses the screen.
Written(scr, row, col, c) ==
  [i \in Cells |-> IF i = row * VGA_COLS + col THEN c ELSE scr[i]]

\* Fault: nothing is moved up.
Scrolled_Not(scr) == scr

Scrolled(scr) ==
  [i \in Cells |-> IF i + VGA_COLS \in Cells THEN scr[i + VGA_COLS] ELSE Blank]

\* ++vga_col == VGA_COLS, ++vga_row == VGA_ROWS.
AtRowEnd(col) == col = VGA_COLS
BelowScreen(row) == row = VGA_ROWS

\* The cell before a cursor, which backspace erases.
BackRow(row, col) == IF col = 0 /\ row > 0 THEN row - 1 ELSE row
BackCol(row, col) == IF col > 0 THEN col - 1 ELSE IF row > 0 THEN VGA_COLS - 1 ELSE 0

\* The shell's call: load the cursor...
PutLoad ==
  /\ pc = "idle" /\ out # <<>> /\ Head(out) # CLEAR
  /\ r' = vga_row /\ k' = vga_col
  /\ pc' = IF Head(out) = NL THEN "newline" ELSE "write"
  /\ UNCHANGED <<vga, buf, out, alone>>

Done == pc' = "idle" /\ out' = Tail(out)

\* ... erase the cell before it...
PutBackspace ==
  /\ pc = "write" /\ Head(out) = BS
  /\ vga_col' = BackCol(r, k)
  /\ vga_row' = IF BackRow(r, k) # r THEN BackRow(r, k) ELSE vga_row
  /\ screen' = Written(screen, BackRow(r, k), BackCol(r, k), Blank)
  /\ Done
  /\ UNCHANGED <<buf, r, k, alone>>

\* ... or write the character, at the end of the row go on to the next...
PutWrite ==
  /\ pc = "write" /\ Head(out) # BS
  /\ screen' = Written(screen, r, k, Head(out))
  /\ IF AtRowEnd(k + 1)
     THEN pc' = "newline" /\ UNCHANGED <<vga_col, out>>
     ELSE vga_col' = k + 1 /\ Done
  /\ UNCHANGED <<vga_row, buf, r, k, alone>>

PutNewline ==
  /\ pc = "newline"
  /\ vga_col' = 0
  /\ vga_row' = r + 1
  /\ IF BelowScreen(r + 1) THEN pc' = "scroll" /\ UNCHANGED out ELSE Done
  /\ UNCHANGED <<screen, buf, r, k, alone>>

\* ... and scroll when that is below the screen.
PutScroll ==
  /\ pc = "scroll"
  /\ screen' = Scrolled(screen)
  /\ vga_row' = VGA_ROWS - 1
  /\ Done
  /\ UNCHANGED <<vga_col, buf, r, k, alone>>

\* cmd_clear calls vga_init: the cells first, then the cursor.
ClearCells ==
  /\ pc = "idle" /\ out # <<>> /\ Head(out) = CLEAR
  /\ screen' = [i \in Cells |-> Blank]
  /\ pc' = "home"
  /\ UNCHANGED <<vga_row, vga_col, buf, out, r, k, alone>>

ClearHome ==
  /\ pc = "home"
  /\ vga_row' = 0 /\ vga_col' = 0
  /\ Done
  /\ UNCHANGED <<screen, buf, r, k, alone>>

\* A user process's call: the whole of vga_putchar at once.
UserNewline ==
  /\ vga_row < VGA_ROWS + MaxOverrun
  /\ vga_col' = 0
  /\ IF BelowScreen(vga_row + 1)
     THEN screen' = Scrolled(screen) /\ UNCHANGED vga_row
     ELSE vga_row' = vga_row + 1 /\ UNCHANGED screen

UserChar ==
  LET written == Written(screen, vga_row, vga_col, "u")
      wraps == AtRowEnd(vga_col + 1)
      scrolls == wraps /\ BelowScreen(vga_row + 1)
  IN  /\ vga_row < VGA_ROWS + MaxOverrun
      /\ vga_col' = IF wraps THEN 0 ELSE vga_col + 1
      /\ vga_row' = IF wraps /\ ~scrolls THEN vga_row + 1 ELSE vga_row
      /\ screen' = IF scrolls THEN Scrolled(written) ELSE written

UserBackspace ==
  /\ vga_row' = BackRow(vga_row, vga_col) /\ vga_col' = BackCol(vga_row, vga_col)
  /\ screen' = Written(screen, vga_row', vga_col', Blank)

\* sys_write of one character.
UserWrite ==
  /\ UserNewline \/ UserChar \/ UserBackspace
  /\ alone' = FALSE
  /\ UNCHANGED <<buf, out, pc, r, k>>

Put == PutLoad \/ PutBackspace \/ PutWrite \/ PutNewline \/ PutScroll
       \/ ClearCells \/ ClearHome

Next ==
  \/ Backspace \/ (\E c \in Keys : TypeChar(c)) \/ (\E reply \in Replies : Enter(reply))
  \/ Put
  \/ UserWrite

Spec == Init /\ [][Next]_vars

----------------------------------------------------------------------------
(* Properties *)

\* What the user sees is what will be executed: the cells before the cursor
\* spell the prompt and the input line, through wrapping, scrolling and erasing
\* across rows, unless a user process has printed since the last Enter; wherever
\* its output left the cursor, the next line is right again.
EchoShowsLine ==
  Ready /\ alone =>
           LET line == PROMPT \o buf
               at == vga_row * VGA_COLS + vga_col
           IN  /\ at >= Len(line)
               /\ \A j \in 1..Len(line) : screen[at - Len(line) + j - 1] = line[j]
=============================================================================
