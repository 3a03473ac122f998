--------------------------- MODULE ConsoleProofs ---------------------------
(***************************************************************************)
(* The screen shows the line that will be executed, for every screen size, *)
(* input buffer and keyboard, wherever the shell is interrupted.           *)
(***************************************************************************)
EXTENDS Console, SequenceTheorems, TLAPS

\* Time for the leaves that unfold the larger actions.
USE SMTT(30), ZenonT(30)

Line == PROMPT \o buf
Cursor == vga_row * VGA_COLS + vga_col

\* The n cells before position at spell the first n characters of a line, which
\* begins at the left margin.
ShownOn(scr, line, n, at) ==
  /\ \E row \in Nat : at - n = row * VGA_COLS
  /\ \A j \in 1..n : scr[at - n + j - 1] = line[j]

\* What is left to print is the end of the line; the rest is on the screen.
Echoing ==
  LET done == Len(Line) - Len(out)
  IN  /\ done \in Nat
      /\ \A j \in 1..Len(out) : out[j] = Line[done + j]
      /\ pc # "home"
      /\ pc \in {"idle", "write"} => ShownOn(screen, Line, done, Cursor)
      /\ pc = "write" => r = vga_row /\ k = vga_col
      /\ pc = "newline" => r = vga_row /\ ShownOn(screen, Line, done + 1, (r + 1) * VGA_COLS)
      /\ pc = "scroll" => vga_col = 0 /\ ShownOn(screen, Line, done + 1, VGA_ROWS * VGA_COLS)

\* The character taken from the line is still on the screen.
Erasing ==
  /\ out = <<BS>> /\ pc \in {"idle", "write"}
  /\ ShownOn(screen, Line, Len(Line), Cursor - 1)
  /\ pc = "write" => r = vga_row /\ k = vga_col

Chars == Keys \cup {BS, NL, CLEAR, Blank, ">", "?"}

\* A command's output and the prompt: before the prompt the cursor returns to
\* the left margin.
Pending(o) ==
  /\ o \in Seq(Chars) /\ Len(o) >= 3
  /\ o[Len(o) - 1] = ">" /\ o[Len(o)] = Blank
  /\ o[Len(o) - 2] \in {NL, CLEAR}
  /\ \A j \in 1..(Len(o) - 2) : o[j] \in {NL, CLEAR, "?"}

Replying ==
  /\ buf = <<>> /\ Pending(out)
  /\ pc = "write" => Head(out) = "?"
  /\ pc = "home" <=> pc # "idle" /\ Head(out) = CLEAR
  /\ pc = "scroll" => vga_col = 0

\* The cursor is on the screen, except while the shell is about to scroll.
Bounds ==
  /\ vga_row \in Nat /\ vga_col \in 0..(VGA_COLS - 1)
  /\ r \in 0..(VGA_ROWS - 1) /\ k \in 0..(VGA_COLS - 1)
  /\ pc \in {"idle", "write", "newline", "scroll", "home"}
  /\ pc # "scroll" => vga_row < VGA_ROWS
  /\ buf \in Seq(Keys) /\ Len(buf) < INPUT_MAX
  /\ out \in Seq(Chars)
  /\ pc # "idle" => out # <<>>

Display == Echoing \/ Erasing \/ Replying

IInv == Bounds /\ (alone => Display)

----------------------------------------------------------------------------
(* Cells and lines *)

\* Positions on the screen.
LEMMA Geometry ==
  /\ \A row \in 0..(VGA_ROWS - 1), col \in 0..(VGA_COLS - 1) : row * VGA_COLS + col \in Cells
  /\ \A row \in Nat : row * VGA_COLS \in Nat /\ (row + 1) * VGA_COLS = row * VGA_COLS + VGA_COLS
<1>1. VGA_ROWS \in Nat /\ VGA_COLS \in Nat \ {0}
  BY ConsoleAssumption
<1>2. ASSUME NEW row \in 0..(VGA_ROWS - 1), NEW col \in 0..(VGA_COLS - 1)
      PROVE  row * VGA_COLS + col \in Cells
  <2>1. (row + 1) * VGA_COLS <= VGA_ROWS * VGA_COLS
    BY <1>1
  <2>2. (row + 1) * VGA_COLS = row * VGA_COLS + VGA_COLS /\ row * VGA_COLS \in Nat
    BY <1>1
  <2> QED BY <1>1, <2>1, <2>2 DEF Cells
<1> QED BY <1>1, <1>2

\* The prompt, then what was typed.
LEMMA LineFacts ==
  ASSUME NEW b \in Seq(Keys)
  PROVE  /\ Len(b) \in Nat /\ Len(PROMPT \o b) = Len(b) + 2
         /\ (PROMPT \o b)[1] = ">" /\ (PROMPT \o b)[2] = Blank
         /\ \A j \in 1..Len(b) : (PROMPT \o b)[j + 2] = b[j]
<1> DEFINE S == Keys \cup {">", Blank}
<1>1. PROMPT \in Seq(S) /\ Len(PROMPT) = 2 /\ PROMPT[1] = ">" /\ PROMPT[2] = Blank
  <2>1. ">" \in S /\ Blank \in S
    OBVIOUS
  <2> HIDE DEF S
  <2> QED BY <2>1 DEF PROMPT
<1>2. b \in Seq(S) /\ Len(b) \in Nat
  OBVIOUS
<1> HIDE DEF S
<1>3. /\ Len(PROMPT \o b) = 2 + Len(b)
      /\ \A j \in 1..(2 + Len(b)) : (PROMPT \o b)[j] = IF j <= 2 THEN PROMPT[j] ELSE b[j - 2]
  <2>1. /\ Len(PROMPT \o b) = Len(PROMPT) + Len(b)
        /\ \A j \in 1..(Len(PROMPT) + Len(b)) :
             (PROMPT \o b)[j] = IF j <= Len(PROMPT) THEN PROMPT[j] ELSE b[j - Len(PROMPT)]
    BY <1>1, <1>2, ConcatProperties, Zenon
  <2> QED BY <1>1, <2>1, Zenon
<1>4. \A j \in 1..Len(b) : j + 2 \in 1..(2 + Len(b)) /\ ~(j + 2 <= 2) /\ (j + 2) - 2 = j
  BY <1>2
<1>5. 1 \in 1..(2 + Len(b)) /\ 2 \in 1..(2 + Len(b)) /\ 1 <= 2 /\ 2 <= 2
  BY <1>2
<1> QED BY <1>1, <1>2, <1>3, <1>4, <1>5

\* Typing a character makes the line longer by it, backspace takes it away again.
LEMMA Lengthened ==
  ASSUME NEW b \in Seq(Keys), NEW c \in Keys, NEW d, d = Append(b, c)
  PROVE  /\ d \in Seq(Keys) /\ Len(d) = Len(b) + 1
         /\ Len(PROMPT \o d) = Len(PROMPT \o b) + 1
         /\ (PROMPT \o d)[Len(PROMPT \o b) + 1] = c
         /\ \A j \in 1..Len(PROMPT \o b) : (PROMPT \o d)[j] = (PROMPT \o b)[j]
<1>1. /\ d \in Seq(Keys) /\ Len(d) = Len(b) + 1 /\ Len(b) \in Nat
      /\ d[Len(b) + 1] = c /\ \A j \in 1..Len(b) : d[j] = b[j]
  OBVIOUS
<1>2. /\ Len(PROMPT \o b) = Len(b) + 2 /\ Len(PROMPT \o d) = Len(d) + 2
      /\ \A j \in {1, 2} : (PROMPT \o d)[j] = (PROMPT \o b)[j]
      /\ \A i \in 1..Len(b) : (PROMPT \o b)[i + 2] = b[i]
      /\ \A i \in 1..Len(d) : (PROMPT \o d)[i + 2] = d[i]
  BY <1>1, LineFacts, Zenon
<1>3. Len(b) + 1 \in 1..Len(d) /\ (Len(b) + 1) + 2 = Len(PROMPT \o b) + 1
  BY <1>1, <1>2
<1>4. ASSUME NEW j \in 1..Len(PROMPT \o b), j \notin {1, 2}
      PROVE  (PROMPT \o d)[j] = (PROMPT \o b)[j]
  <2>1. PICK i \in 1..Len(b) : j = i + 2
    BY <1>1, <1>2, <1>4
  <2>2. i \in 1..Len(d)
    BY <1>1
  <2> QED BY <1>1, <1>2, <2>1, <2>2, Zenon
<1>5. Len(PROMPT \o d) = Len(PROMPT \o b) + 1
  BY <1>1, <1>2
<1> QED BY <1>1, <1>2, <1>3, <1>4, <1>5, Zenon

LEMMA Shortened ==
  ASSUME NEW b \in Seq(Keys), b # <<>>, NEW d, d = SubSeq(b, 1, Len(b) - 1)
  PROVE  /\ d \in Seq(Keys) /\ Len(d) = Len(b) - 1 /\ Len(b) > 0
         /\ \E c \in Keys : b = Append(d, c)
<1>1. Len(b) \in Nat /\ Len(b) > 0
  OBVIOUS
<1>2. d \in Seq(Keys) /\ Len(d) = Len(b) - 1 /\ \A i \in 1..(Len(b) - 1) : d[i] = b[i]
  <2>1. PICK last \in Int : last = Len(b) - 1 /\ \A i \in 1..last : i \in 1..Len(b)
    BY <1>1
  <2>3. \A i \in 1..last : b[i] \in Keys
    BY <2>1, ElementOfSeq, Zenon
  <2>2. /\ d \in Seq(Keys) /\ Len(d) = (IF 1 <= last THEN last - 1 + 1 ELSE 0)
        /\ \A i \in 1..(last - 1 + 1) : d[i] = b[1 + i - 1]
    BY <2>1, <2>3, SubSeqProperties
  <2> QED BY <1>1, <2>1, <2>2
<1>3. b[Len(b)] \in Keys
  BY <1>1
<1>4. PICK c \in Keys : c = b[Len(b)]
  BY <1>3
<1>5. /\ Append(d, c) \in Seq(Keys) /\ Len(Append(d, c)) = Len(b)
      /\ \A i \in 1..Len(b) : Append(d, c)[i] = b[i]
  BY <1>1, <1>2, <1>4
<1>6. b = Append(d, c)
  BY <1>5, SeqEqual
<1> QED BY <1>1, <1>2, <1>6

\* The two parts of ShownOn, for facts that contain it unexpanded.
LEMMA IsShown ==
  ASSUME NEW scr, NEW line, NEW n, NEW at,
         \E row \in Nat : at - n = row * VGA_COLS,
         \A j \in 1..n : scr[at - n + j - 1] = line[j]
  PROVE  ShownOn(scr, line, n, at)
  BY Zenon DEF ShownOn

\* A character written at the cursor extends what is shown.
LEMMA WriteShows ==
  ASSUME NEW scr, NEW line, NEW c, NEW n \in Nat,
         NEW row \in 0..(VGA_ROWS - 1), NEW col \in 0..(VGA_COLS - 1),
         ShownOn(scr, line, n, row * VGA_COLS + col), line[n + 1] = c
  PROVE  ShownOn(Written(scr, row, col, c), line, n + 1, row * VGA_COLS + col + 1)
<1>1. PICK at \in Cells : at = row * VGA_COLS + col
  BY Geometry
<1>2. PICK start \in Nat : at - n = start /\ \E row0 \in Nat : start = row0 * VGA_COLS
  <2>1. PICK row0 \in Nat : at - n = row0 * VGA_COLS
    BY <1>1 DEF ShownOn
  <2> QED BY <2>1, Geometry
<1>3. \A j \in 1..n : scr[start + j - 1] = line[j]
  BY <1>1, <1>2 DEF ShownOn
<1>4. at \in Nat /\ \A i \in 0..at : i \in Cells
  BY ConsoleAssumption DEF Cells
<1> DEFINE w == Written(scr, row, col, c)
<1>5. w[at] = c /\ \A i \in 0..(at - 1) : w[i] = scr[i]
  BY <1>1, <1>4 DEF Written
<1> HIDE DEF w
<1>6. \A j \in 1..(n + 1) : w[start + j - 1] = line[j]
  <2> TAKE j \in 1..(n + 1)
  <2>1. CASE j = n + 1
    BY <2>1, <1>2, <1>4, <1>5
  <2>2. CASE j \in 1..n
    <3>1. start + j - 1 \in 0..(at - 1)
      BY <2>2, <1>2, <1>4
    <3> QED BY <2>2, <3>1, <1>3, <1>5
  <2> QED BY <2>1, <2>2
<1>7. PICK m \in Nat, next \in Nat : m = n + 1 /\ next = at + 1 /\ next - m = start
  BY <1>2, <1>4
<1>8. ShownOn(w, line, m, next)
  BY <1>2, <1>6, <1>7 DEF ShownOn
<1> QED BY <1>1, <1>7, <1>8 DEF w

\* Scrolling moves a line that is shorter than the screen up by one row.
LEMMA ScrollShows ==
  ASSUME NEW scr, NEW line, NEW n \in Nat, n < VGA_ROWS * VGA_COLS,
         ShownOn(scr, line, n, VGA_ROWS * VGA_COLS)
  PROVE  ShownOn(Scrolled(scr), line, n, (VGA_ROWS - 1) * VGA_COLS)
<1>1. VGA_ROWS \in Nat \ {0} /\ VGA_COLS \in Nat \ {0}
  BY ConsoleAssumption
<1>2. PICK all \in Nat : all = VGA_ROWS * VGA_COLS
  BY <1>1
<1>3. PICK row \in Nat : all - n = row * VGA_COLS
  BY <1>2 DEF ShownOn
<1>4. row # 0
  BY <1>1, <1>2, <1>3
<1>5. PICK above \in Nat : above = row - 1
  BY <1>4
<1>6. row * VGA_COLS = above * VGA_COLS + VGA_COLS /\ above * VGA_COLS \in Nat
  BY <1>1, <1>5, Geometry
<1>7. (VGA_ROWS - 1) * VGA_COLS = all - VGA_COLS
  BY <1>1, <1>2
<1>8. PICK start \in Nat : start = above * VGA_COLS /\ all - VGA_COLS - n = start
  BY <1>1, <1>3, <1>6
<1>9. \A j \in 1..n : scr[start + VGA_COLS + j - 1] = line[j]
  <2>1. \A j \in 1..n : all - n + j - 1 = start + VGA_COLS + j - 1
    BY <1>1, <1>8
  <2> QED BY <1>2, <2>1 DEF ShownOn
<1>10. \A j \in 1..n : Scrolled(scr)[start + j - 1] = line[j]
  <2> TAKE j \in 1..n
  <2>1. PICK i \in Nat : i = start + j - 1
    OBVIOUS
  <2>2. i \in Cells /\ i + VGA_COLS \in Cells
    BY <1>1, <1>2, <1>8, <2>1 DEF Cells
  <2>3. Scrolled(scr)[i] = scr[i + VGA_COLS]
    BY <2>2 DEF Scrolled
  <2>4. i + VGA_COLS = start + VGA_COLS + j - 1
    BY <1>1, <2>1
  <2> QED BY <2>1, <2>3, <2>4, <1>9
<1> QED BY <1>7, <1>8, <1>10 DEF ShownOn

\* Backspace erases the cell before the cursor, across the left margin, too.
LEMMA EraseShows ==
  ASSUME NEW scr, NEW line, NEW n \in Nat \ {0},
         NEW row \in 0..(VGA_ROWS - 1), NEW col \in 0..(VGA_COLS - 1),
         NEW at, at = row * VGA_COLS + col, ShownOn(scr, line, n, at - 1)
  PROVE  /\ BackRow(row, col) \in 0..(VGA_ROWS - 1) /\ BackCol(row, col) \in 0..(VGA_COLS - 1)
         /\ ShownOn(Written(scr, BackRow(row, col), BackCol(row, col), Blank), line, n,
                    BackRow(row, col) * VGA_COLS + BackCol(row, col))
<1>1. VGA_ROWS \in Nat \ {0} /\ VGA_COLS \in Nat \ {0}
  BY ConsoleAssumption
<1>2. at \in Cells
  BY Geometry
<1>3. PICK start \in Nat : at - 1 - n = start /\ \E row0 \in Nat : start = row0 * VGA_COLS
  <2>1. PICK row0 \in Nat : at - 1 - n = row0 * VGA_COLS
    BY Zenon DEF ShownOn
  <2> QED BY <2>1, Geometry
<1>4. at \in Nat /\ at > 1
  BY <1>2, <1>3 DEF Cells
<1>5. row # 0 \/ col # 0
  BY <1>1, <1>2, <1>4
<1>6. PICK br \in 0..(VGA_ROWS - 1), bc \in 0..(VGA_COLS - 1) :
        /\ br = BackRow(row, col) /\ bc = BackCol(row, col)
        /\ br * VGA_COLS + bc = at - 1
  <2>1. CASE col # 0
    BY <1>1, <1>2, <2>1 DEF BackRow, BackCol
  <2>2. CASE col = 0
    <3>1. PICK up \in Nat : up = row - 1
      BY <1>5, <2>2
    <3>2. row * VGA_COLS = up * VGA_COLS + VGA_COLS /\ up * VGA_COLS \in Nat
      BY <1>1, <3>1, Geometry
    <3> QED BY <1>1, <1>2, <1>5, <2>2, <3>1, <3>2 DEF BackRow, BackCol
  <2> QED BY <2>1, <2>2
<1> DEFINE w == Written(scr, br, bc, Blank)
<1>7. \A i \in 0..(at - 2) : w[i] = scr[i]
  <2> TAKE i \in 0..(at - 2)
  <2>1. i \in Cells /\ i # br * VGA_COLS + bc
    BY <1>2, <1>4, <1>6, ConsoleAssumption DEF Cells
  <2> QED BY <2>1 DEF Written
<1> HIDE DEF w
<1>8. \A j \in 1..n : scr[start + j - 1] = line[j]
  <2>1. \A j \in 1..n : scr[at - 1 - n + j - 1] = line[j]
    BY Zenon DEF ShownOn
  <2> QED BY <2>1, <1>3
<1>9. \A j \in 1..n : start + j - 1 \in 0..(at - 2)
  BY <1>3, <1>4
<1>10. ShownOn(w, line, n, at - 1)
  BY <1>3, <1>7, <1>8, <1>9 DEF ShownOn
<1> QED BY <1>6, <1>10 DEF w

----------------------------------------------------------------------------
(* Steps *)

\* What is on the screen depends on the characters of the line only.
LEMMA SameLine ==
  ASSUME NEW scr, NEW line, NEW line2, NEW n, NEW at,
         ShownOn(scr, line, n, at), \A j \in 1..n : line2[j] = line[j]
  PROVE  ShownOn(scr, line2, n, at)
  BY Zenon DEF ShownOn

\* When the shell is ready, all of the line is shown.
LEMMA ReadyShows ==
  ASSUME IInv, Ready, alone
  PROVE  ShownOn(screen, Line, Len(Line), Cursor)
<1>1. ~Erasing /\ ~Replying
  BY DEF Ready, Erasing, Replying, Pending
<1>2. Echoing /\ out = <<>> /\ pc = "idle"
  BY <1>1 DEF IInv, Display, Ready
<1>3. Len(Line) - Len(out) = Len(Line)
  BY <1>2, LineFacts DEF IInv, Bounds, Line
<1> QED BY <1>2, <1>3 DEF Echoing

\* The prompt is about to be printed.
PromptLeft(o) == Len(o) = 2 /\ o[1] = ">" /\ o[2] = Blank

LEMMA PromptEchoes ==
  ASSUME buf' = <<>>, PromptLeft(out'), pc' = "idle", vga_row' \in Nat, vga_col' = 0
  PROVE  Echoing'
<1>1. PICK b \in Seq(Keys) : b = buf' /\ Len(b) = 0
  BY EmptySeq, Zenon
<1>2. Len(Line') = 2 /\ Line'[1] = ">" /\ Line'[2] = Blank
  <2>1. /\ Len(PROMPT \o b) = Len(b) + 2
        /\ (PROMPT \o b)[1] = ">" /\ (PROMPT \o b)[2] = Blank
    BY LineFacts, Zenon
  <2>2. Len(b) + 2 = 2
    BY <1>1
  <2> QED BY <1>1, <2>1, <2>2, Zenon DEF Line
<1>3. Len(Line') - Len(out') = 0
  BY <1>2 DEF PromptLeft
<1>4. \A j \in 1..Len(out') : out'[j] = Line'[0 + j]
  <2>1. \A j \in 1..2 : 0 + j = j /\ j \in {1, 2}
    OBVIOUS
  <2> QED BY <1>2, <2>1, Zenon DEF PromptLeft
<1>5. Cursor' - 0 = vga_row' * VGA_COLS
  BY Geometry DEF Cursor
<1>6. \A j \in 1..0 : screen'[Cursor' - 0 + j - 1] = Line'[j]
  OBVIOUS
<1>7. ShownOn(screen', Line', 0, Cursor')
  BY <1>5, <1>6, IsShown, Zenon
<1> QED BY <1>3, <1>4, <1>7 DEF Echoing

\* A command's output, character by character.
LEMMA PendingNext ==
  ASSUME NEW o, Pending(o)
  PROVE  /\ o # <<>> /\ Head(o) \in {NL, CLEAR, "?"}
         /\ Pending(Tail(o)) \/ (PromptLeft(Tail(o)) /\ Head(o) # "?")
<1>1. /\ o \in Seq(Chars) /\ Len(o) \in Nat /\ Len(o) >= 3 /\ o # <<>> /\ Head(o) = o[1]
      /\ Tail(o) \in Seq(Chars) /\ Len(Tail(o)) = Len(o) - 1
      /\ \A j \in 1..(Len(o) - 1) : Tail(o)[j] = o[j + 1]
  BY DEF Pending
<1>2. Head(o) \in {NL, CLEAR, "?"}
  <2>1. 1 \in 1..(Len(o) - 2)
    BY <1>1
  <2> QED BY <1>1, <2>1, Zenon DEF Pending
<1>3. CASE Len(o) = 3
  <2>1. Len(o) - 1 = 2 /\ Len(o) - 2 = 1 /\ 1 \in 1..(Len(o) - 1) /\ 2 \in 1..(Len(o) - 1)
        /\ 1 + 1 = 2 /\ 2 + 1 = 3
    BY <1>3
  <2>2. o[1] \in {NL, CLEAR} /\ o[2] = ">" /\ o[3] = Blank
    BY <1>3, <2>1, Zenon DEF Pending
  <2>3. Tail(o)[1] = o[2] /\ Tail(o)[2] = o[3] /\ Len(Tail(o)) = 2
    BY <1>1, <2>1
  <2> QED BY <1>1, <2>2, <2>3 DEF PromptLeft, NL, CLEAR
<1>4. CASE Len(o) > 3
  <2>1. \A j \in 1..(Len(Tail(o)) - 2) : Tail(o)[j] \in {NL, CLEAR, "?"}
    <3> TAKE j \in 1..(Len(Tail(o)) - 2)
    <3>1. j \in 1..(Len(o) - 1) /\ j + 1 \in 1..(Len(o) - 2)
      BY <1>1
    <3> QED BY <1>1, <3>1 DEF Pending
  <2>2. \A i \in {0, 1, 2} : Tail(o)[Len(Tail(o)) - i] = o[Len(o) - i]
    <3> TAKE i \in {0, 1, 2}
    <3>1. Len(Tail(o)) - i \in 1..(Len(o) - 1) /\ Len(Tail(o)) - i + 1 = Len(o) - i
      BY <1>1, <1>4
    <3> QED BY <1>1, <3>1
  <2>3. /\ Tail(o)[Len(Tail(o)) - 1] = ">" /\ Tail(o)[Len(Tail(o))] = Blank
        /\ Tail(o)[Len(Tail(o)) - 2] \in {NL, CLEAR}
    <3>1. Len(o) - 0 = Len(o) /\ Len(Tail(o)) - 0 = Len(Tail(o))
      BY <1>1
    <3> QED BY <2>2, <3>1, Zenon DEF Pending
  <2> QED BY <1>1, <1>2, <1>4, <2>1, <2>3 DEF Pending
<1> QED BY <1>1, <1>2, <1>3, <1>4

\* Enter prints the newline, the reply and the prompt.
LEMMA EnterPending ==
  ASSUME NEW reply \in Replies
  PROVE  Pending(<<NL>> \o reply \o PROMPT)
<1>1. /\ <<NL>> \in Seq(Chars) /\ Len(<<NL>>) = 1 /\ <<NL>>[1] = NL
      /\ PROMPT \in Seq(Chars) /\ Len(PROMPT) = 2 /\ PROMPT[1] = ">" /\ PROMPT[2] = Blank
  BY DEF Chars, PROMPT
<1>2. /\ reply \in Seq(Chars) /\ Len(reply) \in Nat
      /\ Len(reply) > 0 => reply[Len(reply)] \in {NL, CLEAR}
      /\ \A j \in 1..Len(reply) : reply[j] \in {NL, CLEAR, "?"}
  <2>1. CASE reply = <<>>
    BY <2>1
  <2>2. CASE reply = <<"?", NL>>
    BY <2>2 DEF Chars
  <2>3. CASE reply = <<CLEAR>>
    BY <2>3 DEF Chars
  <2> QED BY <2>1, <2>2, <2>3 DEF Replies
<1>3. PICK h : h = <<NL>> \o reply
  OBVIOUS
<1>4. /\ h \in Seq(Chars) /\ Len(h) = 1 + Len(reply) /\ h[1] = NL
      /\ \A j \in 1..Len(reply) : h[j + 1] = reply[j]
  <2>1. /\ h \in Seq(Chars) /\ Len(h) = Len(<<NL>>) + Len(reply)
        /\ \A i \in 1..(Len(<<NL>>) + Len(reply)) :
             h[i] = IF i <= Len(<<NL>>) THEN <<NL>>[i] ELSE reply[i - Len(<<NL>>)]
    BY <1>1, <1>2, <1>3, ConcatProperties, Zenon
  <2>2. \A i \in 1..(1 + Len(reply)) : h[i] = IF i <= 1 THEN <<NL>>[i] ELSE reply[i - 1]
    BY <1>1, <2>1
  <2>3. 1 \in 1..(1 + Len(reply)) /\ 1 <= 1
        /\ \A j \in 1..Len(reply) : j + 1 \in 1..(1 + Len(reply)) /\ ~(j + 1 <= 1) /\ (j + 1) - 1 = j
    BY <1>2
  <2>4. h[1] = NL
    BY <1>1, <2>2, <2>3, Zenon
  <2> QED BY <1>1, <2>1, <2>2, <2>3, <2>4
<1>5. PICK n \in Nat : n = Len(h) /\ n >= 1
  BY <1>2, <1>4
<1>6. PICK o : o = h \o PROMPT
  OBVIOUS
<1>7. /\ o \in Seq(Chars) /\ Len(o) = n + 2
      /\ \A i \in 1..(n + 2) : o[i] = IF i <= n THEN h[i] ELSE PROMPT[i - n]
  <2>1. /\ h \o PROMPT \in Seq(Chars) /\ Len(h \o PROMPT) = Len(h) + Len(PROMPT)
        /\ \A i \in 1..(Len(h) + Len(PROMPT)) :
             (h \o PROMPT)[i] = IF i <= Len(h) THEN h[i] ELSE PROMPT[i - Len(h)]
    BY <1>1, <1>4, ConcatProperties, Zenon
  <2> QED BY <1>1, <1>5, <1>6, <2>1, Zenon
<1>8. o[n + 1] = ">" /\ o[n + 2] = Blank /\ \A i \in 1..n : o[i] = h[i]
  <2>1. (n + 1) - n = 1 /\ (n + 2) - n = 2 /\ n + 1 \in 1..(n + 2) /\ n + 2 \in 1..(n + 2)
        /\ ~(n + 1 <= n) /\ ~(n + 2 <= n) /\ \A i \in 1..n : i \in 1..(n + 2) /\ i <= n
    OBVIOUS
  <2> QED BY <1>1, <1>7, <2>1, Zenon
<1>9. h[n] \in {NL, CLEAR} /\ \A i \in 1..n : h[i] \in {NL, CLEAR, "?"}
  <2>1. ASSUME NEW i \in 1..n, i # 1 PROVE h[i] = reply[i - 1] /\ i - 1 \in 1..Len(reply)
    <3>1. i - 1 \in 1..Len(reply) /\ (i - 1) + 1 = i
      BY <1>2, <1>4, <1>5, <2>1
    <3> QED BY <1>4, <3>1
  <2>2. n # 1 => h[n] = reply[Len(reply)] /\ Len(reply) > 0
    BY <1>2, <1>4, <1>5, <2>1
  <2> QED BY <1>2, <1>4, <1>5, <2>1, <2>2
<1>10. Pending(o)
  <2>1. Len(o) - 1 = n + 1 /\ Len(o) - 2 = n /\ Len(o) >= 3
    BY <1>5, <1>7
  <2> QED BY <1>5, <1>7, <1>8, <1>9, <2>1 DEF Pending
<1> QED BY <1>3, <1>6, <1>10, Zenon

\* The characters of the line are none of the special ones.
LEMMA LineChars ==
  ASSUME Bounds, NEW j \in 1..Len(Line)
  PROVE  Line[j] \notin {BS, NL, CLEAR}
<1>1. buf \in Seq(Keys) /\ Len(buf) \in Nat /\ Len(Line) = Len(buf) + 2
  BY LineFacts DEF Bounds, Line
<1>2. CASE j \in {1, 2}
  BY <1>1, <1>2, LineFacts DEF Line, Blank, BS, NL, CLEAR
<1>3. CASE j > 2
  <2>1. PICK i \in 1..Len(buf) : j = i + 2
    BY <1>1, <1>3
  <2>2. Line[j] = buf[i] /\ buf[i] \in Keys
    BY <1>1, <2>1, LineFacts DEF Line
  <2> QED BY <2>2, ConsoleAssumption
<1> QED BY <1>2, <1>3

\* While it echoes, the next character is the next one of the line.
LEMMA EchoingNext ==
  ASSUME Bounds, Echoing, out # <<>>, NEW done, done = Len(Line) - Len(out)
  PROVE  /\ done \in Nat /\ done + 1 <= Len(Line)
         /\ Head(out) = Line[done + 1] /\ Head(out) \notin {BS, NL, CLEAR}
         /\ Len(Line) - Len(Tail(out)) = done + 1
         /\ \A j \in 1..Len(Tail(out)) : Tail(out)[j] = Line[done + 1 + j]
<1>1. Len(Line) \in Nat
  BY LineFacts DEF Bounds, Line
<1>2. Len(out) \in Nat \ {0} /\ Head(out) = out[1] /\ Len(Tail(out)) = Len(out) - 1
      /\ \A j \in 1..(Len(out) - 1) : Tail(out)[j] = out[j + 1]
  BY DEF Bounds
<1>3. done \in Nat
  BY DEF Echoing
<1>4. \A j \in 1..Len(out) : out[j] = Line[done + j]
  BY DEF Echoing
<1>5. Head(out) = Line[done + 1] /\ done + 1 \in 1..Len(Line)
  BY <1>1, <1>2, <1>3, <1>4
<1>6. Head(out) \notin {BS, NL, CLEAR}
  BY <1>5, LineChars
<1>7. \A j \in 1..Len(Tail(out)) : Tail(out)[j] = Line[done + 1 + j]
  <2> TAKE j \in 1..Len(Tail(out))
  <2>1. j \in 1..(Len(out) - 1) /\ j + 1 \in 1..Len(out) /\ done + (j + 1) = done + 1 + j
    BY <1>2
  <2> QED BY <2>1, <1>2, <1>4
<1>8. done + 1 <= Len(Line) /\ Len(Line) - Len(Tail(out)) = done + 1
  BY <1>1, <1>2, <1>3
<1> QED BY <1>3, <1>5, <1>6, <1>7, <1>8

----------------------------------------------------------------------------
(* The cursor stays on the screen. *)

LEMMA RangeStep ==
  ASSUME Bounds, [Next]_vars
  PROVE  Bounds'
<1> USE DEF Bounds
<1>0. VGA_ROWS \in Nat \ {0} /\ VGA_COLS \in Nat \ {0} /\ INPUT_MAX \in Nat
  BY ConsoleAssumption
<1>1. CASE Backspace
  <2>2. buf' \in Seq(Keys) /\ Len(buf') = Len(buf) - 1 /\ Len(buf) \in Nat
    BY <1>1, Shortened DEF Backspace
  <2>3. out' \in Seq(Chars)
    BY <1>1 DEF Backspace, Chars
  <2> QED BY <1>0, <1>1, <2>2, <2>3 DEF Backspace, Ready, vga
<1>2. ASSUME NEW c \in Keys, TypeChar(c) PROVE Bounds'
  <2>1. buf' \in Seq(Keys) /\ Len(buf') = Len(buf) + 1
    BY <1>2 DEF TypeChar
  <2>2. out' \in Seq(Chars)
    BY <1>2 DEF TypeChar, Chars
  <2> QED BY <1>0, <1>2, <2>1, <2>2 DEF TypeChar, Ready, vga
<1>3. ASSUME NEW reply \in Replies, Enter(reply) PROVE Bounds'
  <2>1. out' \in Seq(Chars)
    BY <1>3, EnterPending, Zenon DEF Enter, Pending
  <2>2. buf' \in Seq(Keys) /\ Len(buf') < INPUT_MAX
    BY <1>3, ConsoleAssumption DEF Enter
  <2> QED BY <1>3, <2>1, <2>2 DEF Enter, Ready, vga
<1>4. CASE PutLoad
  BY <1>0, <1>4 DEF PutLoad, vga
<1>5. ASSUME out # <<>>, out' = Tail(out) PROVE out' \in Seq(Chars)
  BY <1>5
<1>6. CASE PutBackspace
  BY <1>0, <1>5, <1>6 DEF PutBackspace, Done, BackRow, BackCol
<1>7. CASE PutWrite
  BY <1>0, <1>5, <1>7 DEF PutWrite, Done, AtRowEnd
<1>8. CASE PutNewline
  BY <1>0, <1>5, <1>8 DEF PutNewline, Done, BelowScreen
<1>9. CASE PutScroll
  BY <1>0, <1>5, <1>9 DEF PutScroll, Done
<1>10. CASE ClearCells
  BY <1>0, <1>10 DEF ClearCells
<1>11. CASE ClearHome
  BY <1>0, <1>5, <1>11 DEF ClearHome, Done
<1>12. CASE UserWrite
  <2>1. /\ vga_row' \in Nat /\ vga_col' \in 0..(VGA_COLS - 1)
        /\ pc # "scroll" => vga_row' < VGA_ROWS
    <3>1. CASE UserNewline
      BY <1>0, <3>1 DEF UserNewline, BelowScreen
    <3>2. CASE UserChar
      BY <1>0, <3>2 DEF UserChar, BelowScreen, AtRowEnd
    <3>3. CASE UserBackspace
      BY <1>0, <3>3 DEF UserBackspace, BackRow, BackCol
    <3> QED BY <1>12, <3>1, <3>2, <3>3 DEF UserWrite
  <2> QED BY <1>12, <2>1 DEF UserWrite
<1>13. CASE UNCHANGED vars
  BY <1>13 DEF vars, vga
<1> QED BY <1>1, <1>2, <1>3, <1>4, <1>6, <1>7, <1>8, <1>9, <1>10, <1>11, <1>12, <1>13
        DEF Next, Put
----------------------------------------------------------------------------
(* The line stays on the screen. *)

\* shell_run takes a character.
LEMMA EditDisplay ==
  ASSUME IInv, alone, Backspace \/ \E c \in Keys : TypeChar(c)
  PROVE  Display'
<1> USE DEF IInv, Bounds
<1>0. Ready
  BY DEF Backspace, TypeChar
<1>1. ShownOn(screen, Line, Len(Line), Cursor)
  BY <1>0, ReadyShows
<1>2. PICK b \in Seq(Keys), at \in Int, n \in Nat :
        b = buf /\ at = Cursor /\ n = Len(PROMPT \o b)
  <2>1. Cursor \in Int /\ Len(PROMPT \o buf) \in Nat
    BY LineFacts, ConsoleAssumption DEF Cursor
  <2> QED BY <2>1
<1>6. PICK scr : scr = screen
  OBVIOUS
<1>3. ShownOn(scr, PROMPT \o b, n, at)
  BY <1>1, <1>2, <1>6, Zenon DEF Line
<1>4. CASE Backspace
  <2>1. PICK d \in Seq(Keys), c \in Keys : d = buf' /\ b = Append(d, c)
    BY <1>2, <1>4, Shortened, Zenon DEF Backspace
  <2>2. PICK m \in Nat : m = Len(PROMPT \o d)
    BY LineFacts
  <2>3. n = m + 1 /\ \A j \in 1..m : (PROMPT \o b)[j] = (PROMPT \o d)[j]
    <3>1. /\ Len(PROMPT \o b) = Len(PROMPT \o d) + 1
          /\ \A j \in 1..Len(PROMPT \o d) : (PROMPT \o b)[j] = (PROMPT \o d)[j]
      BY <2>1, Lengthened
    <3> QED BY <1>2, <2>2, <3>1, Zenon
  <2>4. ShownOn(scr, PROMPT \o d, m, at - 1)
    <3>1. (at - 1) - m = at - n /\ \A j \in 1..m : j \in 1..n
      BY <2>3
    <3>2. \A j \in 1..m : scr[(at - 1) - m + j - 1] = (PROMPT \o d)[j]
      BY <1>3, <2>3, <3>1, Zenon DEF ShownOn
    <3>3. \E row \in Nat : (at - 1) - m = row * VGA_COLS
      BY <1>3, <3>1, Zenon DEF ShownOn
    <3> QED BY <3>2, <3>3, IsShown, Zenon
  <2>5. Line' = PROMPT \o d /\ Cursor' = at /\ screen' = scr /\ pc' = "idle" /\ out' = <<BS>>
    BY <1>2, <1>4, <1>6, <2>1 DEF Backspace, Ready, Line, Cursor, vga
  <2> QED BY <2>2, <2>4, <2>5 DEF Display, Erasing
<1>5. ASSUME NEW c \in Keys, TypeChar(c) PROVE Display'
  <2>1. PICK d \in Seq(Keys) : d = buf' /\ d = Append(b, c)
    BY <1>2, <1>5, Lengthened, Zenon DEF TypeChar
  <2>2. /\ Len(PROMPT \o d) = n + 1 /\ (PROMPT \o d)[n + 1] = c
        /\ \A j \in 1..n : (PROMPT \o d)[j] = (PROMPT \o b)[j]
    <3>1. /\ Len(PROMPT \o d) = Len(PROMPT \o b) + 1
          /\ (PROMPT \o d)[Len(PROMPT \o b) + 1] = c
          /\ \A j \in 1..Len(PROMPT \o b) : (PROMPT \o d)[j] = (PROMPT \o b)[j]
      BY <2>1, Lengthened
    <3> QED BY <1>2, <3>1, Zenon
  <2>3. ShownOn(scr, PROMPT \o d, n, at)
    BY <1>3, <2>2, SameLine, Zenon
  <2>4. Line' = PROMPT \o d /\ Cursor' = at /\ screen' = scr /\ pc' = "idle" /\ out' = <<c>>
    BY <1>2, <1>5, <1>6, <2>1 DEF TypeChar, Ready, Line, Cursor, vga
  <2>5. Len(out') = 1 /\ out'[1] = c /\ Len(Line') - Len(out') = n
    BY <2>2, <2>4
  <2>6. \A j \in 1..Len(out') : out'[j] = Line'[n + j]
    <3>1. \A j \in 1..1 : j = 1
      OBVIOUS
    <3> QED BY <2>2, <2>4, <2>5, <3>1
  <2>7. Echoing'
    BY <2>3, <2>4, <2>5, <2>6 DEF Echoing
  <2> QED BY <2>7 DEF Display
<1> QED BY <1>4, <1>5

\* vga_putchar loads the cursor and erases a character.
LEMMA LoadDisplay ==
  ASSUME IInv, alone, PutLoad
  PROVE  Display'
<1> USE DEF IInv, Bounds, PutLoad, vga
<1>1. CASE Echoing
  <2>1. pc' = "write"
    BY <1>1, EchoingNext
  <2> QED BY <1>1, <2>1 DEF Display, Echoing, Line, Cursor
<1>2. CASE Erasing
  <2>1. pc' = "write"
    BY <1>2 DEF Erasing, BS, NL
  <2> QED BY <1>2, <2>1 DEF Display, Erasing, Line, Cursor
<1>3. CASE Replying
  <2>1. Head(out) \in {NL, "?"}
    BY <1>3, PendingNext DEF Replying
  <2> QED BY <1>3, <2>1 DEF Display, Replying, NL, CLEAR
<1> QED BY <1>1, <1>2, <1>3 DEF Display

LEMMA BackspaceDisplay ==
  ASSUME IInv, alone, PutBackspace
  PROVE  Display'
<1> USE DEF IInv, Bounds
<1>1. pc = "write" /\ Head(out) = BS
  BY DEF PutBackspace
<1>2. ~Echoing /\ ~Replying
  BY <1>1, EchoingNext DEF Replying, BS
<1>3. Erasing
  BY <1>2 DEF Display
<1>4. PICK n \in Nat \ {0}, row \in 0..(VGA_ROWS - 1), col \in 0..(VGA_COLS - 1) :
        n = Len(Line) /\ row = r /\ col = k
  BY LineFacts DEF Line
<1>5. PICK br, bc : br = BackRow(row, col) /\ bc = BackCol(row, col)
  OBVIOUS
<1>6. br \in Nat /\ ShownOn(Written(screen, br, bc, Blank), Line, n, br * VGA_COLS + bc)
  <2>1. Cursor = row * VGA_COLS + col /\ ShownOn(screen, Line, n, Cursor - 1)
    BY <1>1, <1>3, <1>4 DEF Erasing, Cursor
  <2>2. /\ BackRow(row, col) \in 0..(VGA_ROWS - 1)
        /\ ShownOn(Written(screen, BackRow(row, col), BackCol(row, col), Blank), Line, n,
                   BackRow(row, col) * VGA_COLS + BackCol(row, col))
    BY <2>1, EraseShows
  <2> QED BY <1>5, <2>2, ConsoleAssumption
<1>7. /\ screen' = Written(screen, br, bc, Blank) /\ vga_row' = br /\ vga_col' = bc
      /\ Line' = Line /\ pc' = "idle" /\ out' = <<>>
  BY <1>1, <1>3, <1>4, <1>5 DEF PutBackspace, Done, Erasing, Line
<1>8. Len(Line') - Len(out') = n
  BY <1>4, <1>7
<1>9. Cursor' = br * VGA_COLS + bc
  BY <1>7 DEF Cursor
<1>10. Echoing'
  BY <1>4, <1>6, <1>7, <1>8, <1>9 DEF Echoing
<1> QED BY <1>10 DEF Display

\* The shell is done with a character of the line, which is on the screen now.
LEMMA CharEchoed ==
  ASSUME IInv, Echoing, out # <<>>, NEW done, done = Len(Line) - Len(out),
         UNCHANGED buf, Done, ShownOn(screen', Line, done + 1, Cursor')
  PROVE  Display'
<1>1. /\ done \in Nat /\ Len(Line) - Len(Tail(out)) = done + 1
      /\ \A j \in 1..Len(Tail(out)) : Tail(out)[j] = Line[done + 1 + j]
  BY EchoingNext DEF IInv
<1>2. Line' = Line /\ out' = Tail(out) /\ pc' = "idle"
  BY DEF Line, Done
<1>3. PICK d \in Nat : d = done + 1
  BY <1>1
<1>4. Len(Line') - Len(out') = d /\ ShownOn(screen', Line', d, Cursor')
      /\ \A j \in 1..Len(out') : out'[j] = Line'[d + j]
  BY <1>1, <1>2, <1>3, Zenon
<1>5. Echoing'
  BY <1>2, <1>4 DEF Echoing
<1> QED BY <1>5 DEF Display

\* The shell is done with a character of a command's output.
LEMMA ReplyDone ==
  ASSUME IInv, Bounds', Replying, UNCHANGED buf, Done, Head(out) = "?" \/ vga_col' = 0
  PROVE  Display'
<1>1. Pending(out) /\ buf' = <<>> /\ pc' = "idle" /\ out' = Tail(out)
  BY DEF Replying, Done
<1>2. CASE Pending(Tail(out))
  BY <1>1, <1>2 DEF Display, Replying
<1>3. CASE PromptLeft(Tail(out)) /\ Head(out) # "?"
  <2>1. Echoing'
    BY <1>1, <1>3, PromptEchoes DEF Bounds
  <2> QED BY <2>1 DEF Display
<1> QED BY <1>1, <1>2, <1>3, PendingNext

LEMMA WriteDisplay ==
  ASSUME IInv, Bounds', alone, PutWrite
  PROVE  Display'
<1> USE DEF IInv, Bounds
<1>1. pc = "write" /\ Head(out) # BS /\ out # <<>> /\ UNCHANGED <<vga_row, buf, r, k>>
  BY DEF PutWrite
<1>2. ~Erasing
  BY <1>1 DEF Erasing
<1>3. CASE Echoing
  <2>1. PICK done : done = Len(Line) - Len(out)
    OBVIOUS
  <2>2. done \in Nat /\ Line[done + 1] = Head(out) /\ r = vga_row /\ k = vga_col
    BY <1>1, <1>3, <2>1, EchoingNext DEF Echoing
  <2>3. PICK row \in 0..(VGA_ROWS - 1), col \in 0..(VGA_COLS - 1) : row = r /\ col = k
    OBVIOUS
  <2>4. ShownOn(screen, Line, done, row * VGA_COLS + col)
    BY <1>1, <1>3, <2>1, <2>2, <2>3 DEF Echoing, Cursor
  <2>5. ShownOn(Written(screen, row, col, Head(out)), Line, done + 1, row * VGA_COLS + col + 1)
    BY <2>2, <2>4, WriteShows
  <2>6. ShownOn(screen', Line, done + 1, row * VGA_COLS + col + 1)
    BY <2>3, <2>5 DEF PutWrite
  <2>7. row * VGA_COLS \in Nat /\ (row + 1) * VGA_COLS = row * VGA_COLS + VGA_COLS
    BY Geometry, ConsoleAssumption
  <2>8. CASE AtRowEnd(k + 1)
    <3>1. pc' = "newline" /\ out' = out /\ Line' = Line /\ r' = r /\ vga_row' = vga_row
      BY <1>1, <2>8 DEF PutWrite, Line
    <3>2. row * VGA_COLS + col + 1 = (r' + 1) * VGA_COLS
      BY <2>3, <2>7, <2>8, <3>1, ConsoleAssumption DEF AtRowEnd
    <3>3. ShownOn(screen', Line', done + 1, (r' + 1) * VGA_COLS)
      BY <2>6, <3>1, <3>2
    <3>4. Len(Line') - Len(out') = done /\ r' = vga_row'
      BY <2>1, <2>2, <3>1
    <3>5. \A j \in 1..Len(out') : out'[j] = Line'[done + j]
      BY <1>3, <2>1, <3>1, Zenon DEF Echoing
    <3>6. Echoing'
      BY <2>2, <3>1, <3>3, <3>4, <3>5 DEF Echoing
    <3> QED BY <3>6 DEF Display
  <2>9. CASE ~AtRowEnd(k + 1)
    <3>1. vga_col' = k + 1 /\ vga_row' = vga_row /\ Done
      BY <2>9 DEF PutWrite
    <3>2. Cursor' = row * VGA_COLS + col + 1
      BY <2>2, <2>3, <2>7, <3>1 DEF Cursor
    <3> QED BY <1>1, <1>3, <2>1, <2>6, <3>1, <3>2, CharEchoed
  <2> QED BY <2>8, <2>9
<1>4. CASE Replying
  <2>1. Head(out) = "?"
    BY <1>1, <1>4 DEF Replying
  <2>2. CASE AtRowEnd(k + 1)
    <3>1. pc' = "newline" /\ out' = out /\ buf' = buf
      BY <2>2 DEF PutWrite
    <3> QED BY <1>4, <2>1, <3>1 DEF Display, Replying, CLEAR
  <2>3. CASE ~AtRowEnd(k + 1)
    BY <1>1, <1>4, <2>1, <2>3, ReplyDone DEF PutWrite
  <2> QED BY <2>2, <2>3
<1> QED BY <1>2, <1>3, <1>4 DEF Display

LEMMA NewlineDisplay ==
  ASSUME IInv, Bounds', alone, PutNewline
  PROVE  Display'
<1> USE DEF IInv, Bounds
<1>1. /\ pc = "newline" /\ out # <<>> /\ UNCHANGED <<screen, buf>>
      /\ vga_col' = 0 /\ vga_row' = r + 1
  BY DEF PutNewline
<1>2. ~Erasing
  BY <1>1 DEF Erasing
<1>3. CASE Echoing
  <2>1. PICK done : done = Len(Line) - Len(out)
    OBVIOUS
  <2>2. done \in Nat /\ ShownOn(screen', Line, done + 1, (r + 1) * VGA_COLS)
    BY <1>1, <1>3, <2>1 DEF Echoing
  <2>3. CASE BelowScreen(r + 1)
    <3>1. pc' = "scroll" /\ out' = out /\ Line' = Line /\ r + 1 = VGA_ROWS
      BY <1>1, <2>3 DEF PutNewline, Line, BelowScreen
    <3>2. ShownOn(screen', Line', done + 1, VGA_ROWS * VGA_COLS)
      BY <2>2, <3>1
    <3>3. Len(Line') - Len(out') = done /\ \A j \in 1..Len(out') : out'[j] = Line'[done + j]
      BY <1>3, <2>1, <3>1, Zenon DEF Echoing
    <3>4. Echoing'
      BY <1>1, <2>2, <3>1, <3>2, <3>3 DEF Echoing
    <3> QED BY <3>4 DEF Display
  <2>4. CASE ~BelowScreen(r + 1)
    <3>1. Done
      BY <2>4 DEF PutNewline
    <3>2. PICK row \in Nat : row = r + 1 /\ row * VGA_COLS \in Nat
      BY Geometry
    <3>3. Cursor' = row * VGA_COLS + 0
      BY <1>1, <3>2, Zenon DEF Cursor
    <3>4. Cursor' = (r + 1) * VGA_COLS
      BY <3>2, <3>3
    <3> QED BY <1>1, <1>3, <2>1, <2>2, <3>1, <3>4, CharEchoed
  <2> QED BY <2>3, <2>4
<1>4. CASE Replying
  <2>1. CASE BelowScreen(r + 1)
    <3>1. pc' = "scroll" /\ out' = out /\ buf' = buf
      BY <2>1 DEF PutNewline
    <3> QED BY <1>1, <1>4, <3>1 DEF Display, Replying
  <2>2. CASE ~BelowScreen(r + 1)
    BY <1>1, <1>4, <2>2, ReplyDone DEF PutNewline
  <2> QED BY <2>1, <2>2
<1> QED BY <1>2, <1>3, <1>4 DEF Display

LEMMA ScrollDisplay ==
  ASSUME IInv, Bounds', alone, PutScroll
  PROVE  Display'
<1> USE DEF IInv, Bounds
<1>1. /\ pc = "scroll" /\ out # <<>> /\ UNCHANGED <<vga_col, buf>> /\ Done
      /\ screen' = Scrolled(screen) /\ vga_row' = VGA_ROWS - 1
  BY DEF PutScroll
<1>2. ~Erasing
  BY <1>1 DEF Erasing
<1>3. CASE Echoing
  <2>1. PICK done : done = Len(Line) - Len(out)
    OBVIOUS
  <2>2. /\ done \in Nat /\ vga_col = 0 /\ ShownOn(screen, Line, done + 1, VGA_ROWS * VGA_COLS)
    BY <1>1, <1>3, <2>1 DEF Echoing
  <2>3. PICK n \in Nat : n = done + 1 /\ n <= Len(Line)
    BY <1>1, <1>3, <2>1, EchoingNext
  <2>4. n < VGA_ROWS * VGA_COLS
    <3>1. Len(Line) = Len(buf) + 2 /\ Len(buf) \in Nat
      BY LineFacts DEF Line
    <3>2. 2 + INPUT_MAX <= VGA_ROWS * VGA_COLS /\ INPUT_MAX \in Nat /\ VGA_ROWS * VGA_COLS \in Nat
      BY ConsoleAssumption DEF PROMPT
    <3>3. PICK cells \in Nat : cells = VGA_ROWS * VGA_COLS
      BY <3>2
    <3>4. PICK len \in Nat : len = Len(buf) /\ len < INPUT_MAX /\ n <= len + 2
      BY <2>3, <3>1
    <3>5. n < cells
      BY <3>2, <3>3, <3>4
    <3> QED BY <3>3, <3>5, Zenon
  <2>5. ShownOn(Scrolled(screen), Line, n, (VGA_ROWS - 1) * VGA_COLS)
    BY <2>2, <2>3, <2>4, ScrollShows
  <2>6. Cursor' = (VGA_ROWS - 1) * VGA_COLS
    <3>1. PICK row \in Nat : row = VGA_ROWS - 1
      BY ConsoleAssumption
    <3>2. vga_row' = row /\ vga_col' = 0
      BY <1>1, <2>2, <3>1
    <3>3. Cursor' = row * VGA_COLS + 0
      BY <3>2, Zenon DEF Cursor
    <3>4. row * VGA_COLS \in Nat
      BY Geometry, Zenon
    <3>5. Cursor' = row * VGA_COLS
      BY <3>3, <3>4
    <3> QED BY <3>1, <3>5, Zenon
  <2> QED BY <1>1, <1>3, <2>1, <2>3, <2>5, <2>6, CharEchoed
<1>4. CASE Replying
  BY <1>1, <1>4, ReplyDone DEF Replying
<1> QED BY <1>2, <1>3, <1>4 DEF Display

\* cmd_clear
LEMMA ClearDisplay ==
  ASSUME IInv, Bounds', alone, ClearCells \/ ClearHome
  PROVE  Display'
<1> USE DEF IInv, Bounds
<1>1. CASE ClearCells
  <2>1. ~Echoing /\ ~Erasing
    BY <1>1, EchoingNext DEF ClearCells, Erasing, BS, CLEAR
  <2> QED BY <1>1, <2>1 DEF ClearCells, Display, Replying
<1>2. CASE ClearHome
  <2>1. ~Echoing /\ ~Erasing
    BY <1>2 DEF ClearHome, Echoing, Erasing
  <2> QED BY <1>2, <2>1, ReplyDone DEF ClearHome, Display
<1> QED BY <1>1, <1>2

LEMMA StepIInv ==
  ASSUME IInv, [Next]_vars
  PROVE  IInv'
<1>1. Bounds'
  BY RangeStep DEF IInv
<1>2. ASSUME alone' PROVE Display'
  <2>1. CASE UNCHANGED vars
    BY <1>2, <2>1 DEF vars, vga, IInv, Display, Echoing, Erasing, Replying, Line, Cursor
  <2>2. ASSUME NEW reply \in Replies, Enter(reply) PROVE Display'
    <3>1. buf' = <<>> /\ out' = <<NL>> \o reply \o PROMPT /\ pc' = "idle"
      BY <2>2 DEF Enter, Ready
    <3>2. Pending(out')
      BY <3>1, EnterPending
    <3> QED BY <3>1, <3>2 DEF Display, Replying
  <2>3. CASE Backspace \/ (\E c \in Keys : TypeChar(c)) \/ Put
    <3>1. alone
      BY <1>2, <2>3 DEF Backspace, TypeChar, Put, PutLoad, PutBackspace, PutWrite, PutNewline,
                        PutScroll, ClearCells, ClearHome
    <3> QED BY <1>1, <2>3, <3>1, EditDisplay, LoadDisplay, BackspaceDisplay, WriteDisplay,
               NewlineDisplay, ScrollDisplay, ClearDisplay DEF Put
  <2>4. ~UserWrite
    BY <1>2, Zenon DEF UserWrite
  <2> QED BY <2>1, <2>2, <2>3, <2>4 DEF Next
<1> QED BY <1>1, <1>2 DEF IInv

LEMMA InitIInv == Init => IInv
<1> SUFFICES ASSUME Init PROVE IInv
  OBVIOUS
<1>1. Bounds
  BY ConsoleAssumption DEF Init, Bounds, Chars, PROMPT
<1>2. PICK b \in Seq(Keys) : b = buf /\ Len(b) = 0
  BY EmptySeq, Zenon DEF Init
<1>3. Len(Line) = 2 /\ Line[1] = ">" /\ Line[2] = Blank
  <2>1. /\ Len(PROMPT \o b) = Len(b) + 2
        /\ (PROMPT \o b)[1] = ">" /\ (PROMPT \o b)[2] = Blank
    BY LineFacts, Zenon
  <2>2. Len(b) + 2 = 2
    BY <1>2
  <2> QED BY <1>2, <2>1, <2>2, Zenon DEF Line
<1>4. Len(out) = 2 /\ out[1] = ">" /\ out[2] = Blank /\ pc = "idle"
  BY DEF Init, PROMPT
<1>5. Len(Line) - Len(out) = 0
  BY <1>3, <1>4
<1>6. \A j \in 1..Len(out) : out[j] = Line[0 + j]
  <2>1. \A j \in 1..2 : 0 + j = j /\ j \in {1, 2}
    OBVIOUS
  <2> QED BY <1>3, <1>4, <2>1, Zenon
<1>7. Cursor - 0 = 0 * VGA_COLS
  BY ConsoleAssumption DEF Init, Cursor
<1>8. \A j \in 1..0 : screen[Cursor - 0 + j - 1] = Line[j]
  OBVIOUS
<1>9. ShownOn(screen, Line, 0, Cursor)
  BY <1>7, <1>8, IsShown
<1>10. Echoing
  <2>1. PICK done \in Nat : done = 0 /\ Len(Line) - Len(out) = done
    BY <1>5
  <2>2. /\ ShownOn(screen, Line, done, Cursor)
        /\ \A j \in 1..Len(out) : out[j] = Line[done + j]
    BY <1>6, <1>9, <2>1, Zenon
  <2>3. pc # "home" /\ pc # "write" /\ pc # "newline" /\ pc # "scroll"
    BY <1>4
  <2> QED BY <2>1, <2>2, <2>3, Zenon DEF Echoing
<1> QED BY <1>1, <1>10 DEF IInv, Display

LEMMA Invariance == Spec => []IInv
  BY InitIInv, StepIInv, PTL DEF Spec

\* What is on the screen before the cursor is the prompt and the input line,
\* for every size of the screen and of the input buffer.
THEOREM ScreenShowsLine == Spec => []EchoShowsLine
<1>1. IInv => EchoShowsLine
  <2> SUFFICES ASSUME IInv, Ready, alone
               PROVE  LET line == PROMPT \o buf
                          at == vga_row * VGA_COLS + vga_col
                      IN  /\ at >= Len(line)
                          /\ \A j \in 1..Len(line) : screen[at - Len(line) + j - 1] = line[j]
    BY DEF EchoShowsLine
  <2>1. ShownOn(screen, Line, Len(Line), Cursor)
    BY ReadyShows
  <2>2. PICK n \in Nat, at \in Int : n = Len(Line) /\ at = Cursor
    BY LineFacts, ConsoleAssumption DEF IInv, Bounds, Line, Cursor
  <2>3. PICK row \in Nat : at - n = row * VGA_COLS
    BY <2>1, <2>2, Zenon DEF ShownOn
  <2>4. at >= n
    BY <2>2, <2>3, Geometry
  <2>5. \A j \in 1..n : screen[at - n + j - 1] = Line[j]
    BY <2>1, <2>2, Zenon DEF ShownOn
  <2> QED BY <2>2, <2>4, <2>5, Zenon DEF Line, Cursor
<1> QED BY <1>1, Invariance, PTL
=============================================================================
