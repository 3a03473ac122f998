------------------------------ MODULE Keyboard -----------------------------
(***************************************************************************)
(* The keyboard driver, drivers/keyboard.c: IRQ 1 translates scancodes and *)
(* pushes characters into a ring buffer, which the shell polls with        *)
(* interrupts on.  The handler is one action; keyboard_getchar takes three *)
(* steps between which any number of keys may arrive.                      *)
(***************************************************************************)
EXTENDS Integers, Sequences

CONSTANTS
  KEYBOARD_BUF_SIZE,  \* slots of kb_buf
  Keys,               \* keys that have a character in both tables
  Lower(_),           \* sc_ascii
  Upper(_),           \* sc_ascii_shift
  NoChar              \* the character 0

Chars == {Lower(k) : k \in Keys} \cup {Upper(k) : k \in Keys}
Slots == 0..(KEYBOARD_BUF_SIZE - 1)

ASSUME KeyboardAssumption ==
  /\ KEYBOARD_BUF_SIZE \in Nat /\ KEYBOARD_BUF_SIZE > 1
  /\ NoChar \notin Chars

VARIABLES
  kb_buf, kb_head, kb_tail, shift,
  pc,    \* where the shell is in keyboard_getchar
  c,     \* its local variable c
  last   \* the character it returned last

ring == <<kb_buf, kb_head, kb_tail>>
vars == <<ring, shift, pc, c, last>>

Succ(i) == (i + 1) % KEYBOARD_BUF_SIZE

Init ==
  /\ kb_buf = [i \in Slots |-> NoChar]
  /\ kb_head = 0
  /\ kb_tail = 0
  /\ shift = FALSE
  /\ pc = "poll"
  /\ c = NoChar
  /\ last = NoChar

----------------------------------------------------------------------------
(* keyboard_handler *)

\* Left or right shift goes down or up.
ShiftKey(down) ==
  /\ shift' = down
  /\ UNCHANGED <<ring, pc, c, last>>

\* Fault: a full buffer is overwritten.
Push_Overwrites(ch) ==
  /\ kb_buf' = [kb_buf EXCEPT ![kb_head] = ch]
  /\ kb_head' = Succ(kb_head)
  /\ UNCHANGED kb_tail

\* kb_buf_push: dropped if the buffer is full.
Push(ch) ==
  IF Succ(kb_head) # kb_tail
  THEN /\ kb_buf' = [kb_buf EXCEPT ![kb_head] = ch]
       /\ kb_head' = Succ(kb_head)
       /\ UNCHANGED kb_tail
  ELSE UNCHANGED ring

\* A key with a character goes down.  (Releases and keys without a character
\* change nothing.)
KeyDown(k) ==
  /\ Push(IF shift THEN Upper(k) ELSE Lower(k))
  /\ UNCHANGED <<shift, pc, c, last>>

----------------------------------------------------------------------------
(* keyboard_getchar, polled by shell_run *)

\* Fault: a buffer that has wrapped around looks empty.
Poll_NotWrapped ==
  /\ pc = "poll"
  /\ kb_head > kb_tail
  /\ pc' = "load"
  /\ UNCHANGED <<ring, shift, c, last>>

\* kb_head == kb_tail returns 0 and the shell polls again.
Poll ==
  /\ pc = "poll"
  /\ kb_head # kb_tail
  /\ pc' = "load"
  /\ UNCHANGED <<ring, shift, c, last>>

LoadChar ==
  /\ pc = "load"
  /\ c' = kb_buf[kb_tail]
  /\ pc' = "advance"
  /\ UNCHANGED <<ring, shift, last>>

AdvanceTail ==
  /\ pc = "advance"
  /\ kb_tail' = Succ(kb_tail)
  /\ last' = c
  /\ pc' = "poll"
  /\ c' = NoChar
  /\ UNCHANGED <<kb_buf, kb_head, shift>>

Getchar == Poll \/ LoadChar \/ AdvanceTail

Next ==
  \/ \E down \in BOOLEAN : ShiftKey(down)
  \/ \E k \in Keys : KeyDown(k)
  \/ Getchar

Spec == Init /\ [][Next]_vars

----------------------------------------------------------------------------
(* Properties. *)

\* Every variable has the shape of the C object it stands for.
TypeOK ==
  /\ kb_buf \in [Slots -> Chars \cup {NoChar}]
  /\ kb_head \in Slots
  /\ kb_tail \in Slots
  /\ shift \in BOOLEAN
  /\ pc \in {"poll", "load", "advance"}
  /\ c \in Chars \cup {NoChar}
  /\ last \in Chars \cup {NoChar}

\* The slots between kb_tail and kb_head, oldest first.
Used == IF kb_head >= kb_tail THEN kb_head - kb_tail
        ELSE kb_head - kb_tail + KEYBOARD_BUF_SIZE

SlotAt(i) == IF kb_tail + i < KEYBOARD_BUF_SIZE THEN kb_tail + i
             ELSE kb_tail + i - KEYBOARD_BUF_SIZE

Contents == [i \in 1..Used |-> kb_buf[SlotAt(i - 1)]]

\* The driver is a first-in first-out queue of KEYBOARD_BUF_SIZE - 1
\* characters: kb_buf_push and keyboard_getchar never lose, repeat, reorder or
\* tear a character, although neither disables interrupts.
Promise == INSTANCE InputQueue WITH
             Chars <- Chars \cup {NoChar}, Capacity <- KEYBOARD_BUF_SIZE - 1,
             waiting <- Contents, last <- last
ImplementsQueue == Promise!Spec

\* The handler never overwrites a character that has not been read: the one
\* the shell has loaded is still the oldest one when it advances the tail.
LoadedIsOldest ==
  /\ pc # "poll" => Used > 0
  /\ pc = "advance" => c = kb_buf[kb_tail] /\ c # NoChar
=============================================================================
