------------------------------ MODULE Strtoul ------------------------------
(***************************************************************************)
(* Numbers as text: sh_strtoul of shell/sh_util.c, kprint_int and          *)
(* kprint_hex of kernel/vga.c, in arithmetic modulo UMAX + 1.  A character *)
(* is its digit value (0 to 15), X, or something larger.                   *)
(***************************************************************************)
EXTENDS Integers, Sequences, SequencesExt

CONSTANTS
  UMAX,    \* UINT32_MAX
  NIBBLES  \* hexadecimal digits of a word: 8

WORD == UMAX + 1
IMAX == UMAX \div 2   \* INT32_MAX

ASSUME NumberAssumption == NIBBLES \in Nat \ {0} /\ WORD = 16^NIBBLES

Digit == 0..15
X == 16
Other == 17

----------------------------------------------------------------------------
(* sh_strtoul *)

\* The optional prefix is skipped for base 16 only.
HasPrefix(str, b) == b = 16 /\ Len(str) >= 2 /\ str[1] = 0 /\ str[2] = X
Start(str, b) == IF HasPrefix(str, b) THEN 3 ELSE 1

\* The loop stops at the first character that is no digit; in base 10 it takes
\* the letters a to f for digits, too.
DigitsRead(str, b) ==
  LET stops == {k \in Start(str, b)..Len(str) : str[k] \notin Digit}
  IN  SubSeq(str, Start(str, b), IF stops = {} THEN Len(str) ELSE Min(stops) - 1)

\* Fault: the sum may wrap.
Accumulate_SumWraps(r, b, digit) ==
  IF r > UMAX \div b THEN UMAX ELSE (r * b + digit) % WORD

\* The product and the sum are taken only when they cannot wrap.
Accumulate(r, b, digit) ==
  IF r > UMAX \div b \/ (r * b) % WORD > UMAX - digit THEN UMAX ELSE (r * b + digit) % WORD

Strtoul(str, b) == FoldLeft(LAMBDA r, d : Accumulate(r, b, d), 0, DigitsRead(str, b))

----------------------------------------------------------------------------
(* kprint_int and kprint_hex *)

Signed(n) == IF n > IMAX THEN n - WORD ELSE n

\* The digits kprint_int collects, the last one first.
Decimals[n \in 0..IMAX] == IF n = 0 THEN <<>> ELSE <<n % 10>> \o Decimals[n \div 10]

\* Fault: the digits are printed in the order in which they were collected.
Kprint_int_Backwards(v) == IF v <= 0 THEN <<0>> ELSE Decimals[v]

\* A minus sign is no digit.  Negating INT32_MIN is undefined: what follows the
\* sign then is no number.
Kprint_int(v) ==
  CASE v = 0      -> <<0>>
    [] v > 0      -> Reverse(Decimals[v])
    [] v = -IMAX - 1 -> <<Other, Other>>
    [] OTHER      -> <<Other>> \o Reverse(Decimals[-v])

Kprint_hex(n) == <<0, X>> \o [i \in 1..NIBBLES |-> (n \div 16^(NIBBLES - i)) % 16]

----------------------------------------------------------------------------
(* References *)

\* The digits of base b a string begins with, after the prefix.
Numeral(str, b) ==
  LET from == IF b = 16 /\ IsPrefix(<<0, X>>, str) THEN 3 ELSE 1
      ends == {k \in 0..Len(str) : \A i \in from..k : str[i] < b}
  IN  SubSeq(str, from, Max(ends))

\* A string of digits in unbounded arithmetic.
ValueOf(digits, b) == FoldLeft(LAMBDA acc, d : acc * b + d, 0, digits)
Saturated(n) == IF n > UMAX THEN UMAX ELSE n
=============================================================================
