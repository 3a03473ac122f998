----------------------------- MODULE InputQueue ----------------------------
(***************************************************************************)
(* What the keyboard driver promises the shell: characters arrive in the   *)
(* order they were typed, and one is lost only when Capacity characters    *)
(* are waiting.                                                            *)
(***************************************************************************)
EXTENDS Naturals, Sequences

CONSTANTS Chars, Capacity

VARIABLES
  waiting,  \* characters typed and not yet read
  last      \* the character read last

Init == waiting = <<>> /\ last \in Chars

Type(c) ==
  /\ Len(waiting) < Capacity
  /\ waiting' = Append(waiting, c)
  /\ UNCHANGED last

Read ==
  /\ waiting # <<>>
  /\ last' = Head(waiting)
  /\ waiting' = Tail(waiting)

Next == Read \/ \E c \in Chars : Type(c)

Spec == Init /\ [][Next]_<<waiting, last>>
=============================================================================
