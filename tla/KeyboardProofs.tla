--------------------------- MODULE KeyboardProofs --------------------------
(***************************************************************************)
(* The ring buffer of drivers/keyboard.c is a bounded first-in first-out   *)
(* queue, for every buffer size and every keyboard, also while the kernel  *)
(* initialises itself with interrupts on; no handler runs too early then,  *)
(* and no scancode is left behind.                                         *)
(***************************************************************************)
EXTENDS Boot, SequenceTheorems, TLAPS

\* The modulus of the source written as a case distinction.
LEMMA SuccValue ==
  ASSUME NEW i \in Slots
  PROVE  /\ Succ(i) = IF i + 1 = KEYBOARD_BUF_SIZE THEN 0 ELSE i + 1
         /\ Succ(i) \in Slots
<1>1. CASE i + 1 = KEYBOARD_BUF_SIZE
  BY <1>1, KeyboardAssumption DEF Succ, Slots
<1>2. CASE i + 1 # KEYBOARD_BUF_SIZE
  BY <1>2, KeyboardAssumption DEF Succ, Slots
<1> QED  BY <1>1, <1>2

\* Append and Tail written as functions of the index.
LEMMA SequencesAsFunctions ==
  ASSUME NEW S, NEW s \in Seq(S), NEW e \in S
  PROVE  /\ Append(s, e) = [i \in 1..(Len(s) + 1) |-> IF i <= Len(s) THEN s[i] ELSE e]
         /\ Len(s) > 0 => /\ s # <<>>
                          /\ Tail(s) = [i \in 1..(Len(s) - 1) |-> s[i + 1]]
<1>0. Len(s) \in Nat  OBVIOUS
<1>1. Append(s, e) = [i \in 1..(Len(s) + 1) |-> IF i <= Len(s) THEN s[i] ELSE e]
  <2> DEFINE f == [i \in 1..(Len(s) + 1) |-> IF i <= Len(s) THEN s[i] ELSE e]
  <2>1. \A i \in 1..(Len(s) + 1) : f[i] \in S
    BY ElementOfSeq, <1>0
  <2>2. f \in Seq(S) /\ Len(f) = Len(s) + 1
    BY <1>0, <2>1
  <2>3. /\ Append(s, e) \in Seq(S)
        /\ Len(Append(s, e)) = Len(s) + 1
        /\ \A i \in 1..Len(s) : Append(s, e)[i] = s[i]
        /\ Append(s, e)[Len(s) + 1] = e
    BY AppendProperties
  <2>4. \A i \in 1..(Len(s) + 1) : Append(s, e)[i] = f[i]
    BY <1>0, <2>3
  <2> HIDE DEF f
  <2>5. Append(s, e) = f
    BY <2>2, <2>3, <2>4, SeqEqual
  <2> QED  BY <2>5 DEF f
<1>2. ASSUME Len(s) > 0
      PROVE  s # <<>> /\ Tail(s) = [i \in 1..(Len(s) - 1) |-> s[i + 1]]
  <2>1. s # <<>>  BY <1>2
  <2> DEFINE f == [i \in 1..(Len(s) - 1) |-> s[i + 1]]
  <2>2. \A i \in 1..(Len(s) - 1) : f[i] \in S
    BY ElementOfSeq, <1>0
  <2>3. f \in Seq(S) /\ Len(f) = Len(s) - 1
    BY <1>0, <1>2, <2>2
  <2>4. /\ Tail(s) \in Seq(S)
        /\ Len(Tail(s)) = Len(s) - 1
        /\ \A i \in 1..Len(Tail(s)) : Tail(s)[i] = s[i + 1]
    BY <2>1, HeadTailProperties
  <2>5. \A i \in 1..(Len(s) - 1) : Tail(s)[i] = f[i]
    BY <1>0, <2>4
  <2> HIDE DEF f
  <2>6. Tail(s) = f
    BY <2>3, <2>4, <2>5, SeqEqual
  <2> QED  BY <2>1, <2>6 DEF f
<1> QED  BY <1>1, <1>2

\* What the shell has loaded is the oldest unread character, and every unread
\* slot holds a character.
IInv ==
  /\ TypeOK
  /\ LoadedIsOldest
  /\ \A i \in 1..Used : kb_buf[SlotAt(i - 1)] \in Chars

\* The initial state of the driver satisfies the invariant.
LEMMA InitIInv == Init => IInv
<1> SUFFICES ASSUME Init PROVE IInv  OBVIOUS
<1>1. TypeOK
  <2>1. kb_buf \in [Slots -> Chars \cup {NoChar}]
    BY DEF Init
  <2>2. kb_head \in Slots /\ kb_tail \in Slots
    BY KeyboardAssumption DEF Init, Slots
  <2> QED  BY <2>1, <2>2, Zenon DEF Init, TypeOK
<1>2. Used = 0
  BY DEF Init, Used
<1>3. LoadedIsOldest
  BY DEF Init, LoadedIsOldest
<1> QED  BY <1>1, <1>2, <1>3 DEF IInv

\* The unread slots are distinct from the slot kb_head, and end before it.
LEMMA RingGeometry ==
  ASSUME TypeOK
  PROVE  /\ Used \in 0..(KEYBOARD_BUF_SIZE - 1)
         /\ Used = 0 <=> kb_head = kb_tail
         /\ SlotAt(0) = kb_tail
         /\ SlotAt(Used) = kb_head
         /\ \A i \in 1..Used : /\ SlotAt(i - 1) \in Slots
                              /\ SlotAt(i - 1) # kb_head
         /\ Succ(kb_head) = kb_tail <=> Used = KEYBOARD_BUF_SIZE - 1
<1>1. /\ kb_head \in 0..(KEYBOARD_BUF_SIZE - 1)
      /\ kb_tail \in 0..(KEYBOARD_BUF_SIZE - 1)
  BY DEF TypeOK, Slots
<1>2. Succ(kb_head) = IF kb_head + 1 = KEYBOARD_BUF_SIZE THEN 0 ELSE kb_head + 1
  BY SuccValue DEF TypeOK
<1> QED  BY <1>1, <1>2, KeyboardAssumption DEF Used, SlotAt, Slots

\* kb_buf_push with room in the buffer appends to the queue.
LEMMA PushAppends ==
  ASSUME IInv, NEW ch \in Chars, Push(ch), Succ(kb_head) # kb_tail
  PROVE  /\ kb_buf' \in [Slots -> Chars \cup {NoChar}] /\ kb_head' \in Slots
         /\ kb_tail' = kb_tail
         /\ Used < KEYBOARD_BUF_SIZE - 1
         /\ Used' = Used + 1
         /\ \A i \in 1..Used : kb_buf'[SlotAt(i - 1)] = kb_buf[SlotAt(i - 1)]
         /\ kb_buf'[SlotAt(Used)] = ch
         /\ \A i \in Int : SlotAt(i)' = SlotAt(i)
<1>1. TypeOK  BY DEF IInv
<1>2. /\ kb_buf' = [kb_buf EXCEPT ![kb_head] = ch]
      /\ kb_head' = Succ(kb_head)
      /\ kb_tail' = kb_tail
  BY DEF Push
<1>3. /\ Succ(kb_head) = IF kb_head + 1 = KEYBOARD_BUF_SIZE THEN 0 ELSE kb_head + 1
      /\ Succ(kb_head) \in Slots
  BY <1>1, SuccValue DEF TypeOK
<1>4. /\ kb_head \in 0..(KEYBOARD_BUF_SIZE - 1)
      /\ kb_tail \in 0..(KEYBOARD_BUF_SIZE - 1)
  BY <1>1 DEF TypeOK, Slots
<1>5. kb_buf \in [Slots -> Chars \cup {NoChar}]
  BY <1>1 DEF TypeOK
<1>6. Used' = Used + 1
  BY <1>2, <1>3, <1>4, KeyboardAssumption DEF Used
<1>7. Used < KEYBOARD_BUF_SIZE - 1
  BY <1>1, RingGeometry, KeyboardAssumption
<1>8. \A i \in 1..Used : kb_buf'[SlotAt(i - 1)] = kb_buf[SlotAt(i - 1)]
  BY <1>1, <1>2, <1>5, RingGeometry
<1>9. kb_buf'[SlotAt(Used)] = ch
  BY <1>1, <1>2, <1>4, <1>5, RingGeometry DEF Slots
<1>10. \A i \in Int : SlotAt(i)' = SlotAt(i)
  BY <1>2 DEF SlotAt
<1>11. kb_buf' \in [Slots -> Chars \cup {NoChar}] /\ kb_head' \in Slots
  BY <1>2, <1>3, <1>5
<1> QED  BY <1>2, <1>6, <1>7, <1>8, <1>9, <1>10, <1>11

\* The last step of keyboard_getchar removes the oldest character.
LEMMA AdvanceRemoves ==
  ASSUME IInv, AdvanceTail
  PROVE  /\ kb_tail' \in Slots
         /\ Used > 0
         /\ Used' = Used - 1
         /\ \A i \in 0..(Used - 2) : SlotAt(i)' = SlotAt(i + 1)
         /\ last' = kb_buf[SlotAt(0)]
<1>1. TypeOK /\ LoadedIsOldest  BY DEF IInv
<1>2. kb_tail' = Succ(kb_tail) /\ kb_head' = kb_head /\ last' = c /\ pc = "advance"
  BY DEF AdvanceTail
<1>3. /\ Succ(kb_tail) = IF kb_tail + 1 = KEYBOARD_BUF_SIZE THEN 0 ELSE kb_tail + 1
      /\ Succ(kb_tail) \in Slots
  BY <1>1, SuccValue DEF TypeOK
<1>4. /\ kb_head \in 0..(KEYBOARD_BUF_SIZE - 1)
      /\ kb_tail \in 0..(KEYBOARD_BUF_SIZE - 1)
  BY <1>1 DEF TypeOK, Slots
<1>5. Used > 0 /\ c = kb_buf[kb_tail]
  BY <1>1, <1>2 DEF LoadedIsOldest
<1>6. Used' = Used - 1
  BY <1>2, <1>3, <1>4, <1>5, KeyboardAssumption DEF Used
<1>7. \A i \in 0..(Used - 2) : SlotAt(i)' = SlotAt(i + 1)
  BY <1>1, <1>2, <1>3, <1>4, RingGeometry, KeyboardAssumption DEF SlotAt
<1>8. last' = kb_buf[SlotAt(0)]
  BY <1>1, <1>2, <1>5, RingGeometry
<1> QED  BY <1>2, <1>3, <1>5, <1>6, <1>7, <1>8

\* The character a key stands for is a character.
LEMMA KeyChar ==
  ASSUME NEW k \in Keys
  PROVE  (IF shift THEN Upper(k) ELSE Lower(k)) \in Chars
BY Zenon DEF Chars

\* A key press preserves the invariant.
LEMMA KeyDownIInv ==
  ASSUME IInv, NEW k \in Keys, KeyDown(k)
  PROVE  IInv'
<1> DEFINE ch == IF shift THEN Upper(k) ELSE Lower(k)
<1>1. ch \in Chars  BY KeyChar
<1>2. Push(ch) /\ UNCHANGED <<shift, pc, c, last>>  BY DEF KeyDown
<1> HIDE DEF ch
<1>3. TypeOK /\ LoadedIsOldest  BY DEF IInv
<1>4. CASE Succ(kb_head) # kb_tail
  <2>1. /\ kb_buf' \in [Slots -> Chars \cup {NoChar}] /\ kb_head' \in Slots
        /\ kb_tail' = kb_tail
        /\ Used' = Used + 1
        /\ \A i \in 1..Used : kb_buf'[SlotAt(i - 1)] = kb_buf[SlotAt(i - 1)]
        /\ kb_buf'[SlotAt(Used)] = ch
        /\ \A i \in Int : SlotAt(i)' = SlotAt(i)
    BY <1>1, <1>2, <1>4, PushAppends
  <2>2. Used \in Nat /\ SlotAt(0) = kb_tail  BY <1>3, RingGeometry, KeyboardAssumption
  <2>3. TypeOK'
    BY <1>2, <1>3, <2>1, Zenon DEF TypeOK
  <2>4. LoadedIsOldest'
    <3>1. pc # "poll" => Used' > 0
      BY <2>1, <2>2
    <3>2. ASSUME pc = "advance" PROVE c = kb_buf'[kb_tail]
      <4>1. Used > 0 /\ c = kb_buf[kb_tail]  BY <1>3, <3>2 DEF LoadedIsOldest
      <4>2. 1 \in 1..Used  BY <4>1, <2>2
      <4>3. kb_buf'[SlotAt(1 - 1)] = kb_buf[SlotAt(1 - 1)]  BY <4>2, <2>1
      <4> QED  BY <4>1, <4>3, <2>2
    <3> QED  BY <3>1, <3>2, <1>2, <1>3, <2>1 DEF LoadedIsOldest
  <2>5. ASSUME NEW i \in 1..Used' PROVE kb_buf'[SlotAt(i - 1)'] \in Chars
    <3>1. SlotAt(i - 1)' = SlotAt(i - 1)  BY <2>1, <2>2
    <3>2. CASE i = Used + 1
      <4>1. i - 1 = Used  BY <3>2, <2>2
      <4> QED  BY <4>1, <3>1, <2>1, <1>1
    <3>3. CASE i # Used + 1
      <4>1. i \in 1..Used  BY <3>3, <2>1, <2>2
      <4> QED  BY <4>1, <3>1, <2>1 DEF IInv
    <3> QED  BY <3>2, <3>3
  <2> QED  BY <2>3, <2>4, <2>5 DEF IInv
<1>5. CASE Succ(kb_head) = kb_tail
  <2>1. UNCHANGED vars  BY <1>2, <1>5 DEF Push, vars, ring
  <2> QED  BY <2>1 DEF IInv, TypeOK, LoadedIsOldest, Used, SlotAt, vars, ring
<1> QED  BY <1>4, <1>5

\* Every step preserves the invariant.
LEMMA NextIInv == IInv /\ [Next]_vars => IInv'
<1> SUFFICES ASSUME IInv, [Next]_vars PROVE IInv'  OBVIOUS
<1> USE DEF IInv
<1>1. CASE UNCHANGED vars
  BY <1>1 DEF TypeOK, LoadedIsOldest, Used, SlotAt, vars, ring
<1>2. ASSUME NEW down \in BOOLEAN, ShiftKey(down) PROVE IInv'
  <2>1. TypeOK'  BY <1>2, Zenon DEF ShiftKey, TypeOK, ring
  <2> QED  BY <1>2, <2>1 DEF ShiftKey, LoadedIsOldest, Used, SlotAt, ring
<1>3. ASSUME NEW k \in Keys, KeyDown(k) PROVE IInv'
  BY <1>3, KeyDownIInv
<1>4. CASE Poll
  <2>1. TypeOK'  BY <1>4, Zenon DEF Poll, TypeOK, ring
  <2>2. Used > 0  BY <1>4, RingGeometry, KeyboardAssumption DEF Poll
  <2> QED  BY <1>4, <2>1, <2>2 DEF Poll, LoadedIsOldest, Used, SlotAt, ring
<1>5. CASE LoadChar
  <2>1. Used > 0  BY <1>5 DEF LoadChar, LoadedIsOldest
  <2>2. 1 \in 1..Used /\ SlotAt(1 - 1) = kb_tail
    BY <2>1, RingGeometry, KeyboardAssumption
  <2>3. kb_buf[kb_tail] \in Chars  BY <2>2
  <2>4. TypeOK'  BY <1>5, <2>3, Zenon DEF LoadChar, TypeOK, ring
  <2>5. c' # NoChar  BY <1>5, <2>3, KeyboardAssumption DEF LoadChar
  <2> QED  BY <1>5, <2>1, <2>4, <2>5 DEF LoadChar, LoadedIsOldest, Used, SlotAt, ring
<1>6. CASE AdvanceTail
  <2>1. /\ kb_tail' \in Slots
        /\ Used > 0
        /\ Used' = Used - 1
        /\ \A i \in 0..(Used - 2) : SlotAt(i)' = SlotAt(i + 1)
    BY <1>6, AdvanceRemoves
  <2>2. Used \in Nat  BY RingGeometry, KeyboardAssumption
  <2>3. TypeOK'  BY <1>6, <2>1, Zenon DEF AdvanceTail, TypeOK
  <2>4. LoadedIsOldest'  BY <1>6 DEF AdvanceTail, LoadedIsOldest
  <2>5. ASSUME NEW i \in 1..Used' PROVE kb_buf'[SlotAt(i - 1)'] \in Chars
    <3>1. i - 1 \in 0..(Used - 2) /\ i + 1 \in 1..Used  BY <2>1, <2>2
    <3>2. SlotAt(i - 1)' = SlotAt((i - 1) + 1)  BY <3>1, <2>1
    <3>3. (i - 1) + 1 = (i + 1) - 1  BY <3>1
    <3>4. kb_buf[SlotAt((i + 1) - 1)] \in Chars  BY <3>1
    <3>5. kb_buf' = kb_buf  BY <1>6 DEF AdvanceTail
    <3> QED  BY <3>2, <3>3, <3>4, <3>5
  <2> QED  BY <2>3, <2>4, <2>5
<1> QED  BY <1>1, <1>2, <1>3, <1>4, <1>5, <1>6 DEF Next, Getchar

\* The invariant holds whatever is typed while the shell polls.
THEOREM Invariance == Spec => []IInv
BY InitIInv, NextIInv, PTL DEF Spec

\* Type correctness of the driver's variables.
THEOREM TypeCorrect == Spec => []TypeOK
<1>1. IInv => TypeOK  BY DEF IInv
<1> QED  BY <1>1, Invariance, PTL

\* kb_buf_push never overwrites the character keyboard_getchar is returning.
THEOREM NeverOverwritten == Spec => []LoadedIsOldest
<1>1. IInv => LoadedIsOldest  BY DEF IInv
<1> QED  BY <1>1, Invariance, PTL

\* A step of the driver is a step of the queue or leaves it alone.
LEMMA StepImplements ==
  IInv /\ [Next]_vars => [Promise!Next]_<<Contents, last>>
<1> SUFFICES ASSUME IInv, [Next]_vars
             PROVE  Promise!Next \/ UNCHANGED <<Contents, last>>
  OBVIOUS
<1>0. TypeOK /\ Used \in Nat
  BY RingGeometry, KeyboardAssumption DEF IInv
<1>1. CASE UNCHANGED ring /\ UNCHANGED last
  BY <1>1 DEF Contents, Used, SlotAt, ring
<1>2. ASSUME NEW k \in Keys, KeyDown(k), Succ(kb_head) # kb_tail PROVE Promise!Next
  <2> DEFINE ch == IF shift THEN Upper(k) ELSE Lower(k)
  <2>1. ch \in Chars  BY KeyChar
  <2>2. Push(ch) /\ UNCHANGED last  BY <1>2 DEF KeyDown
  <2> HIDE DEF ch
  <2>3. /\ Used < KEYBOARD_BUF_SIZE - 1
        /\ Used' = Used + 1
        /\ \A i \in 1..Used : kb_buf'[SlotAt(i - 1)] = kb_buf[SlotAt(i - 1)]
        /\ kb_buf'[SlotAt(Used)] = ch
        /\ \A i \in Int : SlotAt(i)' = SlotAt(i)
    BY <1>2, <2>1, <2>2, PushAppends
  <2>4. Contents \in Seq(Chars) /\ Len(Contents) = Used
    BY <1>0 DEF Contents, IInv
  <2>5. Contents' = [i \in 1..(Used + 1) |-> kb_buf'[SlotAt(i - 1)]]
    BY <1>0, <2>3 DEF Contents
  <2>6. ASSUME NEW i \in 1..(Used + 1)
        PROVE  kb_buf'[SlotAt(i - 1)] = IF i <= Used THEN Contents[i] ELSE ch
    <3>1. CASE i <= Used
      BY <3>1, <1>0, <2>3 DEF Contents
    <3>2. CASE ~(i <= Used)
      <4>1. i - 1 = Used  BY <3>2, <1>0
      <4> QED  BY <4>1, <3>2, <2>3
    <3> QED  BY <3>1, <3>2
  <2>7. Contents' = Append(Contents, ch)
    <3>1. Append(Contents, ch)
            = [i \in 1..(Used + 1) |-> IF i <= Used THEN Contents[i] ELSE ch]
      <4>1. Append(Contents, ch)
              = [i \in 1..(Len(Contents) + 1) |->
                   IF i <= Len(Contents) THEN Contents[i] ELSE ch]
        BY <2>1, <2>4, SequencesAsFunctions
      <4>2. Len(Contents) = Used  BY <2>4
      <4> HIDE DEF Contents
      <4> QED  BY <4>1, <4>2, Zenon
    <3> HIDE DEF Contents
    <3> QED  BY <3>1, <2>5, <2>6
  <2>8. Promise!Type(ch)
    BY <2>2, <2>3, <2>4, <2>7 DEF Promise!Type
  <2> QED  BY <2>1, <2>8 DEF Promise!Next
<1>3. ASSUME NEW k \in Keys, KeyDown(k), Succ(kb_head) = kb_tail
      PROVE  UNCHANGED ring /\ UNCHANGED last
  BY <1>3 DEF KeyDown, Push, ring
<1>4. CASE AdvanceTail
  <2>1. /\ Used > 0
        /\ Used' = Used - 1
        /\ \A i \in 0..(Used - 2) : SlotAt(i)' = SlotAt(i + 1)
        /\ last' = kb_buf[SlotAt(0)]
    BY <1>4, AdvanceRemoves
  <2>2. Contents \in Seq(Chars) /\ Len(Contents) = Used
    BY <1>0 DEF Contents, IInv
  <2>3. kb_buf' = kb_buf  BY <1>4 DEF AdvanceTail
  <2>4. Contents' = [i \in 1..(Used - 1) |-> kb_buf[SlotAt(i - 1)']]
    BY <1>0, <2>1, <2>3 DEF Contents
  <2>5. ASSUME NEW i \in 1..(Used - 1)
        PROVE  kb_buf[SlotAt(i - 1)'] = Contents[i + 1]
    <3>1. i - 1 \in 0..(Used - 2) /\ i + 1 \in 1..Used /\ (i - 1) + 1 = (i + 1) - 1
      BY <1>0, <2>1
    <3>2. SlotAt(i - 1)' = SlotAt((i + 1) - 1)  BY <3>1, <2>1
    <3> QED  BY <3>1, <3>2 DEF Contents
  <2>6. Contents' = Tail(Contents)
    <3>1. Contents # <<>> /\ Tail(Contents) = [i \in 1..(Used - 1) |-> Contents[i + 1]]
      <4>1. PICK e \in Chars : TRUE  BY <1>0, <2>1 DEF IInv
      <4>2. Len(Contents) > 0  BY <2>1, <2>2, Zenon
      <4> QED  BY <4>1, <4>2, <2>2, SequencesAsFunctions, Zenon
    <3> QED  BY <3>1, <2>4, <2>5
  <2>7. last' = Head(Contents)
    <3>1. Contents[1] = kb_buf[SlotAt(1 - 1)]  BY <1>0, <2>1 DEF Contents
    <3>2. Head(Contents) = Contents[1]  BY <2>1, <2>2
    <3> QED  BY <3>1, <3>2, <2>1
  <2>8. Contents # <<>>
    <3> HIDE DEF Contents
    <3> QED  BY <2>1, <2>2
  <2> QED  BY <2>6, <2>7, <2>8 DEF Promise!Next, Promise!Read
<1>5. CASE Poll \/ LoadChar \/ \E down \in BOOLEAN : ShiftKey(down)
  <2>1. UNCHANGED ring /\ UNCHANGED last
    BY <1>5 DEF Poll, LoadChar, ShiftKey
  <2> QED  BY <2>1, <1>1
<1>6. CASE UNCHANGED vars
  BY <1>6, <1>1 DEF vars
<1> QED  BY <1>1, <1>2, <1>3, <1>4, <1>5, <1>6 DEF Next, Getchar

\* The driver implements the bounded queue: nothing is lost but at the limit,
\* and nothing is repeated or reordered.
THEOREM Refinement == Spec => ImplementsQueue
<1>1. Init => Promise!Init
  <2> SUFFICES ASSUME Init PROVE Promise!Init  OBVIOUS
  <2>1. Used = 0  BY DEF Init, Used
  <2>2. Contents = <<>>  BY <2>1 DEF Contents
  <2> QED  BY <2>2 DEF Init, Promise!Init
<1> QED  BY <1>1, Invariance, StepImplements, PTL
            DEF Spec, ImplementsQueue, Promise!Spec

----------------------------------------------------------------------------
(* The driver in the booting kernel *)

\* Whatever kernel_main, the devices and the interrupt controller do, the
\* driver's variables only take the driver's steps.
THEOREM BootRunsTheDriver == BootSpec => Spec
<1>1. BootInit => Init
  BY DEF BootInit
<1>2. [BootNext]_bvars => [Next]_vars
  <2> SUFFICES ASSUME [BootNext]_bvars PROVE [Next]_vars
    OBVIOUS
  <2>1. CASE BootStep \/ WrongMagic \/ PitPulse \/ UNCHANGED bvars
    BY <2>1 DEF BootStep, WrongMagic, PitPulse, bvars
  <2>2. CASE ShellPolls
    BY <2>2 DEF ShellPolls, Next
  <2>3. CASE \E sc \in Scancodes : KeyPressed(sc)
    BY <2>3 DEF KeyPressed
  <2>4. CASE \E line \in {TIMER, KEYBOARD} : Interrupt(line)
    BY <2>4 DEF Interrupt, HandleKey, Next
  <2> QED BY <2>1, <2>2, <2>3, <2>4 DEF BootNext
<1> QED BY <1>1, <1>2, PTL DEF BootSpec, Spec

\* So it implements the bounded queue there, too.
THEOREM BootRefinement == BootSpec => ImplementsQueue
  BY BootRunsTheDriver, Refinement, PTL

\* How far kernel_main is whenever interrupts are on or a handler is registered,
\* and what a scancode in the controller implies.
BootIInv ==
  /\ boot \in 0..14
  /\ iflag => boot >= 3
  /\ KEYBOARD \in handlers => boot >= 5
  /\ TIMER \in handlers => boot >= 12
  /\ port # NoCode /\ ~early => KEYBOARD \in requested /\ KEYBOARD \in handlers

\* The steps that touch the interrupt state, and their places.
LEMMA StepPlaces ==
  /\ Len(Steps) = 14
  /\ \A i \in 1..14 : /\ Steps[i] = "idt_init" <=> i = 3
                      /\ Steps[i] = "irq_register" <=> i = 5
                      /\ Steps[i] = "pit_init" <=> i = 12
BY DEF Steps

\* The invariant holds when GRUB jumps to the kernel.
LEMMA InitBootIInv == BootInit => BootIInv
BY DEF BootInit, BootIInv

\* Every step of kernel_main, the devices and the handlers keeps it.
LEMMA NextBootIInv == BootIInv /\ [BootNext]_bvars => BootIInv'
<1> SUFFICES ASSUME BootIInv, [BootNext]_bvars PROVE BootIInv'
  OBVIOUS
<1> USE DEF BootIInv
<1>1. CASE BootStep
  <2> DEFINE s == Steps[boot + 1]
  <2>1. /\ boot + 1 \in 1..14
        /\ s = "idt_init" <=> boot = 2
        /\ s = "irq_register" <=> boot = 4
        /\ s = "pit_init" <=> boot = 11
    BY <1>1, StepPlaces DEF BootStep
  <2>2. /\ boot' = boot + 1 /\ iflag' = (iflag \/ s = "idt_init")
        /\ handlers' = handlers \cup Registers(s)
        /\ requested' = IF s = "idt_init" THEN {} ELSE requested
        /\ UNCHANGED <<port, early>>
    BY <1>1 DEF BootStep
  <2> HIDE DEF s
  <2>3. /\ KEYBOARD \in Registers(s) => boot = 4
        /\ TIMER \in Registers(s) => boot = 11
    BY <2>1 DEF Registers, KEYBOARD, TIMER
  <2>4. boot' \in 0..14 /\ (iflag' => boot' >= 3)
    <3>1. iflag' => iflag \/ s = "idt_init"
      BY <2>2, Zenon
    <3> QED BY <2>1, <2>2, <3>1
  <2>5. (KEYBOARD \in handlers' => boot' >= 5) /\ (TIMER \in handlers' => boot' >= 12)
    BY <2>1, <2>2, <2>3
  <2>6. port' # NoCode /\ ~early' => KEYBOARD \in requested' /\ KEYBOARD \in handlers'
    BY <2>1, <2>2
  <2> QED BY <2>4, <2>5, <2>6
<1>2. CASE WrongMagic
  <2>1. ~iflag'
    BY <1>2, Zenon DEF WrongMagic
  <2> QED BY <1>2, <2>1 DEF WrongMagic, devices
<1>3. CASE ShellPolls \/ PitPulse \/ UNCHANGED bvars
  BY <1>3 DEF ShellPolls, PitPulse, bvars, machine, devices
<1>4. CASE \E sc \in Scancodes : KeyPressed(sc)
  <2>1. PICK sc \in Scancodes : KeyPressed(sc)
    BY <1>4
  <2>2. ~early' => ~early /\ KEYBOARD \in handlers
    BY <2>1, Zenon DEF KeyPressed
  <2> QED BY <2>1, <2>2 DEF KeyPressed, machine
<1>5. ASSUME NEW line \in {TIMER, KEYBOARD}, Interrupt(line) PROVE BootIInv'
  <2>1. CASE line = KEYBOARD /\ line \in handlers
    BY <1>5, <2>1 DEF Interrupt, HandleKey, machine
  <2>2. CASE line = KEYBOARD /\ line \notin handlers
    BY <1>5, <2>2 DEF Interrupt, machine
  <2>3. CASE line # KEYBOARD
    BY <1>5, <2>3 DEF Interrupt, machine
  <2> QED BY <2>1, <2>2, <2>3
<1> QED BY <1>1, <1>2, <1>3, <1>4, <1>5 DEF BootNext

LEMMA BootInvariance == BootSpec => []BootIInv
BY InitBootIInv, NextBootIInv, PTL DEF BootSpec

\* No interrupt is taken without its tables, no tick without a scheduler.
THEOREM NoHandlerTooEarly == BootSpec => []HandlersReady
<1>1. BootIInv => HandlersReady
  <2> SUFFICES ASSUME BootIInv PROVE HandlersReady
    OBVIOUS
  <2>1. /\ Steps[2] = "gdt_init" /\ Steps[3] = "idt_init" /\ Steps[8] = "paging_init"
        /\ Steps[9] = "kmalloc_init" /\ Steps[10] = "process_init"
        /\ Steps[11] = "scheduler_init"
    BY DEF Steps
  <2>2. iflag => Done("gdt_init") /\ Done("idt_init")
    BY <2>1 DEF BootIInv, Done
  <2>3. TIMER \in handlers => /\ Done("paging_init") /\ Done("kmalloc_init")
                              /\ Done("process_init") /\ Done("scheduler_init")
    BY <2>1 DEF BootIInv, Done
  <2> QED BY <2>2, <2>3 DEF HandlersReady
<1> QED BY <1>1, BootInvariance, PTL

\* No scancode is left in the controller once IRQ 1 has its handler.
THEOREM NoKeyLeftBehind == BootSpec => []KeysKeepComing
<1>1. BootIInv => KeysKeepComing
  BY DEF BootIInv, KeysKeepComing
<1> QED BY <1>1, BootInvariance, PTL
=============================================================================
