--------------------------- MODULE ContextProofs ---------------------------
(***************************************************************************)
(* Proofs that no interrupt, system call or switch of module Context loses *)
(* or mixes up the context of a process, for any number of processes.      *)
(*                                                                         *)
(* The inductive invariant says what lies on the kernel stacks.  A process *)
(* in the kernel has one trap frame at the bottom of its own stack, a      *)
(* process that waits has a switch block on top of it, and one that never  *)
(* ran has the block process_create faked.                                 *)
(***************************************************************************)
EXTENDS Context, SequenceTheorems, TLAPS

\* Time for the leaves that unfold the larger actions.
USE SMTT(30), ZenonT(30)

Kernel == {"irq", "handler", "iret", "syscall", "yielded", "halted"}
Pcs == {"run", "trampoline"} \cup Kernel

SwitchBlocks ==
  [resume : {"trampoline", "iret", "yielded", "dead"}, iflag : BOOLEAN, regs : Regs]
TrapWords == {<<v, "code", "eip">> : v \in 0..255}
TrapBlocks ==
  [resume : {"run", "trampoline"}, iflag : BOOLEAN, ring : {0, 3}, regs : Regs, ds : {0, 3},
   frame : TrapWords]
Blocks == SwitchBlocks \cup TrapBlocks

TypeOK ==
  /\ current \in Procs /\ dead \subseteq Procs
  /\ ring \in {0, 3} /\ ds \in {0, 3} /\ iflag \in BOOLEAN
  /\ regs \in Regs /\ cr3 \in Procs
  /\ esp0 \in Procs \cup {NoStack}
  /\ stack \in [Procs -> Seq(Blocks)]
  /\ saved \in [Procs -> 0..2]
  /\ pc \in Pcs
  /\ vector \in 0..255
  /\ in_service \subseteq Lines
  /\ expected \in [Procs -> Regs]

\* Block b is the trap frame of process p, which computed the registers e.
Interrupted(b, e, p) ==
  /\ b \in TrapBlocks /\ b.iflag
  /\ b.resume = "run" => b.ds = b.ring /\ (b.ring = 0 <=> p = shell) /\ b.regs = e
  /\ b.resume = "trampoline" => b.ring = 0 /\ p # shell

\* The process that has the CPU.
Depth == IF pc \in {"run", "trampoline"} THEN 0 ELSE 1
OnCpu ==
  /\ cr3 = current /\ current \notin dead
  /\ esp = [owner |-> current, depth |-> Depth]
  /\ current # shell => esp0 = current
  /\ pc \in {"run", "trampoline"} => iflag /\ in_service = {}
  /\ pc = "run" => ds = ring /\ (ring = 0 <=> current = shell) /\ regs = expected[current]
  /\ pc = "trampoline" => ring = 0 /\ current # shell
  /\ pc \in Kernel => /\ ring = 0 /\ ds = 0 /\ ~iflag
                      /\ Len(stack[current]) >= 1
                      /\ Interrupted(stack[current][1], expected[current], current)
  /\ pc \in Kernel \ {"irq"} => in_service = {}
  /\ pc \in {"irq", "handler", "syscall", "halted"} =>
       stack[current][1].frame = <<vector, "code", "eip">>

\* A process that waits for the CPU: it has not run yet, or a switch block lies on
\* its trap frame.
Suspended(s, d, e, q) ==
  \/ /\ d = 1 /\ q # shell
     /\ Len(s) >= 1 /\ s[1] \in SwitchBlocks /\ s[1].resume = "trampoline" /\ s[1].iflag
  \/ /\ d = 2
     /\ Len(s) >= 2 /\ Interrupted(s[1], e, q)
     /\ s[2] \in SwitchBlocks /\ s[2].resume \in {"iret", "yielded"} /\ ~s[2].iflag

OffCpu ==
  \A q \in Procs \ (dead \cup {current}) : Suspended(stack[q], saved[q], expected[q], q)

IInv == TypeOK /\ OnCpu /\ OffCpu /\ shell \notin dead

----------------------------------------------------------------------------

\* A push keeps what lies below the stack pointer.
LEMMA PushFacts ==
  ASSUME NEW S, NEW s \in Seq(S), NEW d \in 0..Len(s), NEW b \in S
  PROVE  /\ Append(SubSeq(s, 1, d), b) \in Seq(S)
         /\ Len(Append(SubSeq(s, 1, d), b)) = d + 1
         /\ Append(SubSeq(s, 1, d), b)[d + 1] = b
         /\ \A i \in 1..d : Append(SubSeq(s, 1, d), b)[i] = s[i]
  OBVIOUS

\* Three words, pushed in two ways.
LEMMA Concatenated ==
  ASSUME NEW S, NEW a \in S, NEW b \in S, NEW c \in S
  PROVE  /\ <<a>> \o <<b>> \o <<c>> = <<a, b, c>>
         /\ <<a, b>> \o <<>> \o <<c>> = <<a, b, c>>
<1>1. <<a>> \o <<b>> = <<a, b>>
  <2> DEFINE s == <<a>> \o <<b>>
             t == <<a, b>>
  <2>1. s \in Seq(S) /\ Len(s) = 2 /\ s[1] = a /\ s[2] = b
    OBVIOUS
  <2>2. t \in Seq(S) /\ Len(t) = 2 /\ t[1] = a /\ t[2] = b
    OBVIOUS
  <2> HIDE DEF s, t
  <2>3. s = t
    BY <2>1, <2>2, SeqEqual
  <2> QED BY <2>3 DEF s, t
<1>2. <<a, b>> \o <<>> = <<a, b>>
  OBVIOUS
<1>3. <<a, b>> \o <<c>> = <<a, b, c>>
  <2> DEFINE s == <<a, b>> \o <<c>>
             t == <<a, b, c>>
  <2>1. s \in Seq(S) /\ Len(s) = 3 /\ s[1] = a /\ s[2] = b /\ s[3] = c
    OBVIOUS
  <2>2. t \in Seq(S) /\ Len(t) = 3 /\ t[1] = a /\ t[2] = b /\ t[3] = c
    OBVIOUS
  <2> HIDE DEF s, t
  <2>3. s = t
    BY <2>1, <2>2, SeqEqual
  <2> QED BY <2>3 DEF s, t
<1> QED BY <1>1, <1>2, <1>3, Zenon

\* Every stub completes the frame the CPU has begun to the same three words.
LEMMA FrameWords ==
  ASSUME NEW v \in 0..255,
         NEW code, code = IF v \in ErrorCodes THEN <<"code">> ELSE <<>>
  PROVE  /\ StubPushes(v) \o code \o <<"eip">> = <<v, "code", "eip">>
         /\ <<v, "code", "eip">> \in TrapWords
<1> DEFINE S == 0..255 \cup {"code", "eip"}
<1>0. v \in S /\ "code" \in S /\ "eip" \in S
  OBVIOUS
<1> HIDE DEF S
<1>1. <<v>> \o <<"code">> \o <<"eip">> = <<v, "code", "eip">>
  BY <1>0, Concatenated, Zenon
<1>2. <<v, "code">> \o <<>> \o <<"eip">> = <<v, "code", "eip">>
  BY <1>0, Concatenated, Zenon
<1>3. CASE v \in ErrorCodes
  <2>1. code = <<"code">> /\ StubPushes(v) = <<v>>
    BY <1>3 DEF StubPushes, ErrorCodes
  <2> QED BY <2>1, <1>1 DEF TrapWords
<1>4. CASE v \notin ErrorCodes
  <2>1. code = <<>> /\ StubPushes(v) = <<v, "code">>
    BY <1>4 DEF StubPushes, ErrorCodes
  <2> QED BY <2>1, <1>2, Zenon DEF TrapWords
<1> QED BY <1>3, <1>4

\* The initial state: the shell runs on the boot stack, the others wait.
LEMMA InitIInv == Init => IInv
<1> SUFFICES ASSUME Init PROVE IInv
  OBVIOUS
<1> USE ContextAssumption DEF Init, Zeroed, Regs
<1>1. Zeroed \in Regs
  OBVIOUS
<1>2. FirstBlock \in SwitchBlocks
  BY <1>1 DEF FirstBlock, SwitchBlocks
<1>3. /\ <<FirstBlock>> \in Seq(Blocks) /\ <<>> \in Seq(Blocks)
      /\ Len(<<FirstBlock>>) = 1 /\ <<FirstBlock>>[1] = FirstBlock
  BY <1>2 DEF Blocks
<1>4. TypeOK
  BY <1>1, <1>3 DEF TypeOK, Pcs, Kernel, SYSCALL, Lines
<1>5. OnCpu
  BY DEF OnCpu, Depth, Kernel
<1>6. OffCpu
  BY <1>2, <1>3 DEF OffCpu, Suspended, FirstBlock
<1> QED BY <1>4, <1>5, <1>6 DEF IInv

----------------------------------------------------------------------------
(* The steps of a process, and the kernel's that leave the stacks alone *)

\* The process computes.
LEMMA ComputeIInv ==
  ASSUME IInv, NEW r \in Regs, Compute(r)
  PROVE  IInv'
<1> USE DEF IInv, Compute
<1>1. TypeOK'
  BY DEF TypeOK
<1>2. OnCpu'
  BY DEF OnCpu, Depth, TypeOK, Kernel
<1>3. OffCpu'
  BY DEF OffCpu, TypeOK
<1> QED BY <1>1, <1>2, <1>3

\* The trampoline loads the user data segments.
LEMMA LoadUserSegmentsIInv ==
  ASSUME IInv, LoadUserSegments
  PROVE  IInv'
<1> USE DEF IInv, LoadUserSegments
<1>1. TypeOK'
  BY DEF TypeOK
<1>2. OnCpu'
  BY DEF OnCpu, Depth, Kernel
<1>3. OffCpu'
  BY DEF OffCpu
<1> QED BY <1>1, <1>2, <1>3

\* The trampoline enters ring 3.
LEMMA EnterUsermodeIInv ==
  ASSUME IInv, EnterUsermode
  PROVE  IInv'
<1> USE DEF IInv, EnterUsermode
<1>1. TypeOK'
  BY DEF TypeOK, Pcs
<1>2. OnCpu'
  BY DEF OnCpu, Depth, TypeOK, Kernel
<1>3. OffCpu'
  BY DEF OffCpu, TypeOK
<1> QED BY <1>1, <1>2, <1>3

\* irq_handler acknowledges the interrupt and runs.
LEMMA IrqHandlerIInv ==
  ASSUME IInv, NEW r \in Regs, IrqHandler(r)
  PROVE  IInv'
<1> USE DEF IInv, IrqHandler
<1>1. TypeOK'
  BY DEF TypeOK, Pcs, Kernel
<1>2. OnCpu'
  BY DEF OnCpu, Depth, Kernel
<1>3. OffCpu'
  BY DEF OffCpu
<1> QED BY <1>1, <1>2, <1>3

\* The handler returns to its stub.
LEMMA HandlerReturnsIInv ==
  ASSUME IInv, HandlerReturns
  PROVE  IInv'
<1> USE DEF IInv, HandlerReturns, cpu
<1>1. TypeOK'
  BY DEF TypeOK, Pcs, Kernel
<1>2. OnCpu'
  BY DEF OnCpu, Depth, Kernel
<1>3. OffCpu'
  BY DEF OffCpu
<1> QED BY <1>1, <1>2, <1>3

\* The stub returns to what was interrupted.
LEMMA IretIInv ==
  ASSUME IInv, Iret
  PROVE  IInv'
<1> USE DEF IInv, Iret
<1>1. /\ Top(esp) = stack[current][1] /\ Interrupted(Top(esp), expected[current], current)
      /\ esp.depth = 1 /\ esp.owner = current
  BY DEF OnCpu, Depth, Kernel, Top
<1>2. esp' = [owner |-> current, depth |-> 0]
  BY <1>1 DEF Down, OnCpu
<1>3. TypeOK'
  BY <1>1, <1>2 DEF TypeOK, Pcs, Interrupted, TrapBlocks
<1>4. OnCpu'
  BY <1>1, <1>2 DEF OnCpu, Depth, Kernel, Interrupted, TrapBlocks
<1>5. OffCpu'
  BY DEF OffCpu
<1> QED BY <1>3, <1>4, <1>5

----------------------------------------------------------------------------
(* Entering the kernel *)

\* What every trap does to the stack of the process it interrupts.
LEMMA TrapFacts ==
  ASSUME IInv, pc \in {"run", "trampoline"}, NEW v \in 0..255, GateClearsIf(v),
         NEW code, code = IF v \in ErrorCodes THEN <<"code">> ELSE <<>>,
         NEW where \in Kernel, Trap(v, code, where)
  PROVE  /\ stack' \in [Procs -> Seq(Blocks)]
         /\ \A q \in Procs \ {current} : stack'[q] = stack[q]
         /\ Len(stack'[current]) = 1
         /\ Interrupted(stack'[current][1], expected[current], current)
         /\ stack'[current][1].frame = <<v, "code", "eip">>
         /\ esp' = [owner |-> current, depth |-> 1]
         /\ ring' = 0 /\ ds' = 0 /\ iflag' = FALSE /\ vector' = v /\ pc' = where
<1> DEFINE b == [resume |-> pc, iflag |-> iflag, ring |-> ring, regs |-> regs, ds |-> ds,
                 frame |-> <<v, "code", "eip">>]
<1>1. EntryStack = [owner |-> current, depth |-> 0]
  BY DEF EntryStack, IInv, OnCpu, Depth, TypeOK
<1>2. stack' = [stack EXCEPT ![current] = Append(SubSeq(@, 1, 0), b)]
  BY <1>1, FrameWords, Zenon DEF Trap, Pushed
<1>3. b \in TrapBlocks
  BY FrameWords, Zenon DEF TrapBlocks, IInv, TypeOK
<1>4. Interrupted(b, expected[current], current)
  BY <1>3 DEF IInv, OnCpu, Interrupted
<1> HIDE DEF b
<1>5. /\ Append(SubSeq(stack[current], 1, 0), b) \in Seq(Blocks)
      /\ Len(Append(SubSeq(stack[current], 1, 0), b)) = 1
      /\ Append(SubSeq(stack[current], 1, 0), b)[1] = b
  BY <1>3, PushFacts DEF Blocks, IInv, TypeOK
<1>6. b.frame = <<v, "code", "eip">>
  BY DEF b
<1>7. esp' = [owner |-> current, depth |-> 1]
  BY <1>1 DEF Trap, Up
<1>8. ring' = 0 /\ ds' = 0 /\ iflag' = FALSE /\ vector' = v /\ pc' = where
  BY Zenon DEF Trap
<1>9. /\ stack' \in [Procs -> Seq(Blocks)]
      /\ \A q \in Procs \ {current} : stack'[q] = stack[q]
      /\ stack'[current] = Append(SubSeq(stack[current], 1, 0), b)
  BY <1>2, <1>5 DEF IInv, TypeOK
<1> QED BY <1>4, <1>5, <1>6, <1>7, <1>8, <1>9

\* A trap that leaves everything else alone keeps the invariant.
LEMMA TrapIInv ==
  ASSUME IInv, pc \in {"run", "trampoline"}, NEW v \in 0..255, GateClearsIf(v),
         NEW code, code = IF v \in ErrorCodes THEN <<"code">> ELSE <<>>,
         NEW where \in Kernel, Trap(v, code, where),
         in_service' \subseteq Lines, where # "irq" => in_service' = {},
         UNCHANGED <<current, dead, regs, cr3, esp0, saved, expected>>
  PROVE  IInv'
<1>0. /\ stack' \in [Procs -> Seq(Blocks)]
      /\ \A q \in Procs \ {current} : stack'[q] = stack[q]
      /\ Len(stack'[current]) = 1
      /\ Interrupted(stack'[current][1], expected[current], current)
      /\ stack'[current][1].frame = <<v, "code", "eip">>
      /\ esp' = [owner |-> current, depth |-> 1]
      /\ ring' = 0 /\ ds' = 0 /\ iflag' = FALSE /\ vector' = v /\ pc' = where
  BY TrapFacts, Zenon
<1>1. TypeOK'
  <2>2. pc' \in Pcs
    BY <1>0 DEF Pcs
  <2>3. iflag' \in BOOLEAN
    BY <1>0, Zenon
  <2> QED BY <1>0, <2>2, <2>3 DEF IInv, TypeOK
<1>2. OnCpu'
  <2>1. pc' \notin {"run", "trampoline"} /\ Depth' = 1
    BY <1>0 DEF Depth, Kernel
  <2>2. /\ cr3 = current /\ current \notin dead
        /\ current # shell => esp0 = current
    BY DEF IInv, OnCpu
  <2>3. /\ Len(stack'[current]) >= 1 /\ ~iflag'
        /\ pc' \in Kernel \ {"irq"} => in_service' = {}
    BY <1>0
  <2> HIDE DEF IInv
  <2> QED BY <1>0, <2>1, <2>2, <2>3 DEF OnCpu
<1>3. OffCpu'
  BY <1>0 DEF IInv, OffCpu
<1> QED BY <1>1, <1>2, <1>3 DEF IInv

\* A hardware interrupt.
LEMMA InterruptIInv ==
  ASSUME IInv, NEW line \in Lines, Interrupt(line)
  PROVE  IInv'
<1>1. pc \in {"run", "trampoline"}
  BY DEF IInv, TypeOK, OnCpu, Pcs, Interrupt
<1>2. /\ 32 + line \in 0..255 /\ GateClearsIf(32 + line) /\ 32 + line \notin ErrorCodes
      /\ "irq" \in Kernel /\ {line} \subseteq Lines
  BY DEF Lines, TIMER, KEYBOARD, GateClearsIf, ErrorCodes, Kernel
<1> QED BY <1>1, <1>2, TrapIInv, Zenon DEF Interrupt

\* An exception or a software interrupt, after which the machine halts.
LEMMA HaltIInv ==
  ASSUME IInv, pc \in {"run", "trampoline"}, NEW v \in 0..31,
         NEW code, code = IF v \in ErrorCodes THEN <<"code">> ELSE <<>>,
         Halt(v, code)
  PROVE  IInv'
<1>1. v \in 0..255 /\ GateClearsIf(v) /\ "halted" \in Kernel
  BY DEF GateClearsIf, Kernel
<1>2. in_service' \subseteq Lines /\ in_service' = {}
  BY DEF Halt, IInv, OnCpu
<1> QED BY <1>1, <1>2, TrapIInv, Zenon DEF Halt

LEMMA ExceptionIInv ==
  ASSUME IInv, NEW v \in Faults, Exception(v)
  PROVE  IInv'
<1>1. v \in 0..31
  BY ContextAssumption
<1>2. PICK code : /\ code = (IF v \in ErrorCodes THEN <<"code">> ELSE <<>>)
                  /\ Halt(v, code)
  BY DEF Exception
<1>3. pc \in {"run", "trampoline"}
  BY DEF Exception
<1> QED BY <1>1, <1>2, <1>3, HaltIInv, Zenon

\* Every gate but the one of int 0x80 is closed to ring 3.
LEMMA SoftIntIInv ==
  ASSUME IInv, NEW n \in SoftInts, SoftInt(n)
  PROVE  IInv'
<1>1. Halt(GP, <<"code">>)
  BY DEF SoftInt, GateDpl
<1>2. GP \in 0..31 /\ GP \in ErrorCodes
  BY DEF GP, ErrorCodes
<1> QED BY <1>1, <1>2, HaltIInv DEF SoftInt

LEMMA SyscallIInv ==
  ASSUME IInv, Syscall
  PROVE  IInv'
<1>1. /\ SYSCALL \in 0..255 /\ GateClearsIf(SYSCALL) /\ SYSCALL \notin ErrorCodes
      /\ "syscall" \in Kernel
  BY DEF SYSCALL, GateClearsIf, ErrorCodes, Kernel
<1>2. in_service' \subseteq Lines /\ in_service' = {}
  BY DEF Syscall, IInv, OnCpu
<1> QED BY <1>1, <1>2, TrapIInv, Zenon DEF Syscall

----------------------------------------------------------------------------
(* Results and switches *)

\* A system call returns: its result replaces eax in the trap frame.
LEMMA SysReturnIInv ==
  ASSUME IInv, NEW v \in Vals, SysReturn(v)
  PROVE  IInv'
<1> DEFINE b == stack[current][1]
           c == [b EXCEPT !.regs.eax = v]
           e == expected[current]
<1>1. /\ esp.owner = current /\ esp.depth = 1 /\ Len(stack[current]) >= 1
      /\ Interrupted(b, e, current) /\ pc \in Kernel /\ current \in Procs
  BY DEF IInv, TypeOK, OnCpu, Depth, SysReturn, Kernel
<1>2. b \in TrapBlocks /\ e \in Regs /\ stack[current] \in Seq(Blocks)
  BY <1>1 DEF Interrupted, IInv, TypeOK
<1>3. c \in TrapBlocks /\ c.resume = b.resume /\ c.iflag = b.iflag /\ c.ring = b.ring
      /\ c.ds = b.ds /\ c.regs = [b.regs EXCEPT !.eax = v]
  BY <1>2 DEF TrapBlocks, Regs
<1>4. Interrupted(c, [e EXCEPT !.eax = v], current)
  BY <1>1, <1>3 DEF Interrupted
<1>5. stack' = [stack EXCEPT ![current] = [@ EXCEPT ![1] = c]]
  BY <1>1 DEF SysReturn, StoreResult
<1>6. expected' = [expected EXCEPT ![current] = [e EXCEPT !.eax = v]]
  BY DEF SysReturn
<1>7. [e EXCEPT !.eax = v] \in Regs
  BY <1>2 DEF Regs
<1> HIDE DEF b, c, e
<1>8. /\ [stack[current] EXCEPT ![1] = c] \in Seq(Blocks)
      /\ Len([stack[current] EXCEPT ![1] = c]) = Len(stack[current])
      /\ [stack[current] EXCEPT ![1] = c][1] = c
  BY <1>1, <1>2, <1>3 DEF Blocks
<1>9. TypeOK'
  <2>1. stack' \in [Procs -> Seq(Blocks)] /\ expected' \in [Procs -> Regs]
    BY <1>5, <1>6, <1>7, <1>8 DEF IInv, TypeOK
  <2>2. pc' \in Pcs
    BY DEF SysReturn, Pcs, Kernel
  <2> QED BY <2>1, <2>2 DEF IInv, TypeOK, SysReturn, cpu
<1>10. OnCpu'
  BY <1>1, <1>4, <1>5, <1>6, <1>8, Zenon DEF IInv, TypeOK, OnCpu, Depth, SysReturn, cpu, Kernel
<1>11. OffCpu'
  BY <1>5, <1>6 DEF IInv, TypeOK, OffCpu, SysReturn, cpu
<1> QED BY <1>9, <1>10, <1>11 DEF IInv, SysReturn, cpu

\* A switch from within a handler or a system call leaves a switch block on the
\* old stack and takes the one it finds on the new.
LEMMA DoSwitchIInv ==
  ASSUME IInv, pc \in {"handler", "syscall"}, NEW q \in Procs,
         NEW resume \in {"iret", "yielded", "dead"}, DoSwitch(q, resume), expected' = expected,
         \/ dead' = dead /\ resume # "dead"
         \/ dead' = dead \cup {current} /\ current # shell
  PROVE  IInv'
<1> DEFINE b == [resume |-> resume, iflag |-> iflag, regs |-> regs]
           s == Append(SubSeq(stack[current], 1, 1), b)
           top == stack[q][saved[q]]
<1>1. /\ esp.owner = current /\ esp.depth = 1 /\ Len(stack[current]) >= 1 /\ ~iflag
      /\ Interrupted(stack[current][1], expected[current], current)
      /\ ring = 0 /\ ds = 0 /\ in_service = {} /\ current \in Procs
  BY DEF IInv, TypeOK, OnCpu, Depth, Kernel
<1>2. /\ q # current /\ q \notin dead'
      /\ Suspended(stack[q], saved[q], expected[q], q)
  BY DEF IInv, OffCpu, DoSwitch, Switchable
<1>3. b \in SwitchBlocks /\ b.resume = resume /\ b.iflag = iflag
  BY DEF SwitchBlocks, IInv, TypeOK
<1>4. /\ stack' = [stack EXCEPT ![current] = s]
      /\ saved' = [saved EXCEPT ![current] = 2]
      /\ current' = q /\ cr3' = q /\ esp0' = q
      /\ regs' = top.regs /\ iflag' = top.iflag /\ pc' = top.resume
      /\ esp' = [owner |-> q, depth |-> saved[q] - 1]
      /\ UNCHANGED <<ring, ds, vector, in_service>>
  <2>1. Down([owner |-> q, depth |-> saved[q]]) = [owner |-> q, depth |-> saved[q] - 1]
    BY DEF Down
  <2>2. Top([owner |-> q, depth |-> saved[q]]) = top
    BY DEF Top
  <2>3. Pushed(esp, b) = [stack EXCEPT ![current] = s]
    BY <1>1 DEF Pushed
  <2>4. stack' = Pushed(esp, b) /\ esp' = Down([owner |-> q, depth |-> saved[q]])
    BY DEF DoSwitch
  <2>5. /\ regs' = top.regs /\ iflag' = top.iflag /\ pc' = top.resume
    BY <2>2 DEF DoSwitch
  <2>6. saved' = [saved EXCEPT ![current] = 2]
    <3>1. saved' = [saved EXCEPT ![current] = esp.depth + 1]
      BY DEF DoSwitch
    <3>2. esp.depth + 1 = 2
      BY <1>1
    <3> QED BY <3>1, <3>2, Zenon
  <2>7. /\ current' = q /\ cr3' = q /\ esp0' = q
        /\ UNCHANGED <<ring, ds, vector, in_service>>
    BY DEF DoSwitch, TssFollows
  <2> HIDE DEF top, s, b
  <2> QED BY <2>1, <2>3, <2>4, <2>5, <2>6, <2>7
<1> HIDE DEF b
<1>5. s \in Seq(Blocks) /\ Len(s) = 2 /\ s[2] = b /\ s[1] = stack[current][1]
  <2>1. stack[current] \in Seq(Blocks) /\ b \in Blocks /\ 1 \in 0..Len(stack[current])
    BY <1>1, <1>3 DEF IInv, TypeOK, Blocks
  <2> QED BY <2>1, PushFacts
<1> HIDE DEF s
<1>6. /\ \A p \in Procs \ {current} : stack'[p] = stack[p] /\ saved'[p] = saved[p]
      /\ stack'[current] = s /\ saved'[current] = 2
      /\ stack' \in [Procs -> Seq(Blocks)] /\ saved' \in [Procs -> 0..2]
  <2>1. stack \in [Procs -> Seq(Blocks)] /\ saved \in [Procs -> 0..2]
    BY DEF IInv, TypeOK
  <2>2. /\ \A p \in Procs \ {current} : stack'[p] = stack[p]
        /\ stack'[current] = s /\ stack' \in [Procs -> Seq(Blocks)]
    BY <1>1, <1>4, <1>5, <2>1
  <2>3. /\ \A p \in Procs \ {current} : saved'[p] = saved[p]
        /\ saved'[current] = 2 /\ saved' \in [Procs -> 0..2]
    BY <1>1, <1>4, <2>1
  <2> QED BY <2>2, <2>3
<1>7. /\ top \in SwitchBlocks /\ saved[q] \in {1, 2}
      /\ saved[q] = 1 => top.resume = "trampoline" /\ top.iflag /\ q # shell
      /\ saved[q] = 2 => /\ top.resume \in {"iret", "yielded"} /\ ~top.iflag
                         /\ Len(stack[q]) >= 2 /\ Interrupted(stack[q][1], expected[q], q)
  <2>1. CASE saved[q] = 1
    BY <1>2, <2>1 DEF Suspended
  <2>2. CASE saved[q] = 2
    BY <1>2, <2>2 DEF Suspended
  <2>3. saved[q] = 1 \/ saved[q] = 2
    BY <1>2, Zenon DEF Suspended
  <2> QED BY <2>1, <2>2, <2>3
<1> HIDE DEF top
<1>8. TypeOK'
  <2>1. top.regs \in Regs /\ top.iflag \in BOOLEAN /\ top.resume \in Pcs
    BY <1>7 DEF SwitchBlocks, Pcs, Kernel
  <2>3. dead' \subseteq Procs
    BY <1>1 DEF IInv, TypeOK
  <2> QED BY <1>4, <1>6, <2>1, <2>3 DEF IInv, TypeOK
<1>9. OnCpu'
  <2>1. CASE saved[q] = 1
    <3>1. /\ pc' = "trampoline" /\ iflag' /\ q # shell
          /\ esp' = [owner |-> q, depth |-> 0]
      <4>1. pc' = "trampoline" /\ iflag' /\ q # shell
        BY <1>4, <1>7, <2>1, Zenon
      <4>2. saved[q] - 1 = 0
        BY <2>1
      <4>3. esp' = [owner |-> q, depth |-> saved[q] - 1]
        BY <1>4
      <4> QED BY <4>1, <4>2, <4>3, Zenon
    <3> QED BY <1>1, <1>2, <1>4, <3>1 DEF OnCpu, Depth, Kernel
  <2>2. CASE saved[q] = 2
    <3>0. /\ top.resume \in {"iret", "yielded"} /\ ~top.iflag
          /\ Len(stack[q]) >= 2 /\ Interrupted(stack[q][1], expected[q], q)
      BY <1>7, <2>2, Zenon
    <3>1. /\ pc' \in {"iret", "yielded"} /\ ~iflag'
          /\ esp' = [owner |-> q, depth |-> 1]
      <4>1. pc' \in {"iret", "yielded"} /\ ~iflag'
        BY <1>4, <3>0, Zenon
      <4>2. saved[q] - 1 = 1
        BY <2>2
      <4>3. esp' = [owner |-> q, depth |-> saved[q] - 1]
        BY <1>4
      <4> QED BY <4>1, <4>2, <4>3, Zenon
    <3>2. stack'[q] = stack[q]
      BY <1>2, <1>6
    <3>3. Len(stack'[q]) >= 1 /\ Interrupted(stack'[q][1], expected'[q], q)
      <4>1. Len(stack[q]) \in Nat
        BY DEF IInv, TypeOK
      <4> QED BY <3>0, <3>2, <4>1
    <3> QED BY <1>1, <1>2, <1>4, <3>1, <3>3 DEF OnCpu, Depth, Kernel
  <2> QED BY <1>7, <2>1, <2>2
<1>10. OffCpu'
  <2> SUFFICES ASSUME NEW p \in Procs, p \notin dead', p # q
               PROVE  Suspended(stack'[p], saved'[p], expected[p], p)
    BY <1>4 DEF OffCpu
  <2>1. CASE p = current
    <3>1. resume \in {"iret", "yielded"}
      BY <2>1
    <3>2. Suspended(s, 2, expected[current], current)
      BY <1>1, <1>3, <1>5, <3>1 DEF Suspended
    <3> QED BY <1>6, <2>1, <3>2
  <2>2. CASE p # current
    BY <1>6, <2>2, Zenon DEF IInv, OffCpu
  <2> QED BY <2>1, <2>2
<1>11. shell \notin dead'
  BY DEF IInv
<1> QED BY <1>8, <1>9, <1>10, <1>11 DEF IInv

LEMMA SwitchStepIInv ==
  ASSUME IInv, NEW q \in Procs, TimerSwitch(q) \/ SysYield(q) \/ SysExit(q)
  PROVE  IInv'
<1>1. CASE TimerSwitch(q)
  BY <1>1, DoSwitchIInv DEF TimerSwitch
<1>2. CASE SysYield(q)
  BY <1>2, DoSwitchIInv DEF SysYield
<1>3. CASE SysExit(q)
  BY <1>3, DoSwitchIInv DEF SysExit
<1> QED BY <1>1, <1>2, <1>3

----------------------------------------------------------------------------
(* The theorems *)

\* Every step keeps the invariant.
LEMMA NextIInv == IInv /\ [Next]_vars => IInv'
<1> SUFFICES ASSUME IInv, [Next]_vars PROVE IInv'
  OBVIOUS
<1>1. CASE \E r \in Regs : Compute(r) \/ IrqHandler(r)
  BY <1>1, ComputeIInv, IrqHandlerIInv
<1>2. CASE LoadUserSegments \/ EnterUsermode
  BY <1>2, LoadUserSegmentsIInv, EnterUsermodeIInv
<1>3. CASE \E line \in Lines : Interrupt(line)
  BY <1>3, InterruptIInv
<1>4. CASE HandlerReturns \/ Iret
  BY <1>4, HandlerReturnsIInv, IretIInv
<1>5. CASE \E v \in Faults : Exception(v)
  BY <1>5, ExceptionIInv
<1>6. CASE \E n \in SoftInts : SoftInt(n)
  BY <1>6, SoftIntIInv
<1>7. CASE Syscall
  BY <1>7, SyscallIInv
<1>8. CASE \E v \in Vals : SysReturn(v)
  BY <1>8, SysReturnIInv
<1>9. CASE \E q \in Procs : TimerSwitch(q) \/ SysYield(q) \/ SysExit(q)
  BY <1>9, SwitchStepIInv
<1>10. CASE UNCHANGED vars
  <2> USE <1>10 DEF vars, cpu, IInv
  <2>1. TypeOK'
    BY DEF TypeOK
  <2>2. OnCpu'
    BY DEF OnCpu, Depth
  <2>3. OffCpu'
    BY DEF OffCpu
  <2> QED BY <2>1, <2>2, <2>3
<1> QED BY <1>1, <1>2, <1>3, <1>4, <1>5, <1>6, <1>7, <1>8, <1>9, <1>10 DEF Next

\* The stacks are always laid out as IInv says.
LEMMA Invariance == Spec => []IInv
BY InitIInv, NextIInv, PTL DEF Spec

\* A process always finds the registers it left, for any number of processes.
THEOREM RegistersKept == Spec => []ContextPreserved
<1>1. IInv => ContextPreserved
  BY DEF IInv, OnCpu, ContextPreserved
<1> QED BY <1>1, Invariance, PTL

\* The CPU always uses the directory, stacks and segments of current_process.
THEOREM OwnStacks == Spec => []RunsOnItsOwn
<1>1. IInv => RunsOnItsOwn
  <2> SUFFICES ASSUME IInv PROVE RunsOnItsOwn
    OBVIOUS
  <2>1. pc = "run" \/ pc = "trampoline" \/ pc \in Kernel
    BY DEF IInv, TypeOK, Pcs
  <2>2. cr3 = current /\ esp.owner = current /\ (current # shell => esp0 = current)
    BY DEF IInv, OnCpu
  <2>3. CASE pc = "run"
    BY <2>2, <2>3 DEF IInv, OnCpu, RunsOnItsOwn
  <2>4. CASE pc = "trampoline"
    BY <2>2, <2>4 DEF IInv, OnCpu, RunsOnItsOwn
  <2>5. CASE pc \in Kernel
    BY <2>2, <2>5 DEF IInv, OnCpu, RunsOnItsOwn
  <2> QED BY <2>1, <2>3, <2>4, <2>5
<1> QED BY <1>1, Invariance, PTL

\* No switch leaves interrupts off or the PIC waiting for an acknowledgement.
THEOREM AlwaysPreemptible == Spec => []Preemptible
<1>1. IInv => Preemptible
  BY DEF IInv, OnCpu, Preemptible
<1> QED BY <1>1, Invariance, PTL

\* Every handler finds the same frame, with or without an error code.
THEOREM UniformFrames == Spec => []FramesUniform
<1>1. IInv => FramesUniform
  BY DEF IInv, OnCpu, Depth, Kernel, FramesUniform, Top
<1> QED BY <1>1, Invariance, PTL

\* Interrupts never nest on a kernel stack.
THEOREM NoNesting == Spec => []StackBounded
<1>1. IInv => StackBounded
  <2> SUFFICES ASSUME IInv PROVE StackBounded
    OBVIOUS
  <2>1. esp.depth \in 0..1
    BY DEF IInv, OnCpu, Depth
  <2>2. \A p \in Procs : saved[p] \in 0..2
    BY DEF IInv, TypeOK
  <2> QED BY <2>1, <2>2 DEF StackBounded
<1> QED BY <1>1, Invariance, PTL
=============================================================================
