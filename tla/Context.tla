------------------------------ MODULE Context ------------------------------
(***************************************************************************)
(* How the CPU enters and leaves the kernel and changes processes: the     *)
(* gates and handlers of kernel/idt.c, the stubs of boot/isr.asm, the TSS  *)
(* stack of kernel/gdt.c, do_switch with boot/context_switch.asm, and      *)
(* enter_usermode in boot/usermode.asm.                                    *)
(*                                                                         *)
(* Kernel stacks are memory: a push writes above the stack pointer and     *)
(* overwrites what was there.  A pushed block (trap frame plus pusha, or   *)
(* the eight words of context_switch) is one element.                      *)
(***************************************************************************)
EXTENDS Integers, Sequences

CONSTANTS
  Procs,   \* the processes
  shell,   \* the one that runs on the boot stack in ring 0
  Vals,    \* values of a register
  Faults,  \* the exceptions that occur
  SoftInts \* the operands of `int' in user programs

TIMER == 0
KEYBOARD == 1
Lines == {TIMER, KEYBOARD}
GP == 13                              \* general protection fault
SYSCALL == 128
NoStack == "none"                     \* tss.esp0 as write_tss leaves it
Regs == [eax : Vals, rest : Vals]
Zeroed == [eax |-> 0, rest |-> 0]

ASSUME ContextAssumption ==
  /\ shell \in Procs /\ NoStack \notin Procs
  /\ 0 \in Vals
  /\ Faults \subseteq 0..31 /\ SoftInts \subseteq 0..255

VARIABLES
  current, dead,
  ring, regs, cr3,
  ds,          \* the privilege level of the data segments
  iflag,       \* the interrupt flag of eflags
  esp,         \* [owner, depth]: whose stack, and how many blocks it holds
  esp0,        \* tss.esp0: the stack whose top ring-3 entries use
  stack,       \* the kernel stack of each process
  saved,       \* process_t.esp, as a depth
  pc,          \* "run", "trampoline", or where the kernel is
  vector,      \* history: the vector raised last
  in_service,  \* lines the PIC blocks until it sees an EOI
  expected     \* history: the registers each process computed last

cpu == <<ring, ds, iflag, regs, cr3, esp>>
vars == <<current, dead, cpu, esp0, stack, saved, pc, vector, in_service, expected>>

\* Fault: the first eflags have IF clear.
FirstBlock_NoInterrupts == [resume |-> "trampoline", iflag |-> FALSE, regs |-> Zeroed]

\* process_create fakes the block context_switch will pop: eflags with IF
\* set and the trampoline as return address.
FirstBlock == [resume |-> "trampoline", iflag |-> TRUE, regs |-> Zeroed]

Init ==
  /\ current = shell
  /\ dead = {}
  /\ ring = 0 /\ ds = 0 /\ iflag = TRUE
  /\ regs = Zeroed
  /\ cr3 = shell
  /\ esp = [owner |-> shell, depth |-> 0]
  /\ esp0 = NoStack
  /\ stack = [p \in Procs |-> IF p = shell THEN <<>> ELSE <<FirstBlock>>]
  /\ saved = [p \in Procs |-> IF p = shell THEN 0 ELSE 1]
  /\ pc = "run"
  /\ vector = SYSCALL
  /\ in_service = {}
  /\ expected = [p \in Procs |-> Zeroed]

----------------------------------------------------------------------------
(* Stack memory *)

Pushed(sp, block) ==
  [stack EXCEPT ![sp.owner] = Append(SubSeq(@, 1, sp.depth), block)]
Top(sp) == stack[sp.owner][sp.depth]
Up(sp) == [sp EXCEPT !.depth = @ + 1]

Down(sp) == [sp EXCEPT !.depth = @ - 1]

\* The CPU takes its stack from the TSS only when it comes from ring 3.
EntryStack == IF ring = 3 THEN [owner |-> esp0, depth |-> 0] ELSE esp

\* The exceptions for which the CPU pushes an error code.
ErrorCodes == {8, 10, 11, 12, 13, 14, 17}

\* The words a stub pushes on what the CPU pushed, the last one first: the vector,
\* and where the CPU pushes no error code a dummy one.
StubPushes(v) == IF v \in {8, 10, 11, 12, 13, 14, 17} THEN <<v>> ELSE <<v, "code">>

\* Faults: every gate is open to ring 3; trap gates leave IF alone.
GateDpl_AllOpen(v) == 3
GateClearsIf_Not(v) == FALSE

\* idt_init: flags 0x8E for the exceptions and the IRQs, 0xEE for int 0x80; an
\* entry that was never set is zero.
GateDpl(v) == IF v = SYSCALL THEN 3 ELSE 0
GateClearsIf(v) == v \in 0..47 \cup {SYSCALL}

\* The CPU pushes the return frame, with an error code if the event has one;
\* the stub completes registers_t, pushes the registers and the data segment, and
\* loads the kernel's.
Trap(v, code, where) ==
  /\ stack' = Pushed(EntryStack,
                     [resume |-> pc, iflag |-> iflag, ring |-> ring, regs |-> regs, ds |-> ds,
                      frame |-> StubPushes(v) \o code \o <<"eip">>])
  /\ esp' = Up(EntryStack)
  /\ ring' = 0 /\ ds' = 0
  /\ iflag' = (iflag /\ ~GateClearsIf(v))
  /\ vector' = v
  /\ pc' = where

\* registers_t.int_no, as the handler finds it.
IntNo == Top(esp).frame[1]

----------------------------------------------------------------------------
(* The process's own code *)

Compute(r) ==
  /\ pc = "run"
  /\ regs' = r
  /\ expected' = [expected EXCEPT ![current] = r]
  /\ UNCHANGED <<current, dead, ring, ds, iflag, cr3, esp, esp0, stack, saved, pc, vector,
                 in_service>>

\* user_mode_trampoline, entered by the ret of context_switch, up to the first
\* half of enter_usermode.
LoadUserSegments ==
  /\ pc = "trampoline" /\ ds = 0
  /\ esp0' = current
  /\ ds' = 3
  /\ UNCHANGED <<current, dead, ring, iflag, regs, cr3, esp, stack, saved, pc, vector,
                 in_service, expected>>

\* The iret of enter_usermode.
EnterUsermode ==
  /\ pc = "trampoline" /\ ds = 3
  /\ ring' = 3 /\ iflag' = TRUE /\ pc' = "run"
  /\ expected' = [expected EXCEPT ![current] = regs]
  /\ UNCHANGED <<current, dead, ds, regs, cr3, esp, esp0, stack, saved, vector, in_service>>

----------------------------------------------------------------------------
(* irq_common_stub and irq_handler *)

Interrupt(line) ==
  /\ iflag /\ in_service = {}
  /\ Trap(32 + line, <<>>, "irq")
  /\ in_service' = {line}
  /\ UNCHANGED <<current, dead, regs, cr3, esp0, saved, expected>>

\* The EOI goes out before the handler runs; C code uses the registers.
IrqHandler(r) ==
  /\ pc = "irq"
  /\ in_service' = {}
  /\ regs' = r
  /\ pc' = "handler"
  /\ UNCHANGED <<current, dead, ring, ds, iflag, cr3, esp, esp0, stack, saved, vector, expected>>

HandlerReturns ==
  /\ pc = "handler"
  /\ pc' = "iret"
  /\ UNCHANGED <<current, dead, cpu, esp0, stack, saved, vector, in_service, expected>>

\* The end of every stub: pop the data segment, popa, drop two words, iret.
Iret ==
  /\ pc = "iret"
  /\ regs' = Top(esp).regs
  /\ ring' = Top(esp).ring
  /\ ds' = Top(esp).ds
  /\ iflag' = Top(esp).iflag
  /\ pc' = Top(esp).resume
  /\ esp' = Down(esp)
  /\ UNCHANGED <<current, dead, cr3, esp0, stack, saved, vector, in_service, expected>>

----------------------------------------------------------------------------
(* isr_common_stub and isr_handler *)

\* isr_handler prints and ends in kpanic: cli and hlt.
Halt(v, code) ==
  /\ Trap(v, code, "halted")
  /\ UNCHANGED <<current, dead, regs, cr3, esp0, saved, in_service, expected>>

\* The code of a process, or the trampoline, causes an exception.
Exception(v) ==
  /\ pc \in {"run", "trampoline"}
  /\ Halt(v, IF v \in ErrorCodes THEN <<"code">> ELSE <<>>)

\* A user program executes int n: without the privilege for the gate, the CPU raises
\* a general protection fault instead.
SoftInt(n) ==
  /\ pc = "run" /\ ring = 3 /\ n # SYSCALL
  /\ IF GateDpl(n) >= ring THEN Halt(n, <<>>) ELSE Halt(GP, <<"code">>)

----------------------------------------------------------------------------
(* do_switch and context_switch *)

\* What pick_next may return.
Switchable(q) == q \notin dead \cup {current}

\* Fault: the TSS is left alone.
TssFollows_Not(q) == UNCHANGED esp0

\* tss_set_kernel_stack
TssFollows(q) == esp0' = q

DoSwitch(q, resume) ==
  LET restored == [owner |-> q, depth |-> saved[q]]
  IN  /\ Switchable(q)
      /\ TssFollows(q)
      /\ current' = q
      /\ stack' = Pushed(esp, [resume |-> resume, iflag |-> iflag, regs |-> regs])
      /\ saved' = [saved EXCEPT ![current] = esp.depth + 1]
      /\ cr3' = q
      /\ regs' = Top(restored).regs
      /\ iflag' = Top(restored).iflag
      /\ pc' = Top(restored).resume
      /\ esp' = Down(restored)
      /\ UNCHANGED <<ring, ds, vector, in_service>>

\* pit_handler calls scheduler_tick.
TimerSwitch(q) ==
  /\ pc = "handler" /\ IntNo - 32 = TIMER
  /\ DoSwitch(q, "iret")
  /\ UNCHANGED <<dead, expected>>

----------------------------------------------------------------------------
(* syscall_common_stub and syscall_handler *)

Syscall ==
  /\ pc = "run" /\ ring <= GateDpl(SYSCALL)
  /\ Trap(SYSCALL, <<>>, "syscall")
  /\ UNCHANGED <<current, dead, regs, cr3, esp0, saved, in_service, expected>>

\* Fault: the wrong slot of the pushed registers.
StoreResult_WrongSlot(v) == stack' = [stack EXCEPT ![esp.owner][esp.depth].regs.rest = v]

\* mov [esp + 28], eax
StoreResult(v) == stack' = [stack EXCEPT ![esp.owner][esp.depth].regs.eax = v]

\* The result v overwrites eax among the registers the stub pushed.
SysReturn(v) ==
  /\ \/ pc = "syscall"
     \/ pc = "yielded" /\ v = 0
  /\ StoreResult(v)
  /\ expected' = [expected EXCEPT ![current].eax = v]
  /\ pc' = "iret"
  /\ UNCHANGED <<current, dead, cpu, esp0, saved, vector, in_service>>

SysYield(q) ==
  /\ pc = "syscall"
  /\ DoSwitch(q, "yielded")
  /\ UNCHANGED <<dead, expected>>

SysExit(q) ==
  /\ pc = "syscall" /\ current # shell
  /\ DoSwitch(q, "dead")
  /\ dead' = dead \cup {current}
  /\ UNCHANGED expected

Next ==
  \/ \E r \in Regs : Compute(r) \/ IrqHandler(r)
  \/ LoadUserSegments \/ EnterUsermode
  \/ \E line \in Lines : Interrupt(line)
  \/ HandlerReturns
  \/ Iret
  \/ \E v \in Faults : Exception(v)
  \/ \E n \in SoftInts : SoftInt(n)
  \/ Syscall
  \/ \E v \in Vals : SysReturn(v)
  \/ \E q \in Procs : TimerSwitch(q) \/ SysYield(q) \/ SysExit(q)

Spec == Init /\ [][Next]_vars

----------------------------------------------------------------------------
(* Properties *)

\* A process finds its registers as it left them, with the result of a system
\* call in eax, however often it was interrupted, preempted or yielded: no
\* switch and no interrupt loses or mixes up a context.
ContextPreserved == pc = "run" => regs = expected[current]

\* The page directory, the kernel stack in use and the stack ring 3 will enter
\* on are always those of current_process, and its code runs with the data segments
\* of its ring.
RunsOnItsOwn ==
  /\ cr3 = current
  /\ ring = 0 => esp.owner = current
  /\ ring = 3 => esp0 = current
  /\ pc # "trampoline" => ds = ring

\* Whenever a process runs its own code, interrupts are enabled and the PIC has
\* been acknowledged, so the next timer tick is delivered: switching inside the
\* handler never leaves the PIC or IF blocked.
Preemptible == pc \in {"run", "trampoline"} => iflag /\ in_service = {}

\* Whatever raised it, a handler finds the vector in int_no and eip behind one
\* error code, real or dummy, so that dropping two words reaches the return
\* frame; a user program enters by int 0x80 and no other gate.
FramesUniform ==
  pc \in {"irq", "handler", "syscall", "halted"} => Top(esp).frame = <<vector, "code", "eip">>

\* Interrupts do not nest: no kernel stack ever holds more than one trap frame
\* and one switch block, so a page of stack is enough.
StackBounded == esp.depth <= 2 /\ \A p \in Procs : saved[p] <= 2
=============================================================================
