-------------------------------- MODULE Boot --------------------------------
(***************************************************************************)
(* kernel_main of kernel/kernel.c, one call after the other, with the      *)
(* interrupts that arrive from the `sti' of idt_init on: the PIT has been  *)
(* running since power-on, and keys are pressed at any time.  irq_handler  *)
(* acknowledges an interrupt that has no handler yet and does nothing else.*)
(* The keyboard controller holds one scancode and requests IRQ 1 when it   *)
(* gets one; only a read of port 0x60 makes room for the next.             *)
(***************************************************************************)
EXTENDS Keyboard

Steps == <<"vga_init", "gdt_init", "idt_init", "keyboard_init", "irq_register", "magic",
           "pmm_init", "paging_init", "kmalloc_init", "process_init", "scheduler_init",
           "pit_init", "ramfs_init", "shell_run">>

TIMER == 0
KEYBOARD == 1
NoCode == <<"none">>
Release == <<"release">>
Scancodes == {Release} \cup {<<"shift", down>> : down \in BOOLEAN} \cup {<<"key", k>> : k \in Keys}

VARIABLES
  boot,      \* how many steps of kernel_main are done
  panicked,  \* kpanic has been called
  iflag,     \* the interrupt flag
  handlers,  \* the IRQs with an entry in irq_handlers[]
  requested, \* the IRQs the PIC is about to deliver
  port,      \* the scancode in the keyboard controller
  early      \* history: a key was pressed before IRQ 1 had its handler

machine == <<boot, panicked, iflag, handlers>>
devices == <<requested, port, early>>
bvars == <<vars, machine, devices>>

Done(s) == \E i \in 1..boot : Steps[i] = s

\* GRUB jumps to _start with interrupts off.
BootInit ==
  /\ Init
  /\ boot = 0 /\ panicked = FALSE /\ iflag = FALSE /\ handlers = {}
  /\ requested = {} /\ port = NoCode /\ early = FALSE

----------------------------------------------------------------------------
(* kernel_main *)

\* Fault: the timer gets its handler before there is a process to charge.
Registers_TimerFirst(s) ==
  CASE s = "irq_register" -> {KEYBOARD} [] s = "pmm_init" -> {TIMER} [] OTHER -> {}

\* irq_register, called by kernel_main itself and by pit_init.
Registers(s) ==
  CASE s = "irq_register" -> {KEYBOARD} [] s = "pit_init" -> {TIMER} [] OTHER -> {}

\* pic_remap and sti are in idt_init: the first drops the requests that are
\* pending.
BootStep ==
  LET s == Steps[boot + 1]
  IN  /\ boot < Len(Steps) /\ ~panicked
      /\ boot' = boot + 1
      /\ iflag' = (iflag \/ s = "idt_init")
      /\ handlers' = handlers \cup Registers(s)
      /\ requested' = IF s = "idt_init" THEN {} ELSE requested
      /\ UNCHANGED <<vars, panicked, port, early>>

\* The kernel was not started by a Multiboot2 loader.
WrongMagic ==
  /\ boot < Len(Steps) /\ Steps[boot + 1] = "magic" /\ ~panicked
  /\ panicked' = TRUE
  /\ iflag' = FALSE
  /\ UNCHANGED <<vars, boot, handlers, devices>>

\* shell_run polls the keyboard.
ShellPolls ==
  /\ Done("shell_run")
  /\ Getchar
  /\ UNCHANGED <<machine, devices>>

----------------------------------------------------------------------------
(* Devices and interrupts *)

KeyPressed(sc) ==
  /\ port = NoCode
  /\ port' = sc
  /\ requested' = requested \cup {KEYBOARD}
  /\ early' = (early \/ KEYBOARD \notin handlers)
  /\ UNCHANGED <<vars, machine>>

PitPulse ==
  /\ requested' = requested \cup {TIMER}
  /\ UNCHANGED <<vars, machine, port, early>>

\* Fault: a release is recognised before the scancode is taken from the port.
HandleKey_PeekRelease ==
  \/ port = Release /\ UNCHANGED <<vars, port>>
  \/ /\ port' = NoCode
     /\ \/ \E down \in BOOLEAN : port = <<"shift", down>> /\ ShiftKey(down)
        \/ \E k \in Keys : port = <<"key", k>> /\ KeyDown(k)

\* keyboard_handler reads the port whatever the scancode is.
HandleKey ==
  /\ port' = NoCode
  /\ \/ port = Release /\ UNCHANGED vars
     \/ \E down \in BOOLEAN : port = <<"shift", down>> /\ ShiftKey(down)
     \/ \E k \in Keys : port = <<"key", k>> /\ KeyDown(k)

\* irq_handler; what scheduler_tick does is the subject of Scheduler.
Interrupt(line) ==
  /\ iflag /\ line \in requested
  /\ requested' = requested \ {line}
  /\ IF line = KEYBOARD /\ line \in handlers THEN HandleKey ELSE UNCHANGED <<vars, port>>
  /\ UNCHANGED <<machine, early>>

BootNext ==
  \/ BootStep \/ WrongMagic \/ ShellPolls
  \/ \E sc \in Scancodes : KeyPressed(sc)
  \/ PitPulse
  \/ \E line \in {TIMER, KEYBOARD} : Interrupt(line)

\* The CPU executes, the PIC delivers, the shell is scheduled.
BootSpec ==
  /\ BootInit /\ [][BootNext]_bvars
  /\ WF_bvars(BootStep) /\ WF_bvars(Interrupt(KEYBOARD)) /\ WF_bvars(ShellPolls)

----------------------------------------------------------------------------
(* Properties. *)

\* An interrupt is never taken before the tables it goes through are loaded,
\* and scheduler_tick never runs before there are a current process and a
\* ready queue, the heap they live in and the page directory they name.
HandlersReady ==
  /\ iflag => Done("gdt_init") /\ Done("idt_init")
  /\ TIMER \in handlers =>
       Done("paging_init") /\ Done("kmalloc_init") /\ Done("process_init") /\ Done("scheduler_init")

\* The keyboard never falls silent: a scancode that waits in the controller
\* has its interrupt on the way, unless a key was pressed before irq_register(1),
\* when the request is acknowledged, or dropped, and the port never read.
KeysKeepComing == port # NoCode /\ ~early => KEYBOARD \in requested

\* Whatever is typed, from the first moments on, the shell makes room again: a
\* full buffer is read from.
FullBufferDrains ==
  Used = KEYBOARD_BUF_SIZE - 1 ~> (Used < KEYBOARD_BUF_SIZE - 1 \/ panicked)
=============================================================================
