----------------------------- MODULE Scheduler -----------------------------
(***************************************************************************)
(* Process life cycle and round-robin scheduling on one CPU:               *)
(* kernel/scheduler.c, kernel/process.c and their callers in shell/ and    *)
(* kernel/syscall.c.                                                       *)
(*                                                                         *)
(* The timer interrupt, the syscall gate and every cli section run with    *)
(* interrupts off, so each of them is one action.  The shell runs as the   *)
(* idle process with interrupts on: `run' and `elftest' are a sequence of  *)
(* actions, one for each store another process can observe, and Tick may   *)
(* come between any two of them.                                           *)
(***************************************************************************)
EXTENDS Integers, Sequences, FiniteSets

CONSTANTS
  Pcbs,           \* the blocks of memory that can hold a process_t
  idle_pcb,       \* the static PCB of the idle process, which is the shell
  NULL,           \* the null pointer
  MAX_PROCESSES,  \* slots of proc_table
  Priorities,     \* the priority arguments given to process_create
  MaxPid          \* bound on next_pid, so that the state space is finite

ASSUME PcbAssumption == /\ IsFiniteSet(Pcbs)
                        /\ idle_pcb \in Pcbs
                        /\ NULL \notin Pcbs
ASSUME BoundAssumption == /\ MAX_PROCESSES \in Nat \ {0}
                          /\ Priorities \subseteq Nat
                          /\ MaxPid \in Nat

VARIABLES
  current,          \* current_process
  queue,            \* the run queue, head first
  zombies,          \* the zombie list; its order is never observed
  proc_table,       \* the PCBs registered in proc_table
  state,            \* process_t.state, "FREE" for unallocated memory
  pid,              \* process_t.pid
  parent_pid,       \* process_t.parent_pid
  priority,         \* process_t.priority
  ticks_remaining,  \* process_t.ticks_remaining
  sleep_ticks,      \* process_t.sleep_ticks
  user_entry,       \* whether user_entry and user_stack_top have been stored
  ring,             \* privilege level: 0 in the trampoline, then 3
  next_pid,         \* next_pid
  shell_pc,         \* where the shell is in process_create_from_elf
  shell_pcb,        \* the PCB it is working on there
  machine           \* "up", "panic" (kpanic) or "halted" (end of process_exit)

lists == <<queue, zombies, proc_table>>
pcb == <<pid, parent_pid, priority, sleep_ticks, user_entry, ring>>
shell == <<next_pid, shell_pc, shell_pcb>>
vars == <<current, lists, state, ticks_remaining, pcb, shell, machine>>

----------------------------------------------------------------------------
(* Helpers. *)

Elems(q) == {q[i] : i \in DOMAIN q}

\* Fault: link at the head.
Enqueue_AtHead(q, p) == <<p>> \o q

\* scheduler_enqueue: link at the tail.
Enqueue(q, p) == Append(q, p)

\* Fault: leave p linked.
Dequeue_Nothing(q, p) == q

\* scheduler_dequeue: unlink p wherever it is.
Dequeue(q, p) ==
  IF \E i \in DOMAIN q : q[i] = p
  THEN LET k == CHOOSE i \in DOMAIN q : q[i] = p
       IN  [i \in 1..(Len(q) - 1) |-> IF i < k THEN q[i] ELSE q[i + 1]]
  ELSE q

\* k times "take the head, move it to the tail".
Rotate(q, k) ==
  [i \in 1..Len(q) |-> IF i + k <= Len(q) THEN q[i + k] ELSE q[i + k - Len(q)]]

\* i is the position of the first READY process of q.
IsFirstReady(q, st, i) ==
  /\ i \in DOMAIN q
  /\ st[q[i]] = "READY"
  /\ \A j \in 1..(i - 1) : st[q[j]] # "READY"

\* Fault: take the last READY process and do not rotate.
PickNext_Last(q, st) ==
  LET ready == {i \in DOMAIN q : st[q[i]] = "READY"}
  IN  [next |-> IF ready = {} THEN NULL ELSE q[CHOOSE i \in ready : \A j \in ready : j <= i],
       queue |-> q]

\* pick_next: rotate until a READY process has gone to the tail; a full turn
\* that meets none restores the order and returns NULL.
PickNext(q, st) ==
  IF \E i \in DOMAIN q : st[q[i]] = "READY"
  THEN LET k == CHOOSE i \in DOMAIN q : IsFirstReady(q, st, i)
       IN  [next |-> q[k], queue |-> Rotate(q, k)]
  ELSE [next |-> NULL, queue |-> q]

\* Faults: pid 0 counts as a parent that will wait(); only a READY parent does.
IsPidAlive_AnyPid(n) == \E p \in proc_table : pid[p] = n /\ state[p] # "ZOMBIE"
IsPidAlive_ReadyOnly(n) == n # 0 /\ \E p \in proc_table : pid[p] = n /\ state[p] = "READY"

\* is_pid_alive: pid 0 never counts as a parent that will wait().
IsPidAlive(n) ==
  /\ n # 0
  /\ \E p \in proc_table : pid[p] = n /\ state[p] # "ZOMBIE"

\* Fault: the new quantum is one tick short.
DoSwitch_ShortQuantum(next, st, tr) ==
  /\ current' = next
  /\ state' = [st EXCEPT ![current] = IF @ = "RUNNING" THEN "READY" ELSE @, ![next] = "RUNNING"]
  /\ ticks_remaining' = [tr EXCEPT ![next] = priority[next] - 1]

\* do_switch: next is not the current process.
DoSwitch(next, st, tr) ==
  /\ current' = next
  /\ state' = [st EXCEPT ![current] = IF @ = "RUNNING" THEN "READY" ELSE @,
                         ![next] = "RUNNING"]
  /\ ticks_remaining' = [tr EXCEPT ![next] = priority[next]]

\* Contents of PCBs that went back to the heap.
Freed(f, S, v) == [p \in Pcbs |-> IF p \in S THEN v ELSE f[p]]

----------------------------------------------------------------------------
(* Boot: process_init, then scheduler_init. *)

Init ==
  /\ current = idle_pcb
  /\ queue = <<idle_pcb>>
  /\ zombies = {}
  /\ proc_table = {idle_pcb}
  /\ state = [p \in Pcbs |-> IF p = idle_pcb THEN "RUNNING" ELSE "FREE"]
  /\ pid = [p \in Pcbs |-> 0]
  /\ parent_pid = [p \in Pcbs |-> 0]
  /\ priority = [p \in Pcbs |-> 0]
  /\ ticks_remaining = [p \in Pcbs |-> IF p = idle_pcb THEN 1 ELSE 0]
  /\ sleep_ticks = [p \in Pcbs |-> 0]
  /\ user_entry = [p \in Pcbs |-> FALSE]
  /\ ring = [p \in Pcbs |-> 0]
  /\ next_pid = 1
  /\ shell_pc = "prompt"
  /\ shell_pcb = NULL
  /\ machine = "up"

----------------------------------------------------------------------------
(* The timer interrupt. *)

\* Fault: free every process of the table without a waiting parent, zombie or not.
Orphans_Living == {p \in proc_table \ {idle_pcb} : ~IsPidAlive(parent_pid[p])}

\* scheduler_reap_zombies: the zombies whose parent will not wait for them.
\* Freeing one does not change the answer for another: a zombie parent is
\* already not alive.
Orphans == {z \in zombies : ~IsPidAlive(parent_pid[z])}

\* Fault: the last tick of a sleep is not counted.
Asleep_Late(p) == p \in Elems(queue) /\ state[p] = "BLOCKED" /\ sleep_ticks[p] > 1

\* The sleepers of the queue whose countdown ends with this tick.
Asleep(p) == p \in Elems(queue) /\ state[p] = "BLOCKED" /\ sleep_ticks[p] > 0
Woken == {p \in Pcbs : Asleep(p) /\ sleep_ticks[p] = 1}

\* process_free of every orphan, then the wake loop.
ReapAndWake ==
  /\ zombies' = zombies \ Orphans
  /\ proc_table' = proc_table \ Orphans
  /\ pid' = Freed(pid, Orphans, 0)
  /\ parent_pid' = Freed(parent_pid, Orphans, 0)
  /\ priority' = Freed(priority, Orphans, 0)
  /\ user_entry' = Freed(user_entry, Orphans, FALSE)
  /\ ring' = Freed(ring, Orphans, 0)
  /\ sleep_ticks' = [p \in Pcbs |-> IF p \in Orphans THEN 0
                                    ELSE IF Asleep(p) THEN sleep_ticks[p] - 1
                                    ELSE sleep_ticks[p]]

\* The states and the quanta once the reaper and the wake loop are through and
\* the current process has been charged for the tick.
TickStates == [p \in Pcbs |-> IF p \in Orphans THEN "FREE"
                              ELSE IF p \in Woken THEN "READY" ELSE state[p]]
TickTicks == [Freed(ticks_remaining, Orphans, 0) EXCEPT ![current] = IF @ > 0 THEN @ - 1 ELSE 0]

\* scheduler_tick
Tick ==
  LET st == TickStates
      tr == TickTicks
      pick == PickNext(queue, st)
  IN  /\ machine = "up"
      /\ ReapAndWake
      /\ IF tr[current] = 0 /\ Len(queue) > 0
         THEN /\ queue' = pick.queue
              /\ IF pick.next # NULL /\ pick.next # current
                 THEN DoSwitch(pick.next, st, tr)
                 ELSE /\ ticks_remaining' = [tr EXCEPT ![current] = priority[current]]
                      /\ state' = st
                      /\ UNCHANGED current
         ELSE /\ state' = st
              /\ ticks_remaining' = tr
              /\ UNCHANGED <<queue, current>>
      /\ UNCHANGED <<shell, machine>>

----------------------------------------------------------------------------
(* Processes: the trampoline and the syscalls that reach the scheduler. *)

\* user_mode_trampoline: with user_entry still 0 the jump to ring 3 lands on
\* a supervisor page, and the page fault ends in kpanic.
EnterUsermode ==
  /\ machine = "up"
  /\ current # idle_pcb
  /\ ring[current] = 0
  /\ IF user_entry[current]
     THEN ring' = [ring EXCEPT ![current] = 3] /\ UNCHANGED machine
     ELSE machine' = "panic" /\ UNCHANGED ring
  /\ UNCHANGED <<current, lists, state, ticks_remaining, pid, parent_pid,
                 priority, sleep_ticks, user_entry, shell>>

\* The current process is executing code that can issue int 0x80.
InSyscallContext ==
  /\ machine = "up"
  /\ IF current = idle_pcb THEN shell_pc = "prompt" ELSE ring[current] = 3

\* scheduler_yield, called with the queue q and the states st.
Yield(q, st) ==
  LET pick == PickNext(q, st)
  IN  /\ queue' = pick.queue
      /\ IF pick.next # NULL /\ pick.next # current
         THEN DoSwitch(pick.next, st, ticks_remaining)
         ELSE state' = st /\ UNCHANGED <<current, ticks_remaining>>

\* sys_yield
SysYield ==
  /\ InSyscallContext
  /\ Yield(queue, state)
  /\ UNCHANGED <<zombies, proc_table, pcb, shell, machine>>

\* sys_exit: process_exit, scheduler_mark_zombie, scheduler_yield.  Were the
\* yield to return, the CPU would stop at "cli; hlt".
SysExit ==
  LET st == [state EXCEPT ![current] = "ZOMBIE"]
      q  == Dequeue(queue, current)
  IN  /\ InSyscallContext
      /\ current # idle_pcb
      /\ zombies' = zombies \cup {current}
      /\ Yield(q, st)
      /\ machine' = IF current' = current THEN "halted" ELSE machine
      /\ UNCHANGED <<proc_table, pcb, shell>>

----------------------------------------------------------------------------
(* The shell: process_create_from_elf, step by step. *)

ShellAt(pc) == machine = "up" /\ current = idle_pcb /\ shell_pc = pc

\* next_pid++
TakePid == next_pid' = next_pid + 1

\* process_create runs out of frames after it has taken a pid.
CreateOutOfFrames ==
  /\ ShellAt("prompt")
  /\ next_pid < MaxPid
  /\ TakePid
  /\ UNCHANGED <<current, lists, state, ticks_remaining, pcb, shell_pc,
                 shell_pcb, machine>>

\* process_create up to and including scheduler_enqueue: until then the new
\* PCB is known to the shell alone.
CreateAndEnqueue(p, prio) ==
  /\ ShellAt("prompt")
  /\ next_pid < MaxPid
  /\ state[p] = "FREE"
  /\ state' = [state EXCEPT ![p] = "READY"]
  /\ pid' = [pid EXCEPT ![p] = next_pid]
  /\ parent_pid' = [parent_pid EXCEPT ![p] = pid[current]]
  /\ priority' = [priority EXCEPT ![p] = IF prio = 0 THEN 1 ELSE prio]
  /\ ticks_remaining' = [ticks_remaining EXCEPT ![p] = IF prio = 0 THEN 1 ELSE prio]
  /\ queue' = Enqueue(queue, p)
  /\ TakePid
  /\ shell_pc' = "enqueued"
  /\ shell_pcb' = p
  /\ UNCHANGED <<current, zombies, proc_table, sleep_ticks, user_entry, ring,
                 machine>>

\* proc_table_add finds a slot.
TableAdd ==
  /\ ShellAt("enqueued")
  /\ Cardinality(proc_table) < MAX_PROCESSES
  /\ proc_table' = proc_table \cup {shell_pcb}
  /\ shell_pc' = "loading"
  /\ UNCHANGED <<current, queue, zombies, state, ticks_remaining, pcb,
                 next_pid, shell_pcb, machine>>

\* proc_table_add fails: scheduler_dequeue ...
TableFull ==
  /\ ShellAt("enqueued")
  /\ Cardinality(proc_table) >= MAX_PROCESSES
  /\ queue' = Dequeue(queue, shell_pcb)
  /\ shell_pc' = "teardown"
  /\ UNCHANGED <<current, zombies, proc_table, state, ticks_remaining, pcb,
                 next_pid, shell_pcb, machine>>

\* ... and the frames, the page directory and the PCB go back.
TearDown ==
  /\ ShellAt("teardown")
  /\ state' = [state EXCEPT ![shell_pcb] = "FREE"]
  /\ pid' = [pid EXCEPT ![shell_pcb] = 0]
  /\ parent_pid' = [parent_pid EXCEPT ![shell_pcb] = 0]
  /\ priority' = [priority EXCEPT ![shell_pcb] = 0]
  /\ ticks_remaining' = [ticks_remaining EXCEPT ![shell_pcb] = 0]
  /\ shell_pc' = "prompt"
  /\ shell_pcb' = NULL
  /\ UNCHANGED <<current, lists, sleep_ticks, user_entry, ring, next_pid,
                 machine>>

\* elf32_load or a stack frame fails: the state is stored first ...
LoadFails ==
  /\ ShellAt("loading")
  /\ state' = [state EXCEPT ![shell_pcb] = "ZOMBIE"]
  /\ shell_pc' = "failed"
  /\ UNCHANGED <<current, lists, ticks_remaining, pcb, next_pid, shell_pcb,
                 machine>>

\* ... then scheduler_mark_zombie dequeues in one cli section ...
MarkZombieUnlink ==
  /\ ShellAt("failed")
  /\ queue' = Dequeue(queue, shell_pcb)
  /\ shell_pc' = "unlinked"
  /\ UNCHANGED <<current, zombies, proc_table, state, ticks_remaining, pcb,
                 next_pid, shell_pcb, machine>>

\* ... and pushes onto the zombie list in another.
MarkZombiePush ==
  /\ ShellAt("unlinked")
  /\ zombies' = zombies \cup {shell_pcb}
  /\ shell_pc' = "prompt"
  /\ shell_pcb' = NULL
  /\ UNCHANGED <<current, queue, proc_table, state, ticks_remaining, pcb,
                 next_pid, machine>>

\* The image and the user stack are mapped; user_entry and user_stack_top are
\* stored last.
LoadSucceeds ==
  /\ ShellAt("loading")
  /\ user_entry' = [user_entry EXCEPT ![shell_pcb] = TRUE]
  /\ shell_pc' = "report"
  /\ UNCHANGED <<current, lists, state, ticks_remaining, pid, parent_pid,
                 priority, sleep_ticks, ring, next_pid, shell_pcb, machine>>

\* cmd_run and cmd_elftest print p->pid and p->user_entry.
ReportSpawn ==
  /\ ShellAt("report")
  /\ shell_pc' = "prompt"
  /\ shell_pcb' = NULL
  /\ UNCHANGED <<current, lists, state, ticks_remaining, pcb, next_pid,
                 machine>>

----------------------------------------------------------------------------

ProcessStep == EnterUsermode \/ SysYield \/ SysExit

SpawnStep ==
  \/ TableAdd \/ TableFull \/ TearDown
  \/ LoadSucceeds \/ LoadFails \/ MarkZombieUnlink \/ MarkZombiePush
  \/ ReportSpawn

ShellStep ==
  \/ CreateOutOfFrames
  \/ \E p \in Pcbs, prio \in Priorities : CreateAndEnqueue(p, prio)
  \/ SpawnStep

Next == Tick \/ ProcessStep \/ ShellStep

Spec == Init /\ [][Next]_vars

\* The PIT keeps interrupting, and a shell that is scheduled again and again
\* gets instructions executed.
Fairness == WF_vars(Tick) /\ SF_vars(SpawnStep)

----------------------------------------------------------------------------
(* Properties. *)

States == {"FREE", "READY", "RUNNING", "BLOCKED", "ZOMBIE"}
ShellPcs == {"prompt", "enqueued", "teardown", "loading", "failed", "unlinked",
             "report"}

\* Every variable has the shape of the C object it stands for.
TypeOK ==
  /\ current \in Pcbs
  /\ queue \in Seq(Pcbs)
  /\ zombies \subseteq Pcbs
  /\ proc_table \subseteq Pcbs
  /\ state \in [Pcbs -> States]
  /\ pid \in [Pcbs -> Nat]
  /\ parent_pid \in [Pcbs -> Nat]
  /\ priority \in [Pcbs -> Nat]
  /\ ticks_remaining \in [Pcbs -> Nat]
  /\ sleep_ticks \in [Pcbs -> Nat]
  /\ user_entry \in [Pcbs -> BOOLEAN]
  /\ ring \in [Pcbs -> {0, 3}]
  /\ next_pid \in Nat
  /\ shell_pc \in ShellPcs
  /\ shell_pcb \in Pcbs \cup {NULL}
  /\ machine \in {"up", "panic", "halted"}

Live == {p \in Pcbs : state[p] # "FREE"}

\* The PCB the shell has unlinked from the run queue and not yet pushed onto
\* the zombie list or freed.
Unlinked == IF shell_pc \in {"teardown", "unlinked"} THEN {shell_pcb} ELSE {}

\* The PCB process_create has enqueued and not (or never) registered.
Unregistered == IF shell_pc \in {"enqueued", "teardown"} THEN {shell_pcb} ELSE {}

\* Exactly one process is RUNNING, and it is current_process, whatever the
\* order of ticks, yields, exits and spawns (do_switch updates both).
RunningIsCurrent == \A p \in Pcbs : state[p] = "RUNNING" <=> p = current

\* The intrusive `next' link serves the run queue and the zombie list: a PCB
\* is linked at most once, on one of them, and only while it is allocated;
\* an allocated PCB is on neither only inside the shell's own unlink window.
ListsPartitionLive ==
  /\ \A i, j \in DOMAIN queue : queue[i] = queue[j] => i = j
  /\ Elems(queue) \cap zombies = {}
  /\ Unlinked \cap (Elems(queue) \cup zombies) = {}
  /\ Live = Elems(queue) \cup zombies \cup Unlinked

\* proc_table registers every allocated process except the one being created,
\* never holds a freed one, and never overflows.
TableTracksLive ==
  /\ proc_table = Live \ Unregistered
  /\ Cardinality(proc_table) <= MAX_PROCESSES

\* The reaper frees only what is dead and off the CPU: every process on the
\* zombie list has exited or failed to load and is not the current one.
ZombiesAreDead ==
  /\ current \notin zombies
  /\ \A z \in zombies : state[z] = "ZOMBIE"
  /\ \A p \in Elems(queue) :
       state[p] = "ZOMBIE" => shell_pc = "failed" /\ p = shell_pcb

\* The idle process can always be picked when another one leaves the CPU.
IdleSchedulable ==
  idle_pcb \in Elems(queue) /\ state[idle_pcb] \in {"READY", "RUNNING"}

\* process_exit: the code after scheduler_yield() is never reached.
ExitNeverReturns == machine # "halted"

\* What the shell can rely on between two steps of process_create_from_elf: the
\* PCB it is building has not been run to completion or freed under it.  Until
\* user_entry is stored the new process cannot get past the trampoline.
SpawnWindow ==
  /\ shell_pc = "prompt" <=> shell_pcb = NULL
  /\ shell_pc \in {"enqueued", "loading", "failed"} => shell_pcb \in Elems(queue)
  /\ shell_pc \in {"enqueued", "loading"} => state[shell_pcb] \in {"READY", "RUNNING"}
  /\ shell_pc = "teardown" => state[shell_pcb] = "READY"
  /\ shell_pc \in {"failed", "unlinked"} => state[shell_pcb] = "ZOMBIE"
  /\ shell_pc \notin {"prompt", "report"} =>
       shell_pcb # idle_pcb /\ ~user_entry[shell_pcb]
  /\ \A p \in Pcbs : /\ ring[p] = 3 => user_entry[p]
                     /\ state[p] = "FREE" => ~user_entry[p]

\* A pid names one allocated process, so process_lookup has one answer.
PidsUnique ==
  /\ \A p \in Live : pid[p] < next_pid
  /\ \A p, q \in Live : pid[p] = pid[q] => p = q

\* No step frees the PCB (and with it the kernel stack and page directory) of
\* the process it was executed by or that runs next.
NeverFreesTheRunning ==
  [][\A p \in Pcbs : state[p] # "FREE" /\ state'[p] = "FREE"
                       => p # current /\ p # current']_vars

\* The processes in front of p.
AheadOf(q, p) == {q[j] : j \in {j \in DOMAIN q : \E i \in DOMAIN q : q[i] = p /\ j < i}}

\* Round robin: while a process waits READY in the queue, nobody gets ahead
\* of it (pick_next rotates, scheduler_enqueue links at the tail).
NoOvertaking ==
  [][\A p \in Elems(queue) :
       state[p] = "READY" /\ state'[p] = "READY"
         => AheadOf(queue', p) \subseteq AheadOf(queue, p)]_vars

\* The parent of z has not exited, so it may still wait() for z; the shell never
\* does.
ParentMayWait(z) ==
  \E p \in Live \ {idle_pcb} : state[p] # "ZOMBIE" /\ pid[p] = parent_pid[z]

\* A zombie whose parent is alive is kept, with its pid, through every tick
\* (the rule of scheduler_reap_zombies).
ZombieKeptForParent ==
  [][\A z \in zombies :
       ParentMayWait(z) => z \in zombies' /\ pid'[z] = pid[z]]_vars

\* A process that is READY or asleep does not stay so: it is woken, its turn
\* comes and it runs, or its creator gives it up.
NoStarvation ==
  \A p \in Pcbs : []<>(state[p] \notin {"READY", "BLOCKED"} \/ machine # "up")

\* A dead process does not stay on the zombie list when nobody will wait().
OrphansReaped ==
  \A z \in Pcbs : []<>(z \notin zombies \/ ParentMayWait(z) \/ machine # "up")

\* A spawn that has begun comes to an end, however often it is preempted.
SpawnEnds == shell_pc # "prompt" ~> (shell_pc = "prompt" \/ machine # "up")

\* process.h:116-118: the first scheduled run of an ELF process jumps straight to ring
\* 3 at the ELF's entry point, so no process makes the kernel panic there.
FirstRunReachesEntry == machine # "panic"

=============================================================================
