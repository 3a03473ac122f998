------------------------- MODULE SchedulerClients --------------------------
(***************************************************************************)
(* The scheduler under the callers its code is written for and the kernel  *)
(* does not have yet: processes that sleep (scheduler_tick's wake loop) and *)
(* processes that start others (the orphan rule of the reaper).  Both are  *)
(* syscalls, so each runs with interrupts off and is one action.           *)
(***************************************************************************)
EXTENDS Scheduler

CONSTANT MaxSleep  \* the longest sleep a process asks for

ASSUME SleepAssumption == MaxSleep \in Nat

\* Block for n ticks: the process stays in the queue, where scheduler_tick
\* looks for sleepers.
SysSleep(n) ==
  /\ InSyscallContext
  /\ current # idle_pcb
  /\ sleep_ticks' = [sleep_ticks EXCEPT ![current] = n]
  /\ Yield(queue, [state EXCEPT ![current] = "BLOCKED"])
  /\ UNCHANGED <<zombies, proc_table, pid, parent_pid, priority, user_entry,
                 ring, shell, machine>>

\* process_create_from_elf called by another process than the shell.
SysSpawn(p, prio) ==
  /\ InSyscallContext
  /\ current # idle_pcb
  /\ next_pid < MaxPid
  /\ next_pid' = next_pid + 1
  /\ state[p] = "FREE"
  /\ IF Cardinality(proc_table) < MAX_PROCESSES
     THEN /\ state' = [state EXCEPT ![p] = "READY"]
          /\ pid' = [pid EXCEPT ![p] = next_pid]
          /\ parent_pid' = [parent_pid EXCEPT ![p] = pid[current]]
          /\ priority' = [priority EXCEPT ![p] = IF prio = 0 THEN 1 ELSE prio]
          /\ ticks_remaining' = [ticks_remaining EXCEPT ![p] = IF prio = 0 THEN 1 ELSE prio]
          /\ user_entry' = [user_entry EXCEPT ![p] = TRUE]
          /\ queue' = Enqueue(queue, p)
          /\ proc_table' = proc_table \cup {p}
     ELSE UNCHANGED <<state, pid, parent_pid, priority, ticks_remaining,
                      user_entry, queue, proc_table>>
  /\ UNCHANGED <<current, zombies, sleep_ticks, ring, shell_pc, shell_pcb,
                 machine>>

ClientNext ==
  \/ Next
  \/ \E n \in 1..MaxSleep : SysSleep(n)
  \/ \E p \in Pcbs, prio \in Priorities : SysSpawn(p, prio)

ClientSpec == Init /\ [][ClientNext]_vars /\ Fairness
=============================================================================
