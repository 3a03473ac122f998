------------------------------ MODULE RunQueue ------------------------------
(***************************************************************************)
(* The two linked lists of kernel/scheduler.c as the code keeps them: the  *)
(* `next' member of the PCBs and the static pointers.  Every step of       *)
(* Scheduler that changes its queue or its zombies makes the stores of the *)
(* C function here, so that Scheduler is what the pointers promise.        *)
(* `ps' and `vminfo' walk the ready queue with interrupts on, one load of  *)
(* p->next after the other.                                                *)
(***************************************************************************)
EXTENDS Scheduler

VARIABLES
  links,   \* queue_head, queue_tail, queue_size, zombie_head, every process_t.next,
           \* and what pick_next returned last
  walking, \* whether the shell is inside process_list or cmd_vminfo
  cursor,  \* the local variable p there
  rows     \* history: the PCBs the walk has loaded so far

walk == <<walking, cursor, rows>>
qvars == <<vars, links, walk>>

----------------------------------------------------------------------------
(* The list functions of scheduler.c. *)

\* scheduler_enqueue
LinkTail(L, p) ==
  LET cleared == [L.next EXCEPT ![p] = NULL]
  IN  IF L.head = NULL
      THEN [L EXCEPT !.head = p, !.tail = p, !.size = @ + 1, !.next = cleared]
      ELSE [L EXCEPT !.tail = p, !.size = @ + 1, !.next = [cleared EXCEPT ![L.tail] = p]]

RECURSIVE UnlinkFrom(_, _, _, _)

\* The loop of scheduler_dequeue, at cur with prev behind it.
UnlinkFrom(L, prev, cur, p) ==
  CASE cur = NULL -> L
    [] cur = p    -> [L EXCEPT !.head = IF prev = NULL THEN L.next[p] ELSE @,
                               !.tail = IF @ = p THEN prev ELSE @,
                               !.size = @ - 1,
                               !.next = [q \in Pcbs |-> CASE q = p    -> NULL
                                                          [] q = prev -> L.next[p]
                                                          [] OTHER    -> L.next[q]]]
    [] OTHER      -> UnlinkFrom(L, cur, L.next[cur], p)

\* Fault: queue_tail may still point to the process taken out.
Unlink_TailKept(L, p) == [UnlinkFrom(L, NULL, L.head, p) EXCEPT !.tail = L.tail]

\* scheduler_dequeue
Unlink(L, p) == UnlinkFrom(L, NULL, L.head, p)

\* scheduler_mark_zombie, after the dequeue.
PushZombie(L, p) == [L EXCEPT !.next[p] = L.zombie, !.zombie = p]

RECURSIVE ReapFrom(_, _, _)

\* The loop of scheduler_reap_zombies.  A freed PCB keeps its next pointer.
ReapFrom(L, prev, cur) ==
  CASE cur = NULL       -> L
    [] cur \in Orphans  -> ReapFrom(IF prev = NULL THEN [L EXCEPT !.zombie = L.next[cur]]
                                                   ELSE [L EXCEPT !.next[prev] = L.next[cur]],
                                    prev, L.next[cur])
    [] OTHER            -> ReapFrom(L, cur, L.next[cur])

\* Fault: the process keeps its next pointer when it goes to the tail.
HeadToTail_Circular(L) ==
  IF L.next[L.head] = NULL THEN L
  ELSE [L EXCEPT !.head = L.next[L.head], !.tail = L.head, !.next[L.tail] = L.head]

\* One turn of pick_next's loop: pop the head and append it again.
HeadToTail(L) ==
  LET rest == L.next[L.head]
      popped == [L EXCEPT !.head = rest, !.tail = IF rest = NULL THEN NULL ELSE @,
                          !.next[L.head] = NULL]
  IN  IF rest = NULL
      THEN [popped EXCEPT !.head = L.head, !.tail = L.head]
      ELSE [popped EXCEPT !.tail = L.head, !.next[L.tail] = L.head]

RECURSIVE PickFrom(_, _, _)

\* pick_next's loop.
PickFrom(L, st, checked) ==
  CASE L.head = NULL \/ checked >= L.size -> [L EXCEPT !.picked = NULL]
    [] st[L.head] = "READY"               -> [HeadToTail(L) EXCEPT !.picked = L.head]
    [] OTHER                              -> PickFrom(HeadToTail(L), st, checked + 1)

Pick(L, st) == PickFrom(L, st, 0)

----------------------------------------------------------------------------
(* The steps of Scheduler, with their stores. *)

\* process_init, then scheduler_init.
QueueInit ==
  /\ Init
  /\ links = LinkTail([head |-> NULL, tail |-> NULL, size |-> 0, zombie |-> NULL,
                       picked |-> NULL, next |-> [p \in Pcbs |-> NULL]], idle_pcb)
  /\ walking = FALSE /\ cursor = NULL /\ rows = <<>>

\* scheduler_tick
LinkedTick ==
  LET reaped == ReapFrom(links, NULL, links.zombie)
  IN  /\ Tick
      /\ links' = IF TickTicks[current] = 0 /\ reaped.size > 0
                  THEN Pick(reaped, TickStates) ELSE reaped
      /\ UNCHANGED walk

\* The shell yields from `synctest', never while it lists.
LinkedYield ==
  /\ current = idle_pcb => ~walking
  /\ SysYield
  /\ links' = Pick(links, state)
  /\ UNCHANGED walk

\* process_exit
LinkedExit ==
  /\ SysExit
  /\ links' = Pick(PushZombie(Unlink(links, current), current),
                   [state EXCEPT ![current] = "ZOMBIE"])
  /\ UNCHANGED walk

\* process_create_from_elf
LinkedSpawn ==
  /\ ~walking
  /\ \/ \E p \in Pcbs, prio \in Priorities :
          CreateAndEnqueue(p, prio) /\ links' = LinkTail(links, p)
     \/ (TableFull \/ MarkZombieUnlink) /\ links' = Unlink(links, shell_pcb)
     \/ MarkZombiePush /\ links' = PushZombie(links, shell_pcb)
     \/ /\ \/ CreateOutOfFrames \/ TableAdd \/ TearDown
           \/ LoadSucceeds \/ LoadFails \/ ReportSpawn
        /\ UNCHANGED links
  /\ UNCHANGED walk

\* process_list: scheduler_queue_head, after the row of the shell itself.
ProcessList ==
  /\ ShellAt("prompt") /\ ~walking
  /\ walking' = TRUE
  /\ cursor' = links.head
  /\ rows' = <<>>
  /\ UNCHANGED <<vars, links>>

\* cmd_vminfo walks the queue in the same way and prints other columns.
CmdVminfo == ProcessList

\* The row of p, unless it is the shell's, and p = p->next.
NextRow ==
  /\ ShellAt("prompt") /\ walking /\ cursor # NULL
  /\ rows' = Append(rows, cursor)
  /\ cursor' = links.next[cursor]
  /\ UNCHANGED <<vars, links, walking>>

EndWalk ==
  /\ ShellAt("prompt") /\ walking /\ cursor = NULL
  /\ walking' = FALSE
  /\ rows' = <<>>
  /\ UNCHANGED <<vars, links, cursor>>

OtherSteps ==
  \/ LinkedYield \/ LinkedExit \/ LinkedSpawn
  \/ EnterUsermode /\ UNCHANGED <<links, walk>>
  \/ ProcessList \/ CmdVminfo \/ NextRow \/ EndWalk

----------------------------------------------------------------------------
(* Properties. *)

RECURSIVE Chain(_, _)

\* The PCBs met from p on; a chain longer than there are PCBs is a loop.
Chain(p, bound) ==
  IF p = NULL \/ bound = 0 THEN <<>> ELSE <<p>> \o Chain(links.next[p], bound - 1)

\* The pointers represent Scheduler's lists: queue_head leads to the ready queue
\* and then to NULL, queue_tail is its last process, queue_size its length, and
\* zombie_head leads to the zombies; pick_next returned the process that runs.
ListsMatch ==
  LET n == Cardinality(Pcbs) + 1
      z == Chain(links.zombie, n)
  IN  /\ Chain(links.head, n) = queue
      /\ links.size = Len(queue)
      /\ links.tail = IF queue = <<>> THEN NULL ELSE queue[Len(queue)]
      /\ Elems(z) = zombies /\ Len(z) = Cardinality(zombies)
      /\ links.picked \in {NULL, current}

\* The commands that list the processes end: although the queue turns under the walk,
\* and the process it stands on may exit and be freed, it meets no process
\* more than twice.
ListingBounded ==
  \A p \in Pcbs : Cardinality({i \in DOMAIN rows : rows[i] = p}) <= 2
=============================================================================
