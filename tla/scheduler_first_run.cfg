SPECIFICATION Spec
CONSTANTS
  idle_pcb = idle_pcb
  Pcbs = {idle_pcb, p1, p2}
  NULL = NULL
  MAX_PROCESSES = 3
  Priorities = {1}
  MaxPid = 4
INVARIANT FirstRunReachesEntry
CHECK_DEADLOCK FALSE
