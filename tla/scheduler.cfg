SPECIFICATION MCSpec
CONSTANTS
  idle_pcb = idle_pcb
  Pcbs = {idle_pcb, p1, p2, p3}
  NULL = NULL
  MAX_PROCESSES = 3
  Priorities = {0, 2}
  MaxPid = 5
INVARIANTS ListsPartitionLive SpawnWindow ListsMatch ListingBounded
PROPERTIES NeverFreesTheRunning NoOvertaking FullQuantum
SYMMETRY PcbSymmetry
CHECK_DEADLOCK FALSE
