SPECIFICATION ClientSpec
CONSTANTS
  idle_pcb = idle_pcb
  Pcbs = {idle_pcb, p1, p2, p3}
  NULL = NULL
  MAX_PROCESSES = 3
  Priorities = {2}
  MaxPid = 4
  MaxSleep = 2
PROPERTIES ZombieKeptForParent NoStarvation OrphansReaped SpawnEnds
CHECK_DEADLOCK FALSE
