SPECIFICATION Spec
CONSTANTS
  shell = shell
  Procs = {shell, p1, p2}
  Vals = {0, 1}
  Faults = {6, 13, 14}
  SoftInts = {14, 128, 200}
INVARIANTS ContextPreserved RunsOnItsOwn Preemptible FramesUniform StackBounded
SYMMETRY ProcSymmetry
CHECK_DEADLOCK FALSE
