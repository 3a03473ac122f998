SPECIFICATION Spec
CONSTANTS
  Procs = {p1, p2}
  Frames = {3, 4, 5, 6, 7, 8, 9, 10}
  ENTRIES = 8
  IDENTITY_PT_COUNT = 2
  Images <- MCImages
INVARIANTS OwnershipDisjoint KernelMapped PrivatePagesKept 
SYMMETRY ProcSymmetry
CHECK_DEADLOCK FALSE
