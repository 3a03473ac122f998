SPECIFICATION Spec
CONSTANTS
  UMAX = 255
  NIBBLES = 2
  Lines <- MCLines
  ARGV_MAX = 3
  MEMTEST_MAX_FRAMES = 5
  IDENTITY_MAPPED_BYTES = 240
  DUMP_MAX = 40
  HZ = 100
  Clocks = {127, 254}
  MaxGap = 2
INVARIANTS ParseSplits  ReadBack DumpExact
PROPERTIES SleepsLongEnough SleepEnds
