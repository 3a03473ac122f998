SPECIFICATION Spec
CONSTANTS
  VGA_ROWS = 2
  VGA_COLS = 3
  INPUT_MAX = 3
  Keys = {"a"}
  MaxOverrun = 2
INVARIANTS EchoShowsLine
