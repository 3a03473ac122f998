SPECIFICATION Spec
CONSTANTS
  MAX_FRAMES = 8
  WORD_BITS = 4
  Available = {0, 1, 3, 4, 5, 6, 7}
  KernelEnd = 1
  MbFrame = 3
INVARIANTS OwnedAreUsed BooksExact
