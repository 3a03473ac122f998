SPECIFICATION Spec
CONSTANTS
  PAGE_SIZE = 4
  WORD = 32
  Images <- MCImages
  Data <- MCData
INVARIANTS SegmentsLoaded
PROPERTIES LoadingEnds
CHECK_DEADLOCK FALSE
