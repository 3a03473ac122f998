SPECIFICATION Spec
CONSTANTS
  PageBases <- MCPageBases
  PAGE_SIZE = 96
  BLOCK_HEADER_SIZE = 16
  MIN_SPLIT_SIZE = 8
  Requests = {5, 24, 100}
  MaxAllocs = 3
  
PROPERTIES KfreeCoalescesAll
CHECK_DEADLOCK FALSE
