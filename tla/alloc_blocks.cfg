SPECIFICATION FairSpec
CONSTANTS
  Requests <- FewBytes
  HeaderSize = 2
  NALLOC = 3
  FirstBreak = 2
  Limit = 11
  Gaps = {0, 1}
  MaxCalls = 4
CHECK_DEADLOCK FALSE
INVARIANTS HeapSound
PROPERTIES GrowsOnlyWhenNeeded Implements CallsReturn
