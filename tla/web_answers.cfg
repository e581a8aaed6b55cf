SPECIFICATION FairSpec
CONSTANTS
  c1 = c1
  c2 = c2
  c3 = c3
  Conns = {c1, c2}
  Kind <- OnePage
  Leavers = {c2}
  NFds = 5
  NSlots = 5
  MaxThreads = 2
PROPERTIES
  Responds
CHECK_DEADLOCK FALSE
