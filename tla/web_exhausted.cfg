SPECIFICATION Spec
CONSTANTS
  c1 = c1
  c2 = c2
  c3 = c3
  Conns = {c1, c2, c3}
  Kind <- Mixed
  Leavers = {c3}
  NFds = 3
  NSlots = 3
  MaxThreads = 2
CHECK_DEADLOCK FALSE
INVARIANTS NobodyOverlooked ThreadsOwnTheirFd EndsWell
