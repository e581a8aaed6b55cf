SPECIFICATION Spec
CONSTANTS
  min_port = 3
  max_port = 6
  nthreads_asked = 2
  Open <- SomeOpen
  Named <- SomeNamed
  MaxSockets = 2
  MayFail = {}
INVARIANTS
  AllScanned
CHECK_DEADLOCK FALSE
