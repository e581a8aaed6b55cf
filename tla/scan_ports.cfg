SPECIFICATION FairSpec
CONSTANTS
  min_port = 1
  max_port = 7
  nthreads_asked = 3
  Open <- SomeOpen
  Named <- SomeNamed
  MaxSockets = 2
  MayFail = {1}
CHECK_DEADLOCK FALSE
INVARIANTS VisitedOnce ReportIsComplete
PROPERTIES Finishes
