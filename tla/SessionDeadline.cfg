SPECIFICATION Spec
CONSTANTS
  Timeout = 3
  NumThreads = 1
  MaxTime = 10
CHECK_DEADLOCK FALSE
INVARIANTS IInv
PROPERTIES CutOnlyByItsOwnDeadline RequestsEndInTime
