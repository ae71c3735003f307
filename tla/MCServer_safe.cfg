SPECIFICATION OneOrderSpec
CONSTANTS
  NumThreads = 2
  Sessions = {s1, s2}
  Payloads = {"p1"}
  IdRange = 2
  Numerals <- Numbers
  Requests <- Mixed
  MaxCreates = 1
SYMMETRY SessionSymmetry
CHECK_DEADLOCK FALSE
INVARIANTS ViewsAgree StopLeavesNoCallBehind OnlyStopCutsOff
PROPERTIES NothingHappensAfterStop
