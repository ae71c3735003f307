SPECIFICATION FairSpec
CONSTANTS
  NumThreads = 3
  Sessions = {s1, s2}
CHECK_DEADLOCK FALSE
INVARIANTS IInv StopJoins TerminatesOnlyAfterRunningDry
PROPERTIES WaitOutlastsTheSessions StopReturns StartReturnsIfListening
