SPECIFICATION FairSpec
CONSTANTS
  NumThreads = 1
  Sessions = {s1}
CHECK_DEADLOCK FALSE
PROPERTIES StartServerReturns
