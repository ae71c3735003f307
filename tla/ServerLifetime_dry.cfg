SPECIFICATION Spec
CONSTANTS
  NumThreads = 1
  Sessions = {s1}
CHECK_DEADLOCK FALSE
INVARIANTS DestroyingTheHandlerIsSafe
