SPECIFICATION OneOrderSpec
CONSTANTS
  NumThreads = 1
  Sessions = {s1, s2}
  Payloads = {"p1"}
  IdRange = 2
  Numerals <- Numbers
  Requests <- Listing
  MaxCreates = 1
CHECK_DEADLOCK FALSE
INVARIANTS ProgramInv MainEndsWithTheServer
PROPERTIES MainReturns RequestsSettle StopReturns PeersAreDropped
