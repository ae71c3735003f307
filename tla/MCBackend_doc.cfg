SPECIFICATION Spec
CONSTANTS
  Sessions = {s1}
  NumThreads = 1
  Payloads = {"p1", "p2"}
  IdRange = 3
  Numerals <- Numbers
  Requests <- Served
  MaxCreates = 2
PROPERTIES EveryRequestIsAnswered
