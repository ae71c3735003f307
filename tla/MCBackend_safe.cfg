SPECIFICATION Spec
CONSTANTS
  Sessions = {s1, s2}
  NumThreads = 2
  Payloads = {"p1", "p2"}
  IdRange = 3
  Numerals <- Numbers
  Requests <- AllRequests
  MaxCreates = 2
SYMMETRY SessionSymmetry
INVARIANTS IInv StatusTellsTheEffect
PROPERTIES DeletesNameTheirPath OnlyMissingTasksGoUnanswered
