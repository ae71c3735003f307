SPECIFICATION FairSpec
CONSTANTS
  Callers = {c1, c2}
  Payloads = {p1, p2}
  IdRange = 2
  MaxCreates = 4
INVARIANTS StorageInv RepliesAnswerTheCall
PROPERTIES OnlyTheNamedTaskIsDeleted CallsReturn
