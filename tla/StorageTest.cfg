SPECIFICATION TestSpec
CONSTANTS
  Callers = {t, r}
  Tester = t
  Payloads = {"payload", "new"}
  IdRange = 4
  MaxCreates = 3
INVARIANTS TestIInv SortedById TestHoldsBesideReaders
PROPERTIES Linearizable
