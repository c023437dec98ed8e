SPECIFICATION SmallSpec
CONSTANTS
  Id = {1, 2, 3}
  Amount = {5}
  MaxTime = 2
  MaxEntries = 3
  MaxLines = 2
INVARIANT EveryEntryFound
CHECK_DEADLOCK FALSE
