SPECIFICATION SmallSpec
CONSTANTS
  Id = {1, 2, 12}
  Amount = {5}
  MaxTime = 2
  MaxEntries = 3
  MaxLines = 2
INVARIANTS AllListed FoundWithoutGaps AltersAnEntry
PROPERTY ImplementsPool
CHECK_DEADLOCK FALSE
