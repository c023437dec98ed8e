SPECIFICATION SmallRestartSpec
CONSTANTS
  Id = {1, 2}
  Amount = {5, 6}
  MaxTime = 2
  MaxEntries = 3
  MaxLines = 3
INVARIANT AllListed
CHECK_DEADLOCK FALSE
