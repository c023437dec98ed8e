SPECIFICATION EditSpec
CONSTANTS
  Id = {1, 2, 3}
  Amount = {5}
  MaxTime = 2
  MaxEntries = 4
INVARIANTS SmallerIdWins
CHECK_DEADLOCK FALSE
