SPECIFICATION EditSpec
CONSTANTS
  Id = {1, 2, 3}
  Amount = {5}
  MaxTime = 3
  MaxEntries = 5
INVARIANTS OrderIndependent
CHECK_DEADLOCK FALSE
