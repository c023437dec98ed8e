SPECIFICATION Spec
CONSTANTS
  Owner = 1
  Peers = {2}
  Threads = {1, 2}
  Amount = {5, 6}
  MaxTime = 2
INVARIANT OneEntryPerTransaction
CHECK_DEADLOCK FALSE
