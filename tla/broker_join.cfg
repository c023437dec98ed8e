SPECIFICATION JoinSpec
CONSTANTS
  Brokers = {1, 2, 3}
  Journals = {1, 2, 3}
  FileJournals = {1}
  Twins = {}
  IdOf <- OwnId
  Process <- OneProcess
  Threads = {1}
  Amount = {5}
  MaxTime = 2
  MaxPorts = 2
  MaxEntries = 2
  MaxLeaves = 1
INVARIANTS Converged
CHECK_DEADLOCK FALSE
