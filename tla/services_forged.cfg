SPECIFICATION ServicesJoinSpec
CONSTANTS
  Brokers = {1, 2, 12, 21}
  Journals = {1, 2, 12, 21}
  FileJournals = {1, 2, 12, 21}
  Twins = {12, 21}
  IdOf <- OwnId
  Process <- Services
  Threads = {1}
  Amount = {5, 6}
  MaxTime = 3
  MaxPorts = 2
  MaxEntries = 3
  MaxLeaves = 1
INVARIANTS UniqueTransactions
CHECK_DEADLOCK FALSE
