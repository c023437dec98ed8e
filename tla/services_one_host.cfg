SPECIFICATION HostSpec
CONSTANTS
  Brokers = {1, 2, 12, 21}
  Journals = {1, 2, 12, 21}
  FileJournals = {1, 2, 12, 21}
  Twins = {12, 21}
  IdOf <- OwnId
  Process <- Services
  Threads = {1}
  Askers = {1}
  Users = {1}
  Amount = {5}
  MaxTime = 2
  MaxPorts = 2
  MaxFaults = 0
  MaxEntries = 2
  MaxLeaves = 0
INVARIANTS SameDirectories
CHECK_DEADLOCK FALSE
