SPECIFICATION PoolFirstSpec
CONSTANTS
  Brokers = {1, 2, 3, 4}
  Journals = {1, 2, 3}
  FileJournals = {1}
  Twins = {}
  IdOf <- OwnId
  Process <- OneProcess
  Threads = {1}
  Amount = {5}
  MaxTime = 2
  MaxPorts = 3
  MaxEntries = 2
  MaxLeaves = 1
INVARIANTS WellRouted TypeOK Converged RoutesExact VersionsTrack NoReentry
PROPERTIES ImplementsCausalPool
CHECK_DEADLOCK FALSE
