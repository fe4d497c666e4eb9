SPECIFICATION PSpec
CONSTANTS
  Calls <- MCCalls
  Hosts <- MCHosts
  MaxFaults = 2
  Facts <- MCProduction
  RequiredTools <- MCTools
  NeededIds = 5
  MaxId = 17
  Owners <- MCOwners
INVARIANT ProvesEveryWorker
CHECK_DEADLOCK FALSE
