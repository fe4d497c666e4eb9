SPECIFICATION PSpec
CONSTANTS
  Calls <- MCCalls
  Hosts <- MCHosts
  MaxFaults = 2
  Facts <- MCFacts
  RequiredTools <- MCTools
  NeededIds = 5
  MaxId = 17
  Owners <- MCOwners
INVARIANT MappedBeforeEntry PassProves SoundWorkerPasses LeavesNothingUnsaid
PROPERTY EverythingEnds
CHECK_DEADLOCK FALSE
