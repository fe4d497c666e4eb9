SPECIFICATION StoreSpec
CONSTANTS
  Values <- MCValues
  Absent = Absent
  Torn = Torn
  MaxCommands = 4
INVARIANT EncodingsAgree SuccessIsConsistent
PROPERTY KeepsALock
CHECK_DEADLOCK FALSE
