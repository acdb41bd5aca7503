SPECIFICATION Spec
CONSTANTS
  NoValue <- MCNoValue
  MaxCreates = 2
  MaxFaults = 2
INVARIANTS ListCurrent RemovedStaysRemoved
PROPERTIES DuplicateNeedsCause
CHECK_DEADLOCK FALSE
