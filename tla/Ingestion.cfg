SPECIFICATION Spec
CONSTANTS
  r1 = r1
  r2 = r2
  mixed = mixed
  bad = bad
  garbled = garbled
  Requests <- MCRequests
  Payloads <- MCPayloads
  Shape <- MCShape
  MaxCalls = 4
INVARIANTS
  ReportsTrue
  OnceWithoutOverlap
  OpenRunHasCause
PROPERTIES
  SuccessIsFinal
CHECK_DEADLOCK FALSE
