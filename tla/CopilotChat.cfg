SPECIFICATION Spec
CONSTANTS
  r1 = r1
  r2 = r2
  Requests <- MCRequests
  CONTEXT_MESSAGES = 2
  MaxModelCalls = 2
  MaxClears = 1
INVARIANTS
  ContextSound
  TurnIsAtomic
PROPERTIES
  ImplementsChatLog
  RequestsEnd
CHECK_DEADLOCK FALSE
