SPECIFICATION Spec
CONSTANTS
  s1 = s1
  s2 = s2
  MAX_ATTEMPTS = 3
  RECURSION_LIMIT = 16
  StepIds <- MCSteps
  FallbackStep = s1
  ToolName <- MCToolName
  Tools <- MCTools
INVARIANTS
  ShippedFiguresBacked
  NoAnswerFromFailedRetrieval
  RetryDiscipline
  UsageLedger
  WithinRecursionLimit
PROPERTIES
  Termination
  ImplementsAgentRun
CHECK_DEADLOCK FALSE
