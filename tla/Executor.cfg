SPECIFICATION ExecutorSpec
CONSTANTS
  Ids <- MCIds
  MaxSteps = 3
INVARIANTS
  EveryStepAnswered
  StuckExactly
  OrderIndependent
PROPERTIES
  EvidenceIsFinal
  ExecutionEnds
CHECK_DEADLOCK FALSE
