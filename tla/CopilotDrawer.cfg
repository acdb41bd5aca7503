SPECIFICATION Spec
CONSTANTS
  p1 = p1
  p2 = p2
  Portfolios <- MCPortfolios
  NoValue <- MCNoValue
  ProgressEvents = {"evidence"}
  MaxProgress = 1
  MaxSends = 2
  MaxClears = 2
  MaxFaults = 1
  MaxEvents = 4
INVARIANTS ConversationCurrent StreamIntact NeverLocked
PROPERTIES QuestionStaysVisible
SYMMETRY Symmetry
CHECK_DEADLOCK FALSE
