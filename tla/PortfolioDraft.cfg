SPECIFICATION Spec
CONSTANTS
  fund = fund
  ghost = ghost
  stock = stock
  Cores <- MCCores
  Satellites <- MCSatellites
  Known <- MCKnown
  UNIT = 200
  Weights <- MCWeights
  MaxSends = 3
INVARIANTS
  PartialOnlyIfCut
  BuildsWhatIsShown
  RejectedOnlyForAField
  DuplicateNeedsRetry
PROPERTIES
  BuildNeedsNoModel
CHECK_DEADLOCK FALSE
