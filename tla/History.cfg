SPECIFICATION Spec
CONSTANTS
  None = None
  LastTime = 2
  Contexts = {x1, x2}
  MaxGap = 1
  Freshness = 2
  Skew = 0
  Retention = 1
  MaintainEvery = 1
  MaxSamples = 3
  MaxRestarts = 1
  MaxRowsBack = 1
SYMMETRY Symmetry
INVARIANTS
  TypeOK
  NoBridging
  CoverageBounded
  ChartIsTrue
  ClaimsAreStored
  LifetimeCoverage
  CapIsApplied
CHECK_DEADLOCK FALSE
