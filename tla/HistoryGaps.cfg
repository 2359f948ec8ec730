SPECIFICATION Spec
CONSTANTS
  None = None
  LastTime = 2
  Contexts = {x1, x2}
  MaxGap = 1
  Freshness = 2
  Skew = 0
  Retention = 1
  MaintainEvery = 1
  MaxSamples = 3
  MaxRestarts = 2
  MaxRowsBack = 0
SYMMETRY Symmetry
INVARIANTS
  LifetimeGaps
CHECK_DEADLOCK FALSE
