SPECIFICATION FairSpec
CONSTANTS
  MaxRuns = 2
  MaxAccidents = 1
  MaxControls = 1
INVARIANTS
  TypeOK
  LeavesNothing
  UndoneBeforeExit
PROPERTIES
  StopEnds
CHECK_DEADLOCK FALSE
