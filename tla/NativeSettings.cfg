SPECIFICATION Spec
CONSTANTS
  None = None
  Kinds = {"plain", "twice", "floor", "power", "cap", "original"}
  Levels = {1, 2}
  Reserves = {1, 2}
  Kepts = {k1, k2}
  MaxNotes = 2
  MaxTouches = 1
SYMMETRY Symmetry
INVARIANTS
  TypeOK
  SuccessWasHeld
PROPERTIES
  ReserveIsSafe
CHECK_DEADLOCK FALSE
