SPECIFICATION Spec
CONSTANTS
  None = None
  Kinds = {"store", "activate", "grid", "reserve"}
  Plans = {NoPlan, AllDayPlan, Plan1}
  Empty = NoPlan
  AllDay = AllDayPlan
  Reserves = {r1, r2}
  Kepts = {k1, k2}
SYMMETRY Symmetry
INVARIANTS
  TypeOK
  SuccessIsTrue
  FailureIsUndone
  GridIsProven
PROPERTIES
  ActivationChangesModeOnly
CHECK_DEADLOCK FALSE
