SPECIFICATION Spec
CONSTANTS
  None = None
  Kinds = {"grid"}
  Plans = {NoPlan, AllDayPlan, Plan1}
  Empty = NoPlan
  AllDay = AllDayPlan
  Reserves = {r1}
  Kepts = {k1}
INVARIANTS
  GridTimeoutClears
CHECK_DEADLOCK FALSE
