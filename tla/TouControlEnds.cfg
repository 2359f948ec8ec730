SPECIFICATION FairSpec
CONSTANTS
  None = None
  Kinds = {"store", "activate", "grid", "reserve"}
  Plans = {NoPlan, AllDayPlan, Plan1}
  Empty = NoPlan
  AllDay = AllDayPlan
  Reserves = {r1}
  Kepts = {k1}
PROPERTIES
  ControlEnds
CHECK_DEADLOCK FALSE
