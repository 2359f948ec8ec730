SPECIFICATION Spec
CONSTANTS
  Watts = {1, 2}
  IdleWatts = 1
  ChargingWatts = 2
  Reserves = {10, 15, 85}
  MinimumReserve = 15
  Floors = {10, 15}
  Caps = {80, 100}
  Batteries = {12, 17}
  Lacks = {"mains"}
  Signals = {"price"}
  MaxChanges = 2
INVARIANTS
  TypeOK
  Settles
  PreviewAgrees
PROPERTIES
  LatchHolds
CHECK_DEADLOCK FALSE
