SPECIFICATION FairSpec
CONSTANTS
  None = None
  Values = {v1, v2}
  Kinds = {"plain", "capped", "checked"}
  Rounds = 2
  Attempts = 2
  MaxUpdates = 1
  MaxInbox = 1
  MaxDown = 1
  MaxTouches = 1
INVARIANTS
  TypeOK
PROPERTIES
  SettingWasHeld
  Reconnects
  SettingEnds
CHECK_DEADLOCK FALSE
