SPECIFICATION FairSpec
CONSTANTS
  None = None
  Devices = {d1, d2}
  Commands = {c1, c2}
  Unfit = {c2}
  QueueSize = 1
  UpdatesSize = 1
  MaxLinks = 2
  MaxChanges = 4
INVARIANTS
  TypeOK
  QueueIsCurrent
  TopicIsRight
PROPERTIES
  CommandsAnswered
CHECK_DEADLOCK FALSE
