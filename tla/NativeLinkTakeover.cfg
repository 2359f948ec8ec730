SPECIFICATION Spec
CONSTANTS
  None = None
  Conns = {c1, c2, c3}
  Callers = {a1}
  Status = "status"
  Commands = {"status", "write"}
  MaxClients = 3
  Models = {"c2000_gen2"}
  MaxRequests = 1
SYMMETRY Symmetry
INVARIANTS
  PollerWatches
  SingleLive
  FreshIsCurrent
CHECK_DEADLOCK FALSE
