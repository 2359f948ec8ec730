SPECIFICATION FairSpec
CONSTANTS
  None = None
  Conns = {c1, c2}
  Callers = {a1}
  Status = "status"
  Commands = {"status", "write"}
  MaxClients = 2
  Models = {"c1000", "c1000_gen2"}
  MaxRequests = 2
INVARIANTS
  TypeOK
  NoStaleReply
  NoOrphanRequest
PROPERTIES
  ImplementsRequestReply
  WaitsEnd
CHECK_DEADLOCK FALSE
