SPECIFICATION FairSpec
CONSTANTS
  Ports = {"p1", "p2"}
  Conns = {c1}
  RawConfigs <- Configs
  None = None
INVARIANTS
  CloseLeavesNothing
  NoOrphanedSocket
PROPERTIES
  DropReclaims
  CloseReturns
CHECK_DEADLOCK FALSE
