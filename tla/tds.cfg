SPECIFICATION FairSpec
CONSTANTS
  Calls = {c1, c2}
  Requests <- MCRequests
  DefaultLimit = 2
  StreamLimit = 3
  ChunkSize = 2
  U32 = 8
  NoLimit = NoLimit
  None = None
INVARIANTS
  OwnRows
  PageIsExact
PROPERTIES
  StreamContract
  LockIsGranted
CHECK_DEADLOCK FALSE
