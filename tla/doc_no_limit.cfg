SPECIFICATION Spec
CONSTANTS
  ChunkSize = 2
  ChannelCapacity = 2
  DefaultLimit = 3
  StreamingThreshold = 3
  NoLimit = NoLimit
  MaxLimit = 6
  MaxRows = 7
INVARIANT NoLimitMeansAllRows
CHECK_DEADLOCK FALSE
