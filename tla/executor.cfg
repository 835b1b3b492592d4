SPECIFICATION FairSpec
CONSTANTS
  ChunkSize = 2
  ChannelCapacity = 2
  DefaultLimit = 3
  StreamingThreshold = 3
  NoLimit = NoLimit
  MaxLimit = 6
  MaxRows = 7
INVARIANTS
  RowsInFlightBounded
  OneTerminal
  CompleteMeansEveryRow
PROPERTIES
  StreamContract
  Finishes
  OrphanStops
CHECK_DEADLOCK FALSE
