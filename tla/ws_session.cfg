SPECIFICATION FairSpec
CONSTANTS
  Requests = {r1, r2}
  Capacity = 2
  SilenceLimit = 2
  BackoffCap = 1
  MaxSessions = 1
  MaxResponses = 2
  MaxPongs = 0
INVARIANTS
  TypeOK
  PrefixDelivered
  DoneMeansQueued
PROPERTIES
  DeadPeerDetected
  StalledPeerDetected
  TornDown
  RequestsAnswered
