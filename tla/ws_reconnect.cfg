SPECIFICATION Spec
CONSTANTS
  Requests = {r1}
  Capacity = 1
  SilenceLimit = 1
  BackoffCap = 6
  MaxSessions = 2
  MaxResponses = 1
  MaxPongs = 1
INVARIANTS
  SessionIsolation
  ReadyIffServed
  BackoffSchedule
