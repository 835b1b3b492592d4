SPECIFICATION Spec
CONSTANTS
  RefreshPeriod = 6
  CheckTimeout = 1
  ProbePeriod = 6
  ProbeDelay = 2
  FailureThreshold = 3
  LivenessPath = "/healthz"
INVARIANTS
  TypeOK
  OutageNoticed
  RecoveryNoticed
