SPECIFICATION Spec
CONSTANTS
  Containers <- MCContainers
  Lower <- MCLower
  Tables = {t1, t2}
  RowLimit = 2
  NoContainer = NoContainer
INVARIANTS
  MissingMeansError
  EmptyMeansNone
  OneFailureIsLocal
CHECK_DEADLOCK FALSE
