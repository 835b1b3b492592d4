SPECIFICATION FairSpec
CONSTANTS
  PollTimeout = 1
  JwtLifetime = 1
  TokenBuffer = 1
  MaxLife = 3
  DefaultLimit = 2
  PageSize = 2
  MaxRows = 3
  MaxPages = 2
  NoLimit = NoLimit
  Forever = Forever
  Unknown = Unknown
INVARIANTS
  SuccessMeansSucceeded
PROPERTIES
  StreamContract
  FreshWhenChecked
  CallReturns
