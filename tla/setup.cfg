SPECIFICATION FairSpec
CONSTANTS
  MaxSetups = 3
  None = None
  Torn = Torn
INVARIANTS
  
  OnlyItsOwnToken
PROPERTIES
  FailureChangesNothing
  WaitEnds
