SPECIFICATION FairSpec
CONSTANTS
  MaxCalls = 5
  MaxRequests = 3
  MaxClock = 2
INVARIANTS
  TypeOK
  RefusedOnlyWhenDeleted
  FreshWhenInOrder
PROPERTIES
  LoadingEnds
CHECK_DEADLOCK FALSE
