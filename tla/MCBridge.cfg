SPECIFICATION FairSpec
CONSTANTS
  Items = 5
  Calls = {2, 4}
  MaxWorkers = 2
INVARIANTS
  TypeOK
  WorkIsAttended
  ItemsAreTraced
PROPERTIES
  ScheduledBegins
  StopReturns
