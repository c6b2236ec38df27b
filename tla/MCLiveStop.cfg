SPECIFICATION FairSpec
CONSTANTS
  m1 = m1
  m2 = m2
  user = user
  checker = checker
  Worker = Worker
  Nobody = Nobody
  Markets <- OneMarket
  Users <- None
  Checkers <- None
  Closing <- None
  Size = 1
  Retries = 0
  MaxOrders = 4
  MaxFaults = 1
  MaxChanges = 1
  MaxCrashes = 0
PROPERTIES
  FinishedOrdersResolve
  StopReachesExchange
  
CHECK_DEADLOCK FALSE
