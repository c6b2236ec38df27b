SPECIFICATION Spec
CONSTANTS
  m1 = m1
  m2 = m2
  user = user
  checker = checker
  Worker = Worker
  Nobody = Nobody
  Markets <- OneMarket
  Users <- OneUser
  Checkers <- None
  Closing <- None
  Size = 1
  Retries = 0
  MaxOrders = 2
  MaxFaults = 1
  MaxChanges = 2
  MaxCrashes = 1
INVARIANTS
  SentAtMostOnce
CHECK_DEADLOCK FALSE
