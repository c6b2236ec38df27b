SPECIFICATION Spec
CONSTANTS
  m1 = m1
  m2 = m2
  user = user
  checker = checker
  Worker = Worker
  Nobody = Nobody
  Markets <- TwoMarkets
  Users <- OneUser
  Checkers <- None
  Closing <- None
  Size = 1
  Retries = 0
  MaxOrders = 3
  MaxFaults = 1
  MaxChanges = 1
  MaxCrashes = 0
SYMMETRY Tickers
INVARIANTS
  SalesCovered
PROPERTIES
  NothingUncertainBehindABuy
  UsesPriorityLock
  BuysOntoFlat
  NoOvertakenOrder
  StopIsFinal
CHECK_DEADLOCK FALSE
