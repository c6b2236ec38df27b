SPECIFICATION Spec
CONSTANTS
  m1 = m1
  m2 = m2
  user = user
  checker = checker
  Worker = Worker
  Nobody = Nobody
  Markets <- OneMarket
  Users <- None
  Checkers <- OneChecker
  Closing <- OneMarket
  Size = 2
  Retries = 1
  MaxOrders = 3
  MaxFaults = 1
  MaxChanges = 0
  MaxCrashes = 1
INVARIANTS
  ResolvedIsTrue
  BotSellsOnlyItsOwn
  OneEntryPerMarket
CHECK_DEADLOCK FALSE
