SPECIFICATION Spec
CONSTANTS
  m1 = m1
  m2 = m2
  user = user
  checker = checker
  Worker = Worker
  Nobody = Nobody
  Markets <- OneMarket
  Users <- OneUser
  Checkers <- None
  Closing <- None
  Size = 1
  Retries = 0
  MaxOrders = 1
  MaxFaults = 0
  MaxChanges = 1
  MaxCrashes = 0
PROPERTIES
  TicketPausesAutomation
CHECK_DEADLOCK FALSE
