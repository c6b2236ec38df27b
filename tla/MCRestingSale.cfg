SPECIFICATION FairSpec
CONSTANTS
  Automation = Automation
  connection = connection
  Connections <- OneConnection
  Size = 2
  MaxOrders = 2
  MaxTrouble = 2
INVARIANTS
  OffersCovered
  RemainderIsTrue
  NoOfferAfterShutdown
CHECK_DEADLOCK FALSE
PROPERTY OfferGivesWay
