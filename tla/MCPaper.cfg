SPECIFICATION Spec
CONSTANTS
  Markets = {m1}
  NoMarket = NoMarket
  Size = 2
  Retries = 1
  Cycles = 2
  Depth = 1
  Daily = 2
  MaxOpen = 1
  Careful = TRUE
  Configs <- MCConfigs
INVARIANTS
  
  
  OneTradePerCycle
  
  DepthSoldOnce
  NoOrderOutlivesItsFeed
PROPERTIES
  StopStands
