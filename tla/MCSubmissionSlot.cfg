SPECIFICATION FairSpec
CONSTANTS
  s1 = s1
  s2 = s2
  b1 = b1
  b2 = b2
  o1 = o1
  Nobody = Nobody
  Stops <- MCStops
  Buys <- MCBuys
  Others <- MCOthers
PROPERTIES
  EveryRequestServed
  ImplementsPriorityLock
