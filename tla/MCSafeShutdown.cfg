SPECIFICATION FairSpec
CONSTANTS
  o1 = o1
  o2 = o2
  None = None
  Owners <- TwoOwners
  Dashboards <- OneDashboard
  Capacity = 1
  MaxRows = 1
  MaxConfirms = 1
  MaxFaults = 1
INVARIANTS
  NothingSkipped
  AckIsTrue
  OneWriter
  DashboardIsRight
PROPERTIES
  RequestEnds
CHECK_DEADLOCK FALSE
