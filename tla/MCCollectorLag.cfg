SPECIFICATION RunnerFairSpec
CONSTANTS
  c1 = c1
  c2 = c2
  c3 = c3
  Connections = {c1, c2}
  None = None
  Streams = {"snapshot"}
  Lags = {0, 2}
  Capacity = 2
  Overload = 2
  Calm = 0
  MaxPending = 2
CHECK_DEADLOCK FALSE
PROPERTIES Reopens
