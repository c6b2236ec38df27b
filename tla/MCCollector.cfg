SPECIFICATION RunnerSpec
CONSTANTS
  c1 = c1
  c2 = c2
  c3 = c3
  Connections = {c1, c2, c3}
  None = None
  Streams = {"reference", "snapshot"}
  Lags = {0}
  Capacity = 3
  Overload = 3
  Calm = 1
  MaxPending = 3
SYMMETRY Symmetry
CHECK_DEADLOCK FALSE
INVARIANTS ClosedInRecovery OpenOnOneConnection ClosedWhenStopped
PROPERTIES StreamsNeverMix
