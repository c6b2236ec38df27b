SPECIFICATION Spec
CONSTANTS
  Producers = {p1, p2}
  MaxBytes = 3
  QueueSize = 2
  MaxSeq = 6
  MaxPauses = 2
SYMMETRY Symmetry
CHECK_DEADLOCK FALSE
INVARIANTS
  Accounted
  NoFalseGap
  CompleteIsComplete
