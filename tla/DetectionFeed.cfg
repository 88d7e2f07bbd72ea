SPECIFICATION Spec
CONSTANTS
  Lookers = {tick, other}
  Kinds = {doorbell, motion}
  Window = 1
  StartTime = 1
  MaxTime = 4
  MaxDetections = 2
  MaxFailures = 1
  MaxCovers = 1
  MaxUncovers = 1
  None = None
SYMMETRY Interchangeable
INVARIANTS AtMostOnce ReportsSinceStart
CHECK_DEADLOCK FALSE
