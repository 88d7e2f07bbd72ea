SPECIFICATION Spec
CONSTANTS
  Lookers = {tick}
  Kinds = {motion}
  Window = 2
  StartTime = 1
  MaxTime = 4
  MaxDetections = 2
  MaxFailures = 1
  MaxCovers = 0
  MaxUncovers = 0
  None = None
INVARIANTS ReadIsAdvanced
CHECK_DEADLOCK FALSE
