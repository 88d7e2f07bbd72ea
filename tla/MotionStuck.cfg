SPECIFICATION Spec
CONSTANTS
  MaxNotices = 3
  MaxRestarts = 0
  NoState = NoState
INVARIANT NetKept
CHECK_DEADLOCK FALSE
