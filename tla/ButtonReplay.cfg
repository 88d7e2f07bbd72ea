SPECIFICATION Spec
CONSTANTS
  MaxPresses = 3
  Page = 3
  MaxUnread = 1
  MaxRefused = 1
  MaxLostAnswers = 1
  MaxStarts = 1
  None = None
INVARIANTS NoReplay
CHECK_DEADLOCK FALSE
