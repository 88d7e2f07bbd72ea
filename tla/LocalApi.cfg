SPECIFICATION FairSpec
CONSTANTS
  MaxCalls = 3
  MaxDrops = 2
  MaxLost = 2
  MaxRefusals = 2
  MaxOutages = 2
  None = None
INVARIANTS SessionsAccounted
PROPERTIES SurvivesDrop Quiet QueueDrains
CHECK_DEADLOCK FALSE
