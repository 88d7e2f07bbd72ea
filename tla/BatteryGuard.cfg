SPECIFICATION FairSpec
CONSTANTS
  Levels = {35, 43, 55, 70, 85}
  Settings <- MCSettings
  Hysteresis = 5
  PollInterval = 2
  LowPoll = 3
  Tracked = FALSE
  MaxSilences = 3
  MaxConfigs = 2
  NoLevel = NoLevel
INVARIANTS LevelStaysFresh DrainNeverIgnored
PROPERTIES EarnedRelease BackInService
