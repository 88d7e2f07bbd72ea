SPECIFICATION FairSpec
CONSTANTS
  Followed =
    {"pull point", "sensor", "scenes", "link", "switch", "button", "plug"}
  Subs = {s1, s2, s3, s4}
  Slots = 2
  QuietLimit = 2
  MaxLosses = 1
  MaxReboots = 1
  MaxNotices = 4
  MaxWatcherRestarts = 1
  Cooldown = 2
  MaxTime = 2
  MaxSceneStarts = 1
  Announced = {"KLAP", "TPAP", "AES", None}
  Modes = {"KLAP", "TPAP", "AES", "closed"}
  Changes <- ToTpap
  MaxChanges = 2
  MaxRestarts = 2
  MaxLoginRefusals = 2
  MaxUnplugs = 1
  Values = {0, 1}
  MaxToggles = 1
  MaxCommands = 1
  MaxOutages = 1
  MaxRefusals = 1
  MaxLost = 1
  MaxBadgeRefusals = 1
  MaxPresses = 4
  Page = 3
  MaxUnread = 1
  MaxRefused = 1
  MaxLostAnswers = 1
  MaxStarts = 1
  MaxEnergy = 3
  MaxDays = 2
  MaxUnanswered = 1
  MaxIndexRefused = 1
  MaxIndexLost = 1
  MaxIndexRestarts = 1
  None = None
INVARIANTS NoLeak SafetyNet NeverDeaf AtPace TransportAgrees PressesTold
PROPERTIES WatchesAgain MotionComesDown FindsProtocol RoundShows Settles IndexTrue
CHECK_DEADLOCK FALSE
