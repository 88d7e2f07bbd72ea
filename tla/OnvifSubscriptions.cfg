SPECIFICATION FairSpec
CONSTANTS
  Cameras = {c1, c2}
  Addrs = {a1, a2}
  Accounts = {account}
  MaxStarts = 2
  MaxSaves = 1
  MaxMoves = 1
  MaxFailures = 1
  None = None
INVARIANTS AccountsCurrent CoveredIsWatched
PROPERTIES SubscribedAgain
CHECK_DEADLOCK FALSE
