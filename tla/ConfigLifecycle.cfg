SPECIFICATION FairSpec
CONSTANTS
  Handlers = {h1, h2, h3}
  Incomplete = {0, 2}
  MaxEdits = 3
  MaxEntries = 1
  MaxEvents = 2
  MaxReadFailures = 1
  MaxCloudFailures = 1
  None = None
INVARIANTS SmartCurrent
PROPERTIES CoalescedPublication WatchersCatchUp
CHECK_DEADLOCK FALSE
