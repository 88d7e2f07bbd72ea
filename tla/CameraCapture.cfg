SPECIFICATION FairSpec
CONSTANTS
  Scheduled = {loop, poll}
  OnDemand = {widget}
  MaxAsks = 3
  MaxCommands = 2
  MaxAppToggles = 1
  MaxFailures = 2
  None = None
PROPERTIES ScheduledAtPace GateSettles
CHECK_DEADLOCK FALSE
