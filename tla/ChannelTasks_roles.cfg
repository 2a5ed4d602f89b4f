CONSTANTS
  notify = notify
  presence = presence
  daemon = daemon
  other = other
  first = first
  second = second
  Keys = {notify, presence}
  Workers = {first, second}
  Processes = {daemon}
  Serves <- RolesServe
  Process <- RolesProcess
  Priority <- TypePriority
  MaxTries = 2
  MaxTasks = 3
  MaxArrivals = 2
  MaxThrows = 1
  MaxOverruns = 1
  MaxCrashes = 1
  MaxStops = 1
SPECIFICATION FairSpec
PROPERTIES WorkIsDone EveryTaskEnds
CHECK_DEADLOCK FALSE
