CONSTANTS
  notify = notify
  presence = presence
  daemon = daemon
  other = other
  first = first
  second = second
  Keys = {notify}
  Workers = {first, second}
  Processes = {daemon, other}
  Serves <- OverlapServe
  Process <- OverlapProcess
  Priority <- TypePriority
  MaxTries = 2
  MaxTasks = 3
  MaxArrivals = 3
  MaxThrows = 2
  MaxOverruns = 1
  MaxCrashes = 1
  MaxStops = 1
SPECIFICATION Spec
INVARIANTS LeaseExcludes OneActivePerKey RunsBounded
CHECK_DEADLOCK FALSE
