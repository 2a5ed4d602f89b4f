CONSTANTS
  MaxTaskTries = 2
  MaxVerifyTries = 2
  MaxExecutions = 2
  MaxRuns = 2
  MaxFailures = 2
  MaxLockFailures = 1
  MaxCrashes = 1
  MaxPauses = 1
SPECIFICATION FairSpec
INVARIANTS TypeOK OneReportPerExecution AttemptsBounded
PROPERTIES EveryResultSettles
CHECK_DEADLOCK FALSE
