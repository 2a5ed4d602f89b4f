CONSTANTS
  Decisions = {i, r}
  Agents = {r}
  Exclusive = {}
  Idempotent = {i}
  Reconcilable = {r}
  Twins = {}
  MaxAttempts = 2
  AgentBudget = 2
  Concurrency = 2
  PendingTtl = 2
  BlockedTtl = 2
  MaxExecutions = 2
  MaxRuns = 2
  MaxCrashes = 1
  MaxLockFailures = 1
  MaxRequeues = 0
SPECIFICATION Spec
INVARIANTS TypeOK NoReplayOfAttempt CompletedOnEvidence NothingStranded
PROPERTIES ImplementsLedger
CHECK_DEADLOCK FALSE
