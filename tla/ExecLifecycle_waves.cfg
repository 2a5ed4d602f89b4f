CONSTANTS
  Decisions = {a, b, c}
  Agents = {a, b, c}
  Exclusive = {c}
  Idempotent = {}
  Reconcilable = {}
  Twins = {a, b}
  MaxAttempts = 2
  AgentBudget = 3
  Concurrency = 2
  PendingTtl = 2
  BlockedTtl = 2
  MaxExecutions = 1
  MaxRuns = 2
  MaxCrashes = 0
  MaxLockFailures = 1
  MaxRequeues = 0
SPECIFICATION FairSpec
INVARIANTS ExclusiveRunsAlone NoHotTwins
PROPERTIES RunEnds
CHECK_DEADLOCK FALSE
