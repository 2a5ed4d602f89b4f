CONSTANTS
  Decisions = {a}
  Agents = {a}
  Exclusive = {}
  Idempotent = {}
  Reconcilable = {}
  Twins = {}
  MaxAttempts = 2
  AgentBudget = 2
  Concurrency = 2
  PendingTtl = 2
  BlockedTtl = 2
  MaxExecutions = 2
  MaxRuns = 5
  MaxCrashes = 2
  MaxLockFailures = 1
  MaxRequeues = 1
SPECIFICATION Spec
INVARIANTS OneOpenIntent AgedOncePerTurn RetryBudget
PROPERTIES UncertainIsFinal
CHECK_DEADLOCK FALSE
