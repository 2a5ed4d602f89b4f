CONSTANTS
  e1 = e1
  w1 = w1
  w2 = w2
  None = None
  Evidence = {e1}
  Workers = {w1, w2}
  MaxBatches = 3
  MaxFaults = 2
SPECIFICATION Spec
PROPERTIES DecidedOnce
CHECK_DEADLOCK FALSE
