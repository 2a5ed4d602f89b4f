CONSTANTS
  None = None
  Keys = {first, second}
  Processes = {daemon}
  Daemons = {daemon}
  MaxGenerations = 1
  MaxBackups = 0
  MaxFaults = 1
SPECIFICATION Spec
INVARIANTS ShardsMatchDeltas
SYMMETRY Symmetry
CHECK_DEADLOCK FALSE
