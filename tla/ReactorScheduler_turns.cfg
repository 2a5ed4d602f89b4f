CONSTANTS
  a1 = a1
  a2 = a2
  a3 = a3
  g = g
  None = None
  d = d
  o = o
  Activations = {a1, a2}
  Realtime = {a2}
  Llm = {a1}
  Rank <- InOrder
  Group <- Siblings
  Daemons = {d}
  Once = {o}
  MaxBatches = 1
  MaxTries = 2
  MaxTroubles = 1
  MaxChanges = 1
  MaxOnce = 1
  MaxFaults = 1
SPECIFICATION FairSpec
INVARIANTS CausalOrder OneActiveTask ReplayBounded
PROPERTIES WorkSettles
CHECK_DEADLOCK FALSE
