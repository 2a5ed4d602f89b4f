CONSTANTS
  msg = msg
  act = act
  w1 = w1
  w2 = w2
  Candidates = {act}
  Control = {act}
  Writers = {w1, w2}
  MaxAttempts = 2
  MaxRetries = 2
  MaxEvents = 2
  MaxFaults = 1
SPECIFICATION FairSpec
INVARIANTS DurableBeforeHandled OneMessage DuplicatesNeedFaults
PROPERTIES Answered
