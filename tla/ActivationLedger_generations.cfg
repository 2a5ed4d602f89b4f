CONSTANTS
  None = None
  Keys = {first}
  Processes = {daemon}
  Daemons = {daemon}
  MaxGenerations = 2
  MaxBackups = 2
  MaxFaults = 1
SPECIFICATION Spec
INVARIANTS DeltasExplainLedger RoutedIsRecorded SwitchIsResumable SwitchesAlone
PROPERTIES HandledIsKept ClaimsSurviveRebuild
CHECK_DEADLOCK FALSE
