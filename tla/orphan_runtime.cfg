SPECIFICATION Spec
CONSTANTS
  i1 = i1
  Intents <- OneIntent
  MaxProcs = 2
  MaxSaves = 1
  KeySaves = {}
  MaxTries = 0
  MaxLaunches = 1
  MaxCrashes = 0
INVARIANTS QuitLeavesNoRuntime
CHECK_DEADLOCK FALSE
