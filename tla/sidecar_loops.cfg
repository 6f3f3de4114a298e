SPECIFICATION FairSpec
CONSTANTS
  i1 = i1
  Intents <- NoIntent
  MaxProcs = 3
  MaxSaves = 2
  KeySaves = {}
  MaxTries = 0
  MaxLaunches = 1
  MaxCrashes = 1
CHECK_DEADLOCK FALSE
PROPERTIES
  StartingSettles
