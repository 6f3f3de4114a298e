SPECIFICATION Spec
CONSTANTS
  i1 = i1
  Intents <- OneIntent
  MaxProcs = 3
  MaxSaves = 2
  KeySaves = {1,2}
  MaxTries = 2
  MaxLaunches = 2
  MaxCrashes = 1
CHECK_DEADLOCK FALSE
CONSTRAINT SavesOrTheRest
INVARIANTS
  InterruptedOnlyDead
  OneTaskPerIntent
  SavedIsApplied
  ReadyHasServed
