SPECIFICATION PSpec
CONSTANTS
  t1 = t1
  t2 = t2
  c1 = c1
  c2 = c2
  k1 = k1
  None = None
  Tasks = {t1, t2}
  Clients = {c1, c2}
  Keys = {k1}
  MaxCalls = 3
  MaxSteps = 2
  MaxFaults = 0
  MaxCrashes = 1
SYMMETRY Symmetry
CHECK_DEADLOCK FALSE
INVARIANTS
  ReportAgrees
  KnownFailureIsKnown
  OneTaskPerKey
  ParkedIsPaused
  QueuedIsEnqueued
  AtMostOneLateStep
PROPERTIES
  ImplementsLifecycle
