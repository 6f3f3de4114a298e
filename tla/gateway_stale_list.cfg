SPECIFICATION Spec
CONSTANTS
  d1 = d1
  d2 = d2
  p1 = p1
  p2 = p2
  w1 = w1
  None = None
  Devices = {d1}
  Callers = {p1, p2}
  Watchers = {w1}
  MaxLinks = 3
  MaxCalls = 1
  MaxLists = 1
SYMMETRY Symmetry
CHECK_DEADLOCK FALSE
PROPERTIES
  ContinuousSession
