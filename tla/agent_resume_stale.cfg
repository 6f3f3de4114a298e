SPECIFICATION Spec
CONSTANTS
  goal = goal
  settings = settings
  blank = blank
  Pages = {goal, settings, blank}
  Blank = blank
  Settings = settings
  GoalPages = {goal}
  Tools = {"input.tap_element", "app.launch"}
  MaxRounds = 2
  Budgets = {2, 3}
  ObserveAttempts = 2
  MaxScrolls = 1
  MaxPauses = 1
  MaxFaults = 1
CHECK_DEADLOCK FALSE
INVARIANT
  ResumedOnLatestObservation
