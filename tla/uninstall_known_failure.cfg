SPECIFICATION Spec
CONSTANTS
  k1 = k1
  k2 = k2
  c1 = c1
  c2 = c2
  Kinds = {"app.install", "app.uninstall", "app.data.clear", "app.stop", "local.data.cleanup"}
  Keys = {k1, k2}
  Clients = {c1, c2}
  NumFiles = 2
  Limits = {2}
  MaxApprovals = 1
  MaxTasks = 2
  MaxEvents = 1
SYMMETRY Symmetry
CHECK_DEADLOCK FALSE
INVARIANT UndeterminedIsUnknown
