SPECIFICATION Spec
CONSTANTS
  c1 = c1
  c2 = c2
  Clients = {c1, c2}
  Versions = {1, 2}
  Documents = {"shipped", "written"}
  Official <- OfficialFiles
  MaxCalls = 4
  MaxFaults = 1
  MaxCrashes = 1
SYMMETRY Symmetry
CHECK_DEADLOCK FALSE
INVARIANTS
  RegistrationsAudited
