SPECIFICATION Spec
CONSTANTS
  c1 = c1
  c2 = c2
  Clients = {c1}
  Versions = {1, 2}
  Documents = {"shipped", "written"}
  Official <- OfficialFiles
  MaxCalls = 2
  MaxFaults = 0
  MaxCrashes = 1
CHECK_DEADLOCK FALSE
INVARIANTS
  DeletedStaysDeleted
