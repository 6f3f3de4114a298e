SPECIFICATION FairSpec
CONSTANTS
  Documents <- AllDocuments
  Deadline = 3
  Budgets = {1, 3}
  MaxTime = 4
  MaxFaults = 2
CHECK_DEADLOCK FALSE
INVARIANT SucceededIsVerified
