SPECIFICATION Spec
CONSTANTS
  MaxMsgs = 3
  News = {}
  RunBlocks = 1
  MaxPlans = 2
  MaxFaults = 2
INVARIANT RenewsOnce
CHECK_DEADLOCK FALSE
