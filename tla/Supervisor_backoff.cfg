SPECIFICATION Spec
CONSTANTS
  Legacy = {3}
  MaxPairs = 3
  MaxReads = 2
  MaxEnds = 3
  ReadLimit = 2
  MaxDelay = 4
  MaxRetries = 2
  FloorUnit = 3
  FloorMax = 6
  FromEnv = 1
PROPERTY FailuresBackOff
CHECK_DEADLOCK FALSE
