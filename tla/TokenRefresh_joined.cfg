SPECIFICATION FairSpec
CONSTANTS
  watcher = watcher  rest = rest
  Callers = {watcher, rest}
  Acts = 2
  MaxRotations = 1
  ReadLimit = 2
  MaxMishaps = 0
  NoPair = NoPair
  NoCaller = NoCaller
PROPERTY OnlyRefusedLogOut
CHECK_DEADLOCK FALSE
