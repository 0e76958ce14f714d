SPECIFICATION MCSpec
CONSTANTS
  watcher = watcher  rest = rest
  Callers = {watcher, rest}
  Acts = 2
  MaxRotations = 1
  ReadLimit = 2
  MaxMishaps = 2
  NoPair = NoPair
  NoCaller = NoCaller
SYMMETRY Alike
INVARIANTS
  TypeOK
  MemoryIsStored
  ActivationSafe
  SlotsAgree
  SkillsSafe
  SampleSafe
  GreetingSafe
  WidgetsSafe
  NotesSafe
PROPERTIES
  OnlyOwnPairReplaced
  LogoutIsEarned
  RefusedNotResent
  ProfileSteps
CHECK_DEADLOCK FALSE
