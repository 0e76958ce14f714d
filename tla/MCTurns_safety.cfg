SPECIFICATION MCSpec
CONSTANTS
  r1 = r1  p1 = p1  c1 = c1  t1 = t1  t2 = t2
  Rows = {r1}
  People = {p1}
  Caps = {c1}
  Turns = {t1, t2}
  AskAvailable = FALSE
  DailyLimit = 1
  MaxStops = 1
  MaxFaults = 1
  Nobody = Nobody
  NoTurn = NoTurn
  Lost = Lost
SYMMETRY Alike
INVARIANTS
  TypeOK
  CardsRight
  GroupsSafe
  JournalSafe
  HistorySafe
  AuthoritySafe
  ConfirmationsSafe
  RepliesSafe
PROPERTY TurnSteps
CHECK_DEADLOCK FALSE
