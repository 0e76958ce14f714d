SPECIFICATION MCSpec
CONSTANTS
  p1 = p1  p2 = p2  c1 = c1  c2 = c2  c3 = c3  w1 = w1  w2 = w2
  h1 = h1  u1 = u1  u2 = u2
  Procs = {p1, p2}
  Conns = {c1, c2, c3}
  Workers = {w1, w2}
  Adoptions <- Changes
  ProcOf <- Places
  HomeOf <- OneHome
  Homes = {h1}
  Users = {u1, u2}
  FirstUser <- LastUnpaired
  Unlockable <- ProfileUnlockable
  NoUser = NoUser
  Nobody = Nobody
INVARIANTS
  TypeOK
  ReferencesAccounted
  Exclusion
  QueueSafe
  SupervisorSafe
  TakeoverSafe
PROPERTY ConnectionSteps
CHECK_DEADLOCK FALSE
