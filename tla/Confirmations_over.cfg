SPECIFICATION Spec
CONSTANTS
  Requests = {"c1", "c3"}
  Asks = {}
  Sessions = {"g1", "g2", "d"}
  SessionOf <- InTheGroup
  Strangers = {"d"}
  Codes = {"K", "L"}
  Confirms = {}
  MaxReplies = 2
INVARIANT OverCodeResolvesNothing
CHECK_DEADLOCK FALSE
