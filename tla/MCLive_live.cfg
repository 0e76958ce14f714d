SPECIFICATION MCFairSpec
CONSTANTS
  c1 = c1
  NoPair = NoPair
  Frames = {1, 2}
  Acked = {1}
  Patient = {1, 2}
  Malformed = {}
  Chats = {c1}
  ChatOf <- OneChat
  QueueMax = 1
  MaxSockets = 2
  GivesUp = FALSE
  NoFrame = 0
PROPERTIES
  TransportLive ProfileLive TurnsLive
CHECK_DEADLOCK FALSE
