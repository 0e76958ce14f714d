SPECIFICATION Spec
CONSTANTS
  c1 = c1
  Frames <- ThreeCalls
  Acked <- Two
  Patient <- Three
  Malformed <- None
  Chats = {c1}
  ChatOf <- OneChat
  QueueMax = 2
  MaxSockets = 2
  GivesUp = FALSE
  NoFrame = NoFrame
INVARIANT PoppedWaiterIsWoken
CHECK_DEADLOCK FALSE
