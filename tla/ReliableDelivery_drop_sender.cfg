SPECIFICATION Spec
CONSTANTS
    m1 = m1
    m2 = m2
    s1 = s1
    c1 = c1
    Messages = {m1}
    Signals = {}
    Chats = {c1}
    ChatOf <- OneChat
    MaxSends = 1
    MaxGen = 2
    MaxFaults = 0
    MaxStops = 0
    MaxAway = 0
    MaxSenders = 1
INVARIANT DoneMeansHandled
CHECK_DEADLOCK FALSE
