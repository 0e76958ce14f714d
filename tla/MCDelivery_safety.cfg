SPECIFICATION MCSpec
CONSTANTS
    m1 = m1
    m2 = m2
    s1 = s1
    c1 = c1
    Messages = {m1, m2}
    Signals = {s1}
    Chats = {c1}
    ChatOf <- OneChat
    MaxSends = 2
    MaxGen = 2
    MaxFaults = 1
    MaxStops = 1
    MaxAway = 1
    MaxSenders = 1
INVARIANTS
    TypeOK
    AckedIsDurable
    NothingDropped
    OneReader
    HandledInOrder
PROPERTIES
    ReceiptWrites
    KeepsContract
CHECK_DEADLOCK FALSE
