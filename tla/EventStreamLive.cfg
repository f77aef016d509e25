SPECIFICATION FairSpec
CONSTANTS
    c1 = c1
    c2 = c2
    a = a
    b = b
    NoConn = NoConn
    Conn = {c1, c2}
    Consumer = {a}
    Converter = {a}
    Cap = 0
    PageSize = 1
    MaxAttempts = 2
    MaxSeq = 2
    Slot <- TwoSlots
PROPERTIES
    BroadcastEnds
    EventuallyPassed
