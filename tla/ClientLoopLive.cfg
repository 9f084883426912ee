SPECIFICATION FairSpec
CONSTANTS
    w1 = w1
    w2 = w2
    m1 = m1
    m2 = m2
    m3 = m3
    Workers = {w1, w2}
    NoWorker = NoWorker
    Msgs = {m1, m2}
    Unhandled = {m2}
    UnknownPolicy = "ack"
    MaxMessages = 1
    MaxTicks = 1
    MaxFaults = 1
PROPERTIES
    EverySentSettles
    StopEndsIt
CHECK_DEADLOCK FALSE
