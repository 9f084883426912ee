SPECIFICATION Spec
CONSTANTS
    w1 = w1
    w2 = w2
    m1 = m1
    m2 = m2
    m3 = m3
    Workers = {w1, w2}
    NoWorker = NoWorker
    Msgs = {m1, m2}
    Unhandled = {m2}
    UnknownPolicy = "nack"
    MaxMessages = 2
    MaxTicks = 2
    MaxFaults = 2
SYMMETRY Symmetry
INVARIANTS
    TypeOK
    NothingLost
    RunsOncePerFault
    NoLostWakeup
PROPERTY
    ImplementsOneConsumer
CHECK_DEADLOCK FALSE
