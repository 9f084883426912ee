SPECIFICATION Spec
CONSTANTS
    p1 = p1
    p2 = p2
    c1 = c1
    c2 = c2
    Producers = {p1, p2}
    RepeatableRead = {p2}
    Consumers = {c1}
    NTables = 3
    Near = 1
    Gaps = {}
    MaxEvents = 2
    MaxTicks = 1
    MaxRotations = 2
    MaxMoves = 1
INVARIANTS
    TypeOK
    RetainedTicksComplete
    NothingMissed
    IInv
CHECK_DEADLOCK FALSE
