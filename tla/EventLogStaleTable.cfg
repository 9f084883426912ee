SPECIFICATION Spec
CONSTANTS
    p1 = p1
    p2 = p2
    c1 = c1
    c2 = c2
    Producers = {p1}
    RepeatableRead = {p1}
    Consumers = {c1}
    NTables = 3
    Near = 1
    Gaps = {"stale_table"}
    MaxEvents = 1
    MaxTicks = 1
    MaxRotations = 1
    MaxMoves = 1
INVARIANTS
    NothingMissed
CHECK_DEADLOCK FALSE
