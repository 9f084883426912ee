SPECIFICATION Spec
CONSTANTS
    p1 = p1
    p2 = p2
    c1 = c1
    c2 = c2
    Producers = {p1}
    RepeatableRead = {}
    Consumers = {c1}
    NTables = 3
    Near = 1
    Gaps = {"unwatched_rotation"}
    MaxEvents = 1
    MaxTicks = 1
    MaxRotations = 2
    MaxMoves = 1
INVARIANTS
    NothingMissed
CHECK_DEADLOCK FALSE
