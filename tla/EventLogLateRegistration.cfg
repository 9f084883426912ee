SPECIFICATION Spec
CONSTANTS
    p1 = p1
    p2 = p2
    c1 = c1
    c2 = c2
    Producers = {p1}
    RepeatableRead = {}
    Consumers = {c1}
    NTables = 3
    Near = 1
    Gaps = {"late_registration"}
    MaxEvents = 0
    MaxTicks = 2
    MaxRotations = 2
    MaxMoves = 2
INVARIANTS
    SubscribedTickExists
CHECK_DEADLOCK FALSE
