SPECIFICATION Spec
CONSTANTS
    c1 = c1
    c2 = c2
    Consumers = {c1}
    Elsewhere = {}
    MaxRetries = 2
    MoveLimit = 1
    CopiesInOneBatch = TRUE
    MaxEvents = 1
    MaxCalls = 4
INVARIANTS
    NackedIsNotLost
CHECK_DEADLOCK FALSE
