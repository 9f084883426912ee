SPECIFICATION FairSpec
CONSTANTS
    c1 = c1
    c2 = c2
    Consumers = {c1, c2}
    Elsewhere = {c1}
    MaxRetries = 1
    MoveLimit = 2
    CopiesInOneBatch = FALSE
    MaxEvents = 2
    MaxCalls = 4
PROPERTIES
    NackSettles
INVARIANTS
    TypeOK
    NackedIsNotLost
    RetriedForItsNacker
    DeadAfterMaxRetries
CHECK_DEADLOCK FALSE
