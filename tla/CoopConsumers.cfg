SPECIFICATION FairSpec
CONSTANTS
    s1 = s1
    s2 = s2
    Members = {s1, s2}
    Main = Main
    NoOne = NoOne
    MaxTicks = 2
    MaxFaults = 1
    MaxLeaves = 1
INVARIANTS
    TypeOK
    NoWindowLost
    OneOwner
    TokensAreFenced
    MainHoldsNoBatch
    AckedOnce
PROPERTIES
    WindowsSettle
    ImplementsGroup
CHECK_DEADLOCK FALSE
