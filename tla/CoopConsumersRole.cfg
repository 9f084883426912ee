SPECIFICATION Spec
CONSTANTS
    s1 = s1
    s2 = s2
    Members = {s1, s2}
    Main = Main
    NoOne = NoOne
    MaxTicks = 1
    MaxFaults = 0
    MaxLeaves = 1
INVARIANTS
    RoleFollowsMembers
CHECK_DEADLOCK FALSE
