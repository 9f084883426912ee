SPECIFICATION Spec
CONSTANTS
    Near = 2
    MaxId = 7
INVARIANTS
    QueryIsTheDiff
    LoopIsClosedForm
CHECK_DEADLOCK FALSE
