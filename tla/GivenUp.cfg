CONSTANTS
    StageTime = 1
    maxRestarts = 3
SPECIFICATION Spec
PROPERTY
    GivenUpIsClosed
CHECK_DEADLOCK FALSE
