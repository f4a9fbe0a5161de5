\* Is the number of a call enough to find its callback?
SPECIFICATION Spec
CONSTANTS
    Bridges = {1, 2}
    MaxPages = 2
    MaxCalls = 2
    MaxQueue = 2
INVARIANTS
    ContextualCallback
\* The daemon may die.
CHECK_DEADLOCK FALSE
