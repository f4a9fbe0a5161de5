\* The bridges of one window over two loads of its page.
SPECIFICATION Spec
CONSTANTS
    Bridges = {1, 2}
    MaxPages = 2
    MaxCalls = 2
    MaxQueue = 2
INVARIANTS
    TypeOK
    AnswersStayApart
    SupersededIsSilent
\* The daemon may die.
CHECK_DEADLOCK FALSE
