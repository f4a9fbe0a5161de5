\* Three ticks for the timer, so that loads fall between them.
CONSTANTS
    StageTime = 3
    maxRestarts = 3
SPECIFICATION Spec
INVARIANTS
    TypeOK
    ShownReadyOrAsked
    TimerServesStage
    RemoteIsVisible
PROPERTIES
    LoadedIsShown
\* A deleted window takes no further step.
CHECK_DEADLOCK FALSE
