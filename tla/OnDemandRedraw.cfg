SPECIFICATION FairRedrawSpec
CONSTANTS
    N = 3
INVARIANTS
    NoLostWakeup
    NothingForgotten
PROPERTIES
    ChangeIsShown
    RenderingEnds
CHECK_DEADLOCK FALSE
