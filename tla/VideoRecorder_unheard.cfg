SPECIFICATION FairSpec
CONSTANTS
    SlotCount = 2
    MaxQueued = 1
    SessionCount = 1
    LastTick = 2
    SubmitFails = FALSE
    StopsAnytime = FALSE
PROPERTIES
    FileIsFinished
CHECK_DEADLOCK FALSE
