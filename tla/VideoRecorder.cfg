SPECIFICATION FairSpec
CONSTANTS
    SlotCount = 2
    MaxQueued = 1
    SessionCount = 2
    LastTick = 4
    SubmitFails = TRUE
    StopsAnytime = FALSE
INVARIANTS
    GrabBufferBounded
    FileIsComplete
    DriftIsBounded
PROPERTIES
    RecordingEnds
\* The service is terminated in the end, and a stuck stop stays so.
CHECK_DEADLOCK FALSE
