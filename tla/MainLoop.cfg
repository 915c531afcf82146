SPECIFICATION FairSpec
INVARIANTS
    NoRequestSleptOn
PROPERTIES
    CycleIsRun
    PauseIsEntered
    StopEnds
CHECK_DEADLOCK FALSE
