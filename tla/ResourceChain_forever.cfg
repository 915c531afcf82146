SPECIFICATION FairSpec
CONSTANTS
    r1 = r1
    r2 = r2
    r3 = r3
    r4 = r4
    t1 = t1
    t2 = t2
    Resource = {r1, r2, r3}
    Thread = {t1, t2}
    Names <- NamesDag
    Manual = {r2}
    Outcomes <- OutcomesGood
    Failures = {"data"}
PROPERTIES
    LoadingEnds
CHECK_DEADLOCK FALSE
