SPECIFICATION FairSpec
CONSTANTS
    r1 = r1
    r2 = r2
    r3 = r3
    r4 = r4
    t1 = t1
    t2 = t2
    Resource = {r1, r2, r3}
    Thread = {t1, t2}
    Names <- NamesAny
    Manual = {r2}
    Outcomes <- OutcomesAny
    Failures = {"parse", "data", "null"}
INVARIANTS
    NoLostWakeup
    ListsAgree
    LoadedAfterDependencies
PROPERTIES
    CreationKept
    LoadingEndsOrIsDoomed
CHECK_DEADLOCK FALSE
