SPECIFICATION Spec
CONSTANTS
    o1 = o1
    N = 3
    Object = {o1}
    Failing = {"surface", "recreate", "reset", "record", "submit"}
    AcquireErrors = {"OutOfDate", "Timeout"}
    PresentErrors = {"SurfaceLost"}
INVARIANTS
    NothingDestroyedInUse
