SPECIFICATION FairSpec
CONSTANTS
    lit = lit
    plain = plain
    main = main
    loader = loader
    Scene = {lit, plain}
    Plain = {plain}
    Gobo = {lit}
    Caller = {main, loader}
    Switcher = {main}
    NoScene = NoScene
    NoCaller = NoCaller
INVARIANTS
    NothingDestroyedInUse
    EnabledIsActive
PROPERTIES
    CallsReturn
