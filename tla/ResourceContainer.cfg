SPECIFICATION FairSpec
CONSTANTS
    m1 = m1
    t1 = t1
    t2 = t2
    i1 = i1
    materials = materials
    textures = textures
    images = images
    c1 = c1
    w1 = w1
    Name = {m1, t1, t2, i1}
    Container = {materials, textures, images}
    Home <- MCHome
    Source <- MCSource
    Needs <- MCNeeds
    Broken = {t1}
    Order <- MCOrder
    Client = {c1}
    Worker = {w1}
    NetNotifies = TRUE
INVARIANTS
    OneLoader
    PointedIsStored
    SweepComplete
    NoDeadlock
PROPERTIES
    CallsReturn
    StoreKept
