SPECIFICATION LoadingSpec
CONSTANTS
    t1 = t1
    t2 = t2
    m1 = m1
    m2 = m2
    m3 = m3
    c1 = c1
    c2 = c2
    NoModel = NoModel
    NoTask = NoTask
    Shut = Shut
    Requests = {t1, t2}
    Models = {m1, m2, m3}
    Caches = {c1, c2}
    CacheOf <- TwoServices
    MaxLoaded <- RoomForOne
    GlobalMax = 1
    Provisioners = {c1}
    Groups <- NoGroups
    Rest = "done"
    Ops = {"load", "ensure", "unload"}
CHECK_DEADLOCK FALSE
INVARIANTS
    GlobalCapacity
    Inv
PROPERTIES
    ResidencySpec
    RequestsFinish
    ShutdownFinishes
