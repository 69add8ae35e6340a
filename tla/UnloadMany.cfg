SPECIFICATION FairSpec
CONSTANTS
    t1 = t1
    t2 = t2
    m1 = m1
    m2 = m2
    m3 = m3
    c1 = c1
    c2 = c2
    NoModel = NoModel
    NoTask = NoTask
    Shut = Shut
    Requests = {t1, t2}
    Models = {m1, m2}
    Caches = {c1}
    CacheOf <- OneService
    MaxLoaded <- RoomForOne
    GlobalMax = 2
    Provisioners = {c1}
    Groups <- OneDeployment
    Rest = "done"
    Ops = {"load", "unload_many"}
CHECK_DEADLOCK FALSE
PROPERTIES
    FenceLifted
