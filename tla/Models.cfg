INIT MCInit
NEXT MCNext
CONSTANTS
    Publishers = {t1, t2}
    Deployments = {d1, d2}
    LockFile = LockFile
    NoFile = NoFile
    NoOne = NoOne
    MaxVersion = 3
    MaxCrashes = 1
    Events = {"download error", "io error", "crash", "put off"}
    m1 = m1
    m2 = m2
    c1 = c1
    NoModel = NoModel
    NoTask = NoTask
    Shut = Shut
    Requests = {r1, r2}
    Models = {m1, m2}
    Caches = {c1}
    CacheOf <- OneService
    MaxLoaded <- RoomForOne
    GlobalMax = 2
    Provisioners = {c1}
    Groups <- OneDeployment
    Rest = "idle"
    Ops = {"load", "ensure", "unload", "unload_many"}
SYMMETRY Symmetric
INVARIANTS
    
    LeasedResident
    DrainOwned
    ShutdownQuiescent
PROPERTIES
    
    DrainFence
