SPECIFICATION StalledSpec
CONSTANTS
    r1 = r1
    r2 = r2
    m1 = m1
    m2 = m2
    Requests = {r1}
    Models = {m1}
    Slots = 1
    Permits = 1
    QueueCap = 1
    MaxDeltas = 1
    MaxLoads = 1
    Mixes <- OneChoice
    Placements <- OnePlacement
    Faults = {"deadline"}
CHECK_DEADLOCK FALSE
PROPERTY DeadlineReleases
