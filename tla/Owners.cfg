SPECIFICATION Spec
CONSTANTS
    r1 = r1
    r2 = r2
    m1 = m1
    m2 = m2
    Requests = {r1, r2}
    Models = {m1, m2}
    Slots = 1
    Permits = 1
    QueueCap = 1
    MaxDeltas = 2
    MaxLoads = 2
    Mixes <- Mixtures
    Placements <- OneOrTwoEngines
    Faults = {"invalid", "deadline", "break", "error", "cancel"}
INVARIANTS WorkOwned  BrokenRetired
PROPERTY OwnersEnd
