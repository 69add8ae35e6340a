SPECIFICATION Spec
CONSTANTS
    Streams = {s1, s2, s3}
    Followers = {f1, f2}
    NoStream = NoStream
    Sizes = {2, 4}
    ErrorSize = 1
    MaxActive = 2
    MaxRetained = 2
    MaxEvents = 2
    MaxBytes = 3
    MaxTotal = 4
    MaxFollowers = 2
    MaxFrames = 2
    Events = {"complete", "transport error", "producer error", "delete", "expire"}
CHECK_DEADLOCK FALSE
SYMMETRY Symmetry
INVARIANTS
    StreamEndsOnce
    Accounting
    NoOrphanGeneration
