SPECIFICATION FairSpec
CONSTANTS
    Streams = {s1}
    Followers = {f1, f2}
    NoStream = NoStream
    Sizes = {1}
    ErrorSize = 1
    MaxActive = 2
    MaxRetained = 1
    MaxEvents = 1
    MaxBytes = 2
    MaxTotal = 3
    MaxFollowers = 2
    MaxFrames = 2
    Events = {"read", "delete", "attach", "leave", "shutdown"}
CHECK_DEADLOCK FALSE
INVARIANTS
    Replay
    FollowersServed
PROPERTIES
    ShutdownDrains
    BodiesEnd
