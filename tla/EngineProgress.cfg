SPECIFICATION FairSpec
CONSTANTS
    pair1 = pair1
    pair2 = pair2
    single = single
    direct = direct
    image = image
    tally = tally
    Calls = {single, direct}
    ChoiceCount <- Two
    Direct = {direct}
    Media = {}
    MaxTokens <- One
    Mode <- Content
    Counters = {tally}
    NoOne = NoOne
    NSlots = 1
    QueueCapacity = 1
    EventCapacity = 1
    PromptChunks = 1
    MaxBurst = 2
    Events = {"shutdown", "prepare panic", "prepare error", "decode error", "sample error"}
CHECK_DEADLOCK FALSE
PROPERTIES
    CallsEnd
    ShutdownEnds
