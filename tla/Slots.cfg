INIT Init
NEXT Next
CONSTANTS
    pair1 = pair1
    pair2 = pair2
    single = single
    direct = direct
    image = image
    tally = tally
    Calls = {pair1, image}
    ChoiceCount <- Two
    Direct = {image}
    Media = {image}
    MaxTokens <- One
    Mode <- Mixed
    Counters = {}
    NoOne = NoOne
    NSlots = 2
    QueueCapacity = 1
    EventCapacity = 1
    PromptChunks = 1
    MaxBurst = 1
    Events = {"timeout", "cancel", "shutdown", "decode error", "clear error"}
CHECK_DEADLOCK FALSE
INVARIANTS
    CleanSlots
    NobodyForgotten
    OutputComplete
