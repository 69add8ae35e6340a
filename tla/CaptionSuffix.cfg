CONSTANTS
    FrameMs = 2
    FrameSamples = 2
    MinSpeechMs = 3
    MinSilenceMs = 2
    MaxSegmentMs = 40
    PaddingMs = 2
    MergeGapMs = 1
    ChunkSamples = 2
    TargetSamples = 4
    MaxCandidateMs = 5
    Tokens = {"w", ".", "_"}
    MaxFrames = 14
    MaxText = 6
INIT CaptionInit
NEXT CaptionNext
INVARIANTS CommitKeepsSuffix
CHECK_DEADLOCK FALSE
