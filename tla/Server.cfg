INIT MCInit
NEXT MCNext
CONSTANTS
    MaxUploadSize = 20
    MaxHistory = 3
    MinErrorFrame = 2
    MaxTotalBytes = 6
    MaxTtl = 4
    MaxKeepalive = 3
    U32Max = 10
    I32Max = 6
    MaxEventCapacity = 2
    MaxChoices = 3
    JsonFixed = 2
    JsonPerImage = 1
    MinGeneration = 2
    Documents <- MCDocuments
    Configs <- MCConfigs
    Environments = {"unset", "huggingface", "bad", "not unicode"}
    Unsupported = {"x1"}
    MAX_CONCURRENT_MODEL_PROVISIONS = 2
    HistoryCapacity = 1
    EventBuffer = 1
    MaxBufferedEvents = 2
    Limit = 1
    Queries <- MCQueries
    Models = {"m1"}
    Durations = {1}
    Scenarios <- MCScenarios
    Responses <- MCResponses
    WebSocketOutcomes = {"success"}
    FrameMs = 2
    FrameSamples = 2
    MinSpeechMs = 3
    MinSilenceMs = 2
    MaxSegmentMs = 12
    PaddingMs = 2
    MergeGapMs = 1
    ChunkSamples = 3
    TargetSamples = 4
    MaxCandidateMs = 5
    Tokens = {"w", ".", "_"}
    MaxFrames = 9
    MaxText = 4
    Sessions = {s1, s2}
    MaxPending = 1
    MaxConnections = 1
    StartTimeout = 1
    IdleTimeout = 1
    MaxDuration = 2
    ErrorTimeout = 1
    MaxInputBytes = 1
    Wire = 1
    Starts = {"valid", "bad options"}
    MaxAudio = 1
    Plans = {"d1", "d2", "d3"}
    PlanArtifacts <- MCPlanArtifacts
    PlanCandidates <- MCPlanCandidates
    ExactFiles = {"layout"}
    LocalPackages = {"voice"}
    VerifyFiles = FALSE
    RequiredSource <- MCRequired
    Legacy <- MCLegacy
    Roles = {"model", "mmproj", "draft", "local"}
    RoleSource <- MCRoleSource
    RoleRepository <- MCRoleRepository
    RoleCandidates <- MCRoleCandidates
    MaxRevision = 2
    MaxDamaged = 1
    ToolNames <- MCToolNames
    OtherNames <- MCOtherNames
    Modes = {"parsed", "plain", "logprobs"}
    MaxField = 2
    MaxReasoning = 1
    MaxToolCalls = 2
    MaxLetters = 4
    MaxResumes = 1
    ClientKinds = {"sdk", "raw"}
    Protocols = {"chat", "responses", "completion", "embeddings"}
    Deployments <- MCDeployments
    Options <- MCOptions
    Utterances <- MCUtterances
    Answers <- MCAnswers
    MaxImages = 2
    MaxImageBytes = 2
    MaxImageTotal = 3
    MaxTotalPixels = 3
    MaxSaid = 4
    ChunkChoices = {0, 1}
    Pieces <- MCPieces
    Stops <- MCStops
    MaxPieces = 3
    MaxLost = 1
    Uploads = {r1, r2}
    MaxInference = 1
    ModelSlots = 1
    NoOne = NoOne
INVARIANTS
    SettingsSound
    StartupSound
    FeedTruthful
    PageConverges
    CaptionsFaithful
    SessionSound
    ProvisionedTruthfully
    AnswerDelivered
    RequestsSound
    HistoryKept
    ChunksFaithful
    FilesOwned
    GroupsAdmitted
CHECK_DEADLOCK FALSE
