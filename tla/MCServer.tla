------------------------------ MODULE MCServer ------------------------------
(***************************************************************************)
(* The parts of the server and of its clients that share no state with one *)
(* another: the configuration and the deployments made of it, the activity *)
(* feed, streaming transcription, provisioning, requests, answers and      *)
(* uploads, and the slots of an engine under two groups that each want all *)
(* of them.  A behaviour runs one of them; the others have no state then.  *)
(***************************************************************************)
EXTENDS MCSettings, Deployments, ActivityFeed, CaptionStream, TranscriptionSession,
        MCProvisioning, LlmAnswer, MCRequests, ChoiceChunks, UploadedRequests

CONSTANT NoOne

VARIABLES
    machine,
    wpc, turn, work, slots, kv, pending, cursor, media_last, health, queue, req,
    call, admission, count, closing  \* those of LlamaScheduler
groupVars == <<wpc, turn, work, slots, kv, pending, cursor, media_last, health, queue, req,
               call, admission, count, closing>>

\* Two calls for two choices each, at an engine with two slots.
GroupCalls == {"pair1", "pair2"}
Engine == INSTANCE LlamaScheduler
          WITH Calls <- GroupCalls, ChoiceCount <- [c \in GroupCalls |-> 2], Direct <- {}, Media <- {},
               MaxTokens <- [c \in GroupCalls |-> 1], Mode <- [c \in GroupCalls |-> "content"],
               Counters <- {}, Events <- {}, NSlots <- 2, QueueCapacity <- 1,
               EventCapacity <- 1, PromptChunks <- 1, MaxBurst <- 1

-----------------------------------------------------------------------------
(* Configurations with every kind of deployment, alone and beside others.  *)
Deployment(id, url, layout, table) ==
    [id |-> id, url |-> url, layout |-> layout, table |-> table, mmproj |-> <<>>, kind |-> "generation"]
Service(enabled, models) == [enabled |-> enabled, models |-> models]

Tabled == Deployment("o1", "neutral", <<"neutral">>, <<"modelscope">>)
LaidOut == Deployment("o2", "modelscope", <<"neutral">>, <<>>)
Plain == Deployment("o2", "modelscope", <<>>, <<>>)
Document1 == Deployment("v1", "file", <<"neutral">>, <<>>)
Speech1 == Deployment("a1", "neutral", <<>>, <<>>)
Local1 == Deployment("t1", "file", <<>>, <<>>)
Chat == [Deployment("l1", "huggingface", <<>>, <<>>) EXCEPT !.mmproj = <<"neutral">>]
Embed == [Deployment("l2", "file", <<>>, <<>>) EXCEPT !.kind = "embedding"]

Config(asr, tts, o, vl, l, source, missing) ==
    [asr |-> asr, tts |-> tts, ocr |-> o, ocr_vl |-> vl, llm |-> l, source |-> source, missing |-> missing]
Off == Service(FALSE, <<>>)

MCConfigs ==
    {Config(Service(TRUE, <<Speech1>>), Service(FALSE, <<Local1>>), Service(TRUE, o), Service(TRUE, <<Document1>>),
            Service(TRUE, <<Chat>>), source, {}) :
        o \in {<<Tabled>>, <<LaidOut>>, <<Tabled, LaidOut>>, <<Plain>>}, source \in {"auto", "modelscope"}}
    \cup {Config(Service(FALSE, <<Speech1>>), Service(TRUE, <<Local1>>), Service(TRUE, <<Plain, Tabled>>), Service(FALSE, <<Document1>>),
                 Service(on, <<Embed>>), "auto", missing) : on \in BOOLEAN, missing \in {{}, {"t1"}}}
    \cup {Config(Service(TRUE, <<[Speech1 EXCEPT !.id = "x1"]>>), Off, Off, Off, Off, "auto", {})}

-----------------------------------------------------------------------------
(* Two requests whose events push each other out of buffer and history, or *)
(* one request or websocket beside two events from outside.                *)
MCResponses == {[status |-> 200, code |-> "none"]}
MCScenarios == {[transports |-> <<"http", "http">>, extras |-> 0], [transports |-> <<"http">>, extras |-> 2],
                [transports |-> <<"websocket">>, extras |-> 2]}
MCQueries == {NoFilter, [NoFilter EXCEPT !.model = <<"m1">>]}

\* A tool whose name grows letter by letter, and a name nobody knows.
MCToolNames == {<<"w", "e">>}
MCOtherNames == {<<"x">>}

\* Tokens that make up, and nearly make up, two overlapping stop sequences.
MCPieces == {<<"b">>, <<"a", "b">>, <<>>}
MCStops == {<<"a", "b", "b">>, <<"b", "a">>}

-----------------------------------------------------------------------------
(* What a behaviour does not run has no state.                             *)
Dormant == "dormant"
SettingsDormant ==
    /\ document = Dormant /\ verdict = Dormant
DeploymentsDormant ==
    /\ config = Dormant /\ environment = Dormant /\ prepared = Dormant /\ startup = Dormant
    /\ tasks = Dormant /\ plans = Dormant /\ provisioned = Dormant /\ residency = Dormant
    /\ response = Dormant
FeedDormant ==
    /\ hub = Dormant /\ requests = Dormant /\ sse = Dormant /\ web = Dormant /\ scenario = Dormant
CaptionDormant ==
    /\ vad = Dormant /\ speech = Dormant /\ caption = Dormant /\ captions = Dormant
    /\ heard = Dormant
SessionDormant ==
    /\ server = Dormant /\ client = Dormant
ProvisioningDormant ==
    /\ chosen = Dormant /\ fetch = Dormant /\ store = Dormant /\ head = Dormant
    /\ deploying = Dormant /\ lock = Dormant /\ disk = Dormant
AnswerDormant ==
    /\ parser = Dormant /\ answer = Dormant /\ wire = Dormant /\ reader = Dormant
RequestsDormant ==
    /\ request = Dormant /\ progress = Dormant /\ prompts = Dormant
ChunksDormant ==
    /\ group = Dormant /\ collected = Dormant /\ chunks = Dormant /\ follower = Dormant
UploadsDormant ==
    /\ uploads = Dormant
GroupsDormant ==
    /\ wpc = Dormant /\ turn = Dormant /\ work = Dormant /\ slots = Dormant /\ kv = Dormant
    /\ pending = Dormant /\ cursor = Dormant /\ media_last = Dormant /\ health = Dormant
    /\ queue = Dormant /\ req = Dormant /\ call = Dormant /\ admission = Dormant
    /\ count = Dormant /\ closing = Dormant

MCInit ==
    /\ machine \in {"settings", "deployments", "feed", "captions", "sessions", "artifacts", "roles", "answer",
                    "requests", "chunks", "uploads", "groups"}
    /\ IF machine = "settings" THEN SettingsInit ELSE SettingsDormant
    /\ IF machine = "deployments" THEN DeploymentsInit ELSE DeploymentsDormant
    /\ IF machine = "feed" THEN FeedInit ELSE FeedDormant
    /\ IF machine = "captions" THEN CaptionInit ELSE CaptionDormant
    /\ IF machine = "sessions" THEN SessionInit ELSE SessionDormant
    /\ IF machine \in {"artifacts", "roles"} THEN ProvisioningInit ELSE ProvisioningDormant
    /\ machine = "roles" => store = Empty
    /\ IF machine = "answer" THEN AnswerInit ELSE AnswerDormant
    /\ IF machine = "requests" THEN RequestsInit ELSE RequestsDormant
    /\ IF machine = "chunks" THEN ChunksInit ELSE ChunksDormant
    /\ IF machine = "uploads" THEN UploadsInit ELSE UploadsDormant
    /\ IF machine = "groups" THEN Engine!Init ELSE GroupsDormant

Others(name) ==
    /\ machine = name /\ UNCHANGED machine
    /\ name # "settings" => UNCHANGED settingsVars
    /\ name # "deployments" => UNCHANGED deploymentsVars
    /\ name # "feed" => UNCHANGED feedVars
    /\ name # "captions" => UNCHANGED captionVars
    /\ name # "sessions" => UNCHANGED sessionVars
    /\ name \notin {"artifacts", "roles"} => UNCHANGED provisioningVars
    /\ name # "answer" => UNCHANGED answerVars
    /\ name # "requests" => UNCHANGED requestVars
    /\ name # "chunks" => UNCHANGED chunkVars
    /\ name # "uploads" => UNCHANGED uploadVars
    /\ name # "groups" => UNCHANGED groupVars

MCNext ==
    \/ Others("settings") /\ SettingsNext
    \/ Others("deployments") /\ DeploymentsNext
    \/ Others("feed") /\ FeedNext
    \/ Others("captions") /\ CaptionNext
    \/ Others("sessions") /\ SessionNext
    \/ Others("artifacts") /\ ArtifactsNext
    \/ Others("roles") /\ RolesNext
    \/ Others("answer") /\ AnswerNext
    \/ Others("requests") /\ RequestsNext
    \/ Others("chunks") /\ ChunksNext
    \/ Others("uploads") /\ UploadsNext
    \/ Others("groups") /\ Engine!Next

-----------------------------------------------------------------------------
(* What is checked of each part: see the comments of the named properties.   *)

(* A configuration is refused when it is read, or it is served as it stands: *)
(* no expectation of the code fails later and no engine refuses it           *)
(* (Settings: ServerConfig::validate, build, Engine::load).                  *)
SettingsSound == machine = "settings" => AcceptedNeverPanics /\ EngineAgrees

(* What a server needs is on disk before it serves, what it lists it can     *)
(* serve, and what it holds in memory it shows and gives up (Deployments:    *)
(* load_with_components, model_catalog, model_statuses, unload_all_models).  *)
StartupSound == machine = "deployments" => StartupOrdered /\ CatalogServable /\ NothingHidden

(* A record of activity has one owner until it says how the request ended    *)
(* (ActivityFeed: ActivityHub, HttpCompletionGuard).                         *)
FeedTruthful == machine = "feed" => RecordsTruthful

(* The page shows the server's answer once nothing is on its way, and what   *)
(* completed does not come back (ActivityFeed: useActivity).                 *)
PageConverges == machine = "feed" => FeedConverges /\ CompletedStaysGone

(* The captions are an ordered account of all that was spoken                *)
(* (CaptionStream: StreamingVadState, CaptionSession).                       *)
CaptionsFaithful == machine = "captions" => CaptionsOrdered /\ SpeechHeard

(* A session ends within its limits and its record says how, for every race  *)
(* of deadlines, results, errors and disconnections (TranscriptionSession:   *)
(* handle_transcription_ws).                                                 *)
SessionSound == machine = "sessions" => SessionTruthful /\ SessionBounded

(* The files of a deployment are of one origin and what is recorded of them  *)
(* is true (Provisioning: download_model_url_with_intent, the LLM lock).     *)
ProvisionedTruthfully ==
    /\ machine = "artifacts" => OneProvider
    /\ machine = "roles" => LockTruthful

(* What the model said is what a client is given, at once or as a resumable  *)
(* stream (LlmAnswer: collect_choices, responses_stream, ResponsesStream).   *)
AnswerDelivered == machine = "answer" => ReaderCoherent /\ AnswerTruthful

(* A request is refused where it should be and before it costs more than its *)
(* policy allows (LlmRequests: the checks of SDK, handlers and engine).      *)
RequestsSound == machine = "requests" => RefusalsAgree /\ ImagesBounded

(* An answer can be sent back and the engine hears the whole conversation    *)
(* (LlmRequests: normalize_rich_chat_message, create_response).              *)
HistoryKept == machine = "requests" => ConversationKept

(* The choices of a group reach the client as their slots made them          *)
(* (ChoiceChunks: the stop filter, collect_choices, chat_stream).            *)
ChunksFaithful == machine = "chunks" => StopsUnseen /\ ChunksAgree

(* Files, permits and slots last as long as the work that needs them         *)
(* (UploadedRequests: run_owned, track_owned_operation).                     *)
FilesOwned == machine = "uploads" => UploadsSafe

(* Groups never wait for each other's slots (LlamaScheduler:                 *)
(* reserve_choices, group_admission).                                        *)
GroupsAdmitted == machine = "groups" => Engine!NoMutualWait
=============================================================================
