------------------------------ MODULE Settings ------------------------------
(***************************************************************************)
(* The server's configuration (apps/orchion-server/src/settings): which    *)
(* documents from_toml_str and validate accept, and what the accepted      *)
(* values meet later, when the caches are built and an engine is loaded.   *)
(*                                                                         *)
(* A document is a function from the names of the fields it gives to their *)
(* values; a field it leaves out has the value of Default. A text that is  *)
(* to be read as a number, a duration or a size is the number itself, and  *)
(* Unparsable when it is not one (an empty text, a unknown unit, a product *)
(* beyond 64 bits). Sizes are scaled: only their order matters.            *)
(* A check is a pair of a condition and the error it reports; the first    *)
(* condition that holds decides, as the early returns of the code do.      *)
(***************************************************************************)
EXTENDS Integers, Sequences, FiniteSets, FiniteSetsExt, SequencesExt

CONSTANTS
    MaxUploadSize,       \* MAX_UPLOAD_SIZE
    MaxHistory,          \* MAX_ACTIVITY_HISTORY_CAPACITY
    MinErrorFrame,       \* MIN_STREAMING_ERROR_FRAME_BYTES
    MaxTotalBytes,       \* 1 GiB of retained stream frames
    MaxTtl,              \* 24 h
    MaxKeepalive,        \* 5 min
    U32Max,              \* u32::MAX, native contexts and milliseconds
    I32Max,              \* i32::MAX, the native signed batch limit
    MaxEventCapacity,    \* MAX_EVENT_CAPACITY of the engine
    MaxChoices,          \* 32 images, 64 cache entries: the small hard bounds
    JsonFixed,           \* 4096 bytes of a request around its images
    JsonPerImage,        \* 256 bytes around each image
    MinGeneration,       \* 16 tokens
    Documents            \* the documents that are tried

ASSUME BoundsOrdered ==
    /\ {MaxUploadSize, MaxHistory, MinErrorFrame, MaxTotalBytes, MaxTtl, MaxKeepalive,
        U32Max, I32Max, MaxEventCapacity, MaxChoices, MinGeneration} \subseteq Nat \ {0}
    /\ I32Max < U32Max /\ MaxEventCapacity < U32Max /\ MinErrorFrame < MaxTotalBytes

VARIABLES
    document,    \* the document on disk
    verdict      \* "unread", the error that refused it, or what became of it

settingsVars == <<document, verdict>>

Unparsable == -1
None == "none"

(* The first error of a sequence of checks, and of a sequence of results. *)
FirstError(checks) ==
    LET failing == {i \in DOMAIN checks : checks[i][1]}
    IN  IF failing = {} THEN None ELSE checks[Min(failing)][2]

FirstOf(results) == FirstError([i \in DOMAIN results |-> <<results[i] # None, results[i]>>])

(***************************************************************************)
(* Deployments. A locator has a source, says whether it names one file,    *)
(* and whether it names the repository its runtime recipe expects.         *)
(***************************************************************************)
Url(source, exact, canonical) == [source |-> source, exact |-> exact, canonical |-> canonical]
IsFile(url) == url.source = "file"

(* validate_runtime_category and KnownOcrModel::from_model_id: what the     *)
(* registry knows an identifier as; "custom" is an identifier it lacks.     *)
Category == [asr1 |-> "asr", asr2 |-> "asr", tts1 |-> "tts", ocr1 |-> "ocr",
             vl1 |-> "ocr-vl", emb1 |-> "llm", llm1 |-> "custom", custom |-> "custom", malformed |-> "none"]

Speech(id, url) == [id |-> id, name |-> "given", url |-> url]
Vision(id, url, layout, table) ==
    [id |-> id, name |-> "given", url |-> url, layout |-> layout, table |-> table]

(* default_for_exe and the Default implementations of the sections. *)
Default == [
    bind |-> "ok", cors |-> <<"*">>, upload |-> MaxUploadSize - 1, pages |-> 1, pixels |-> 1, output |-> 1,
    inference |-> 2, websockets |-> 2, pending |-> 1, message |-> 1,
    history |-> 1,
    active |-> 1, retained |-> 1, events |-> 1, bytes |-> MinErrorFrame, total |-> MaxTotalBytes - 1,
    followers |-> 1, lookup |-> 1, ttl |-> 2, keepalive |-> 1,
    source |-> "auto", max_loaded |-> 2,
    asr_enabled |-> FALSE, asr_default |-> "asr1", asr_models |-> <<Speech("asr1", Url("neutral", FALSE, TRUE))>>,
    asr_device |-> "auto", chunk |-> 2, target |-> 1, max_segment |-> 2, stream_idle |-> 1, max_duration |-> 2,
    max_audio |-> 2, asr_idle |-> 1, asr_max_loaded |-> 1,
    tts_enabled |-> FALSE, tts_default |-> "tts1", tts_models |-> <<Speech("tts1", Url("neutral", FALSE, TRUE))>>,
    tts_device |-> "auto", tts_format |-> "wav", max_length |-> 1, max_reference |-> 1,
    tts_idle |-> 1, tts_max_loaded |-> 1,
    ocr_enabled |-> FALSE, ocr_default |-> None, ocr_models |-> <<>>, ocr_device |-> "auto", ocr_format |-> "json",
    ocr_pixels |-> 1, ocr_idle |-> 1, ocr_max_loaded |-> 1,
    vl_enabled |-> FALSE, vl_default |-> None, vl_models |-> <<>>, vl_device |-> "auto", vl_format |-> "markdown",
    vl_tokens |-> 1, vl_pixels |-> 1, vl_idle |-> 1, vl_max_loaded |-> 1,
    llm_enabled |-> FALSE, llm_default |-> None, llm_models |-> <<>>, llm_idle |-> 1, llm_max_loaded |-> 1]

(* The defaults of a language-model deployment; a context of 0 is "model",   *)
(* the context the model itself was trained with.                            *)
DefaultLlm == [
    id |-> "emb1", name |-> "given", url |-> Url("neutral", TRUE, TRUE), mmproj |-> <<>>, kind |-> "generation",
    pooling |-> "last", dimensions |-> 1, input_tokens |-> 4,
    context |-> 0, gpu |-> "all", parallel |-> 1, batch |-> 2, micro |-> 2, threads |-> 0,
    requests |-> 1, event_queue |-> 1, queue_timeout |-> 1, generation_timeout |-> 1,
    engine |-> "llama_cpp", template |-> None, reasoning |-> FALSE,
    cache |-> FALSE, entries |-> 1, cache_bytes |-> 1, min_prefix |-> 2,
    tokens |-> MinGeneration, temperature |-> "ok", top_p |-> "ok", top_k |-> 0, min_p |-> "ok",
    penalties |-> "ok", repeat |-> "ok",
    images |-> 1, image_bytes |-> 1, image_total |-> 3, side |-> 1, image_pixels |-> 1, total_pixels |-> 1]

Merged(doc) == [f \in DOMAIN Default |-> IF f \in DOMAIN doc THEN doc[f] ELSE Default[f]]
MergedLlm(d) == [f \in DOMAIN DefaultLlm |-> IF f \in DOMAIN d THEN d[f] ELSE DefaultLlm[f]]

Given(doc, f) == f \in DOMAIN doc
Zero(doc, f) == Given(doc, f) /\ doc[f] = 0

-----------------------------------------------------------------------------
(* The readers of single values: TRUE, or an error, when the value is refused. *)

parse_duration(value) == value \in {Unparsable, 0}
parse_upload_size(value) == value \in {Unparsable, 0}
validate_max_upload_size(value) == value > MaxUploadSize

(* parse_stream_segment_duration: a duration that milliseconds of 32 bits hold. *)
parse_stream_segment_duration(doc, f) ==
    FirstError(<< <<Given(doc, f) /\ parse_duration(doc[f]), "InvalidStreamSegmentDuration">>,
                  <<Given(doc, f) /\ doc[f] > U32Max, "InvalidStreamSegmentDuration">> >>)

(* normalize_cors_origin keeps "*", "null" and scheme://host; a list is not
   empty and "*" stands alone. *)
parse_cors_allowed_origins(origins) ==
    FirstError(<< <<\E i \in DOMAIN origins : origins[i] \in {"", "path"}, "InvalidCorsOrigin">>,
                  <<origins = <<>>, "InvalidCorsOrigin">>,
                  <<Len(origins) > 1 /\ Contains(origins, "*"), "CorsWildcardWithSpecificOrigins">> >>)

parse_tts_format(format) == format \notin {"wav", "mp3", "aac", "opus", "flac", "pcm"}
parse_ocr_format(format) == format \notin {"json", "text", "markdown", "html"}
parse_device_preference(device) == device \notin {"auto", "cpu", "cuda", "metal"}
parse_model_source(source) == source \notin {"auto", "huggingface", "modelscope"}

apply_service_limits(doc, idle, loaded) ==
    FirstError(<< <<Given(doc, idle) /\ parse_duration(doc[idle]), "InvalidDuration">>,
                  <<Zero(doc, loaded), "InvalidMaxLoaded">> >>)

-----------------------------------------------------------------------------
(* The sections. *)

parse_server(doc) ==
    FirstOf(<< IF Given(doc, "bind") /\ doc.bind # "ok" THEN "InvalidBind" ELSE None,
               IF Given(doc, "cors") THEN parse_cors_allowed_origins(doc.cors) ELSE None,
               IF /\ Given(doc, "upload")
                  /\ parse_upload_size(doc.upload) \/ validate_max_upload_size(doc.upload)
               THEN "InvalidUploadSize" ELSE None,
               IF Zero(doc, "pages") \/ Zero(doc, "pixels") THEN "InvalidResourceLimit" ELSE None,
               IF Given(doc, "output") /\ parse_upload_size(doc.output) THEN "InvalidUploadSize" ELSE None,
               IF \E f \in {"inference", "websockets", "pending", "message"} : Zero(doc, f)
               THEN "InvalidResourceLimit" ELSE None >>)

parse_activity(doc) ==
    IF Given(doc, "history") /\ doc.history > MaxHistory THEN "InvalidActivityHistoryCapacity" ELSE None

validate_streaming(c) ==
    LET invalid(condition) == <<condition, "InvalidStreamingSetting">>
    IN  FirstError(<< invalid(\E f \in {"active", "retained", "events", "bytes", "total", "followers", "lookup"} :
                                   c[f] = 0),
                      invalid(c.bytes < MinErrorFrame \/ c.total < MinErrorFrame),
                      invalid(c.ttl \notin 1..MaxTtl),
                      invalid(c.keepalive \notin 1..MaxKeepalive),
                      invalid(c.total < c.bytes),
                      invalid(c.total > MaxTotalBytes) >>)

parse_streaming(doc) ==
    IF \E f \in {"ttl", "keepalive"} : Given(doc, f) /\ parse_duration(doc[f])
    THEN "InvalidStreamingSetting" ELSE validate_streaming(Merged(doc))

parse_models(doc) ==
    FirstError(<< <<Given(doc, "source") /\ parse_model_source(doc.source), "UnknownModelSource">>,
                  <<Zero(doc, "max_loaded"), "InvalidMaxLoaded">> >>)

parse_deployment_name(d) == IF d.name = "blank" THEN "InvalidModelName" ELSE None

(* parse_asr_model, parse_tts_model: the registry's identifiers, or any
   identifier that is well formed. *)
parse_speech_deployment(d) ==
    IF d.id = "malformed" THEN "InvalidModelId" ELSE parse_deployment_name(d)

Deployed(doc, models, parse(_)) ==
    IF Given(doc, models) THEN FirstOf([i \in DOMAIN doc[models] |-> parse(doc[models][i])]) ELSE None

parse_asr_service(doc) ==
    LET c == Merged(doc)
    IN  FirstOf(<< IF Given(doc, "asr_default") /\ doc.asr_default = "malformed" THEN "InvalidAsrModelId" ELSE None,
                   Deployed(doc, "asr_models", parse_speech_deployment),
                   IF parse_device_preference(c.asr_device) THEN "InvalidDevice" ELSE None,
                   IF c.chunk \in {Unparsable, 0} THEN "InvalidChunkSize" ELSE None,
                   parse_stream_segment_duration(doc, "target"),
                   parse_stream_segment_duration(doc, "max_segment"),
                   parse_stream_segment_duration(doc, "stream_idle"),
                   parse_stream_segment_duration(doc, "max_duration"),
                   parse_stream_segment_duration(doc, "max_audio"),
                   IF c.target > c.max_segment \/ c.stream_idle > c.max_duration
                   THEN "InvalidStreamSegmentDuration" ELSE None,
                   apply_service_limits(doc, "asr_idle", "asr_max_loaded"),
                   IF c.asr_enabled /\ c.asr_models = <<>> THEN "ServiceEnabledWithoutModels" ELSE None >>)

parse_tts_service(doc) ==
    LET c == Merged(doc)
    IN  FirstOf(<< IF Given(doc, "tts_default") /\ doc.tts_default = "malformed" THEN "InvalidTtsModelId" ELSE None,
                   Deployed(doc, "tts_models", parse_speech_deployment),
                   IF parse_device_preference(c.tts_device) THEN "InvalidDevice" ELSE None,
                   IF parse_tts_format(c.tts_format) THEN "InvalidTtsFormat" ELSE None,
                   IF Zero(doc, "max_length") THEN "InvalidGenerationLimit" ELSE None,
                   parse_stream_segment_duration(doc, "max_reference"),
                   apply_service_limits(doc, "tts_idle", "tts_max_loaded"),
                   IF c.tts_enabled /\ c.tts_models = <<>> THEN "ServiceEnabledWithoutModels" ELSE None >>)

(* A layout model is any local file or the one published recipe. *)
resolve_layout_recipe(url) ==
    IF IsFile(url) \/ (url.canonical /\ url.exact) THEN None ELSE "UnsupportedLayoutModel"

validate_table_structure_config(table) ==
    FirstError(<< <<table.threshold # "ok", "InvalidTableStructureThreshold">>,
                  <<table.length = 0, "InvalidTableStructureLength">> >>)

parse_table_structure(table) ==
    IF table.type \notin {"wired", "wireless"} THEN "InvalidTableStructureType"
    ELSE validate_table_structure_config(table)

(* The optional layout and table of a deployment are sequences of at most one. *)
parse_ocr_deployment(d) ==
    FirstOf(<< IF d.id = "malformed" THEN "InvalidModelId" ELSE None,
               IF d.layout = <<>> THEN None ELSE resolve_layout_recipe(d.layout[1]),
               IF d.table = <<>> THEN None ELSE parse_table_structure(d.table[1]),
               parse_deployment_name(d) >>)

parse_ocr_service(doc) ==
    LET c == Merged(doc)
    IN  FirstOf(<< IF Given(doc, "ocr_default") /\ doc.ocr_default = "malformed" THEN "InvalidModelId" ELSE None,
                   Deployed(doc, "ocr_models", parse_ocr_deployment),
                   IF parse_device_preference(c.ocr_device) THEN "InvalidDevice" ELSE None,
                   IF parse_ocr_format(c.ocr_format) THEN "InvalidOcrFormat" ELSE None,
                   IF Zero(doc, "ocr_pixels") THEN "InvalidResourceLimit" ELSE None,
                   apply_service_limits(doc, "ocr_idle", "ocr_max_loaded"),
                   IF c.ocr_enabled /\ c.ocr_models = <<>> THEN "ServiceEnabledWithoutModels" ELSE None,
                   IF c.ocr_enabled /\ c.ocr_format = "html" THEN "UnsupportedOcrDefaultFormat" ELSE None >>)

parse_ocr_vl_service(doc) ==
    LET c == Merged(doc)
    IN  FirstOf(<< IF Given(doc, "vl_default") /\ doc.vl_default = "malformed" THEN "InvalidModelId" ELSE None,
                   Deployed(doc, "vl_models", parse_ocr_deployment),
                   IF parse_device_preference(c.vl_device) THEN "InvalidDevice" ELSE None,
                   IF parse_ocr_format(c.vl_format) THEN "InvalidOcrFormat" ELSE None,
                   IF Zero(doc, "vl_tokens") THEN "InvalidGenerationLimit" ELSE None,
                   IF Zero(doc, "vl_pixels") THEN "InvalidResourceLimit" ELSE None,
                   apply_service_limits(doc, "vl_idle", "vl_max_loaded"),
                   IF c.vl_enabled /\ c.vl_models = <<>> THEN "ServiceEnabledWithoutModels" ELSE None >>)

-----------------------------------------------------------------------------
(* The language-model deployments: partial functions over DefaultLlm's fields. *)

Tables == [
    embeddings |-> {"pooling", "dimensions", "input_tokens"},
    vision |-> {"images", "image_bytes", "image_total", "side", "image_pixels", "total_pixels"},
    chat_template |-> {"engine", "template", "reasoning"},
    prompt_cache |-> {"cache", "entries", "cache_bytes", "min_prefix"},
    generation |-> {"tokens", "temperature", "top_p", "top_k", "min_p", "penalties", "repeat"}]
HasTable(d, table) == DOMAIN d \cap Tables[table] # {}

InvalidLlm(conditions) ==
    IF \E i \in DOMAIN conditions : conditions[i] THEN "InvalidLlmSetting" ELSE None

parse_llm_deployment_kind(d) ==
    LET m == MergedLlm(d)
    IN  InvalidLlm(<< m.kind \notin {"generation", "embedding"},
                      m.kind = "generation" /\ HasTable(d, "embeddings"),
                      m.kind = "embedding" /\ (m.pooling # "last" \/ m.dimensions = 0 \/ m.input_tokens = 0) >>)

(* Faulty variant of EmbeddingOnly: an input larger than the batch is let through. *)
EmbeddingOnlyAnyBatch(d) ==
    LET m == MergedLlm(d)
    IN  IF m.kind # "embedding" THEN None
        ELSE InvalidLlm(<< "mmproj" \in DOMAIN d,
                           \E t \in {"vision", "chat_template", "prompt_cache", "generation"} : HasTable(d, t),
                           m.batch # m.micro >>)

(* The settings of generation are refused for an embedding deployment, and a
   whole input must fit one native batch. *)
EmbeddingOnly(d) ==
    LET m == MergedLlm(d)
    IN  IF m.kind # "embedding" THEN None
        ELSE InvalidLlm(<< "mmproj" \in DOMAIN d,
                           \E t \in {"vision", "chat_template", "prompt_cache", "generation"} : HasTable(d, t),
                           m.batch # m.micro,
                           m.batch < m.input_tokens >>)

parse_llm_runtime(d) ==
    FirstOf(<< InvalidLlm(<< Given(d, "context") /\ d.context \in {Unparsable, 0},
                             Given(d, "gpu") /\ d.gpu \notin {"all", "count"},
                             \E f \in {"parallel", "batch", "micro", "requests", "event_queue"} : Zero(d, f),
                             Given(d, "threads") /\ d.threads < 0 >>),
               IF \E f \in {"queue_timeout", "generation_timeout"} : Given(d, f) /\ parse_duration(d[f])
               THEN "InvalidDuration" ELSE None >>)

parse_prompt_cache(m) ==
    InvalidLlm(<< m.entries \notin 1..MaxChoices,
                  m.cache_bytes \notin 1..U32Max,
                  m.min_prefix = 0,
                  m.cache /\ m.context # 0 /\ m.min_prefix >= m.context >>)

parse_chat_template(m) == InvalidLlm(<< m.engine \notin {"llama_cpp", "jinja"}, m.template = "" >>)

validate_llm_generation(m) ==
    InvalidLlm(<< m.tokens < MinGeneration, m.temperature # "ok", m.top_p # "ok", m.top_k < 0,
                  m.min_p # "ok", m.penalties # "ok", m.repeat # "ok" >>)

VisionLimits(m) ==
    \/ m.images \notin 1..MaxChoices
    \/ m.image_bytes = 0 \/ m.image_total < m.image_bytes \/ m.image_total > MaxUploadSize
    \/ m.side = 0
    \/ m.image_pixels = 0 \/ m.total_pixels < m.image_pixels

parse_llm_vision(m) == InvalidLlm(<< VisionLimits(m) >>)

parse_llm_deployment(d) ==
    LET m == MergedLlm(d)
    IN  FirstOf(<< IF m.id = "malformed" THEN "InvalidModelId" ELSE None,
                   parse_llm_deployment_kind(d),
                   EmbeddingOnly(d),
                   parse_llm_runtime(d),
                   parse_prompt_cache(m),
                   parse_deployment_name(m),
                   parse_chat_template(m),
                   validate_llm_generation(m),
                   parse_llm_vision(m) >>)

parse_llm_service(doc) ==
    LET c == Merged(doc)
    IN  FirstOf(<< IF Given(doc, "llm_default") /\ doc.llm_default = "malformed" THEN "InvalidModelId" ELSE None,
                   Deployed(doc, "llm_models", parse_llm_deployment),
                   apply_service_limits(doc, "llm_idle", "llm_max_loaded"),
                   IF c.llm_enabled /\ c.llm_models = <<>> THEN "ServiceEnabledWithoutModels" ELSE None >>)

-----------------------------------------------------------------------------
(* validate: what relates the sections to each other. *)

validate_exact_gguf(url) == IF IsFile(url) \/ url.exact THEN None ELSE "UnsupportedModelLocator"

validate_llm_deployment(m) ==
    FirstOf(<< parse_deployment_name(m),
               validate_exact_gguf(m.url),
               IF m.mmproj = <<>> THEN None ELSE validate_exact_gguf(m.mmproj[1]),
               validate_llm_generation(m),
               InvalidLlm(<< m.kind = "embedding" /\ m.parallel # 1,
                             m.kind = "generation" /\ m.batch < m.parallel,
                             m.context # 0 /\ m.context * m.parallel > U32Max >>) >>)

validate_llm_deployments(c) ==
    FirstOf(<< IF c.llm_enabled /\ c.llm_models = <<>> THEN "ServiceEnabledWithoutModels" ELSE None >>
            \o [i \in DOMAIN c.llm_models |-> validate_llm_deployment(MergedLlm(c.llm_models[i]))])

(* A repository runtime takes a repository or a local directory, and an
   identifier the registry knows must be of the service's category. *)
validate_service_models(enabled, models, category) ==
    FirstOf(<< IF enabled /\ models = <<>> THEN "ServiceEnabledWithoutModels" ELSE None >>
            \o [i \in DOMAIN models |->
                   FirstOf(<< parse_deployment_name(models[i]),
                              IF Category[models[i].id] \notin {category, "custom"}
                              THEN "UnsupportedRuntimeModel" ELSE None,
                              IF ~IsFile(models[i].url) /\ models[i].url.exact
                              THEN "UnsupportedModelLocator" ELSE None >>)])

validate_ocr_model_locator(d, kind) ==
    IF IsFile(d.url) THEN IF kind = "ocr" THEN "UnsupportedModelLocator" ELSE None
    ELSE IF d.url.exact \/ ~d.url.canonical THEN "UnsupportedModelLocator" ELSE None

validate_ocr_deployments(enabled, models, kind) ==
    LET table(d) == IF d.table = <<>> THEN None
                    ELSE FirstOf(<< IF kind # "ocr" THEN "UnsupportedTableStructurePipeline" ELSE None,
                                    IF d.layout = <<>> THEN "TableStructureRequiresLayout" ELSE None,
                                    validate_table_structure_config(d.table[1]),
                                    IF \E u \in {d.table[1].model, d.table[1].dictionary} : ~IsFile(u) /\ ~u.exact
                                    THEN "UnsupportedModelLocator" ELSE None >>)
    IN  FirstOf(<< IF enabled /\ models = <<>> THEN "ServiceEnabledWithoutModels" ELSE None >>
                \o [i \in DOMAIN models |->
                       FirstOf(<< parse_deployment_name(models[i]),
                                  IF Category[models[i].id] # kind THEN "UnsupportedRuntimeModel" ELSE None,
                                  validate_ocr_model_locator(models[i], kind),
                                  table(models[i]),
                                  IF models[i].layout = <<>> THEN None
                                  ELSE resolve_layout_recipe(models[i].layout[1]) >>)])

SpeechModelIds(c) == [i \in DOMAIN c.asr_models |-> c.asr_models[i].id] \o [i \in DOMAIN c.tts_models |-> c.tts_models[i].id]
          \o [i \in DOMAIN c.ocr_models |-> c.ocr_models[i].id] \o [i \in DOMAIN c.vl_models |-> c.vl_models[i].id]
          \o [i \in DOMAIN c.llm_models |-> MergedLlm(c.llm_models[i]).id]

ensure_default_available(default, models) ==
    IF Cardinality({i \in DOMAIN models : models[i].id = default}) = 1 THEN None ELSE "DefaultModelUnavailable"
validate_optional_default(default, models) ==
    IF default = None THEN None ELSE ensure_default_available(default, models)

validate_model_deployments(c) ==
    LET llm == [i \in DOMAIN c.llm_models |-> MergedLlm(c.llm_models[i])]
    IN  FirstOf(<< IF IsInjective(SpeechModelIds(c)) THEN None ELSE "DuplicateModelId",
                   validate_service_models(c.asr_enabled, c.asr_models, "asr"),
                   validate_service_models(c.tts_enabled, c.tts_models, "tts"),
                   validate_ocr_deployments(c.ocr_enabled, c.ocr_models, "ocr"),
                   validate_ocr_deployments(c.vl_enabled, c.vl_models, "ocr-vl"),
                   validate_llm_deployments(c),
                   ensure_default_available(c.asr_default, c.asr_models),
                   ensure_default_available(c.tts_default, c.tts_models),
                   validate_optional_default(c.ocr_default, c.ocr_models),
                   validate_optional_default(c.vl_default, c.vl_models),
                   IF c.llm_default # None THEN ensure_default_available(c.llm_default, llm)
                   ELSE IF c.llm_enabled THEN "DefaultModelUnavailable" ELSE None >>)

(* A request with all the images a deployment admits must pass the upload
   limit: base64 takes 4 bytes for 3, and the JSON around it some more. *)
validate_vision_upload_bounds(c) ==
    IF \E i \in DOMAIN c.llm_models :
          LET m == MergedLlm(c.llm_models[i])
          IN  /\ m.mmproj # <<>>
              /\ ((m.image_total + 2) \div 3) * 4 + m.images * JsonPerImage + JsonFixed > c.upload
    THEN "InvalidLlmSetting" ELSE None

validate(c) ==
    FirstOf(<< IF validate_max_upload_size(c.upload) THEN "InvalidUploadSize" ELSE None,
               validate_streaming(c),
               validate_model_deployments(c),
               validate_vision_upload_bounds(c) >>)

from_toml_str(doc) ==
    FirstOf(<< parse_server(doc), parse_activity(doc), parse_streaming(doc), parse_models(doc),
               parse_asr_service(doc), parse_tts_service(doc), parse_ocr_service(doc),
               parse_ocr_vl_service(doc), parse_llm_service(doc),
               validate(Merged(doc)) >>)

-----------------------------------------------------------------------------
(* What an accepted configuration meets later. *)

(* Engine::load's own validation of the configuration load_llm builds from a
   deployment. *)
validate_config(m) ==
    FirstError(<< <<m.parallel = 0 \/ m.batch = 0 \/ m.micro = 0, "zero">>,
                  <<m.batch > I32Max \/ m.micro > I32Max, "native batch limit">>,
                  <<m.requests = 0, "zero">>,
                  <<m.event_queue \notin 1..MaxEventCapacity, "event capacity">>,
                  <<m.entries \notin 1..MaxChoices \/ m.cache_bytes \notin 1..U32Max \/ m.min_prefix = 0, "cache">>,
                  <<m.kind = "embedding" /\ \E f \in Tables.prompt_cache : m[f] # DefaultLlm[f], "cache">>,
                  <<m.kind = "embedding" /\ m.mmproj # <<>>, "vision">>,
                  <<m.mmproj # <<>> /\ VisionLimits(m), "vision">>,
                  <<m.kind = "generation" /\ m.batch < m.parallel, "batch">>,
                  <<m.kind = "embedding" /\ m.parallel # 1, "parallel">>,
                  <<m.context # 0 /\ m.context * m.parallel > U32Max, "context">>,
                  <<m.kind = "embedding" /\ m.input_tokens = 0, "zero">>,
                  <<m.kind = "embedding" /\ (m.batch # m.micro \/ m.batch < m.input_tokens), "batch">> >>)

(* exact_deployment_artifact takes the path of a locator, and a file's name. *)
HasPath(url) == IsFile(url) \/ url.exact

Active(enabled, models) == enabled /\ models # <<>>

(* The expectations build, api_policy, for_deployment, the artifact plans and
   speech_policy state about a validated configuration. *)
Expectations(c) ==
    /\ ~parse_tts_format(c.tts_format)
    /\ Active(c.llm_enabled, c.llm_models) =>
          \A i \in DOMAIN c.llm_models :
             LET m == MergedLlm(c.llm_models[i])
             IN  /\ m.kind = "generation" => m.parallel # 0
                 /\ HasPath(m.url)
                 /\ m.mmproj # <<>> => HasPath(m.mmproj[1])
    /\ \A s \in {[on |-> c.ocr_enabled, models |-> c.ocr_models, kind |-> "ocr"],
                 [on |-> c.vl_enabled, models |-> c.vl_models, kind |-> "ocr-vl"]} :
          Active(s.on, s.models) =>
             \A i \in DOMAIN s.models :
                /\ Category[s.models[i].id] \in {"ocr", "ocr-vl"}
                /\ s.models[i].table # <<>> =>
                      /\ HasPath(s.models[i].table[1].model)
                      /\ HasPath(s.models[i].table[1].dictionary)
                      /\ s.models[i].layout # <<>>
                /\ s.models[i].layout # <<>> => resolve_layout_recipe(s.models[i].layout[1]) = None

(* ServerConfig::load and AppState::load: read, validate again, build. *)
SettingsInit == document \in Documents /\ verdict = "unread"

load ==
    /\ verdict = "unread"
    /\ verdict' = LET error == from_toml_str(document) IN IF error = None THEN "accepted" ELSE error
    /\ UNCHANGED document

build ==
    /\ verdict = "accepted"
    /\ verdict' = IF Expectations(Merged(document)) THEN "built" ELSE "panicked"
    /\ UNCHANGED document

(* load_llm of any configured deployment; a refusal reaches the request. *)
load_llm ==
    /\ verdict = "built"
    /\ \E i \in DOMAIN Merged(document).llm_models :
          LET error == validate_config(MergedLlm(Merged(document).llm_models[i]))
          IN  verdict' = IF error = None THEN "loaded" ELSE error
    /\ UNCHANGED document

SettingsNext == load \/ build \/ load_llm

-----------------------------------------------------------------------------
(* A configuration that validation accepted never trips an expectation the   *)
(* code states as "validated ...": each expect in build, api_policy and the  *)
(* artifact plans is backed by a check of settings, however the services,    *)
(* locators and optional tables are combined.                                *)
AcceptedNeverPanics == verdict # "panicked"

(* The two validators of a language-model deployment agree: one that         *)
(* settings accept is refused by Engine::load only for the two native limits *)
(* settings do not know, the capacity of the event queue and the signed      *)
(* batch size. Every other refusal would reach each request of a server that *)
(* started without complaint.                                                *)
EngineAgrees == verdict \notin {"zero", "cache", "vision", "batch", "parallel", "context"}
=============================================================================
