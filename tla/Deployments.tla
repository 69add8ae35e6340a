----------------------------- MODULE Deployments -----------------------------
(***************************************************************************)
(* The server's deployments (apps/orchion-server/src/infrastructure/       *)
(* orchion.rs): how a validated configuration becomes the allowlists of    *)
(* the caches, the artifact plans and the public catalog; how the models   *)
(* are provisioned before the server listens; and how requests, the        *)
(* lifecycle controls and shutdown name the same engines by keys that each *)
(* of them computes for itself. What happens inside a cache is the subject *)
(* of ModelCache: here a load or an unload is one step on the key's        *)
(* residency, and a publication of an artifact plan is one step too.       *)
(*                                                                         *)
(* Optional values are sequences of at most one element. A locator is its  *)
(* source: "neutral", one of the two hubs, or "file".                      *)
(***************************************************************************)
EXTENDS Integers, Sequences, FiniteSets, SequencesExt, FiniteSetsExt

CONSTANTS
    Configs,                        \* the configurations that settings accept
    Environments,                   \* values of ORCHION_MODEL_SOURCE, "unset" among them
    Unsupported,                    \* models the runtime factory has no engine for
    MAX_CONCURRENT_MODEL_PROVISIONS

ASSUME PermitsPositive == MAX_CONCURRENT_MODEL_PROVISIONS \in Nat \ {0}

VARIABLES
    config,        \* the configuration
    environment,   \* the environment's source policy
    prepared,      \* TRUE for from_prepared_config: nothing is downloaded
    startup,       \* the phase of load_with_components, then "serving" to "stopped"
    tasks,         \* the JoinSet: provisioning task -> its state
    plans,         \* artifact plans not yet published at start
    provisioned,   \* what is on disk: tasks and plans that have completed
    residency,     \* [service, key] -> what the cache's status answers for it
    response       \* what the last request or control was answered

deploymentsVars == <<config, environment, prepared, startup, tasks, plans, provisioned, residency, response>>

-----------------------------------------------------------------------------
(* The configuration. *)

Services == {"asr", "tts", "ocr", "ocr_vl", "llm"}
active(c, s) == c[s].enabled /\ c[s].models # <<>>
ModelsOf(c, s) == {c[s].models[i] : i \in DOMAIN c[s].models}
ActiveModels(c, s) == IF active(c, s) THEN ModelsOf(c, s) ELSE {}

(* The locators of a deployment, and whether a source policy decides one. *)
Locators(d) == {d.url} \cup ToSet(d.layout) \cup ToSet(d.table) \cup ToSet(d.mmproj)
active_neutral_locators(c) == \E s \in Services : \E d \in ActiveModels(c, s) : "neutral" \in Locators(d)

BothHubs == <<"huggingface", "modelscope">>

(* The error of an unknown environment value comes only where it is needed.  *)
resolve_config_source_candidates(c, env) ==
    IF ~active_neutral_locators(c) THEN <<>>
    ELSE IF env = "not unicode" THEN <<"invalid">>
    ELSE CASE c.source \in {"huggingface", "modelscope"} -> <<c.source>>
           [] c.source = "auto" /\ env \in {"unset", "auto"} -> BothHubs
           [] c.source = "auto" /\ env \in {"huggingface", "modelscope"} -> <<env>>
           [] OTHER -> <<"invalid">>

(* ocr_deployment_source_intent, llm_deployment_source_intent: every locator, *)
(* and the policy when one of them is neutral.                                *)
neutral_policy_suffix(d, candidates) == IF "neutral" \in Locators(d) THEN candidates ELSE <<>>
source_intent(d, candidates) ==
    [model |-> d.url, layout |-> d.layout, table |-> d.table, mmproj |-> d.mmproj,
     policy |-> neutral_policy_suffix(d, candidates)]

(* OcrRuntimeKey: a layout belongs to its deployment, and the artifacts of a
   table deployment to the intent they were published for. *)
OcrRuntimeKey(id, layout, table, intent) ==
    [primary |-> id, layout |-> IF layout = <<>> THEN <<>> ELSE <<id>>, table |-> table, intent |-> intent]
PlainKey(id) == OcrRuntimeKey(id, <<>>, <<>>, <<>>)

ocr_runtime_keys_for_deployment(d, candidates) ==
    IF d.table # <<>> THEN {OcrRuntimeKey(d.id, d.layout, d.table, <<source_intent(d, candidates)>>)}
    ELSE {PlainKey(d.id), OcrRuntimeKey(d.id, d.layout, <<>>, <<>>)}

(* The key of an engine for speech or language: its deployment's identifier. *)
KeysOf(s, d, candidates) ==
    IF s \in {"ocr", "ocr_vl"} THEN ocr_runtime_keys_for_deployment(d, candidates) ELSE {PlainKey(d.id)}

-----------------------------------------------------------------------------
(* resolve_configured_ocr_models and build: the caches' allowlists and plans. *)

Candidates == resolve_config_source_candidates(config, environment)

assets(c) ==
    {d.id : d \in {d \in ActiveModels(c, "ocr") : d.table = <<>>} \cup ActiveModels(c, "ocr_vl")}

layouts(c) ==
    {d.id : d \in {d \in {d \in ActiveModels(c, "ocr") : d.table = <<>>} \cup ActiveModels(c, "ocr_vl") :
                      d.layout # <<>>}}

Available(s) ==
    CASE s \in {"asr", "tts"} -> {PlainKey(d.id) : d \in ModelsOf(config, s)}
      [] OTHER -> UNION {KeysOf(s, d, Candidates) : d \in ActiveModels(config, s)}

OcrPlans ==
    UNION {ocr_runtime_keys_for_deployment(d, Candidates) : d \in {d \in ActiveModels(config, "ocr") : d.table # <<>>}}
LlmPlans == {PlainKey(d.id) : d \in ActiveModels(config, "llm")}

(* The artifacts of a plan: what the primary's recipe asks for, the files of a *)
(* layout, a table model with its dictionary, a projector.                     *)
PrimaryRoles == {"detector", "recognizer", "dictionary"}
ocr_deployment_artifact_plan(d) ==
    PrimaryRoles \cup (IF d.layout = <<>> THEN {} ELSE {"layout"})
    \cup (IF d.table = <<>> THEN {} ELSE {"table model", "table dictionary"})

(* active_model_caches: the caches that requests, clean-up and the global    *)
(* limit look at.                                                            *)
active_model_caches == {s \in Services : active(config, s)}

Keys == UNION {{s} \X Available(s) : s \in Services}

(* The runtime factory is asked about speech models and about assets and     *)
(* layouts, not about table deployments.                                     *)
validate_runtime_factory(c) ==
    /\ \A s \in {"asr", "tts"} : \A d \in ActiveModels(c, s) : d.id \notin Unsupported
    /\ assets(c) \cap Unsupported = {}

(* In prepared mode a local file must be there; everything else is looked up *)
(* when an engine is loaded. missing: the local models that are not there.   *)
validate_prepared_model_paths(c) ==
    \A s \in {"asr", "tts", "ocr", "ocr_vl"} : \A d \in ActiveModels(c, s) :
        d.table = <<>> => (d.url = "file" => d.id \notin c.missing)

DeploymentsInit ==
    /\ config \in Configs
    /\ environment \in Environments
    /\ prepared \in BOOLEAN
    /\ startup = "config"
    /\ tasks = <<>>
    /\ plans = {}
    /\ provisioned = {}
    /\ residency = <<>>
    /\ response = "none yet"

-----------------------------------------------------------------------------
(* load_with_components: validation, then two waves of tasks, then the plans. *)

Task(cache, id) == [cache |-> cache, id |-> id]
Spawned(set) == [t \in set |-> "waiting"]

Primaries(c) ==
    {Task(s, d.id) : s \in {"asr"}, d \in ActiveModels(c, "asr")}
    \cup {Task(s, d.id) : s \in {"tts"}, d \in ActiveModels(c, "tts")}
    \cup {Task("ocr-assets", id) : id \in assets(c)}
Layouts(c) == {Task("ocr-layout", id) : id \in layouts(c)}

Invalid ==
    \/ ~validate_runtime_factory(config)
    \/ Candidates = <<"invalid">>
    \/ prepared /\ ~validate_prepared_model_paths(config)

Refuse ==
    /\ startup = "config" /\ Invalid
    /\ startup' = "failed"
    /\ UNCHANGED <<config, environment, prepared, tasks, plans, provisioned, residency, response>>

(* from_prepared_config builds the state and serves. *)
BuildPrepared ==
    /\ startup = "config" /\ ~Invalid /\ prepared
    /\ startup' = "serving"
    /\ residency' = [k \in Keys |-> "unloaded"]
    /\ UNCHANGED <<config, environment, prepared, tasks, plans, provisioned, response>>

(* Faulty variant of SpawnPrimaries: both waves are spawned together. *)
SpawnAtOnce ==
    /\ startup = "config" /\ ~Invalid /\ ~prepared
    /\ startup' = "primaries"
    /\ residency' = [k \in Keys |-> "unloaded"]
    /\ tasks' = Spawned(Primaries(config) \cup Layouts(config))
    /\ UNCHANGED <<config, environment, prepared, plans, provisioned, response>>

(* build, and the first wave of ensure_startup_models. *)
SpawnPrimaries ==
    /\ startup = "config" /\ ~Invalid /\ ~prepared
    /\ startup' = "primaries"
    /\ residency' = [k \in Keys |-> "unloaded"]
    /\ tasks' = Spawned(Primaries(config))
    /\ UNCHANGED <<config, environment, prepared, plans, provisioned, response>>

(* spawn_model_provision: a task waits for one of two permits, provisions,    *)
(* and gives the permit back when it ends, well or badly.                     *)
Running == {t \in DOMAIN tasks : tasks[t] = "running"}

AcquirePermit(t) ==
    /\ tasks[t] = "waiting"
    /\ Cardinality(Running) < MAX_CONCURRENT_MODEL_PROVISIONS
    /\ tasks' = [tasks EXCEPT ![t] = "running"]
    /\ UNCHANGED <<config, environment, prepared, startup, plans, provisioned, residency, response>>

InAllowlist(t) ==
    CASE t.cache = "ocr-assets" -> t.id \in assets(config)
      [] t.cache = "ocr-layout" -> t.id \in layouts(config)
      [] OTHER -> PlainKey(t.id) \in Available(t.cache)

Provision(t) ==
    /\ tasks[t] = "running"
    /\ \/ /\ InAllowlist(t)
          /\ tasks' = [tasks EXCEPT ![t] = "ok"]
          /\ provisioned' = provisioned \cup {t}
       \/ /\ tasks' = [tasks EXCEPT ![t] = "error"]
          /\ UNCHANGED provisioned
    /\ UNCHANGED <<config, environment, prepared, startup, plans, residency, response>>

(* join_next: the first error ends the start, and the set that is dropped
   aborts the tasks that are left. *)
JoinNext(t) ==
    /\ startup \in {"primaries", "layouts"}
    /\ tasks[t] \in {"ok", "error"}
    /\ \/ /\ tasks[t] = "ok"
          /\ tasks' = [u \in DOMAIN tasks \ {t} |-> tasks[u]]
          /\ UNCHANGED startup
       \/ /\ tasks[t] = "error"
          /\ tasks' = <<>>
          /\ startup' = "failed"
    /\ UNCHANGED <<config, environment, prepared, plans, provisioned, residency, response>>

SpawnLayouts ==
    /\ startup = "primaries" /\ DOMAIN tasks = {}
    /\ startup' = "layouts"
    /\ tasks' = Spawned(Layouts(config))
    /\ UNCHANGED <<config, environment, prepared, plans, provisioned, residency, response>>

BeginPlans ==
    /\ startup = "layouts" /\ DOMAIN tasks = {}
    /\ startup' = "ocr plans"
    /\ plans' = OcrPlans
    /\ UNCHANGED <<config, environment, prepared, tasks, provisioned, residency, response>>

(* provision_deployment, provision_llm_deployment: one plan after the other. *)
PublishPlan(k) ==
    /\ startup \in {"ocr plans", "llm plans"} /\ k \in plans
    /\ \/ plans' = plans \ {k} /\ provisioned' = provisioned \cup {k} /\ UNCHANGED startup
       \/ plans' = {} /\ startup' = "failed" /\ UNCHANGED provisioned
    /\ UNCHANGED <<config, environment, prepared, tasks, residency, response>>

BeginLlmPlans ==
    /\ startup = "ocr plans" /\ plans = {}
    /\ startup' = "llm plans"
    /\ plans' = LlmPlans
    /\ UNCHANGED <<config, environment, prepared, tasks, provisioned, residency, response>>

Serve ==
    /\ startup = "llm plans" /\ plans = {}
    /\ startup' = "serving"
    /\ UNCHANGED <<config, environment, prepared, tasks, plans, provisioned, residency, response>>

-----------------------------------------------------------------------------
(* The public catalog and the requests. *)

(* KnownOcrModel's descriptor: markdown, and html of a model that reads
   documents itself, need a layout. *)
effective_capabilities(s, has_layout) ==
    {"text"} \cup (IF s = "ocr_vl" THEN {"vision_language"} ELSE {})
    \cup (IF has_layout THEN {"layout", "markdown"} ELSE {})
    \cup (IF has_layout /\ s = "ocr_vl" THEN {"html"} ELSE {})

api_capabilities(s, d) ==
    CASE s \in {"ocr", "ocr_vl"} -> effective_capabilities(s, d.layout # <<>>)
      [] s = "llm" -> IF d.kind = "embedding" THEN {"embeddings"} ELSE {"chat"} \cup (IF d.mmproj # <<>> THEN {"vision"} ELSE {})
      [] OTHER -> {s}

api_policy == {[service |-> s, id |-> d.id, capabilities |-> api_capabilities(s, d)] :
                  <<s, d>> \in {<<s, d>> \in Services \X UNION {ModelsOf(config, s) : s \in Services} :
                                   d \in ActiveModels(config, s)}}

(* model_catalog: the table capability is listed while the engine is loaded. *)
TableLoaded(d) ==
    \E k \in ocr_runtime_keys_for_deployment(d, Candidates) :
        <<"ocr", k>> \in DOMAIN residency /\ residency[<<"ocr", k>>] = "loaded"
model_catalog ==
    {[m EXCEPT !.capabilities = @ \cup
         IF \E d \in ModelsOf(config, "ocr") : m.service = "ocr" /\ m.id = d.id /\ d.table # <<>> /\ TableLoaded(d)
         THEN {"table"} ELSE {}] : m \in api_policy}

(* AppState::ocr: the key of a request, from the deployment of its model. *)
ocr(id, layout) ==
    LET found == {d \in ModelsOf(config, "ocr") : d.id = id}
        table == IF found = {} THEN <<>> ELSE (CHOOSE d \in found : TRUE).table
    IN  OcrRuntimeKey(id, layout, table,
                      IF table = <<>> THEN <<>>
                      ELSE <<source_intent(CHOOSE d \in found : TRUE, Candidates)>>)

(* AppState::ocr_vl, asr, tts and llm. *)
RequestKey(s, id, layout) ==
    CASE s = "ocr" -> ocr(id, layout)
      [] s = "ocr_vl" -> OcrRuntimeKey(id, layout, <<>>, <<>>)
      [] OTHER -> PlainKey(id)

(* application/ocr.rs: the service that has the model, and the layout its
   deployment is configured with. *)
resolve_explicit_model(id) ==
    IF \E d \in ActiveModels(config, "ocr") : d.id = id THEN <<"ocr">>
    ELSE IF \E d \in ActiveModels(config, "ocr_vl") : d.id = id THEN <<"ocr_vl">>
    ELSE <<>>

configured_layout_model(s, id) ==
    LET found == {d \in ModelsOf(config, s) : d.id = id}
    IN  IF found = {} THEN <<>> ELSE (CHOOSE d \in found : TRUE).layout

RequiredCapability == [json |-> "text", text |-> "text", markdown |-> "markdown", html |-> "html"]

(* validate_parameters: "" accepts. A deployment that only reads text takes
   neither a task nor a token limit. *)
validate_parameters(s, id, format, vl_parameters) ==
    LET capabilities == effective_capabilities(s, configured_layout_model(s, id) # <<>>)
    IN  IF RequiredCapability[format] \notin capabilities THEN "unsupported_response_format"
        ELSE IF vl_parameters /\ "vision_language" \notin capabilities THEN "unsupported_ocr_parameter"
        ELSE ""

(* load_published_ocr_runtime: the publication has the files the key needs. *)
load_published_ocr_runtime(key) ==
    LET d == CHOOSE d \in ActiveModels(config, "ocr") : d.id = key.primary
        needed == (IF key.layout = <<>> THEN {} ELSE {"layout"})
                  \cup (IF key.table = <<>> THEN {} ELSE {"table model", "table dictionary"})
    IN  IF needed \subseteq ocr_deployment_artifact_plan(d) THEN "lease" ELSE "unavailable"

(* load_ocr_runtime: with a plan everything comes from its publication; else
   the primary and then the layout are asked of their own caches. *)
load_ocr_runtime(s, key) ==
    IF s = "ocr" /\ key \in OcrPlans THEN load_published_ocr_runtime(key)
    ELSE IF \/ key.primary \notin assets(config)
            \/ key.layout # <<>> /\ key.primary \notin layouts(config)
            \/ key.table # <<>>
         THEN "unavailable" ELSE "lease"

(* get_or_load of a cache: no answer outside the allowlist, a hit, or a load. *)
GetOrLoad(s, key) ==
    /\ IF ~active(config, s) \/ key \notin Available(s)
       THEN response' = "not available" /\ UNCHANGED residency
       ELSE LET loaded == IF s \in {"ocr", "ocr_vl"} THEN load_ocr_runtime(s, key) ELSE "lease"
            IN  IF residency[<<s, key>>] = "loaded"
                THEN response' = "lease" /\ UNCHANGED residency
                ELSE \/ /\ response' = loaded
                        /\ residency' = [residency EXCEPT ![<<s, key>>] = IF loaded = "lease" THEN "loaded" ELSE @]
                     \/ response' = "load failed" /\ UNCHANGED residency
    /\ UNCHANGED <<config, environment, prepared, startup, tasks, plans, provisioned>>

(* transcribe, lease_streaming_model, synthesize_speech and the LLM owners. *)
RequestInference(s, id) == startup = "serving" /\ s \in {"asr", "tts", "llm"} /\ GetOrLoad(s, PlainKey(id))

(* recognize: choose, validate, lease. *)
recognize(id, format, vl_parameters) ==
    /\ startup = "serving"
    /\ LET choice == resolve_explicit_model(id)
       IN  IF choice = <<>>
           THEN response' = "not available" /\ UNCHANGED <<config, environment, prepared, startup, tasks, plans, provisioned, residency>>
           ELSE LET s == choice[1]
                    error == validate_parameters(s, id, format, vl_parameters)
                IN  IF error # ""
                    THEN response' = error /\ UNCHANGED <<config, environment, prepared, startup, tasks, plans, provisioned, residency>>
                    ELSE GetOrLoad(s, RequestKey(s, id, configured_layout_model(s, id)))

(* load_model of the lifecycle routes. *)
load_model(s, id) ==
    /\ startup = "serving"
    /\ GetOrLoad(s, RequestKey(s, id, IF s \in {"ocr", "ocr_vl"} THEN configured_layout_model(s, id) ELSE <<>>))

(* unload_model; unload_many takes all keys of the deployment together. *)
Unloaded(s, keys) ==
    residency' = [p \in DOMAIN residency |-> IF p[1] = s /\ p[2] \in keys THEN "unloaded" ELSE residency[p]]

unload_model(s, id) ==
    /\ startup = "serving"
    /\ LET found == {d \in ModelsOf(config, s) : d.id = id}
       IN  IF ~active(config, s) \/ found = {}
           THEN response' = "not available" /\ UNCHANGED residency
           ELSE Unloaded(s, KeysOf(s, CHOOSE d \in found : TRUE, Candidates)) /\ response' = "unloaded"
    /\ UNCHANGED <<config, environment, prepared, startup, tasks, plans, provisioned>>

(* cleanup_idle_models, and evictions for want of room: an idle engine of an
   active cache goes. *)
CleanupIdle(p) ==
    /\ startup = "serving"
    /\ p[1] \in active_model_caches
    /\ residency[p] = "loaded"
    /\ residency' = [residency EXCEPT ![p] = "unloaded"]
    /\ UNCHANGED <<config, environment, prepared, startup, tasks, plans, provisioned, response>>

(* shutdown: no more loads; then every key of every deployment is unloaded. *)
begin_shutdown ==
    /\ startup = "serving"
    /\ startup' = "closing"
    /\ UNCHANGED <<config, environment, prepared, tasks, plans, provisioned, residency, response>>

unload_all_models ==
    /\ startup = "closing"
    /\ startup' = "stopped"
    /\ LET swept == UNION {UNION {{s} \X KeysOf(s, d, Candidates) : d \in ModelsOf(config, s)} : s \in Services}
       IN  residency' = [p \in DOMAIN residency |-> IF p \in swept THEN "unloaded" ELSE residency[p]]
    /\ UNCHANGED <<config, environment, prepared, tasks, plans, provisioned, response>>

ModelIds == {d.id : d \in UNION {ModelsOf(config, s) : s \in Services}}

DeploymentsNext ==
    \/ Refuse \/ BuildPrepared \/ SpawnPrimaries \/ SpawnLayouts \/ BeginPlans \/ BeginLlmPlans \/ Serve
    \/ \E t \in DOMAIN tasks : AcquirePermit(t) \/ Provision(t) \/ JoinNext(t)
    \/ \E k \in plans : PublishPlan(k)
    \/ \E s \in Services, id \in ModelIds : RequestInference(s, id) \/ load_model(s, id) \/ unload_model(s, id)
    \/ \E id \in ModelIds, format \in DOMAIN RequiredCapability, vl \in BOOLEAN : recognize(id, format, vl)
    \/ \E p \in DOMAIN residency : CleanupIdle(p)
    \/ begin_shutdown \/ unload_all_models

-----------------------------------------------------------------------------
(* What the lifecycle routes and the readiness probe report. *)
Rank == [unloaded |-> 0, unloading |-> 1, loading |-> 2, loaded |-> 3]
ocr_runtime_status(s, d) ==
    LET known == KeysOf(s, d, Candidates) \cap Available(s)
        best == CHOOSE k \in known : \A l \in known : Rank[residency[<<s, l>>]] <= Rank[residency[<<s, k>>]]
    IN  residency[<<s, best>>]
model_statuses == {[service |-> s, id |-> d.id, status |-> ocr_runtime_status(s, d)] :
                      <<s, d>> \in {<<s, d>> \in Services \X UNION {ModelsOf(config, s) : s \in Services} :
                                       d \in ActiveModels(config, s)}}

(* The dependency of a deployment is provisioned after its primary model, so  *)
(* that it cannot commit the provider of the pair, however the tasks are      *)
(* scheduled and whichever of them fails; and the server serves only when     *)
(* every artifact of every active deployment is on disk.                      *)
StartupOrdered ==
    /\ \A t \in Running : t.cache = "ocr-layout" => Primaries(config) \subseteq provisioned
    /\ startup = "serving" /\ ~prepared =>
          Primaries(config) \cup Layouts(config) \cup OcrPlans \cup LlmPlans \subseteq provisioned

(* What the catalog lists can be had: a request for a listed model in a        *)
(* listed format, or a load by the lifecycle route, is never answered that the *)
(* model is not available or that the format is not supported. The catalog,    *)
(* the request's key, the allowlist and the artifact plans are each computed   *)
(* from the configuration by code of their own.                                *)
CatalogServable ==
    startup = "serving" =>
        /\ \A m \in model_catalog :
              m.service \in {"ocr", "ocr_vl"} =>
                 /\ resolve_explicit_model(m.id) = <<m.service>>
                 /\ LET layout == configured_layout_model(m.service, m.id)
                        key == RequestKey(m.service, m.id, layout)
                    IN  key \in Available(m.service) /\ load_ocr_runtime(m.service, key) = "lease"
                 /\ \A f \in DOMAIN RequiredCapability :
                       RequiredCapability[f] \in m.capabilities => validate_parameters(m.service, m.id, f, FALSE) = ""
        /\ response # "unavailable"

(* Nothing stays in memory out of sight: an engine that a request brought in   *)
(* is reported as loaded by model_statuses under its deployment, and shutdown  *)
(* leaves none, although requests and controls name it by different means.     *)
NothingHidden ==
    /\ startup = "serving" =>
          \A p \in DOMAIN residency : residency[p] = "loaded" =>
              \E m \in model_statuses : m.service = p[1] /\ m.id = p[2].primary /\ m.status = "loaded"
    /\ startup = "stopped" => \A p \in DOMAIN residency : residency[p] = "unloaded"
=============================================================================
