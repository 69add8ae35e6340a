----------------------------- MODULE MCSettings -----------------------------
(* Documents that give any two fields, or the models of a service and        *)
(* another field, a value at or beyond a boundary, over documents that       *)
(* enable every service.                                                     *)
EXTENDS Settings

Repository == Url("neutral", FALSE, TRUE)
ExactFile == Url("hub", TRUE, TRUE)
LocalFile == Url("file", FALSE, TRUE)
OtherFile == Url("hub", TRUE, FALSE)
OtherRepository == Url("hub", FALSE, FALSE)
Urls == {Repository, ExactFile, LocalFile, OtherFile, OtherRepository}

Field(f, values) == {(f :> v) : v \in values}
Fields(fs, values) == UNION {Field(f, values) : f \in fs}
Pairs(overrides) == {a @@ b : a \in overrides, b \in overrides}

Table(model, dictionary, type, length) ==
    [model |-> model, dictionary |-> dictionary, type |-> type, threshold |-> "ok", length |-> length]
Tables2 == {Table(ExactFile, u, "wired", 1) : u \in Urls} \cup {Table(ExactFile, ExactFile, "none", 1), Table(LocalFile, ExactFile, "wireless", 0)}

OcrLists(id) ==
    {<<Vision(i, u, <<>>, <<>>)>> : i \in {id, "asr1", "malformed"}, u \in Urls}
    \cup {<<Vision(id, Repository, l, t)>> : l \in {<<>>} \cup {<<u>> : u \in Urls}, t \in {<<>>} \cup {<<t>> : t \in Tables2}}

SpeechLists(id) ==
    {<<>>} \cup {<<Speech(i, u)>> : i \in {id, "ocr1", "custom", "malformed"}, u \in {Repository, LocalFile, ExactFile}}
    \cup {<<Speech(id, Repository), Speech(id, LocalFile)>>}

Scalars ==
    Field("cors", {<<>>, <<"*", "https">>, <<"path">>, <<"null", "https">>})
    \cup Field("upload", {Unparsable, 0, 1, MaxUploadSize, MaxUploadSize + 1})
    \cup Fields({"pages", "output", "inference", "max_loaded", "max_length", "vl_tokens", "ocr_pixels"}, {0, 1})
    \cup Field("history", {0, MaxHistory + 1})
    \cup Fields({"bytes", "total"}, {0, MinErrorFrame - 1, MaxTotalBytes, MaxTotalBytes + 1})
    \cup Fields({"ttl", "keepalive", "target", "max_segment", "stream_idle", "max_duration"}, {0, 2, 9, U32Max + 1})
    \cup Field("bind", {"bad"}) \cup Field("source", {"hub"}) \cup Field("tts_format", {"mp3", "ogg"})
    \cup Field("ocr_format", {"html"}) \cup Field("vl_format", {"html", "doc"}) \cup Field("asr_device", {"npu"})
    \cup Fields({"asr_default", "tts_default", "ocr_default", "vl_default", "llm_default"}, {"custom", "malformed"})
ModelLists ==
    Field("asr_models", SpeechLists("asr1")) \cup Field("tts_models", SpeechLists("tts1"))
    \cup Field("ocr_models", OcrLists("ocr1")) \cup Field("vl_models", OcrLists("vl1"))

Enabled == [asr_enabled |-> TRUE, tts_enabled |-> TRUE, ocr_enabled |-> TRUE, vl_enabled |-> TRUE,
            ocr_models |-> <<Vision("ocr1", Repository, <<>>, <<>>)>>,
            vl_models |-> <<Vision("vl1", Repository, <<>>, <<>>)>>]

LlmOverrides ==
    Field("kind", {"embedding", "ranking"}) \cup Field("url", Urls) \cup Field("mmproj", {<<u>> : u \in Urls})
    \cup Fields({"input_tokens", "parallel", "batch", "micro", "event_queue", "context"}, {0, 1, 3, I32Max + 1})
    \cup Fields({"entries", "min_prefix", "tokens", "images", "image_total", "requests"}, {0, 4})
    \cup Field("cache", {TRUE}) \cup Field("threads", {-1}) \cup Field("pooling", {"mean"}) \cup Field("gpu", {"some"})
    \cup Field("template", {""}) \cup Field("repeat", {"bad"}) \cup Field("queue_timeout", {0}) \cup Field("name", {"blank"})
    \cup Field("id", {"malformed", "asr1"})
LlmBases == {<<>>, [kind |-> "embedding", batch |-> 4, micro |-> 4]}

MCDocuments ==
    {a @@ b @@ Enabled : a \in Scalars \cup ModelLists, b \in Scalars}
    \cup {[llm_enabled |-> TRUE, llm_default |-> "emb1", llm_models |-> <<d @@ b>>, upload |-> 8] :
             d \in Pairs(LlmOverrides), b \in LlmBases}
=============================================================================
