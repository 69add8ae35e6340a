---------------------------- MODULE LlmRequests ----------------------------
(***************************************************************************)
(* A conversation with a language model through the chat, Responses,       *)
(* completion and embedding endpoints: the request that the SDK checks     *)
(* before it sends it (orchion-client/src/llm.rs), the checks of the       *)
(* handler and its translation of the history under the image budget       *)
(* (api/http_llm.rs), the admission by the runtime                         *)
(* (infrastructure/orchion.rs), the rendering by the engine                *)
(* (orchion-llama-cpp/src/scheduler.rs, common_chat.rs), and the answer    *)
(* that the client puts into the history of its next request.              *)
(*                                                                         *)
(* Text is a sequence of letters; the letter "marker" is the sentinel that *)
(* stands for an image in a prompt.  A scalar field of a request that is   *)
(* out of its range, or given although it may not be, is a flaw; a request *)
(* has at most one.  The template is native code and renders every message *)
(* it is given; the model answers anything.                                *)
(***************************************************************************)
EXTENDS Integers, Sequences, FiniteSets, SequencesExt

CONSTANTS
    ClientKinds,       \* "sdk": the Rust SDK; "raw": a client that sends JSON of its own
    Protocols,     \* endpoints: "chat", "responses", "completion", "embeddings"
    Deployments,   \* what the model can do: thinking, thinks, tags, projector, slots
    Options,       \* options of the requests: tools, choice, effort, logprobs, n, control, stream
    Utterances,    \* what a user says: sequences of parts
    Answers,       \* what the model says: text, thought, calls, whole
    MaxImages,     \* vision policy: images of a request,
    MaxImageBytes, \*   bytes of one image,
    MaxImageTotal, \*   bytes of all of them
    MaxTotalPixels,\*   pixels of all of them
    MaxSaid        \* bound: messages of a history

ASSUME RequestsAssumption == {MaxImages, MaxImageBytes, MaxImageTotal, MaxTotalPixels, MaxSaid} \subseteq Nat

VARIABLES
    request,   \* the request under way: who sends it, where to, its options and history
    progress,  \* where it is: phase, refusal, what is translated, the image budget
    prompts    \* what the engine made of this history: for a count, for a generation

requestVars == <<request, progress, prompts>>

-----------------------------------------------------------------------------
(* What is said.                                                           *)

NoImage == [bytes |-> 0, pixels |-> 0, form |-> "none"]
TextPart(text) == [kind |-> "text", text |-> text, image |-> NoImage]
ImagePart(image) == [kind |-> "image", text |-> <<>>, image |-> image]
ThoughtPart(text) == [kind |-> "reasoning", text |-> text, image |-> NoImage]
ResultPart(text) == [kind |-> "result", text |-> text, image |-> NoImage]

\* A chat message or an item of a Responses input.  A content of null has no parts.
Said(kind, role, parts, thought, calls, call) ==
    [kind |-> kind, role |-> role, parts |-> parts, thought |-> thought, calls |-> calls, call |-> call]

UserSays(parts) == Said("message", "user", parts, <<>>, <<>>, 0)

\* chat_choice and AssistantMessage: an empty text is null; the SDK makes it
\* an empty string again.
ChatMessage(client, a) ==
    Said("message", "assistant",
         IF a.text = <<>> /\ client = "raw" THEN <<>> ELSE <<TextPart(a.text)>>, a.thought, a.calls, 0)

\* response_output_items, in the order of the first deltas.
ResponseItems(a) ==
    LET items ==
          (IF a.thought = <<>> THEN <<>> ELSE <<Said("reasoning", "none", <<>>, a.thought, <<>>, 0)>>)
          \o (IF a.text = <<>> THEN <<>> ELSE <<Said("message", "assistant", <<TextPart(a.text)>>, <<>>, <<>>, 0)>>)
          \o [i \in 1..Len(a.calls) |-> Said("call", "none", <<>>, <<>>, <<a.calls[i]>>, a.calls[i].id)]
    IN IF items = <<>> THEN <<Said("message", "assistant", <<TextPart(<<>>)>>, <<>>, <<>>, 0)>> ELSE items

\* What the client answers to the calls of the model.
ToolResults(protocol, a, result) ==
    [i \in 1..Len(a.calls) |->
       Said(IF protocol = "chat" THEN "message" ELSE "output", IF protocol = "chat" THEN "tool" ELSE "none",
            <<TextPart(result)>>, <<>>, <<>>, a.calls[i].id)]

Echo(protocol, client, a, result) ==
    (IF protocol = "chat" THEN <<ChatMessage(client, a)>> ELSE ResponseItems(a)) \o ToolResults(protocol, a, result)

-----------------------------------------------------------------------------
(* Fields of a request that a check may refuse.                            *)

SamplingFlaws(protocol) ==
    {"temperature", "top_p"} \cup (IF protocol = "chat" THEN {"presence_penalty", "frequency_penalty"} ELSE {})

\* What validate of a request of the SDK refuses.
ChatRequestRefuses ==
    {"model", "no input", "n", "top_logprobs", "top_logprobs alone", "logit_bias", "stop"} \cup SamplingFlaws("chat")
CompletionRequestRefuses ==
    {"model", "max_tokens", "n", "logprobs", "logit_bias", "stop"} \cup SamplingFlaws("completion")
ResponsesRequestRefuses == {"model", "no input", "max_output_tokens", "top_logprobs"} \cup SamplingFlaws("responses")
EmbeddingsRequestRefuses == {"model", "no input", "empty input", "too many inputs", "dimensions"}
SdkRefuses(protocol) ==
    CASE protocol = "chat" -> ChatRequestRefuses
      [] protocol = "completion" -> CompletionRequestRefuses
      [] protocol = "responses" -> ResponsesRequestRefuses
      [] protocol = "embeddings" -> EmbeddingsRequestRefuses

\* What the types of the SDK cannot say and the fields of the server can.
RawMessageFlaws == {"role", "part", "call kind"}
RawChatFlaws == {"unsupported field", "max tokens twice", "obfuscation", "tool kind", "format", "effort"}
RawCompletionFlaws == {"unsupported field", "echo"}
RawItemFlaws == {"item kind", "part"}
RawResponsesFlaws == {"unsupported field", "store", "obfuscation", "stream options", "tool kind", "format", "effort"}
RawFlaws(protocol) ==
    CASE protocol = "chat" -> RawChatFlaws \cup RawMessageFlaws
      [] protocol = "completion" -> RawCompletionFlaws
      [] protocol = "responses" -> RawResponsesFlaws \cup RawItemFlaws
      [] protocol = "embeddings" -> {"not JSON"}

\* What both clients can get wrong and only the server or the engine sees.
ToolFlaws == {"tool name", "tool parameters"}
StrictSchemaFlaws == {"schema"}
SamplerFlaws == {"bias outside", "bias twice"}
EmbeddingFlaws == {"dimensions above", "token outside", "no tokens", "too many tokens"}
LateFlaws(protocol) ==
    CASE protocol = "chat" -> {"max_tokens"} \cup ToolFlaws \cup StrictSchemaFlaws \cup SamplerFlaws
      [] protocol = "completion" -> {"max tokens above"} \cup SamplerFlaws
      [] protocol = "responses" -> {"max tokens above"} \cup ToolFlaws \cup StrictSchemaFlaws
      [] protocol = "embeddings" -> EmbeddingFlaws

Flaws(protocol, client) ==
    {"none"} \cup (SdkRefuses(protocol) \ (IF protocol \in {"chat", "responses"} THEN {"no input"} ELSE {}))
    \cup LateFlaws(protocol) \cup (IF client = "raw" THEN RawFlaws(protocol) ELSE {})

\* validate_chat, validate_completion, validate_responses and embedding_inputs.
ValidateChat ==
    RawChatFlaws \cup ToolFlaws \cup StrictSchemaFlaws \cup SamplingFlaws("chat")
    \cup {"no input", "n", "top_logprobs", "top_logprobs alone", "logit_bias", "stop"}
ValidateCompletion == RawCompletionFlaws \cup SamplingFlaws("completion") \cup {"n", "logprobs", "logit_bias", "stop"}
ValidateResponses ==
    RawResponsesFlaws \cup ToolFlaws \cup StrictSchemaFlaws \cup SamplingFlaws("responses")
    \cup {"max_output_tokens", "top_logprobs"}
EmbeddingInputs == {"not JSON", "no input", "empty input", "too many inputs"}

\* Parts of a message that the translation refuses.
TranslationRefuses == RawMessageFlaws \cup RawItemFlaws

\* start_choice_generation and create_embeddings: an unknown model is not
\* available, the completion tokens and the dimensions have a limit.
AdmissionRefuses == {"model", "max_tokens", "max tokens above", "dimensions"}

\* validate_sampling_bounds, run_embeddings and finalize_embeddings.
EngineRefuses == SamplerFlaws \cup EmbeddingFlaws

-----------------------------------------------------------------------------
NewBudget == [count |-> 0, bytes |-> 0, pixels |-> 0, decoded |-> 0]
NewProgress == [phase |-> "build", refusal |-> "none", rich |-> <<>>, next |-> 1, budget |-> NewBudget, operation |-> "none"]
NewPrompts == [counted |-> <<>>, generated |-> <<>>]
NewRequest(client, protocol, deployment, options, flaw) ==
    [client |-> client, protocol |-> protocol, deployment |-> deployment, options |-> options, flaw |-> flaw,
     history |-> <<>>, instructions |-> FALSE, echoed |-> TRUE]

RefuseRequest(kind) == progress' = [progress EXCEPT !.phase = "refused", !.refusal = kind]
Talks == request.protocol \in {"chat", "responses"}

\* The user, or the application, adds to the conversation.
Say ==
    /\ progress.phase = "build" /\ Talks /\ Len(request.history) < MaxSaid
    /\ request.history # <<>> => Last(request.history).role # "user"
    /\ \E parts \in Utterances : request' = [request EXCEPT !.history = Append(@, UserSays(parts))]
    /\ prompts' = NewPrompts /\ UNCHANGED progress

Instruct ==
    /\ progress.phase = "build" /\ request.protocol = "responses" /\ request.history = <<>> /\ ~request.instructions
    /\ request' = [request EXCEPT !.instructions = TRUE]
    /\ prompts' = NewPrompts /\ UNCHANGED progress

Flaw == IF Talks /\ request.history = <<>> /\ request.flaw = "none" THEN "no input" ELSE request.flaw

\* The SDK checks what it sends.  A count has no limits to check.
SdkChecks(operation) ==
    IF operation = "count" THEN {"model", "no input"} ELSE SdkRefuses(request.protocol)

SdkOptionsRefused ==
    request.protocol = "chat" /\ request.options.control /\ (~request.options.stream \/ request.options.n # 1)

Dispatch(operation) ==
    /\ progress.phase = "build"
    /\ operation = "count" => request.protocol = "responses"
    /\ IF request.client = "sdk" /\ (Flaw \in SdkChecks(operation) \/ SdkOptionsRefused)
       THEN RefuseRequest("sdk")
       ELSE progress' = [NewProgress EXCEPT !.phase = "received", !.operation = operation]
    /\ UNCHANGED <<request, prompts>>

-----------------------------------------------------------------------------
(* The handler.                                                            *)

\* validate_tools: names are unique, a choice needs the tools it speaks of.
ToolsRefused(o) ==
    \/ o.choice \in {"auto", "required"} /\ o.tools = 0
    \/ o.choice = "unknown" \/ (o.choice = "named" /\ o.tools = 0)

\* Checks of the options: reasoning_control needs a stream of one choice, only
\* a stream can be resumable.
OptionsRefused(o) ==
    \/ ToolsRefused(o)
    \/ o.control /\ (~o.stream \/ o.n # 1)
    \/ o.resumable /\ ~o.stream

\* A handler refuses, or goes on to the translation of the history.
Handle(protocol, refused, next) ==
    /\ progress.phase = "received" /\ request.protocol = protocol
    /\ IF refused THEN RefuseRequest("client") ELSE progress' = [progress EXCEPT !.phase = next]
    /\ UNCHANGED <<request, prompts>>

CreateChatCompletion ==
    Handle("chat", Flaw \in ValidateChat \/ OptionsRefused(request.options), "translating")
CreateCompletion == Handle("completion", Flaw \in ValidateCompletion, "translated")
CreateEmbeddings == Handle("embeddings", Flaw \in EmbeddingInputs, "translated")
CreateResponse ==
    /\ progress.operation = "generate"
    /\ Handle("responses", Flaw \in ValidateResponses \/ OptionsRefused(request.options), "translating")

\* A count has no stream.
CountResponseInputTokens ==
    /\ progress.operation = "count"
    /\ Handle("responses", Flaw \in ValidateResponses \/ OptionsRefused(request.options) \/ request.options.stream, "translating")

\* Faulty variant of Decode: the image is decoded before its size is known to fit.
DecodeUnreserved(budget, image) ==
    [budget EXCEPT !.count = @ + 1, !.bytes = @ + image.bytes, !.pixels = @ + image.pixels, !.decoded = @ + image.bytes]

\* parse_data_image_with_budget after reserve_decoded: base64 is decoded, the
\* header is read and its dimensions are recorded.
Decode(budget, image) ==
    IF \/ image.form \in {"remote", "not base64"} \/ budget.count >= MaxImages
       \/ image.bytes > MaxImageBytes \/ image.bytes > MaxImageTotal - budget.bytes
    THEN budget
    ELSE [budget EXCEPT !.count = @ + 1, !.bytes = @ + image.bytes, !.decoded = @ + image.bytes,
                        !.pixels = IF image.form = "image" /\ budget.pixels + image.pixels <= MaxTotalPixels
                                   THEN @ + image.pixels ELSE @]

ImageRefused(budget, image) ==
    \/ image.form # "image" \/ budget.count >= MaxImages
    \/ image.bytes > MaxImageBytes \/ image.bytes > MaxImageTotal - budget.bytes
    \/ budget.pixels + image.pixels > MaxTotalPixels

\* The parts of a message, up to the first that is refused.
ReadPart(state, part, role) ==
    IF state.refused \/ part.kind # "image" THEN state
    ELSE IF role # "user" THEN [state EXCEPT !.refused = TRUE]
    ELSE [budget |-> Decode(state.budget, part.image), refused |-> ImageRefused(state.budget, part.image)]

ReadParts(parts, role) ==
    FoldLeft(LAMBDA state, part : ReadPart(state, part, role), [budget |-> progress.budget, refused |-> FALSE], parts)

PartsText(parts) == FlattenSeq([i \in 1..Len(parts) |-> parts[i].text])

\* function_arguments: a call whose stream was lost half way is not JSON.
ArgumentsRefused(calls) == \E i \in 1..Len(calls) : calls[i].arguments = "cut"

Rich(role, content, calls, call) == [role |-> role, content |-> content, calls |-> calls, call |-> call]

ToolMessage(said) == Rich("tool", <<ResultPart(PartsText(said.parts))>>, <<>>, said.call)

NormalizeRichChatMessage(said) ==
    IF said.role = "tool" THEN ToolMessage(said)
    ELSE Rich(said.role, said.parts \o (IF said.thought = <<>> THEN <<>> ELSE <<ThoughtPart(said.thought)>>), said.calls, 0)

ResponsesRichMessage(said) ==
    CASE said.kind = "output" -> ToolMessage(said)
      [] said.kind = "call" -> Rich("assistant", <<>>, said.calls, 0)
      [] said.kind = "reasoning" -> Rich("assistant", <<ThoughtPart(said.thought)>>, <<>>, 0)
      [] OTHER -> Rich(said.role, said.parts, <<>>, 0)

Normalize(said) ==
    IF request.protocol = "chat" THEN NormalizeRichChatMessage(said) ELSE ResponsesRichMessage(said)

Unspoken(said) ==
    said.kind = "message" /\ said.parts = <<>> /\ said.thought = <<>> /\ said.calls = <<>>

Translate ==
    /\ progress.phase = "translating" /\ progress.next <= Len(request.history)
    /\ LET said == request.history[progress.next]
           read == ReadParts(said.parts, said.role)
       IN progress' =
            IF Flaw \in TranslationRefuses \/ read.refused
            THEN [progress EXCEPT !.phase = "refused", !.refusal = "client", !.budget = read.budget]
            ELSE IF Unspoken(said) \/ ArgumentsRefused(said.calls)
            THEN [progress EXCEPT !.phase = "refused", !.refusal = "history"]
            ELSE [progress EXCEPT !.rich = Append(@, Normalize(said)), !.next = @ + 1, !.budget = read.budget]
    /\ UNCHANGED <<request, prompts>>

HasImages(rich) == \E i \in 1..Len(rich) : \E j \in 1..Len(rich[i].content) : rich[i].content[j].kind = "image"

Translated ==
    /\ progress.phase = "translating" /\ progress.next > Len(request.history)
    /\ IF \/ HasImages(progress.rich) /\ request.options.n # 1
          \/ progress.rich = <<>> /\ ~request.instructions
       THEN RefuseRequest("client")
       ELSE progress' = [progress EXCEPT !.phase = "translated"]
    /\ UNCHANGED <<request, prompts>>

-----------------------------------------------------------------------------
(* Admission and the engine.                                               *)

\* effective_tool_choice and reasoning_options.
ToolChoice(o) ==
    IF o.choice # "absent" THEN o.choice ELSE IF o.tools > 0 THEN "auto" ELSE "none"

\* apply_effective_reasoning and common_chat_template_parts.
Reasons(d, o) == IF o.effort = "absent" THEN d.thinking ELSE o.effort # "none"

\* start_choice_generation, count_semantic_input_tokens and create_embeddings
\* of the runtime.
Admission(refused) ==
    /\ progress.phase = "translated"
    /\ IF refused THEN RefuseRequest("client") ELSE progress' = [progress EXCEPT !.phase = "admitted"]
    /\ UNCHANGED <<request, prompts>>

StartChoiceGeneration ==
    /\ request.protocol # "embeddings" /\ progress.operation = "generate"
    /\ LET o == request.options
           d == request.deployment
       IN Admission(\/ Flaw \in AdmissionRefuses
                    \/ Talks /\ (o.n > d.slots \/ (Reasons(d, o) /\ o.logprobs) \/ (o.control /\ ~Reasons(d, o))))

CountSemanticInputTokens == progress.operation = "count" /\ Admission(Flaw = "model")
StartEmbeddings == request.protocol = "embeddings" /\ Admission(Flaw \in AdmissionRefuses)

\* Faulty variant of Uttered: the images of a message are taken for one.
UtteredOneImage(message) ==
    LET of(kinds) == PartsText(SelectSeq(message.content, LAMBDA part : part.kind \in kinds))
        images == SelectSeq(message.content, LAMBDA part : part.kind = "image")
    IN [role |-> message.role, text |-> of({"text", "result"}), thought |-> of({"reasoning"}),
        images |-> IF images = <<>> THEN <<>> ELSE <<images[1].image>>, calls |-> message.calls, call |-> message.call]

\* message_json: what a message says, part by part.
Uttered(message) ==
    LET of(kinds) == PartsText(SelectSeq(message.content, LAMBDA part : part.kind \in kinds))
    IN [role |-> message.role, text |-> of({"text", "result"}), thought |-> of({"reasoning"}),
        images |-> [i \in 1..Len(SelectSeq(message.content, LAMBDA part : part.kind = "image")) |->
                      SelectSeq(message.content, LAMBDA part : part.kind = "image")[i].image],
        calls |-> message.calls, call |-> message.call]

Render(rich) == [i \in 1..Len(rich) |-> Uttered(rich[i])]

\* The sentinel in a text part is refused, elsewhere it spoils the prompt.
MarkerSpoken(rich) ==
    \E i \in 1..Len(rich) : \E j \in 1..Len(rich[i].content) :
      rich[i].content[j].kind = "text" /\ Contains(rich[i].content[j].text, "marker")
MarkerHidden(rich) ==
    \E i \in 1..Len(rich) : \E j \in 1..Len(rich[i].content) :
      rich[i].content[j].kind \in {"result", "reasoning"} /\ Contains(rich[i].content[j].text, "marker")

\* What prepare_generation cannot do for this deployment.
UnsupportedByEngine(d, o, rich) ==
    \/ o.logprobs /\ (Reasons(d, o) \/ (o.tools > 0 /\ ToolChoice(o) # "none"))
    \/ Reasons(d, o) /\ ~d.thinks
    \/ o.control /\ ~d.tags
    \/ HasImages(rich) /\ ~d.projector

\* selected_tools, reserve_choices and validate_images: what the handler must
\* never let through.
Impossible(d, o, rich) ==
    \/ ToolChoice(o) \in {"required", "named"} /\ o.tools = 0
    \/ ToolChoice(o) = "unknown"
    \/ o.n > d.slots \/ (o.n # 1 /\ (o.control \/ HasImages(rich)))
    \/ progress.budget.count > MaxImages \/ progress.budget.bytes > MaxImageTotal

\* reserve_choices and prepare_generation.
Generate ==
    /\ progress.phase = "admitted" /\ progress.operation = "generate" /\ Talks
    /\ LET o == request.options
           d == request.deployment
       IN IF Impossible(d, o, progress.rich) THEN RefuseRequest("internal") /\ UNCHANGED prompts
          ELSE IF UnsupportedByEngine(d, o, progress.rich) \/ MarkerSpoken(progress.rich) \/ Flaw \in EngineRefuses
          THEN RefuseRequest("client") /\ UNCHANGED prompts
          ELSE IF MarkerHidden(progress.rich) THEN RefuseRequest("internal") /\ UNCHANGED prompts
          ELSE /\ progress' = [progress EXCEPT !.phase = "generating"]
               /\ prompts' = [prompts EXCEPT !.generated = <<[messages |-> Render(progress.rich), reasons |-> Reasons(d, o),
                                                             choice |-> ToolChoice(o), developer |-> request.instructions]>>]
    /\ UNCHANGED request

\* count_semantic_tokens and prepare_semantic_count.
Count ==
    /\ progress.phase = "admitted" /\ progress.operation = "count"
    /\ LET o == request.options
           d == request.deployment
       IN IF MarkerSpoken(progress.rich) \/ (HasImages(progress.rich) /\ ~d.projector)
          THEN RefuseRequest("client") /\ UNCHANGED prompts
          ELSE IF MarkerHidden(progress.rich) THEN RefuseRequest("internal") /\ UNCHANGED prompts
          ELSE /\ progress' = [NewProgress EXCEPT !.operation = "count"]
               /\ prompts' = [prompts EXCEPT !.counted = <<[messages |-> Render(progress.rich), reasons |-> Reasons(d, o),
                                                           choice |-> ToolChoice(o), developer |-> request.instructions]>>]
    /\ UNCHANGED request

\* A prompt or a list of inputs: there is nothing to render.
Unrendered(protocol) ==
    /\ progress.phase = "admitted" /\ request.protocol = protocol
    /\ IF Flaw \in EngineRefuses THEN RefuseRequest("client") ELSE progress' = [progress EXCEPT !.phase = "answered"]
    /\ UNCHANGED <<request, prompts>>

CompletePrompt == Unrendered("completion")
RunEmbeddings == Unrendered("embeddings")

\* The answer goes into the history, with the results of its calls.
Answer ==
    /\ progress.phase = "generating"
    /\ \E a \in Answers, result \in {<<"o">>, <<"marker">>} :
         /\ request.options.tools = 0 \/ ToolChoice(request.options) = "none" => a.calls = <<>>
         /\ ~Reasons(request.deployment, request.options) => a.thought = <<>>
         /\ a.calls = <<>> => result = <<"o">>
         /\ Len(request.history) + Len(Echo(request.protocol, request.client, a, result)) <= MaxSaid
         /\ request' = [request EXCEPT !.history = @ \o Echo(request.protocol, request.client, a, result),
                                       !.echoed = a.whole]
    /\ progress' = [NewProgress EXCEPT !.operation = "generate"]
    /\ prompts' = NewPrompts

-----------------------------------------------------------------------------
\* The flaws are looked at one by one, in requests without options.
IsPlain(o) ==
    /\ o.tools = 0 /\ o.choice = "absent" /\ o.effort = "absent" /\ o.n = 1
    /\ ~o.logprobs /\ ~o.control /\ ~o.stream /\ ~o.resumable

RequestsInit ==
    /\ \E client \in ClientKinds, protocol \in Protocols, deployment \in Deployments, options \in Options :
         \E flaw \in Flaws(protocol, client) :
           /\ flaw # "none" \/ protocol \in {"completion", "embeddings"} => IsPlain(options)
           /\ request = NewRequest(client, protocol, deployment, options, flaw)
    /\ progress = NewProgress /\ prompts = NewPrompts

RequestsNext ==
    \/ Say \/ Instruct \/ Dispatch("generate") \/ Dispatch("count")
    \/ CreateChatCompletion \/ CreateCompletion \/ CreateEmbeddings \/ CreateResponse \/ CountResponseInputTokens
    \/ Translate \/ Translated
    \/ StartChoiceGeneration \/ CountSemanticInputTokens \/ StartEmbeddings
    \/ Generate \/ Count \/ CompletePrompt \/ RunEmbeddings \/ Answer

-----------------------------------------------------------------------------
(* Whatever the engine cannot do, the handler or the runtime has refused   *)
(* as the client's mistake before: only a tool result or a thought that    *)
(* holds the sentinel of an image ends as an internal error.  And what the *)
(* SDK refuses to send, the server does not accept from others, except for *)
(* a Responses request of instructions alone.                              *)
RefusalsAgree ==
    /\ progress.refusal = "internal" => MarkerHidden(progress.rich)
    /\ progress.phase \in {"generating", "answered"} =>
         Flaw \notin SdkRefuses(request.protocol) \/ (Flaw = "no input" /\ request.instructions)

\* What was said, as the engine ought to hear it.
Heard(said) ==
    [role |-> CASE said.kind \in {"call", "reasoning"} -> "assistant" [] said.kind = "output" -> "tool" [] OTHER -> said.role,
     text |-> PartsText(said.parts), thought |-> said.thought,
     images |-> [i \in 1..Len(SelectSeq(said.parts, LAMBDA part : part.kind = "image")) |->
                   SelectSeq(said.parts, LAMBDA part : part.kind = "image")[i].image],
     calls |-> said.calls, call |-> IF said.kind = "output" \/ said.role = "tool" THEN said.call ELSE 0]

(* A conversation goes on: an answer that was received whole can be sent   *)
(* back through the SDK in the history of the next request, the engine     *)
(* hears all of it in the order in which it was said, and the input tokens *)
(* that were counted for a request are those of the prompt it generates    *)
(* from.                                                                   *)
ConversationKept ==
    /\ progress.refusal = "history" => request.client = "raw" \/ ~request.echoed
    /\ \A i \in 1..Len(prompts.generated) :
         prompts.generated[i].messages = [j \in 1..Len(request.history) |-> Heard(request.history[j])]
    /\ prompts.counted # <<>> /\ prompts.generated # <<>> => prompts.counted = prompts.generated

(* However many images a request holds and wherever it is refused, no more *)
(* of them are decoded than its vision policy allows, nor more bytes.      *)
ImagesBounded == progress.budget.decoded <= MaxImageTotal /\ progress.budget.count <= MaxImages
=============================================================================
