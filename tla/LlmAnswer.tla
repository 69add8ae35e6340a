----------------------------- MODULE LlmAnswer -----------------------------
(***************************************************************************)
(* One answer of a language model on its way to a reader: the snapshots    *)
(* that the chat parser makes of the generated text and the deltas taken   *)
(* from them (orchion-llama-cpp/src/common_chat.rs), the choice events of  *)
(* the scheduler, the answer that a plain request collects from them and   *)
(* the Responses events that a streaming request makes of them             *)
(* (api/http_llm.rs), and the Rust SDK that reads these events, also after *)
(* a lost connection (orchion-client/src/llm.rs, sse.rs).                  *)
(*                                                                         *)
(* Text is a sequence of letters.  The chat parser itself is native code:  *)
(* all that is assumed of it is that its final snapshot holds complete     *)
(* tool names and that a second call follows a call with arguments.        *)
(* Queues and connections keep the order of what passes them and nobody    *)
(* looks back, so an event is taken before the next one is made, and the   *)
(* reader reads a log that is complete: it may have lagged behind.         *)
(***************************************************************************)
EXTENDS Integers, Sequences, FiniteSets, SequencesExt

CONSTANTS
    ToolNames,    \* names of the tools of the request, sequences of letters
    OtherNames,   \* names that a model may make up
    Modes,        \* "parsed": reasoning or tools are parsed; "plain": text; "logprobs": tokens
    MaxField,     \* bound: letters of the text and of the arguments of a call
    MaxReasoning, \* bound: letters of the reasoning
    MaxToolCalls, \* bound: tool calls of an answer
    MaxLetters,   \* bound: letters of all of these
    MaxResumes    \* bound: connections that a reader loses

ASSUME AnswerAssumption == {MaxField, MaxReasoning, MaxToolCalls, MaxLetters, MaxResumes} \subseteq Nat

VARIABLES
    parser,   \* the slot's SemanticParser and the events it has not yet delivered
    answer,   \* ChoiceAccumulator of collect_choices and of responses_stream
    wire,     \* the SSE events of responses_stream
    reader    \* ResponsesStream of the SDK

answerVars == <<parser, answer, wire, reader>>

Letter == "a"
Missing == -1

EmptyMessage == [reasoning |-> <<>>, content |-> <<>>, calls |-> <<>>]
NewParser(mode) ==
    [mode |-> mode, previous |-> EmptyMessage, emissions |-> <<>>, revised |-> FALSE,
     events |-> <<>>, state |-> "generating"]
NewAnswer ==
    [text |-> <<>>, reasoning |-> <<>>, message |-> Missing, thought |-> Missing, calls |-> <<>>,
     next |-> 0, finish |-> "none", state |-> "open"]
NewWire == [log |-> <<>>, output |-> <<>>, state |-> "pending"]
NewReader ==
    [position |-> 0, phase |-> "Start", expected |-> 0, resumed |-> 0, behind |-> FALSE,
     state |-> "reading", added |-> <<>>, bodies |-> <<>>, done |-> <<>>]

-----------------------------------------------------------------------------
(* Deltas between two snapshots.                                           *)

\* What a snapshot adds to a field that has already been emitted.
Suffix(previous, current) == SubSeq(current, Len(previous) + 1, Len(current))
Revises(previous, current) == ~IsPrefix(previous, current)

TextDelta(text) == [kind |-> "text", call |-> 0, id |-> 0, name |-> <<>>, text |-> text]
ReasoningDelta(text) == [TextDelta(text) EXCEPT !.kind = "reasoning"]
CallDelta(index, id, name, arguments) ==
    [kind |-> "call", call |-> index, id |-> id, name |-> name, text |-> arguments]

FieldDeltas(previous, current) ==
    (IF previous.reasoning = current.reasoning THEN <<>>
     ELSE <<ReasoningDelta(Suffix(previous.reasoning, current.reasoning))>>)
    \o (IF previous.content = current.content THEN <<>>
        ELSE <<TextDelta(Suffix(previous.content, current.content))>>)

\* A tool call is first emitted once its name is known to be complete.
Announceable(call, partial) == ~partial \/ call.name \in ToolNames \/ call.arguments # <<>>

Unnamed == [id |-> 0, name |-> <<>>, arguments |-> <<>>]
Spoken(call) == [id |-> call.id, name |-> call.name, arguments |-> call.arguments]
Emission(emissions, i) == IF i <= Len(emissions) THEN emissions[i] ELSE Unnamed

\* Faulty variant of Emitted: the arguments emitted with the name are not remembered.
EmittedWithoutArguments(emission, call, partial) ==
    IF emission.name # <<>> THEN [emission EXCEPT !.arguments = call.arguments]
    ELSE IF Announceable(call, partial) THEN [Spoken(call) EXCEPT !.arguments = <<>>]
    ELSE [Unnamed EXCEPT !.id = call.id]

Emitted(emission, call, partial) ==
    IF emission.name # <<>> THEN [emission EXCEPT !.arguments = call.arguments]
    ELSE IF Announceable(call, partial) THEN Spoken(call)
    ELSE [Unnamed EXCEPT !.id = call.id]

CallDeltas(emission, call, index, partial) ==
    IF emission.name = <<>>
    THEN IF Announceable(call, partial)
         THEN <<CallDelta(index, call.id, call.name, call.arguments)>> ELSE <<>>
    ELSE IF emission.arguments = call.arguments THEN <<>>
         ELSE <<CallDelta(index, 0, <<>>, Suffix(emission.arguments, call.arguments))>>

\* What ends the generation: something already emitted was changed or removed.
DiffFails(previous, current, emissions, partial) ==
    \/ Revises(previous.reasoning, current.reasoning) \/ Revises(previous.content, current.content)
    \/ Len(current.calls) < Len(previous.calls) \/ Len(current.calls) < Len(emissions)
    \/ \E i \in 1..Len(current.calls) :
         LET emission == Emission(emissions, i)
             call == current.calls[i]
         IN IF emission.name = <<>> THEN Announceable(call, partial) /\ call.name = <<>>
            ELSE \/ emission.id # call.id \/ emission.name # call.name
                 \/ Revises(emission.arguments, call.arguments)

Diff(current, partial) ==
    FieldDeltas(parser.previous, current)
    \o FlattenSeq([i \in 1..Len(current.calls) |->
                     CallDeltas(Emission(parser.emissions, i), current.calls[i], i - 1, partial)])

-----------------------------------------------------------------------------
(* The snapshots of the native parser (external).                          *)

Letters(message) ==
    Len(message.reasoning) + Len(message.content) + FoldSeq(LAMBDA call, n : n + Len(call.arguments), 0, message.calls)
GrowField(message, field, bound) ==
    IF Len(field) < bound /\ Letters(message) < MaxLetters THEN {Append(field, Letter)} ELSE {}

LastCall(message) == message.calls[Len(message.calls)]
NewCall(message, target) ==
    [id |-> Len(message.calls) + 1, target |-> target, name |-> <<target[1]>>, arguments |-> <<>>]

Growths(message) ==
    {[message EXCEPT !.reasoning = r] : r \in GrowField(message, message.reasoning, MaxReasoning)}
    \cup {[message EXCEPT !.content = c] : c \in GrowField(message, message.content, MaxField)}
    \cup (IF message.calls = <<>> THEN {}
          ELSE LET call == LastCall(message)
                   with(c) == [message EXCEPT !.calls[Len(message.calls)] = c]
               IN IF call.name # call.target
                  THEN {with([call EXCEPT !.name = SubSeq(call.target, 1, Len(call.name) + 1)])}
                  ELSE {with([call EXCEPT !.arguments = a]) : a \in GrowField(message, call.arguments, MaxField)})
    \cup (IF Len(message.calls) < MaxToolCalls
             /\ (message.calls = <<>> \/ LastCall(message).arguments # <<>>)
          THEN {[message EXCEPT !.calls = Append(@, NewCall(message, target))] : target \in ToolNames \cup OtherNames}
          ELSE {})

\* A parser that takes back what it said.
Revisions(message) ==
    {[message EXCEPT !.content = <<"r">>] : c \in {1} \cap 1..Len(message.content)}
    \cup {[message EXCEPT !.calls = Front(@)] : c \in {1} \cap 1..Len(message.calls)}

\* A complete parse: every name is its full name.
Complete(message) ==
    [message EXCEPT !.calls = [i \in 1..Len(message.calls) |-> [message.calls[i] EXCEPT !.name = message.calls[i].target]]]

-----------------------------------------------------------------------------
(* The generation: what the slot and the choice group deliver.             *)

Event(kind) == [TextDelta(<<>>) EXCEPT !.kind = kind]
Failure == <<Event("choice failed"), Event("failed")>>

\* push and finish: the deltas between the last snapshot and this one.
Parse(message, partial, terminal) ==
    parser' = IF DiffFails(parser.previous, message, parser.emissions, partial)
              THEN [parser EXCEPT !.events = @ \o Failure, !.state = "failed"]
              ELSE [parser EXCEPT
                      !.previous = message,
                      !.emissions = [i \in 1..Len(message.calls) |->
                                       Emitted(Emission(parser.emissions, i), message.calls[i], partial)],
                      !.events = @ \o Diff(message, partial) \o terminal,
                      !.state = IF partial THEN @ ELSE "finished"]

Push ==
    /\ parser.state = "generating" /\ parser.events = <<>> /\ wire.log # <<>> /\ parser.mode = "parsed"
    /\ \E first \in Growths(parser.previous) : \E second \in {first} \cup Growths(first) :
         Parse(second, TRUE, <<>>)
    /\ UNCHANGED <<answer, wire, reader>>

Revise ==
    /\ parser.state = "generating" /\ parser.events = <<>> /\ wire.log # <<>> /\ parser.mode = "parsed"
    /\ \E message \in Revisions(parser.previous) : Parse(message, TRUE, <<>>)
    /\ UNCHANGED <<answer, wire, reader>>

\* Plain text and tokens with their probabilities: the stop filter never lets
\* an empty piece through.
PushText ==
    /\ parser.state = "generating" /\ parser.events = <<>> /\ wire.log # <<>> /\ parser.mode \in {"plain", "logprobs"}
    /\ Len(parser.previous.content) < MaxField
    /\ parser' = [parser EXCEPT !.previous.content = Append(@, Letter),
                                !.events = Append(@, [TextDelta(<<Letter>>) EXCEPT !.kind = "delta"])]
    /\ UNCHANGED <<answer, wire, reader>>

\* drain_finished_slot: the rest is parsed as complete; an answer with tool
\* calls ends for that reason whatever stopped it.
Reason(stopped, message) == IF message.calls # <<>> THEN "tool_calls" ELSE stopped

Finish ==
    /\ parser.state = "generating" /\ parser.events = <<>> /\ wire.log # <<>>
    /\ \E stopped \in {"stop", "length"} :
         IF parser.mode = "parsed"
         THEN \E message \in {parser.previous} \cup Growths(parser.previous) :
                Parse(Complete(message), FALSE, <<Event(Reason(stopped, message)), Event("all")>>)
         ELSE parser' = [parser EXCEPT !.events = @ \o <<Event(stopped), Event("all")>>, !.state = "finished"]
    /\ UNCHANGED <<answer, wire, reader>>

\* The engine fails, a deadline or the shutdown ends the generation; the
\* owner's last event may be lost in a full queue.
Break ==
    /\ parser.state = "generating" /\ parser.events = <<>> /\ wire.log # <<>>
    /\ \E last \in {Failure, <<Event("error")>>, <<>>} :
         parser' = [parser EXCEPT !.events = @ \o last, !.state = "failed"]
    /\ UNCHANGED <<answer, wire, reader>>

-----------------------------------------------------------------------------
(* The accumulator: what a request that does not stream returns.           *)

\* The first delta of an item gives it the next place in the output.
WithMessage(a) ==
    IF a.message # Missing THEN a ELSE [a EXCEPT !.message = a.next, !.next = @ + 1]
WithThought(a) ==
    IF a.thought # Missing THEN a ELSE [a EXCEPT !.thought = a.next, !.next = @ + 1]

WithCall(a, index) ==
    IF index < Len(a.calls) THEN a
    ELSE [a EXCEPT !.calls = Append(@, [id |-> 0, name |-> <<>>, arguments |-> <<>>, place |-> a.next, started |-> FALSE]),
                   !.next = @ + 1]

Contiguous(a, event) == event.kind = "call" => event.call <= Len(a.calls)

Accumulate(a, event) ==
    CASE event.kind \in {"delta", "text"} -> [WithMessage(a) EXCEPT !.text = @ \o event.text]
      [] event.kind = "reasoning" -> [WithThought(a) EXCEPT !.reasoning = @ \o event.text]
      [] event.kind = "call" ->
           [WithCall(a, event.call) EXCEPT
              !.calls[event.call + 1] =
                 [@ EXCEPT !.id = IF event.id = 0 THEN @ ELSE event.id,
                           !.name = IF event.name = <<>> THEN @ ELSE event.name,
                           !.arguments = @ \o event.text, !.started = TRUE]]
      [] event.kind \in {"stop", "length", "tool_calls"} -> [a EXCEPT !.finish = event.kind]
      [] OTHER -> a

Item(kind, place, text) == [kind |-> kind, place |-> place, text |-> text]

\* The items of the output, unordered.
Items(a) ==
    {Item("reasoning", a.thought, a.reasoning) : x \in {a.thought} \ {Missing}}
    \cup {Item("message", a.message, a.text) : x \in {a.message} \ {Missing}}
    \cup {Item("call", a.calls[i].place, a.calls[i].arguments) : i \in 1..Len(a.calls)}

ByPlace(items) == SetToSortSeq(items, LAMBDA x, y : x.place < y.place)

\* response_output_items: an answer without any item is an empty message.
ResponseOutput(a) ==
    IF Items(a) = {} THEN <<Item("message", 0, <<>>)>> ELSE ByPlace(Items(a))

-----------------------------------------------------------------------------
(* The Responses events of a stream.                                       *)

Frame(kind, item, place, text) == [kind |-> kind, item |-> item, place |-> place, text |-> text]

\* What announces an item, before its first delta.
Added(item, place) ==
    <<Frame("output_item.added", item, place, <<>>)>>
    \o (IF item = "call" THEN <<>> ELSE <<Frame("part.added", item, place, <<>>)>>)

\* Whether a delta is the first of its item, from the text before it.
IsFirst(a, event) ==
    CASE event.kind \in {"delta", "text"} -> a.text = <<>>
      [] event.kind = "reasoning" -> a.reasoning = <<>>
      [] OTHER -> event.call = Len(a.calls)

ItemOf(event) ==
    CASE event.kind \in {"delta", "text"} -> "message"
      [] event.kind = "reasoning" -> "reasoning"
      [] OTHER -> "call"

PlaceOf(a, event) ==
    CASE ItemOf(event) = "message" -> a.message
      [] ItemOf(event) = "reasoning" -> a.thought
      [] OTHER -> a.calls[event.call + 1].place

DeltaFrames(event) ==
    LET place == PlaceOf(Accumulate(answer, event), event)
    IN (IF IsFirst(answer, event) THEN Added(ItemOf(event), place) ELSE <<>>)
       \o <<Frame("delta", ItemOf(event), place, event.text)>>

\* What closes an item once its choice has finished.
DoneGroup(item) ==
    <<Frame("text.done", item.kind, item.place, item.text)>>
    \o (IF item.kind = "call" THEN <<>> ELSE <<Frame("part.done", item.kind, item.place, item.text)>>)
    \o <<Frame("output_item.done", item.kind, item.place, item.text)>>

DoneFrames(a) == FlattenSeq([i \in 1..Cardinality(Items(a)) |-> DoneGroup(ByPlace(Items(a))[i])])

Numbered(frames, from) == [i \in 1..Len(frames) |-> [frame |-> frames[i], sequence |-> from + i - 1]]

Send(frames, state) ==
    wire' = [wire EXCEPT !.log = @ \o Numbered(frames, Len(wire.log)), !.state = state]

Open ==
    /\ wire.log = <<>> /\ parser.state # "idle"
    /\ Send(<<Frame("created", "none", Missing, <<>>), Frame("in_progress", "none", Missing, <<>>)>>, "pending")
    /\ UNCHANGED <<parser, answer, reader>>

\* The next choice event: both the collected answer and the stream take it.
TakeDelta ==
    LET event == Head(parser.events)
    IN /\ event.kind \in {"delta", "text", "reasoning", "call"}
       /\ IF Contiguous(answer, event)
          THEN Send(DeltaFrames(event), "pending") /\ answer' = Accumulate(answer, event)
          ELSE Send(<<Frame("error", "none", Missing, <<>>)>>, "failed") /\ answer' = [answer EXCEPT !.state = "refused"]

TakeFinished ==
    LET event == Head(parser.events)
    IN /\ event.kind \in {"stop", "length", "tool_calls"}
       /\ Send(DoneFrames(answer), "pending")
       /\ answer' = Accumulate(answer, event)

TakeAll ==
    LET incomplete == answer.finish = "length"
    IN /\ Head(parser.events).kind = "all"
       /\ wire' = [wire EXCEPT !.log = @ \o Numbered(<<Frame(IF incomplete THEN "incomplete" ELSE "completed", "none", Missing, <<>>)>>, Len(wire.log)),
                               !.output = ResponseOutput(answer), !.state = "complete"]
       /\ answer' = [answer EXCEPT !.state = "complete"]

\* The failure of one choice is only reported with that of the whole group.
TakeChoiceFailed ==
    /\ Head(parser.events).kind = "choice failed"
    /\ answer' = [answer EXCEPT !.state = "refused"] /\ UNCHANGED wire

TakeError ==
    /\ Head(parser.events).kind \in {"failed", "error"}
    /\ answer' = [answer EXCEPT !.state = "refused"]
    /\ Send(<<Frame("error", "none", Missing, <<>>)>>, "failed")

Take ==
    /\ wire.log # <<>> /\ wire.state = "pending" /\ parser.events # <<>>
    /\ TakeDelta \/ TakeFinished \/ TakeAll \/ TakeChoiceFailed \/ TakeError
    /\ parser' = [parser EXCEPT !.events = Tail(@)]
    /\ UNCHANGED reader

\* The generation is over and no terminal event came.
TakeEnd ==
    /\ wire.log # <<>> /\ wire.state = "pending" /\ parser.events = <<>> /\ parser.state \in {"failed", "finished"}
    /\ Send(<<Frame("error", "none", Missing, <<>>)>>, "failed")
    /\ answer' = [answer EXCEPT !.state = "refused"]
    /\ UNCHANGED <<parser, reader>>

-----------------------------------------------------------------------------
(* The reader of the SDK.                                                  *)

Terminals == {"completed", "incomplete", "failed", "cancelled"}

Infer(kind) ==
    CASE kind = "created" -> "Created"
      [] kind = "in_progress" -> "InProgress"
      [] kind \in Terminals -> "Terminal"
      [] OTHER -> "Dynamic"

Transition(phase, kind) ==
    CASE phase = "Start" /\ kind = "created" -> "Created"
      [] phase = "Created" /\ kind = "in_progress" -> "InProgress"
      [] phase \in {"InProgress", "Dynamic"} /\ kind \in Terminals -> "Terminal"
      [] phase \in {"InProgress", "Dynamic"} /\ kind \notin {"created", "in_progress"} \cup Terminals -> "Dynamic"
      [] OTHER -> "none"

NextPhase(r, kind) ==
    IF r.behind /\ r.phase = "Start" THEN Infer(kind) ELSE Transition(r.phase, kind)

Remember(r, frame) ==
    CASE frame.kind = "output_item.added" ->
           [r EXCEPT !.added = Append(@, frame.place), !.bodies = (frame.place :> <<>>) @@ @]
      [] frame.kind = "delta" /\ frame.place \in DOMAIN r.bodies ->
           [r EXCEPT !.bodies[frame.place] = @ \o frame.text]
      [] frame.kind = "output_item.done" -> [r EXCEPT !.done = Append(@, Item(frame.item, frame.place, frame.text))]
      [] OTHER -> r

NextEvent ==
    /\ reader.state = "reading" /\ wire.state # "pending" /\ reader.position < Len(wire.log)
    /\ LET event == wire.log[reader.position + 1]
           kind == event.frame.kind
           phase == NextPhase(reader, kind)
           read == [reader EXCEPT !.position = @ + 1]
       IN reader' =
            IF reader.expected # Missing /\ event.sequence # reader.expected THEN [read EXCEPT !.state = "decode failure"]
            ELSE IF kind = "error" THEN [read EXCEPT !.state = "server error"]
            ELSE IF phase = "none" THEN [read EXCEPT !.state = "decode failure"]
            ELSE [Remember(read, event.frame) EXCEPT !.expected = event.sequence + 1, !.phase = phase,
                                                     !.state = IF kind \in Terminals THEN "ended" ELSE "reading"]
    /\ UNCHANGED <<parser, answer, wire>>

\* The body ends before the reader has seen a terminal event.
NextEnd ==
    /\ reader.state = "reading" /\ reader.position = Len(wire.log) /\ wire.state # "pending"
    /\ reader' = [reader EXCEPT !.state = "unexpected end"]
    /\ UNCHANGED <<parser, answer, wire>>

\* The connection breaks and resume_response follows the stream from the last
\* event that was read.
Resume ==
    /\ reader.state = "reading" /\ wire.state # "pending" /\ reader.resumed < MaxResumes
    /\ reader' = [reader EXCEPT !.resumed = @ + 1, !.phase = "Start", !.behind = reader.position > 0,
                                !.expected = IF reader.position = 0 THEN 0 ELSE Missing]
    /\ UNCHANGED <<parser, answer, wire>>

-----------------------------------------------------------------------------
AnswerInit ==
    /\ \E mode \in Modes : parser = NewParser(mode)
    /\ answer = NewAnswer /\ wire = NewWire /\ reader = NewReader

AnswerNext ==
    Push \/ Revise \/ PushText \/ Finish \/ Break \/ Open \/ Take \/ TakeEnd \/ NextEvent \/ NextEnd \/ Resume

-----------------------------------------------------------------------------
(* What a reader sees: every stream the server makes is one the SDK        *)
(* accepts, from its first event or from wherever a connection broke, and  *)
(* once its terminal event is read every item of the final output was      *)
(* announced once, closed once and in the same order, with the text that   *)
(* its deltas add up to. (Of an answer without any item nothing is         *)
(* announced, and the final output holds an empty message.)                *)
ReaderCoherent ==
    /\ reader.state \notin {"decode failure", "unexpected end"}
    /\ reader.state = "ended" /\ reader.done # <<>> =>
         /\ reader.done = wire.output
         /\ reader.added = [i \in 1..Len(wire.output) |-> i - 1]
         /\ \A i \in 1..Len(wire.output) :
              wire.output[i].place = i - 1 /\ wire.output[i].text = reader.bodies[i - 1]

(* An answer that is returned as complete is the last snapshot of the chat *)
(* parser: nothing of its text, reasoning, tool names and arguments is     *)
(* lost, repeated or left at a value that the parser later changed.        *)
AnswerTruthful ==
    answer.state = "complete" =>
        /\ answer.text = parser.previous.content /\ answer.reasoning = parser.previous.reasoning
        /\ Len(answer.calls) = Len(parser.previous.calls)
        /\ \A i \in 1..Len(answer.calls) :
             /\ answer.calls[i].name = parser.previous.calls[i].target
             /\ answer.calls[i].arguments = parser.previous.calls[i].arguments
=============================================================================
