------------------------ MODULE TranscriptionSession ------------------------
(***************************************************************************)
(* Streaming transcription sessions: the websocket handler of              *)
(* api/http_audio/streaming.rs with its live (legacy.rs) and caption       *)
(* (caption.rs) loops, the budget and the leased streams of                *)
(* application/streaming_transcription.rs, and the session of the Rust SDK *)
(* (orchion-client/src/asr.rs).                                            *)
(*                                                                         *)
(* Time is counted in ticks.  A timer that is due fires before time goes   *)
(* on, as tokio polls it; what an engine or a client does may take any     *)
(* time.  A binary message carries one byte and one tick of audio.  The    *)
(* wire holds Wire events the client has not read.  A send puts its event  *)
(* behind them and then waits until the wire has taken it: a deadline that *)
(* ends that wait cannot take the event back.                              *)
(***************************************************************************)
EXTENDS Integers, Sequences, FiniteSets, SequencesExt

CONSTANTS
    Sessions,        \* websocket connections
    MaxPending,      \* permits of try_acquire_pending_websocket
    MaxConnections,  \* permits of try_acquire_websocket
    StartTimeout,    \* TRANSCRIPTION_STREAM_START_TIMEOUT
    IdleTimeout,     \* TranscriptionStreamLimits::idle_timeout
    MaxDuration,     \* TranscriptionStreamLimits::max_duration
    ErrorTimeout,    \* STREAM_ERROR_SEND_TIMEOUT
    MaxInputBytes,   \* TranscriptionStreamLimits::max_input_bytes
    Wire,            \* events a connection buffers
    Starts,          \* what a start message may be: "valid", "bad key", "bad options", "bad model"
    MaxAudio         \* bound: audio messages of a session

ASSUME SessionAssumption ==
    /\ {MaxPending, MaxConnections, StartTimeout, IdleTimeout, MaxDuration, ErrorTimeout, Wire} \subseteq Nat \ {0}
    /\ MaxInputBytes \in Nat /\ MaxAudio \in Nat

VARIABLES server, client
sessionVars == <<server, client>>

NewServer == [phase |-> "none", pending |-> FALSE, permit |-> FALSE, lease |-> FALSE, background |-> 0,
              age |-> 0, waited |-> 0, inbox |-> <<>>, outbox |-> <<>>, bytes |-> 0,
              record |-> "open", error |-> "none", sending |-> "none"]
NewClient == [state |-> "new", sent |-> 0, gone |-> FALSE, first |-> "none", last |-> "none"]

Pending == {s \in Sessions : server[s].pending}
Connected == {s \in Sessions : server[s].permit}
Live(s) == server[s].phase \notin {"none", "closed"}

-----------------------------------------------------------------------------
(* The steps every branch of the handler ends in.                          *)

Server(s, state) == server' = [server EXCEPT ![s] = state] /\ UNCHANGED client

\* The handler returns: permits and lease are dropped, what the wire has not
\* taken is lost; WebSocketActivity::drop records a disconnection unless
\* something was recorded before.
Closed(state) ==
    [state EXCEPT !.phase = "closed", !.pending = FALSE, !.permit = FALSE, !.lease = FALSE, !.inbox = <<>>,
                  !.age = 0, !.waited = 0, !.bytes = 0,
                  !.outbox = SubSeq(@, 1, IF Len(@) > Wire THEN Wire ELSE Len(@)), !.sending = "none",
                  !.record = IF @ = "open" THEN "disconnected" ELSE @]

Timeouts == {"start_message_timeout", "stream_idle_timeout", "stream_duration_exceeded"}

\* send_stream_error: the record first, then one bounded attempt to say why.
SendStreamError(state, code) ==
    [state EXCEPT !.phase = "failing", !.waited = 0, !.error = code,
                  !.record = IF code = "websocket_disconnected" THEN "disconnected"
                             ELSE IF code \in Timeouts THEN "timeout" ELSE "error"]

Fail(s, code) == Server(s, SendStreamError(server[s], code))

\* send_stream_event: behind what was sent before, once the wire has taken that.
Flushed(state) == Len(state.outbox) <= Wire
Sending(state, event) == [state EXCEPT !.sending = event, !.outbox = Append(@, event)]

\* The bounded attempt ends: the event is out, the client is gone, or time is up.
ErrorSent(s) ==
    /\ server[s].phase = "failing"
    /\ \/ /\ server[s].sending # "error" /\ Flushed(server[s]) /\ ~client[s].gone
          /\ Server(s, Sending(server[s], "error"))
       \/ /\ server[s].sending = "error" /\ Flushed(server[s])
          /\ Server(s, Closed(server[s]))
       \/ (client[s].gone \/ server[s].waited >= ErrorTimeout) /\ Server(s, Closed(server[s]))

-----------------------------------------------------------------------------
(* Before the session is ready.                                            *)

\* create_transcription_ws: origin, header key and pending permit, then the upgrade.
CreateTranscriptionWs(s) ==
    /\ client[s].state = "connecting" /\ server[s].phase = "none"
    /\ \/ /\ Cardinality(Pending) < MaxPending
          /\ server' = [server EXCEPT ![s] = [@ EXCEPT !.phase = "start", !.pending = TRUE]]
          /\ client' = [client EXCEPT ![s].state = "handshaken"]
       \/ /\ server' = [server EXCEPT ![s] = [@ EXCEPT !.phase = "closed", !.record = "error"]]
          /\ client' = [client EXCEPT ![s].state = "terminal"]

\* handle_transcription_ws from the start message to the request for a model.
Admit(s, start) ==
    LET admitted == [server[s] EXCEPT !.pending = FALSE, !.permit = TRUE, !.age = 0]
    IN CASE start = "bad key" -> Fail(s, "invalid_api_key")
         [] start # "bad key" /\ Cardinality(Connected) >= MaxConnections -> Fail(s, "resource_exhausted")
         [] start \in {"bad options", "bad model"} /\ Cardinality(Connected) < MaxConnections ->
               Server(s, SendStreamError(admitted, "invalid_request"))
         [] OTHER -> Server(s, [admitted EXCEPT !.phase = "leasing", !.inbox = Tail(@), !.waited = 0])

\* receive_transcription_stream_start
ReceiveStart(s) ==
    /\ server[s].phase = "start"
    /\ \/ /\ server[s].inbox # <<>>
          /\ IF Head(server[s].inbox) \in {"audio", "end"} THEN Fail(s, "missing_start_message")
             ELSE Admit(s, Head(server[s].inbox))
       \/ server[s].inbox = <<>> /\ client[s].gone /\ Fail(s, "websocket_disconnected")
       \/ server[s].waited >= StartTimeout /\ Fail(s, "start_message_timeout")

\* await_stream_model_while_connected under await_stream_operation.
LeaseModel(s) ==
    /\ server[s].phase = "leasing"
    /\ \/ server[s].inbox # <<>> /\ Fail(s, "invalid_stream_state")
       \/ server[s].inbox = <<>> /\ client[s].gone /\ Server(s, Closed(server[s]))
       \/ /\ server[s].inbox = <<>> /\ ~client[s].gone
          /\ \/ Server(s, [server[s] EXCEPT !.phase = "opening", !.lease = TRUE, !.waited = 0])
             \/ Fail(s, "model_not_available")
       \/ server[s].age >= MaxDuration /\ Fail(s, "stream_duration_exceeded")

\* The setup of run: engine stream, decoder and endpoint, then `ready`.
OpenStream(s) ==
    /\ server[s].phase = "opening"
    /\ \/ server[s].sending = "none" /\ Fail(s, "setup_failed")
       \/ (server[s].sending = "none" \/ ~Flushed(server[s])) /\ client[s].gone /\ Server(s, Closed(server[s]))
       \/ /\ server[s].sending = "none" /\ ~client[s].gone
          /\ Server(s, Sending(server[s], "ready"))
       \/ /\ server[s].sending = "ready" /\ Flushed(server[s])
          /\ Server(s, [server[s] EXCEPT !.phase = "running", !.sending = "none", !.waited = 0])
       \/ server[s].age >= MaxDuration /\ Fail(s, "stream_duration_exceeded")

-----------------------------------------------------------------------------
(* The loop of run.                                                        *)

\* receive_transcription_stream_message and the dispatch of what it returns.
ReceiveMessage(s) ==
    /\ server[s].phase = "running" /\ server[s].inbox # <<>>
    /\ LET next == [server[s] EXCEPT !.inbox = Tail(@), !.waited = 0]
       IN CASE Head(server[s].inbox) = "audio" ->
                 IF server[s].bytes + 1 > MaxInputBytes THEN Fail(s, "stream_input_too_large")
                 ELSE Server(s, [next EXCEPT !.phase = "feeding", !.bytes = @ + 1, !.background = @ + 1])
            [] Head(server[s].inbox) = "end" ->
                 Server(s, [next EXCEPT !.phase = "finishing", !.background = @ + 1])
            [] OTHER -> Fail(s, "invalid_stream_state")

\* The client is gone, or the wait of next_wait is over.
ReceiveNothing(s) ==
    /\ server[s].phase = "running" /\ (server[s].inbox = <<>> \/ server[s].age >= MaxDuration)
    /\ \/ server[s].inbox = <<>> /\ client[s].gone /\ Server(s, Closed(server[s]))
       \/ server[s].age >= MaxDuration /\ Fail(s, "stream_duration_exceeded")
       \/ /\ server[s].waited >= IdleTimeout /\ server[s].age < MaxDuration
          /\ Fail(s, "stream_idle_timeout")

\* The spawned operation of run_with_inference ends; nobody may be waiting for it.
OperationEnds(s) ==
    /\ server[s].background > 0
    /\ server[s].phase \notin {"feeding", "finishing"}
    /\ Server(s, [server[s] EXCEPT !.background = @ - 1])

\* feed_chunks and apply_caption_events: the engine's answer becomes partial events.
Fed(s) ==
    /\ server[s].phase = "feeding"
    /\ LET idle == server[s].sending = "none"
           done == [server[s] EXCEPT !.background = @ - 1]
           fed == [server[s] EXCEPT !.phase = "running", !.waited = 0, !.sending = "none"]
       IN \/ idle /\ Server(s, [fed EXCEPT !.background = @ - 1])
          \/ idle /\ ~client[s].gone /\ Server(s, Sending(done, "partial"))
          \/ idle /\ client[s].gone /\ Server(s, SendStreamError(done, "websocket_disconnected"))
          \/ idle /\ Server(s, SendStreamError(done, "internal_error"))
          \/ ~idle /\ Flushed(server[s]) /\ Server(s, fed)
          \/ ~Flushed(server[s]) /\ client[s].gone /\ Fail(s, "websocket_disconnected")
          \/ (idle \/ ~Flushed(server[s])) /\ server[s].age >= MaxDuration /\ Fail(s, "stream_duration_exceeded")

\* finish of legacy.rs and caption.rs under await_stream_finish.
FinishSession(s) ==
    /\ server[s].phase = "finishing"
    /\ LET idle == server[s].sending = "none"
           done == [server[s] EXCEPT !.background = @ - 1]
       IN \/ idle /\ ~client[s].gone /\ Server(s, Sending(done, "final"))
          \/ idle /\ client[s].gone /\ Server(s, SendStreamError(done, "websocket_disconnected"))
          \/ idle /\ Server(s, SendStreamError(done, "internal_error"))
          \/ /\ ~idle /\ Flushed(server[s])
             /\ Server(s, Closed([server[s] EXCEPT !.record = "success"]))
          \/ ~Flushed(server[s]) /\ client[s].gone /\ Fail(s, "websocket_disconnected")
          \/ (idle \/ ~Flushed(server[s])) /\ server[s].age >= MaxDuration /\ Fail(s, "stream_duration_exceeded")

-----------------------------------------------------------------------------
(* The SDK.                                                                *)

Client(s, state) == client' = [client EXCEPT ![s] = state] /\ UNCHANGED server
SendEvent(s, message, state) ==
    /\ client' = [client EXCEPT ![s] = state]
    /\ server' = [server EXCEPT ![s].inbox = IF Live(s) THEN Append(@, message) ELSE @]

\* AsrClient::start_streaming: connect, start message, then expect_ready.
StartStreaming(s) ==
    \/ client[s].state = "new" /\ Client(s, [client[s] EXCEPT !.state = "connecting"])
    \/ /\ client[s].state = "handshaken" /\ ~client[s].gone
       /\ \E start \in Starts : SendEvent(s, start, [client[s] EXCEPT !.state = "expecting"])

\* send_message: the state is terminal until the send has succeeded.
SendAudio(s) ==
    /\ client[s].state = "active" /\ client[s].sent < MaxAudio
    /\ \/ SendEvent(s, "audio", [client[s] EXCEPT !.sent = @ + 1])
       \/ Client(s, [client[s] EXCEPT !.state = "terminal"])

FinishSending(s) ==
    /\ client[s].state = "active"
    /\ \/ SendEvent(s, "end", [client[s] EXCEPT !.state = "finishing"])
       \/ Client(s, [client[s] EXCEPT !.state = "terminal"])

\* expect_ready, next_event and receive_event.
NextServerEvent(s) ==
    /\ client[s].state \in {"expecting", "active", "finishing"}
    /\ \/ /\ server[s].outbox # <<>>
          /\ LET event == Head(server[s].outbox)
                 seen == [client[s] EXCEPT !.first = IF @ = "none" THEN event ELSE @, !.last = event]
             IN /\ server' = [server EXCEPT ![s].outbox = Tail(@)]
                /\ client' = [client EXCEPT ![s] =
                      [seen EXCEPT !.state =
                          IF event \in {"final", "error"} THEN "completed"
                          ELSE IF client[s].state = "expecting" THEN IF event = "ready" THEN "active" ELSE "terminal"
                          ELSE @]]
       \/ /\ server[s].outbox = <<>> /\ server[s].phase = "closed"
          /\ Client(s, [client[s] EXCEPT !.state = "terminal"])

\* The connection is dropped, by the application or by the network.
Leave(s) ==
    /\ ~client[s].gone /\ client[s].state \notin {"new", "connecting"}
    /\ Client(s, [client[s] EXCEPT !.gone = TRUE, !.state = "terminal"])

-----------------------------------------------------------------------------
(* Time.                                                                   *)

\* Faulty variant of Due: the wait for a model is not under the session's deadline.
DueWithoutLeasing(s) ==
    \/ server[s].phase = "start" /\ server[s].waited >= StartTimeout
    \/ server[s].phase = "failing" /\ server[s].waited >= ErrorTimeout
    \/ server[s].phase = "running" /\ server[s].waited >= IdleTimeout
    \/ server[s].phase \in {"opening", "running", "feeding", "finishing"} /\ server[s].age >= MaxDuration

\* next_wait and remaining: the deadlines of what the handler waits for.
Due(s) ==
    \/ server[s].phase = "start" /\ server[s].waited >= StartTimeout
    \/ server[s].phase = "failing" /\ server[s].waited >= ErrorTimeout
    \/ server[s].phase = "running" /\ server[s].waited >= IdleTimeout
    \/ server[s].phase \in {"leasing", "opening", "running", "feeding", "finishing"} /\ server[s].age >= MaxDuration

\* A timer that is due fires before the clock moves.
Tick ==
    /\ \E s \in Sessions : Live(s) /\ server[s].age <= MaxDuration + ErrorTimeout
    /\ \A s \in Sessions : ~Due(s)
    /\ server' = [s \in Sessions |->
                    IF Live(s) THEN [server[s] EXCEPT !.age = @ + 1, !.waited = @ + 1] ELSE server[s]]
    /\ UNCHANGED client

SessionInit ==
    /\ server = [s \in Sessions |-> NewServer]
    /\ client = [s \in Sessions |-> NewClient]

SessionNext ==
    \/ \E s \in Sessions :
          \/ CreateTranscriptionWs(s) \/ ReceiveStart(s) \/ LeaseModel(s) \/ OpenStream(s) \/ ReceiveMessage(s)
          \/ ReceiveNothing(s) \/ OperationEnds(s) \/ Fed(s) \/ FinishSession(s) \/ ErrorSent(s)
          \/ StartStreaming(s) \/ SendAudio(s) \/ FinishSending(s) \/ NextServerEvent(s) \/ Leave(s)
    \/ Tick

-----------------------------------------------------------------------------
(* The activity record of a session says what became of it, although the   *)
(* deadlines, a disconnection and the last result race one another.  A     *)
(* success is recorded only when the connection took the final transcript  *)
(* and no error follows it; a client that has read the final transcript    *)
(* finds a success, or the deadline that expired while that very event was *)
(* being sent; a record says timeout exactly for a code that names a       *)
(* deadline; a session that is over has a record; and the first event a    *)
(* client sees is `ready` or the reason there is none.                     *)
SessionTruthful ==
    \A s \in Sessions :
        LET seen == client[s].last = "final" \/ "final" \in Range(server[s].outbox)
        IN /\ server[s].record = "success" => server[s].phase = "closed" /\ server[s].error = "none" /\ seen
           /\ server[s].phase = "closed" /\ client[s].last = "final" => server[s].record \in {"success", "timeout"}
           /\ server[s].record = "timeout" <=> server[s].error \in Timeouts
           /\ server[s].phase = "closed" => server[s].record # "open"
           /\ client[s].first \in {"none", "ready", "error"}

(* No session outlives its limits: whoever does not speak, does not read   *)
(* or waits for a model for ever loses the connection, its permit and its  *)
(* lease at the latest when the last error had its time; the pending and   *)
(* connection permits are never overdrawn; and a session holds at most one *)
(* of the two, and a lease only while connected.                           *)
SessionBounded ==
    /\ Cardinality(Pending) <= MaxPending /\ Cardinality(Connected) <= MaxConnections
    /\ \A s \in Sessions :
        /\ server[s].age <= (IF server[s].pending THEN StartTimeout ELSE MaxDuration) + ErrorTimeout
        /\ ~(server[s].pending /\ server[s].permit)
        /\ server[s].lease => server[s].permit
        /\ server[s].phase = "closed" => ~server[s].pending /\ ~server[s].permit /\ ~server[s].lease
=============================================================================
