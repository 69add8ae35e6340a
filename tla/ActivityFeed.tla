----------------------------- MODULE ActivityFeed -----------------------------
(***************************************************************************)
(* Request activity from the server to a screen: the records of            *)
(* ActivityHub (api/activity/store.rs), the owners that complete them      *)
(* (api/activity/lifecycle.rs), the event stream and the pages of          *)
(* api/http_activity.rs, the decoder of the Rust SDK                       *)
(* (orchion-client/src/activity.rs) and the web page that merges fetched   *)
(* pages with streamed events (web/src/features/activity).                 *)
(*                                                                         *)
(* Everything between lock() and the end of the guard's scope is one step. *)
(* A record keeps its id, model, input bytes, outcome, duration and        *)
(* whether it holds a client address; durations are chosen from Durations. *)
(* Events on their way to the page are in the receiver of its event        *)
(* stream, in order; the page's fetches and its stream are independent.    *)
(***************************************************************************)
EXTENDS Integers, Sequences, FiniteSets, SequencesExt

CONSTANTS
    HistoryCapacity,    \* ActivityPolicy::history_capacity
    EventBuffer,        \* EVENT_BUFFER_CAPACITY
    MaxBufferedEvents,  \* MAX_BUFFERED_EVENTS of useActivity
    Limit,              \* ActivityQuery::limit
    Queries,            \* the filters the page asks for
    Models,             \* models a request may name
    Durations,          \* durations of a completed request
    Responses,          \* answers of handlers: a status and an error code
    WebSocketOutcomes,  \* how the websocket's owner may end
    Scenarios           \* bounds of a behaviour: its requests in their order, and how many
                        \* updates of records, lost streams, failed fetches and new queries

ASSUME FeedAssumption ==
    /\ HistoryCapacity \in Nat /\ EventBuffer \in Nat \ {0}
    /\ MaxBufferedEvents \in Nat \ {0} /\ Limit \in 1..200
    /\ \A s \in Scenarios : s.transports \in Seq({"http", "websocket"}) /\ s.extras \in Nat
    /\ Durations \subseteq Nat /\ Durations # {} /\ Queries # {}

VARIABLES
    hub,      \* StoreState and next_id
    requests, \* who completes the record of a request, and its updates
    sse,      \* the event stream of the page
    web,      \* useActivity
    scenario  \* what is left of the behaviour's bounds
feedVars == <<hub, requests, sse, web, scenario>>

-----------------------------------------------------------------------------
(* The store.                                                               *)

\* http_outcome
HttpOutcome(status) ==
    CASE status \in 200..399 -> "success"
      [] status = 429 -> "resource_exhausted"
      [] status \in 400..499 /\ status # 429 -> "client_error"
      [] OTHER -> "server_error"

\* ActivityContext::complete_http: the error's code decides before the status.
Outcome(response) ==
    CASE response.code = "request_timeout" -> "timeout"
      [] response.code = "resource_exhausted" -> "resource_exhausted"
      [] response.code = "server_shutdown" -> "cancelled"
      [] OTHER -> HttpOutcome(response.status)

\* matches_filter
MatchesFilter(entry, query, use_before) ==
    /\ use_before /\ query.before # <<>> => entry.id < query.before[1]
    /\ query.outcome # <<>> => entry.outcome = query.outcome
    /\ query.model # <<>> => entry.model = query.model

\* summary: counts, successes in tenths of a percent, the 95th percentile.
Summary(h) ==
    [active |-> Cardinality(DOMAIN h.active),
     retained |-> Len(h.history),
     success |-> IF h.history = <<>> THEN <<>> ELSE <<(h.successes * 1000) \div Len(h.history)>>,
     p95 |-> IF h.durations = <<>> THEN <<>>
             ELSE <<h.durations[(Len(h.durations) * 95 + 99) \div 100]>>]

\* add_history_metrics: partition_point keeps the durations sorted.
AddHistoryMetrics(h, entry) ==
    LET index == Cardinality({i \in DOMAIN h.durations : h.durations[i] <= entry.duration})
    IN [h EXCEPT !.successes = IF entry.outcome = <<"success">> THEN @ + 1 ELSE @,
                 !.durations = InsertAt(@, index + 1, entry.duration)]

\* remove_history_metrics
RemoveHistoryMetrics(h, entry) ==
    [h EXCEPT !.successes = IF entry.outcome = <<"success">> THEN @ - 1 ELSE @,
              !.durations = RemoveAt(@, CHOOSE i \in DOMAIN @ : @[i] = entry.duration)]

\* flush_pending_input
FlushPendingInput(active) ==
    [active EXCEPT !.entry.bytes = @ + active.pending, !.pending = 0]

\* Publication under the lock: the next event_seq, and the event a receiver gets.
Advance(h) == [h EXCEPT !.seq = @ + 1]
EntryEvent(kind, h, entry) ==
    [type |-> kind, cursor |-> h.seq, entry |-> <<entry>>, active |-> <<>>, summary |-> <<Summary(h)>>]

\* broadcast::Sender::send: a receiver further behind than the buffer has lagged.
Broadcast(event) ==
    sse' = IF sse.phase = "off" \/ sse.lagged THEN sse
           ELSE IF Len(sse.queue) = EventBuffer THEN [sse EXCEPT !.queue = <<>>, !.lagged = TRUE]
           ELSE [sse EXCEPT !.queue = Append(@, event)]

Publish(kind, h, entry) ==
    /\ hub' = Advance(h)
    /\ Broadcast(EntryEvent(kind, Advance(h), entry))

\* ActivityHub::complete: a record that is gone is not completed again.
CompleteRecord(id, outcome, duration) ==
    IF id \notin DOMAIN hub.active THEN UNCHANGED <<hub, sse>>
    ELSE LET entry == [FlushPendingInput(hub.active[id]).entry EXCEPT
                           !.outcome = <<outcome>>, !.duration = duration, !.private = FALSE]
             removed == [hub EXCEPT !.active = Restrict(@, DOMAIN @ \ {id})]
             added == [AddHistoryMetrics(removed, entry) EXCEPT !.history = <<entry>> \o @]
             evicted == IF Len(added.history) <= HistoryCapacity THEN added
                        ELSE [RemoveHistoryMetrics(added, Last(added.history)) EXCEPT
                                 !.history = Front(@)]
         IN Publish("completed", IF HistoryCapacity > 0 THEN evicted ELSE removed, entry)

\* update / mutate_if_present: only a record still in flight changes.
Update(id, active) ==
    IF id \notin DOMAIN hub.active THEN UNCHANGED <<hub, sse>>
    ELSE Publish("updated", [hub EXCEPT !.active[id] = active], active.entry)

\* start_with_live_metadata
Start(transport) ==
    LET id == hub.next
        entry == [id |-> id, transport |-> "http", model |-> <<>>, bytes |-> 0, outcome |-> <<>>,
                  duration |-> 0, private |-> TRUE]
        active == [entry |-> entry, pending |-> 0, recent |-> FALSE, scheduled |-> FALSE]
    IN /\ Publish("started", [hub EXCEPT !.next = @ + 1,
                                 !.active = [i \in DOMAIN @ \cup {id} |-> IF i = id THEN active ELSE @[i]]],
                  entry)
       /\ requests' = Append(requests, [owner |-> "guard", kind |-> transport,
                                        ended |-> <<>>, sent |-> 0, timers |-> 0, response |-> <<>>])

-----------------------------------------------------------------------------
(* The requests: track_activity and the owners it hands a record to.        *)

Ids == DOMAIN requests

Ended(id, outcome) ==
    /\ requests' = [requests EXCEPT ![id].owner = "none", ![id].ended = <<outcome>>]
    /\ \E duration \in Durations : CompleteRecord(id, outcome, duration)
    /\ UNCHANGED <<web, scenario>>

\* track_activity up to next.run: the record and its HttpCompletionGuard.
TrackActivity ==
    /\ scenario.transports # <<>>
    /\ Start(Head(scenario.transports))
    /\ scenario' = [scenario EXCEPT !.transports = Tail(@)]
    /\ UNCHANGED web

\* ActivityContext::set_model
SetModel(id) ==
    /\ requests[id].owner \in {"guard", "websocket"} /\ scenario.extras > 0
    /\ scenario' = [scenario EXCEPT !.extras = @ - 1]
    /\ \E model \in Models : Update(id, [hub.active[id] EXCEPT !.entry.model = <<model>>])
    /\ UNCHANGED <<requests, web>>

\* HttpCompletionGuard::drop: the request future is dropped by its connection.
DropRequest(id) == requests[id].owner = "guard" /\ Ended(id, "cancelled")

\* Faulty variant of Respond: the guard is not disarmed, the record ends with the handler.
RespondArmed(id) ==
    /\ requests[id].owner = "guard" /\ requests[id].kind = "http"
    /\ \E response \in Responses :
          /\ requests' = [requests EXCEPT ![id].owner = "body", ![id].response = <<response>>]
          /\ \E duration \in Durations : CompleteRecord(id, "cancelled", duration)
          /\ UNCHANGED <<web, scenario>>

\* track_response_body: an empty body completes the record, another one owns it.
Respond(id) ==
    /\ requests[id].owner = "guard" /\ requests[id].kind = "http"
    /\ \E response \in Responses :
          \/ Ended(id, Outcome(response))
          \/ /\ requests' = [requests EXCEPT ![id].owner = "body", ![id].response = <<response>>]
             /\ UNCHANGED <<hub, sse, web, scenario>>

\* ActivityBody::poll_frame: the last frame, or the end, completes the record.
BodyEnds(id) ==
    requests[id].owner = "body" /\ Ended(id, Outcome(requests[id].response[1]))

\* HttpResponseCompletion::drop, and poll_frame on an error.
BodyDropped(id) == requests[id].owner = "body" /\ Ended(id, "disconnected")

\* ActivityContext::handoff_to_websocket; the middleware disarms its guard.
HandoffToWebsocket(id) ==
    /\ requests[id].owner = "guard" /\ requests[id].kind = "websocket"
    /\ requests' = [requests EXCEPT ![id].owner = "websocket"]
    /\ Update(id, [hub.active[id] EXCEPT !.entry.transport = "websocket"])
    /\ UNCHANGED <<web, scenario>>

\* flush_input_update: nothing pending, nothing published.
FlushInputUpdate(id, active) ==
    IF active.pending = 0
    THEN hub' = [hub EXCEPT !.active[id] = [active EXCEPT !.scheduled = FALSE]] /\ UNCHANGED sse
    ELSE Update(id, [FlushPendingInput(active) EXCEPT !.scheduled = FALSE, !.recent = TRUE])

\* add_input_bytes: at most one update per INPUT_UPDATE_INTERVAL, the rest by a timer.
AddInputBytes(id) ==
    /\ requests[id].owner = "websocket" /\ scenario.extras > 0
    /\ scenario' = [scenario EXCEPT !.extras = @ - 1]
    /\ \E elapsed \in BOOLEAN :
          LET active == [hub.active[id] EXCEPT !.pending = @ + 1]
              wait == active.recent /\ ~elapsed
          IN /\ requests' = [requests EXCEPT ![id].sent = @ + 1,
                                 ![id].timers = IF wait /\ ~active.scheduled THEN @ + 1 ELSE @]
             /\ IF wait
                THEN hub' = [hub EXCEPT !.active[id] = [active EXCEPT !.scheduled = TRUE]] /\ UNCHANGED sse
                ELSE FlushInputUpdate(id, active)
    /\ UNCHANGED web

\* A timer spawned by add_input_bytes fires; its record may be gone.
InputTimer(id) ==
    /\ requests[id].timers > 0
    /\ requests' = [requests EXCEPT ![id].timers = @ - 1]
    /\ IF id \in DOMAIN hub.active THEN FlushInputUpdate(id, hub.active[id]) ELSE UNCHANGED <<hub, sse>>
    /\ UNCHANGED <<web, scenario>>

\* WebSocketActivity::complete and drop: the first completion stands.
WebSocketEnds(id) ==
    requests[id].owner = "websocket" /\ \E outcome \in WebSocketOutcomes : Ended(id, outcome)

-----------------------------------------------------------------------------
(* The server's pages and events.                                           *)

\* ActivityHub::page with the filter of list_activity.
Page(query) ==
    LET matching == SelectSeq(hub.history, LAMBDA e : MatchesFilter(e, query, TRUE))
        history == SubSeq(matching, 1, IF Len(matching) > Limit THEN Limit ELSE Len(matching))
    IN [cursor |-> hub.seq,
        active |-> {e \in {hub.active[i].entry : i \in DOMAIN hub.active} : MatchesFilter(e, query, FALSE)},
        history |-> history,
        summary |-> Summary(hub),
        next_before |-> IF Len(matching) > Limit THEN <<Last(history).id>> ELSE <<>>]

\* snapshot_event and reset_event.
SnapshotEvent ==
    [type |-> "snapshot", cursor |-> hub.seq, entry |-> <<>>,
     active |-> <<{hub.active[i].entry : i \in DOMAIN hub.active}>>, summary |-> <<Summary(hub)>>]
ResetEvent ==
    [type |-> "reset", cursor |-> hub.seq, entry |-> <<>>, active |-> <<>>, summary |-> <<Summary(hub)>>]

-----------------------------------------------------------------------------
(* What clients make of them.                                               *)

InFlight(entry) == entry.outcome = <<>>

\* decode_event of the SDK: the shapes it accepts.
DecodeEvent(event) ==
    /\ event.summary # <<>>
    /\ CASE event.type = "snapshot" ->
               event.entry = <<>> /\ event.active # <<>> /\ \A e \in event.active[1] : InFlight(e)
         [] event.type \in {"started", "updated"} ->
               event.active = <<>> /\ event.entry # <<>> /\ InFlight(event.entry[1])
         [] event.type = "completed" ->
               event.active = <<>> /\ event.entry # <<>> /\ ~InFlight(event.entry[1])
         [] event.type = "reset" -> event.entry = <<>> /\ event.active = <<>>

\* matchesQuery of the page.
MatchesQuery(entry, query) ==
    /\ query.before # <<>> /\ ~InFlight(entry) => entry.id < query.before[1]
    /\ query.outcome # <<>> => entry.outcome = query.outcome
    /\ query.model # <<>> => entry.model = query.model

\* reduceActivityEvent
ReduceActivityEvent(page, event, query) ==
    LET moved == [page EXCEPT !.cursor = event.cursor, !.summary = event.summary[1]]
        without == {e \in page.active : e.id # event.entry[1].id}
    IN CASE event.cursor <= page.cursor -> page
         [] event.cursor > page.cursor /\ event.type = "snapshot" ->
               [moved EXCEPT !.active = {e \in event.active[1] : MatchesQuery(e, query)}]
         [] event.cursor > page.cursor /\ event.type = "reset" -> moved
         [] /\ event.cursor > page.cursor /\ event.type \in {"started", "updated"}
            /\ MatchesQuery(event.entry[1], query) ->
               [moved EXCEPT !.active = without \cup {event.entry[1]}]
         [] OTHER -> [moved EXCEPT !.active = without]

\* replayActivityEvents
ReplayActivityEvents(page, events, query) ==
    FoldLeft(LAMBDA p, e : ReduceActivityEvent(p, e, query), page, events)

\* scrubCompletedActivityEvents
ScrubCompletedActivityEvents(events, id) ==
    LET kept == SelectSeq(events, LAMBDA e : e.entry = <<>> \/ e.entry[1].id # id)
    IN [i \in DOMAIN kept |->
            IF kept[i].active = <<>> THEN kept[i]
            ELSE [kept[i] EXCEPT !.active = <<{e \in @[1] : e.id # id}>>]]

-----------------------------------------------------------------------------
(* useActivity.                                                             *)

NoPage == [page |-> <<>>, buffered |-> <<>>, fetch |-> "sent", reply |-> <<>>, timer |-> FALSE,
           error |-> FALSE, gap |-> "none", done |-> {}, refused |-> FALSE]

\* The stream's callback: scrub, buffer, reduce, and refresh what events do not carry.
OnEvent(w, event) ==
    LET completed == IF event.type = "completed" THEN {event.entry[1].id} ELSE {}
        scrubbed == IF completed = {} THEN w.buffered
                    ELSE ScrubCompletedActivityEvents(w.buffered, event.entry[1].id)
        pushed == Append(scrubbed, event)
        over == Len(pushed) > MaxBufferedEvents
    IN [w EXCEPT
            !.buffered = IF over THEN Tail(pushed) ELSE pushed,
            !.gap = IF over \/ event.type = "reset" THEN "open" ELSE @,
            !.page = IF @ = <<>> THEN @ ELSE <<ReduceActivityEvent(@[1], event, w.query)>>,
            !.timer = @ \/ over \/ event.type \in {"snapshot", "completed", "reset"},
            !.done = @ \cup completed,
            !.refused = @ \/ ~DecodeEvent(event)]

\* activity_events subscribes before it reads the snapshot.
Subscribe ==
    /\ sse.phase = "off"
    /\ sse' = [phase |-> "subscribed", queue |-> <<>>, lagged |-> FALSE]
    /\ UNCHANGED <<hub, requests, web, scenario>>

YieldSnapshot ==
    /\ sse.phase = "subscribed"
    /\ web' = OnEvent(web, SnapshotEvent)
    /\ sse' = [sse EXCEPT !.phase = "open"]
    /\ UNCHANGED <<hub, requests, scenario>>

\* The loop of activity_events: the next event, or a new subscription after a lag.
YieldEvent ==
    /\ sse.phase = "open" /\ sse.queue # <<>>
    /\ web' = OnEvent(web, Head(sse.queue))
    /\ sse' = [sse EXCEPT !.queue = Tail(@)]
    /\ UNCHANGED <<hub, requests, scenario>>

\* reset_subscription: the new receiver first, then the cursor of the reset.
Resubscribe ==
    /\ sse.phase = "open" /\ sse.lagged
    /\ sse' = [phase |-> "resetting", queue |-> <<>>, lagged |-> FALSE]
    /\ UNCHANGED <<hub, requests, web, scenario>>

YieldReset ==
    /\ sse.phase = "resetting"
    /\ web' = OnEvent(web, ResetEvent)
    /\ sse' = [sse EXCEPT !.phase = "open"]
    /\ UNCHANGED <<hub, requests, scenario>>

\* The event stream ends or breaks; run() connects again after its delay.
StreamLost ==
    /\ sse.phase # "off" /\ scenario.extras > 0
    /\ scenario' = [scenario EXCEPT !.extras = @ - 1]
    /\ sse' = [phase |-> "off", queue |-> <<>>, lagged |-> FALSE]
    /\ UNCHANGED <<hub, requests, web>>

\* list_activity answers the request of the latest effect.
FetchAnswered ==
    /\ web.fetch = "sent"
    /\ web' = [web EXCEPT !.fetch = "answered", !.reply = <<Page(web.query)>>]
    /\ UNCHANGED <<hub, requests, sse, scenario>>

\* Faulty variant of FetchMerged: the fetched page replaces the events it overtook.
FetchReplaces ==
    /\ web.fetch = "answered"
    /\ web' = [web EXCEPT !.fetch = "idle", !.reply = <<>>, !.error = FALSE, !.page = web.reply]
    /\ UNCHANGED <<hub, requests, sse, scenario>>

\* The then branch: buffered events newer than the page are replayed on it.
FetchMerged ==
    /\ web.fetch = "answered"
    /\ LET next == web.reply[1]
           newer == SelectSeq(web.buffered, LAMBDA e : e.cursor > next.cursor)
           merged == ReplayActivityEvents(next, newer, web.query)
       IN web' = [web EXCEPT !.fetch = "idle", !.reply = <<>>, !.error = FALSE, !.buffered = newer,
                             !.gap = IF @ = "closing" THEN "none" ELSE @,
                             !.page = IF @ # <<>> /\ @[1].cursor > merged.cursor THEN @ ELSE <<merged>>]
    /\ UNCHANGED <<hub, requests, sse, scenario>>

FetchFails ==
    /\ web.fetch # "idle" /\ scenario.extras > 0
    /\ scenario' = [scenario EXCEPT !.extras = @ - 1]
    /\ web' = [web EXCEPT !.fetch = "idle", !.reply = <<>>, !.error = TRUE,
                          !.gap = IF @ = "closing" THEN "open" ELSE @]
    /\ UNCHANGED <<hub, requests, sse>>

\* The refresh timer: a new effect, whose fetch supersedes the one in flight.
Refresh ==
    /\ web.timer
    /\ web' = [web EXCEPT !.timer = FALSE, !.fetch = "sent", !.reply = <<>>,
                          !.gap = IF @ = "open" THEN "closing" ELSE @]
    /\ UNCHANGED <<hub, requests, sse, scenario>>

\* Another query: page and buffer are dropped, fetch and stream start again.
ChangeQuery ==
    /\ scenario.extras > 0
    /\ scenario' = [scenario EXCEPT !.extras = @ - 1]
    /\ \E query \in Queries \ {web.query} : web' = [NoPage EXCEPT !.done = web.done] @@ [query |-> query]
    /\ sse' = [phase |-> "off", queue |-> <<>>, lagged |-> FALSE]
    /\ UNCHANGED <<hub, requests>>

-----------------------------------------------------------------------------
\* The page opens without a filter.
NoFilter == [before |-> <<>>, outcome |-> <<>>, model |-> <<>>]
FeedInit ==
    /\ hub = [active |-> <<>>, history |-> <<>>, successes |-> 0, durations |-> <<>>, seq |-> 0, next |-> 1]
    /\ requests = <<>> /\ scenario \in Scenarios
    /\ sse = [phase |-> "off", queue |-> <<>>, lagged |-> FALSE]
    /\ web = NoPage @@ [query |-> NoFilter]

RequestStep(id) ==
    \/ SetModel(id) \/ DropRequest(id) \/ Respond(id) \/ BodyEnds(id) \/ BodyDropped(id)
    \/ HandoffToWebsocket(id) \/ AddInputBytes(id) \/ InputTimer(id) \/ WebSocketEnds(id)

FeedNext ==
    \/ TrackActivity
    \/ \E id \in Ids : RequestStep(id)
    \/ Subscribe \/ YieldSnapshot \/ YieldEvent \/ Resubscribe \/ YieldReset \/ StreamLost
    \/ FetchAnswered \/ FetchMerged \/ FetchFails \/ Refresh \/ ChangeQuery

-----------------------------------------------------------------------------
(* A record is in flight exactly while one owner is left to complete it, and *)
(* what the history keeps is how the request really ended and every input    *)
(* byte it received, although byte counts are published by timers that race  *)
(* the completion; the running metrics describe the retained records         *)
(* (ActivityHub::complete, add_input_bytes, remove_history_metrics).         *)
RecordsTruthful ==
    /\ \A id \in Ids : (id \in DOMAIN hub.active) <=> (requests[id].owner # "none")
    /\ \A i \in DOMAIN hub.history :
          LET entry == hub.history[i]
          IN entry.outcome = requests[entry.id].ended /\ entry.bytes = requests[entry.id].sent
    /\ hub.successes = Len(SelectSeq(hub.history, LAMBDA e : e.outcome = <<"success">>))
    /\ SortSeq(hub.durations, LAMBDA a, b : a < b) =
         SortSeq([i \in DOMAIN hub.history |-> hub.history[i].duration], LAMBDA a, b : a < b)
    /\ \A i \in 1..(Len(hub.durations) - 1) : hub.durations[i] <= hub.durations[i + 1]

(* Once nothing is on its way, a page that shows no error shows what the     *)
(* server would answer now, whatever fetches, events, lags, reconnections    *)
(* and changed queries it was built from (useActivity, reduceActivityEvent). *)
FeedConverges ==
    (/\ sse.phase = "open" /\ sse.queue = <<>> /\ ~sse.lagged
     /\ web.fetch = "idle" /\ ~web.timer /\ ~web.error)
    => web.page = <<Page(web.query)>>

(* After the page has heard that a request completed, no later merge brings  *)
(* the request, with its client's address, back among the live ones, unless  *)
(* events were lost (a reset or a full buffer) and the page that makes up    *)
(* for them has not come yet; and the SDK's decoder refuses no event         *)
(* (scrubCompletedActivityEvents, decode_event).                             *)
CompletedStaysGone ==
    /\ ~web.refused
    /\ web.gap = "none" =>
          \A id \in web.done :
             /\ web.page # <<>> => \A e \in web.page[1].active : e.id # id
             /\ \A i \in DOMAIN web.buffered :
                   LET event == web.buffered[i]
                   IN /\ event.active # <<>> => \A e \in event.active[1] : e.id # id
                      /\ event.entry # <<>> /\ event.entry[1].id = id => ~event.entry[1].private
=============================================================================
