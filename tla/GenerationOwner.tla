-------------------------- MODULE GenerationOwner --------------------------
(***************************************************************************)
(* The tasks of the server that own a use of an LLM engine                 *)
(* (apps/orchion-server/src/infrastructure/orchion.rs, application/llm.rs):*)
(* own_llm_generation (kind "chat"), own_llm_choice_generation ("choice"), *)
(* own_llm_embedding ("embed") and the two token counts ("count").  Every  *)
(* one of them takes a lease of the engine, a reservation of its worker,   *)
(* an execution slot of the engine and a share of the engine's inference   *)
(* epoch, runs the request while the client, two deadlines and shutdown    *)
(* may interrupt it at every await, waits for the worker's                 *)
(* acknowledgement, gives everything back and only then reports.           *)
(*                                                                         *)
(* The engine's worker is LlamaScheduler and the cache is ModelCache; here *)
(* both are reduced to what the owners see of them.                        *)
(***************************************************************************)
EXTENDS Naturals, Sequences, FiniteSets

CONSTANTS
    Requests, Models,
    Slots,              \* parallel_sequences: execution slots of one engine
    Permits,            \* max_concurrent_inference
    QueueCap,           \* event_queue_capacity
    MaxDeltas,          \* bound: deltas of one generation
    MaxLoads,           \* bound: engine loads of one model
    Mixes,              \* the kinds of request the tasks of an instance may make
    Placements,         \* and the models they may name
    Faults              \* of "invalid", "deadline", "break", "error", "cancel"

Kinds == {"chat", "choice", "embed", "count", "none"}

ASSUME LimitsAssumption ==
    /\ Slots \in Nat \ {0} /\ Permits \in Nat \ {0}
    /\ QueueCap \in Nat \ {0} /\ MaxLoads \in Nat \ {0} /\ MaxDeltas \in Nat
    /\ Mixes \subseteq [Requests -> Kinds] /\ Placements \subseteq [Requests -> Models]

VARIABLES
    kind, model,        \* what a request asks for
    owner,              \* the owner task of a request
    client,             \* its caller and reader
    cancelled, notified, cause, \* the cancellation flag, Notify permit and first cause
    queue, final,       \* the events channel and the terminal oneshot
    work, stop, deltas, \* the request in the engine's worker
    engine,             \* the resident engine of a model
    lease, slot, epoch, \* what a request holds
    unloading,          \* the requests that wait in ModelCache::unload
    outcome,            \* what the InferenceLifecycle recorded
    shutdown

task    == <<owner, client, cancelled, notified, cause>>
channel == <<queue, final>>
worker  == <<work, stop, deltas>>
held    == <<lease, slot, epoch>>
cache   == <<engine, unloading>>
vars == <<kind, model, task, channel, worker, held, cache, outcome, shutdown>>

Errors == {"Timeout", "Cancelled", "ShuttingDown", "Core", "Internal"}
Outcomes == {"none", "active", "Success", "ServerError", "ClientError",
             "Cancelled", "Timeout", "ResourceExhausted"}

\* One owner: where it is, the first terminal error, whether it still has a
\* reader and forwards content, the termination reason it has seen, whether
\* that was the end of the whole generation or its failure, the event it
\* is sending and where it goes after the acknowledgement and the unload.
NewOwner == [pc |-> "idle", err |-> "none", connected |-> TRUE, forward |-> TRUE,
             reason |-> "none", terminal |-> FALSE, failed |-> FALSE,
             item |-> "none", after |-> "none", broken |-> 0, tries |-> 0]

Init ==
    /\ kind \in Mixes
    /\ model \in Placements
    /\ owner = [r \in Requests |-> NewOwner]
    /\ client = [r \in Requests |->
                   [st |-> IF kind[r] = "none" THEN "ended" ELSE "idle", got |-> "none"]]
    /\ cancelled = [r \in Requests |-> FALSE]
    /\ notified = [r \in Requests |-> FALSE]
    /\ cause = [r \in Requests |-> "none"]
    /\ queue = [r \in Requests |-> <<>>]
    /\ final = [r \in Requests |-> "open"]
    /\ work = [r \in Requests |-> "none"]
    /\ stop = [r \in Requests |-> FALSE]
    /\ deltas = [r \in Requests |-> 0]
    /\ engine = [m \in Models |-> [inst |-> 0, loads |-> 0, healthy |-> TRUE]]
    /\ lease = [r \in Requests |-> 0]
    /\ slot = [r \in Requests |-> FALSE]
    /\ epoch = [r \in Requests |-> FALSE]
    /\ unloading = {}
    /\ outcome = [r \in Requests |-> "none"]
    /\ shutdown = FALSE

-----------------------------------------------------------------------------
(* Helpers                                                                 *)

At(r, p) == owner[r].pc = p
Goto(r, p) == owner' = [owner EXCEPT ![r].pc = p]
OnModel(m) == {r \in Requests : model[r] = m}
Lenders(m) == {r \in OnModel(m) : lease[r] # 0}
Fenced(m) == \E r \in unloading : model[r] = m
EpochsInUse == {m \in Models : \E r \in OnModel(m) : epoch[r]}
Healthy(r) == engine[model[r]].healthy

\* Dropping an ActiveModel: lease, slot and share of the epoch.
DropActive(r) ==
    /\ lease' = [lease EXCEPT ![r] = 0]
    /\ slot' = [slot EXCEPT ![r] = FALSE]
    /\ epoch' = [epoch EXCEPT ![r] = FALSE]

\* The lifecycle ends with the outcome it is given, or with Cancelled when it
\* is dropped.
Ends(r, result) == outcome' = [outcome EXCEPT ![r] = result]

\* The owner's task returns: of its locals only what it found broken is kept,
\* for the properties.
Returns(r) ==
    /\ owner' = [owner EXCEPT ![r] = [NewOwner EXCEPT !.pc = "done", !.broken = owner[r].broken]]
    /\ notified' = [notified EXCEPT ![r] = FALSE]
    /\ stop' = [stop EXCEPT ![r] = FALSE]
    /\ deltas' = [deltas EXCEPT ![r] = 0]

\* Which interruption a select of the owner takes: the deadline, the client's
\* notification (consumed), or shutdown.
Interrupt(r, e) ==
    \/ /\ e = "Timeout" /\ "deadline" \in Faults
       /\ UNCHANGED notified
    \/ /\ e = "Cancelled" /\ notified[r]
       /\ notified' = [notified EXCEPT ![r] = FALSE]
    \/ /\ e = "ShuttingDown" /\ shutdown
       /\ UNCHANGED notified

-----------------------------------------------------------------------------
(* The call: start_generation, start_choice_generation, create_embeddings, *)
(* count_input_tokens, count_semantic_input_tokens                         *)

Call(r) ==
    /\ client[r].st = "idle" /\ ~shutdown
    /\ client' = [client EXCEPT ![r].st = "waiting"]
    /\ Goto(r, "start")
    /\ Ends(r, "active")
    /\ UNCHANGED <<kind, model, cancelled, notified, cause, channel, worker, held, cache, shutdown>>

CallRefused(r) ==
    /\ client[r].st = "idle" /\ shutdown
    /\ client' = [client EXCEPT ![r] = [st |-> "ended", got |-> "err"]]
    /\ UNCHANGED <<kind, model, owner, cancelled, notified, cause, channel, worker, held,
                   cache, outcome, shutdown>>

\* A request that fails validation.  start_generation has its lifecycle open
\* by then and drops it; the choice generation opens its own later; the other
\* operations close it as a client error.
CallInvalid(r) ==
    /\ "invalid" \in Faults
    /\ client[r].st = "idle" /\ ~shutdown
    /\ client' = [client EXCEPT ![r] = [st |-> "ended", got |-> "err"]]
    /\ Ends(r, CASE kind[r] = "chat" -> "Cancelled"
                 [] kind[r] = "choice" -> "none"
                 [] OTHER -> "ClientError")
    /\ UNCHANGED <<kind, model, owner, cancelled, notified, cause, channel, worker, held,
                   cache, shutdown>>

\* The caller's future is dropped while it waits: PendingManagedReadiness or
\* PendingEmbeddingRequest cancels the owner.  A token count has no owner
\* task and ends with its future (LeaveCount).
Leave(r) ==
    /\ "cancel" \in Faults
    /\ client[r].st = "waiting" /\ kind[r] # "count"
    /\ client' = [client EXCEPT ![r].st = "gone"]
    /\ cancelled' = [cancelled EXCEPT ![r] = TRUE]
    /\ notified' = [notified EXCEPT ![r] = @ \/ ~cancelled[r]]
    /\ UNCHANGED <<kind, model, owner, cause, channel, worker, held, cache, outcome, shutdown>>

-----------------------------------------------------------------------------
(* Admission: AppState::llm, the worker's reservation, ModelLease::activate *)

\* The owner subscribes to shutdown and looks at it once; a token count has
\* done so in the call.
Start(r) ==
    /\ At(r, "start")
    /\ owner' = [owner EXCEPT ![r].pc = IF shutdown /\ kind[r] # "count" THEN "answer" ELSE "llm",
                              ![r].err = IF shutdown /\ kind[r] # "count" THEN "ShuttingDown" ELSE @]
    /\ UNCHANGED <<kind, model, client, cancelled, notified, cause, channel, worker, held,
                   cache, outcome, shutdown>>

\* get_or_load: a fenced model waits, a resident one is lent, an absent one
\* is provisioned and loaded.
Lend(r) ==
    LET m == model[r]
        loaded == IF engine[m].inst # 0 THEN engine[m]
                  ELSE [inst |-> engine[m].loads + 1, loads |-> engine[m].loads + 1, healthy |-> TRUE]
    IN /\ At(r, "llm") /\ ~Fenced(m)
       /\ engine[m].inst # 0 \/ engine[m].loads < MaxLoads
       /\ engine' = [engine EXCEPT ![m] = loaded]
       /\ lease' = [lease EXCEPT ![r] = loaded.inst]
       /\ Goto(r, "health")
       /\ UNCHANGED <<kind, model, client, cancelled, notified, cause, channel, worker, slot,
                      epoch, unloading, outcome, shutdown>>

LoadFails(r) ==
    /\ At(r, "llm") /\ ~Fenced(model[r]) /\ engine[model[r]].inst = 0
    /\ "error" \in Faults \/ engine[model[r]].loads = MaxLoads
    /\ owner' = [owner EXCEPT ![r].pc = "answer", ![r].err = "Internal"]
    /\ UNCHANGED <<kind, model, client, cancelled, notified, cause, channel, worker, held,
                   cache, outcome, shutdown>>

\* An unhealthy engine is given back and unloaded, and the load tried again.
CheckHealth(r) ==
    /\ At(r, "health")
    /\ IF Healthy(r)
       THEN /\ Goto(r, IF kind[r] = "count" THEN "slot" ELSE "reserve")
            /\ UNCHANGED <<lease, unloading>>
       ELSE /\ Goto(r, "reload")
            /\ lease' = [lease EXCEPT ![r] = 0]
            /\ unloading' = unloading \cup {r}
    /\ UNCHANGED <<kind, model, client, cancelled, notified, cause, channel, worker, slot,
                   epoch, engine, outcome, shutdown>>

\* ModelCache::unload has drained the leases and destroyed what is resident
\* under the key, whichever load that came from.
Unloaded(r) ==
    /\ r \in unloading /\ Lenders(model[r]) = {}
    /\ engine' = [engine EXCEPT ![model[r]].inst = 0]
    /\ unloading' = unloading \ {r}

Reloaded(r) ==
    /\ At(r, "reload") /\ Unloaded(r)
    /\ owner' = [owner EXCEPT ![r] =
         IF @.tries = 1 THEN [@ EXCEPT !.pc = "answer", !.err = "Internal"]
         ELSE [@ EXCEPT !.pc = "llm", !.tries = 1]]
    /\ UNCHANGED <<kind, model, client, cancelled, notified, cause, channel, worker, held,
                   outcome, shutdown>>

Reserve(r) ==
    /\ At(r, "reserve")
    /\ Goto(r, "slot")
    /\ work' = [work EXCEPT ![r] = "reserved"]
    /\ UNCHANGED <<kind, model, client, cancelled, notified, cause, channel, stop, deltas,
                   held, cache, outcome, shutdown>>

ReserveFails(r) ==
    /\ At(r, "reserve")
    /\ "error" \in Faults \/ ~Healthy(r)
    /\ owner' = [owner EXCEPT ![r].pc = "answer", ![r].err = "Core"]
    /\ DropActive(r)
    /\ UNCHANGED <<kind, model, client, cancelled, notified, cause, channel, worker,
                   cache, outcome, shutdown>>

\* activate, and run for a token count: a slot of the engine.
AcquireSlot(r) ==
    /\ At(r, "slot")
    /\ Cardinality({q \in OnModel(model[r]) : slot[q]}) < Slots
    /\ slot' = [slot EXCEPT ![r] = TRUE]
    /\ Goto(r, IF kind[r] = "count" THEN "counting" ELSE "epoch")
    /\ work' = [work EXCEPT ![r] = IF kind[r] = "count" THEN "running" ELSE @]
    /\ UNCHANGED <<kind, model, client, cancelled, notified, cause, channel, stop, deltas,
                   lease, epoch, cache, outcome, shutdown>>

\* activate: a share of the engine's epoch, or a new epoch for a permit.
AcquireEpoch(r) ==
    /\ At(r, "epoch")
    /\ model[r] \in EpochsInUse \/ Cardinality(EpochsInUse) < Permits
    /\ epoch' = [epoch EXCEPT ![r] = TRUE]
    /\ Goto(r, "check")
    /\ UNCHANGED <<kind, model, client, cancelled, notified, cause, channel, worker,
                   lease, slot, cache, outcome, shutdown>>

\* The selects of the admission lose to a deadline, the client or shutdown:
\* what the dropped futures held is released.  A choice generation waits for
\* its reservations to be acknowledged, the others abort theirs.
Admitting == {"llm", "reload", "reserve", "slot", "epoch"}
AdmissionInterrupted(r, e) ==
    LET waits == kind[r] = "choice" /\ work[r] = "reserved"
    IN /\ owner[r].pc \in Admitting /\ Interrupt(r, e)
       /\ owner' = [owner EXCEPT ![r].pc = IF waits THEN "ack" ELSE "answer",
                                 ![r].err = e, ![r].after = "answer"]
       /\ stop' = [stop EXCEPT ![r] = waits]
       /\ work' = [work EXCEPT ![r] = IF waits THEN @ ELSE "none"]
       /\ unloading' = unloading \ {r}
       /\ DropActive(r)
       /\ UNCHANGED <<kind, model, client, cancelled, cause, channel, deltas, engine,
                      outcome, shutdown>>

\* The last look before the commit; own_llm_embedding looks at the
\* cancellation only.
MayCommit(r) == ~cancelled[r] /\ (kind[r] = "embed" \/ ~shutdown)
BeginCommit(r) ==
    /\ At(r, "check") /\ MayCommit(r)
    /\ Goto(r, "commit")
    /\ work' = [work EXCEPT ![r] = "preparing"]
    /\ UNCHANGED <<kind, model, client, cancelled, notified, cause, channel, stop, deltas,
                   held, cache, outcome, shutdown>>

RefuseCommit(r) ==
    LET e == IF shutdown /\ kind[r] # "embed" THEN "ShuttingDown" ELSE "Cancelled"
    IN /\ At(r, "check") /\ ~MayCommit(r)
       /\ IF kind[r] = "choice"
          THEN /\ owner' = [owner EXCEPT ![r].pc = "ack", ![r].err = e, ![r].after = "drop"]
               /\ stop' = [stop EXCEPT ![r] = TRUE]
               /\ UNCHANGED <<work, held>>
          ELSE /\ owner' = [owner EXCEPT ![r].pc = "answer", ![r].err = e]
               /\ work' = [work EXCEPT ![r] = "none"]
               /\ DropActive(r) /\ UNCHANGED stop
       /\ UNCHANGED <<kind, model, client, cancelled, notified, cause, channel, deltas,
                      cache, outcome, shutdown>>

-----------------------------------------------------------------------------
(* Commit and readiness                                                    *)

Committed(r) ==
    /\ At(r, "commit")
    /\ work' = [work EXCEPT ![r] = "running"]
    /\ Goto(r, IF kind[r] = "embed" THEN "next" ELSE "ready")
    /\ UNCHANGED <<kind, model, client, cancelled, notified, cause, channel, stop, deltas,
                   held, cache, outcome, shutdown>>

\* The worker refuses: the reservation's commit has taken the
\* acknowledgement before it returns the error.
CommitFails(r) ==
    /\ At(r, "commit")
    /\ "error" \in Faults \/ ~Healthy(r)
    /\ owner' = [owner EXCEPT ![r].pc = "retire", ![r].err = "Core", ![r].after = "answer"]
    /\ work' = [work EXCEPT ![r] = "none"]
    /\ UNCHANGED <<kind, model, client, cancelled, notified, cause, channel, stop, deltas,
                   held, cache, outcome, shutdown>>

\* The commit loses its select and is dropped, then cancelled and awaited.
\* The choices a ChoiceReservation had committed by then have lost their
\* acknowledgement: cancel_and_wait does not wait for them ("adrift").
CommitInterrupted(r, e) ==
    /\ At(r, "commit") /\ Interrupt(r, e)
    /\ owner' = [owner EXCEPT ![r].pc = "ack", ![r].err = e, ![r].after = "answer"]
    /\ stop' = [stop EXCEPT ![r] = TRUE]
    /\ \E w \in {"preparing"} \cup (IF kind[r] = "choice" THEN {"adrift"} ELSE {}) :
         work' = [work EXCEPT ![r] = w]
    /\ UNCHANGED <<kind, model, client, cancelled, cause, channel, deltas, held, cache,
                   outcome, shutdown>>

\* ready.send: the caller becomes the reader, or it has gone.
SendReady(r) ==
    /\ At(r, "ready")
    /\ IF client[r].st = "waiting"
       THEN /\ client' = [client EXCEPT ![r].st = "holding"]
            /\ Goto(r, IF kind[r] = "choice" THEN "top" ELSE "next")
            /\ UNCHANGED stop
       ELSE /\ owner' = [owner EXCEPT ![r].pc = "ack", ![r].after = "quit"]
            /\ stop' = [stop EXCEPT ![r] = TRUE]
            /\ UNCHANGED client
    /\ UNCHANGED <<kind, model, cancelled, notified, cause, channel, work, deltas, held,
                   cache, outcome, shutdown>>

-----------------------------------------------------------------------------
(* The events of the engine and the loops that forward them                *)

\* What generation.next(), or operation.result(), may return, with the
\* worker's state after it: LlmGeneration::next and LlmChoiceGeneration::next
\* over the worker's channels.
Emits(r) ==
    LET fails == "error" \in Faults \/ ~Healthy(r)
        delta == IF deltas[r] < MaxDeltas THEN {<<"delta", "running">>} ELSE {}
        ends(w) == {<<"stop", w>>} \cup (IF stop[r] THEN {<<"cancelled", w>>} ELSE {})
    IN CASE kind[r] = "chat" -> delta \cup ends("over")
                                \cup (IF fails THEN {<<"error", "over">>} ELSE {})
         [] kind[r] = "embed" -> {<<"result", "over">>}
                                \cup (IF fails THEN {<<"error", "over">>} ELSE {})
         [] kind[r] = "choice" ->
              (CASE work[r] = "running" -> delta \cup ends("child")
                       \cup (IF fails THEN {<<"childfail", "childbad">>} ELSE {})
                 [] work[r] = "child" -> {<<"all", "over">>}
                 [] work[r] = "childbad" -> {<<"failed", "over">>}
                 [] OTHER -> {})
              \cup (IF Healthy(r) THEN {} ELSE {<<"none", "over">>})

Stops(o) == [o EXCEPT !.pc = "ack", !.after = "deliver"]
FirstError(o, e) == IF o.err = "none" THEN [o EXCEPT !.err = e] ELSE o
FirstReason(o, e) == IF o.reason = "none" THEN [o EXCEPT !.reason = e] ELSE o

\* own_llm_generation's match on an event.
ChatEvent(o, e) ==
    CASE e \in {"stop", "cancelled"} -> Stops([o EXCEPT !.reason = e, !.terminal = TRUE])
      [] e = "error" -> Stops(FirstError(o, "Core"))
      [] e = "delta" -> IF o.forward THEN [o EXCEPT !.pc = "send", !.item = e] ELSE o

\* ChoiceAggregateTerminal::observe.
Observe(o, e) ==
    CASE e \in {"stop", "cancelled"} -> FirstReason(o, e)
      [] e = "all" -> FirstReason([o EXCEPT !.terminal = TRUE], "error")
      [] e = "failed" -> [o EXCEPT !.terminal = TRUE, !.failed = TRUE, !.reason = "error"]
      [] OTHER -> o

\* own_llm_choice_generation's match: the end of the channel, a child's
\* failure (kept to itself), and the events a reader gets.
ChoiceEvent(o, e) ==
    LET seen == Observe(o, e)
    IN CASE e = "none" -> Stops([o EXCEPT !.err = "Internal"])
         [] e = "childfail" -> [seen EXCEPT !.pc = "top"]
         [] OTHER -> IF o.connected THEN [seen EXCEPT !.pc = "send", !.item = e]
                     ELSE IF e \in {"all", "failed"} THEN Stops(seen)
                     ELSE [seen EXCEPT !.pc = "top"]

EmbedEvent(o, e) == Stops(IF e = "error" THEN [o EXCEPT !.err = "Core"] ELSE o)

Next1(r) ==
    /\ At(r, "next")
    /\ \E ev \in Emits(r) :
         /\ owner' = [owner EXCEPT ![r] = CASE kind[r] = "chat" -> ChatEvent(@, ev[1])
                                            [] kind[r] = "choice" -> ChoiceEvent(@, ev[1])
                                            [] OTHER -> EmbedEvent(@, ev[1])]
         /\ work' = [work EXCEPT ![r] = ev[2]]
         /\ deltas' = [deltas EXCEPT ![r] = IF ev[1] = "delta" THEN @ + 1 ELSE @]
         /\ stop' = [stop EXCEPT ![r] = @ \/ (kind[r] = "embed" /\ ev[1] = "error")]
    /\ UNCHANGED <<kind, model, client, cancelled, notified, cause, channel, held, cache,
                   outcome, shutdown>>

\* The choice loop looks at the flag at the top of every turn.
Top(r) ==
    /\ At(r, "top")
    /\ owner' = [owner EXCEPT ![r].pc = "next", ![r].connected = @ /\ ~cancelled[r]]
    /\ stop' = [stop EXCEPT ![r] = @ \/ (cancelled[r] /\ owner[r].connected)]
    /\ UNCHANGED <<kind, model, client, cancelled, notified, cause, channel, work, deltas,
                   held, cache, outcome, shutdown>>

\* Faulty variant of Interrupted: a deadline forgets the chat client too.
InterruptedForgetsClient(r, o, e) ==
    CASE kind[r] = "embed" -> Stops([o EXCEPT !.err = e])
      [] kind[r] = "chat" -> [o EXCEPT !.pc = "next", !.connected = FALSE, !.forward = FALSE,
                                       !.err = IF e = "Cancelled" THEN @ ELSE e]
      [] OTHER -> [o EXCEPT !.pc = IF o.pc = "next" THEN "top" ELSE @, !.connected = FALSE,
                            !.err = IF e = "Cancelled" THEN @ ELSE e]

\* What an interruption of the loop does to the owner: a client that leaves
\* is no longer served, a deadline or shutdown is the terminal error.  The
\* choice owner stops serving its reader when it was interrupted in a send.
Interrupted(r, o, e) ==
    CASE kind[r] = "embed" -> Stops([o EXCEPT !.err = e])
      [] kind[r] = "chat" /\ e = "Cancelled" ->
           [o EXCEPT !.pc = "next", !.connected = FALSE, !.forward = FALSE]
      [] kind[r] = "chat" /\ e # "Cancelled" ->
           [o EXCEPT !.pc = "next", !.forward = FALSE, !.err = e]
      [] OTHER -> [o EXCEPT !.pc = IF o.pc = "next" THEN "top" ELSE @,
                            !.connected = @ /\ e # "Cancelled" /\ o.pc = "next",
                            !.err = IF e = "Cancelled" THEN @ ELSE e]

\* Faulty variant of Listens: a blocked send hears the client only.
ListensInNextOnly(r, e) ==
    LET o == owner[r]
    IN CASE kind[r] = "embed" -> TRUE
         [] kind[r] # "embed" /\ e # "Cancelled" -> o.err = "none" /\ o.pc = "next"
         [] kind[r] = "chat" /\ e = "Cancelled" -> o.forward
         [] OTHER -> o.connected

\* Which interruptions the selects of the loop listen to.
Listens(r, e) ==
    LET o == owner[r]
    IN CASE kind[r] = "embed" -> TRUE
         [] kind[r] # "embed" /\ e # "Cancelled" -> o.err = "none"
         [] kind[r] = "chat" /\ e = "Cancelled" -> o.forward
         [] OTHER -> o.connected

\* After a send of the choice loop: the loop ends with the terminal event.
AfterSend(o) == LET sent == [o EXCEPT !.item = "none"]
                IN IF o.pc # "send" THEN sent
                   ELSE IF o.item \in {"all", "failed"} THEN Stops(sent)
                   ELSE [sent EXCEPT !.pc = "top"]

LoopInterrupted(r, e) ==
    /\ owner[r].pc \in {"next", "send"} /\ Listens(r, e) /\ Interrupt(r, e)
    /\ owner' = [owner EXCEPT ![r] = AfterSend(Interrupted(r, @, e))]
    /\ stop' = [stop EXCEPT ![r] = TRUE]
    /\ UNCHANGED <<kind, model, client, cancelled, cause, channel, work, deltas, held,
                   cache, outcome, shutdown>>

Send(r) ==
    /\ At(r, "send") /\ client[r].st = "holding" /\ Len(queue[r]) < QueueCap
    /\ queue' = [queue EXCEPT ![r] = Append(@, owner[r].item)]
    /\ owner' = [owner EXCEPT ![r] = AfterSend(IF kind[r] = "chat" THEN [@ EXCEPT !.pc = "next"] ELSE @)]
    /\ UNCHANGED <<kind, model, client, cancelled, notified, cause, final, worker, held,
                   cache, outcome, shutdown>>

\* The receiver is gone.
SendFails(r) ==
    /\ At(r, "send") /\ client[r].st # "holding"
    /\ owner' = [owner EXCEPT ![r] = AfterSend(Interrupted(r, @, "Cancelled"))]
    /\ stop' = [stop EXCEPT ![r] = TRUE]
    /\ UNCHANGED <<kind, model, client, cancelled, notified, cause, channel, work, deltas,
                   held, cache, outcome, shutdown>>

-----------------------------------------------------------------------------
(* The worker and the engine                                               *)

\* The worker lets go of a request it has finished, or was told to stop, or
\* that it drops because it is gone itself.
WorkerAck(r) ==
    /\ \/ work[r] = "over"
       \/ work[r] = "adrift"
       \/ At(r, "ack") /\ work[r] # "none" /\ (stop[r] \/ ~Healthy(r))
    /\ work' = [work EXCEPT ![r] = "none"]
    /\ UNCHANGED <<kind, model, task, channel, stop, deltas, held, cache, outcome, shutdown>>

\* The worker panics or cannot clean up a sequence.
Break(m) ==
    /\ "break" \in Faults /\ engine[m].inst # 0 /\ engine[m].healthy
    /\ \E r \in OnModel(m) : work[r] \notin {"none", "reserved"}
    /\ engine' = [engine EXCEPT ![m].healthy = FALSE]
    /\ UNCHANGED <<kind, model, task, channel, worker, held, unloading, outcome, shutdown>>

\* Faulty variant of Acked: the acknowledgement is not awaited.
AckedAtOnce(r) ==
    /\ At(r, "ack") /\ (lease[r] = 0 => work[r] = "none")
    /\ Goto(r, IF lease[r] = 0 \/ owner[r].after = "drop" THEN "answer" ELSE "retire")
    /\ IF owner[r].after = "drop" THEN DropActive(r) ELSE UNCHANGED held
    /\ UNCHANGED <<kind, model, client, cancelled, notified, cause, channel, worker,
                   cache, outcome, shutdown>>

\* wait_for_ack, or cancel_and_wait, returns.
Acked(r) ==
    LET o == owner[r]
        lost == o.after = "deliver" /\ kind[r] # "embed" /\ ~Healthy(r)
        back == IF lease[r] = 0 \/ o.after = "drop" THEN "answer" ELSE "retire"
    IN /\ At(r, "ack") /\ work[r] \in {"none", "adrift"}
       /\ \E e \in {"none"} \cup (IF lost THEN {"Core"} ELSE {}) :
            owner' = [owner EXCEPT ![r].pc = back,
                                   ![r].err = IF o.err = "none" THEN e ELSE o.err]
       /\ IF o.after = "drop" THEN DropActive(r) ELSE UNCHANGED held
       /\ UNCHANGED <<kind, model, client, cancelled, notified, cause, channel, worker,
                      cache, outcome, shutdown>>

\* Faulty variant of Retire: the unload is left to the next request.
RetireLater(r) ==
    /\ At(r, "retire")
    /\ DropActive(r)
    /\ owner' = [owner EXCEPT ![r].pc = owner[r].after,
                              ![r].broken = IF Healthy(r) THEN 0 ELSE lease[r]]
    /\ UNCHANGED <<kind, model, client, cancelled, notified, cause, channel, worker, cache,
                   outcome, shutdown>>

\* is_healthy, drop(active), retire_unhealthy_llm.
Retire(r) ==
    /\ At(r, "retire")
    /\ DropActive(r)
    /\ IF Healthy(r)
       THEN Goto(r, owner[r].after) /\ UNCHANGED unloading
       ELSE /\ owner' = [owner EXCEPT ![r].pc = "unload", ![r].broken = lease[r]]
            /\ unloading' = unloading \cup {r}
    /\ UNCHANGED <<kind, model, client, cancelled, notified, cause, channel, worker, engine,
                   outcome, shutdown>>

Retired(r) ==
    /\ At(r, "unload") /\ Unloaded(r)
    /\ Goto(r, owner[r].after)
    /\ UNCHANGED <<kind, model, client, cancelled, notified, cause, channel, worker, held,
                   outcome, shutdown>>

-----------------------------------------------------------------------------
(* Token counts: ModelLease::run                                           *)

Counting(r) == kind[r] = "count" /\ work[r] = "running"

\* The spawned operation ends: it gives back its permit and its lease.
Counted(r) ==
    /\ Counting(r)
    /\ work' = [work EXCEPT ![r] = "none"]
    /\ DropActive(r)
    /\ IF At(r, "counting")
       THEN \E e \in {"none"} \cup (IF "error" \in Faults \/ ~Healthy(r) THEN {"Core"} ELSE {}) :
              owner' = [owner EXCEPT ![r].pc = "answer", ![r].err = e]
       ELSE UNCHANGED owner
    /\ UNCHANGED <<kind, model, client, cancelled, notified, cause, channel, stop, deltas,
                   cache, outcome, shutdown>>

\* The count's select loses: the operation it had spawned runs on.
CountInterrupted(r, e) ==
    /\ At(r, "counting") /\ e # "Cancelled" /\ Interrupt(r, e)
    /\ owner' = [owner EXCEPT ![r].pc = "answer", ![r].err = e]
    /\ UNCHANGED <<kind, model, client, cancelled, cause, channel, worker, held, cache,
                   outcome, shutdown>>

LeaveCount(r) ==
    /\ "cancel" \in Faults /\ kind[r] = "count"
    /\ owner[r].pc \in Admitting \cup {"counting"}
    /\ client' = [client EXCEPT ![r].st = "gone"]
    /\ Returns(r)
    /\ Ends(r, "Cancelled")
    /\ unloading' = unloading \ {r}
    /\ IF At(r, "counting") THEN UNCHANGED held ELSE DropActive(r)
    /\ UNCHANGED <<kind, model, cancelled, cause, channel, work, engine, shutdown>>

-----------------------------------------------------------------------------
(* The report                                                              *)

\* runtime_result_outcome.
ResultOutcome(e) ==
    CASE e = "none" -> "Success"
      [] e = "Timeout" -> "Timeout"
      [] e \in {"Cancelled", "ShuttingDown"} -> "Cancelled"
      [] OTHER -> "ServerError"

\* choice_cancellation_metrics.
CauseOutcome(c) == IF c = "buffer" THEN "ResourceExhausted" ELSE "Cancelled"

\* The order in which own_llm_choice_generation looks for its outcome.
Succeeded(o) == /\ o.terminal /\ ~o.failed /\ o.err = "none" /\ o.connected
                /\ o.reason # "cancelled"
ChoiceOutcome(o, c) ==
    CASE Succeeded(o) -> "Success"
      [] ~Succeeded(o) /\ c = "buffer" -> CauseOutcome(c)
      [] ~Succeeded(o) /\ c # "buffer" /\ o.err # "none" -> ResultOutcome(o.err)
      [] ~Succeeded(o) /\ c = "client" /\ o.err = "none" -> CauseOutcome(c)
      [] OTHER -> IF o.reason = "cancelled" THEN "Cancelled" ELSE "ServerError"

\* ready.send(Err), or the result of an embedding or a count.  A generation
\* that was not admitted drops its lifecycle, which counts as cancelled.
Answer(r) ==
    /\ At(r, "answer")
    /\ client' = [client EXCEPT ![r] =
         IF @.st = "waiting"
         THEN [st |-> "ended", got |-> IF owner[r].err = "none" THEN "all" ELSE "err"] ELSE @]
    /\ Ends(r, IF kind[r] \in {"chat", "choice"} THEN "Cancelled" ELSE ResultOutcome(owner[r].err))
    /\ Returns(r)
    /\ UNCHANGED <<kind, model, cancelled, cause, channel, work, held, cache, shutdown>>

\* The caller left before readiness: the owner's task just returns.
Quit(r) ==
    /\ At(r, "quit")
    /\ Ends(r, "Cancelled")
    /\ Returns(r)
    /\ UNCHANGED <<kind, model, client, cancelled, cause, channel, work, held, cache, shutdown>>

\* own_llm_generation: the terminal goes through its own oneshot, after the
\* events channel was closed.
DeliverChat(r) ==
    LET o == owner[r]
    IN /\ At(r, "deliver") /\ kind[r] = "chat"
       /\ final' = [final EXCEPT ![r] =
            IF ~o.connected \/ (o.err = "none" /\ ~o.terminal) THEN "dropped"
            ELSE IF o.err # "none" THEN "err" ELSE "all"]
       /\ Ends(r, IF o.err = "none" /\ o.terminal THEN "Success" ELSE "ServerError")
       /\ Returns(r)
       /\ UNCHANGED <<kind, model, client, cancelled, cause, queue, work, held, cache, shutdown>>

\* own_llm_choice_generation: the error is offered to the queue, which may be
\* full, and the channel closes.
DeliverChoice(r) ==
    LET o == owner[r]
    IN /\ At(r, "deliver") /\ kind[r] = "choice"
       /\ queue' = [queue EXCEPT ![r] =
            IF o.connected /\ o.err # "none" /\ Len(@) < QueueCap /\ client[r].st = "holding"
            THEN Append(@, "err") ELSE @]
       /\ final' = [final EXCEPT ![r] = "dropped"]
       /\ Ends(r, ChoiceOutcome(o, cause[r]))
       /\ Returns(r)
       /\ UNCHANGED <<kind, model, client, cancelled, cause, work, held, cache, shutdown>>

\* own_llm_embedding returns its result to the task that reports it.
DeliverEmbedding(r) ==
    /\ At(r, "deliver") /\ kind[r] = "embed"
    /\ Goto(r, "answer")
    /\ UNCHANGED <<kind, model, client, cancelled, notified, cause, channel, worker, held,
                   cache, outcome, shutdown>>

-----------------------------------------------------------------------------
(* The reader: ManagedGeneration and ManagedChoiceGeneration               *)

\* cancel_with: the first cause is kept, the owner is notified once.
CancelWith(r, c) ==
    LET first == kind[r] # "choice" \/ cause[r] = "none"
    IN /\ cause' = [cause EXCEPT ![r] = IF kind[r] = "choice" /\ @ = "none" THEN c ELSE @]
       /\ cancelled' = [cancelled EXCEPT ![r] = @ \/ first]
       /\ notified' = [notified EXCEPT ![r] = @ \/ (first /\ ~cancelled[r] /\ ~At(r, "done"))]

ClientCancel(r, c) ==
    /\ "cancel" \in Faults /\ client[r].st = "holding" /\ ~cancelled[r] /\ ~At(r, "done")
    /\ c = "buffer" => kind[r] = "choice"
    /\ CancelWith(r, c)
    /\ UNCHANGED <<kind, model, owner, client, channel, worker, held, cache, outcome, shutdown>>

\* The handle is dropped, with its end of the channel.
ClientDrop(r) ==
    /\ "cancel" \in Faults /\ client[r].st = "holding"
    /\ CancelWith(r, "client")
    /\ client' = [client EXCEPT ![r].st = "gone"]
    /\ queue' = [queue EXCEPT ![r] = <<>>]
    /\ UNCHANGED <<kind, model, owner, final, worker, held, cache, outcome, shutdown>>

\* next: an event of the channel.
ClientRecv(r) ==
    /\ client[r].st = "holding" /\ queue[r] # <<>>
    /\ client' = [client EXCEPT ![r].got = IF @ = "all" THEN @ ELSE Head(queue[r])]
    /\ queue' = [queue EXCEPT ![r] = Tail(@)]
    /\ UNCHANGED <<kind, model, owner, cancelled, notified, cause, final, worker, held, cache,
                   outcome, shutdown>>

\* next at the end of the channel: the chat handle takes the terminal, or
\* reports an owner that stopped without one; the choice handle ends.
ClientEnd(r) ==
    /\ client[r].st = "holding" /\ queue[r] = <<>> /\ final[r] # "open"
    /\ client' = [client EXCEPT ![r] =
         [st |-> "ended", got |-> IF final[r] # "dropped" THEN final[r]
                                  ELSE IF kind[r] = "chat" THEN "ownerlost" ELSE @.got]]
    /\ UNCHANGED <<kind, model, owner, cancelled, notified, cause, channel, worker, held, cache,
                   outcome, shutdown>>

-----------------------------------------------------------------------------

Shutdown ==
    /\ ~shutdown
    /\ shutdown' = TRUE
    /\ UNCHANGED <<kind, model, task, channel, worker, held, cache, outcome>>

\* The steps an owner takes by itself.
OwnerStep(r) ==
    \/ Start(r) \/ Lend(r) \/ LoadFails(r) \/ CheckHealth(r) \/ Reloaded(r)
    \/ Reserve(r) \/ ReserveFails(r) \/ AcquireSlot(r) \/ AcquireEpoch(r)
    \/ BeginCommit(r) \/ RefuseCommit(r) \/ Committed(r) \/ CommitFails(r)
    \/ SendReady(r) \/ Top(r) \/ Next1(r) \/ Send(r) \/ SendFails(r)
    \/ Acked(r) \/ Retire(r) \/ Retired(r) \/ Answer(r) \/ Quit(r)
    \/ DeliverChat(r) \/ DeliverChoice(r) \/ DeliverEmbedding(r)

Interruption(r) == \E e \in Errors :
    \/ AdmissionInterrupted(r, e) \/ CommitInterrupted(r, e)
    \/ LoopInterrupted(r, e) \/ CountInterrupted(r, e)

WorkerStep(r) == WorkerAck(r) \/ Counted(r)

ClientStep(r) ==
    \/ Call(r) \/ CallRefused(r) \/ CallInvalid(r) \/ Leave(r) \/ LeaveCount(r)
    \/ \E c \in {"client", "buffer"} : ClientCancel(r, c)
    \/ ClientDrop(r) \/ ClientRecv(r) \/ ClientEnd(r)

AllOver == /\ \A r \in Requests : /\ owner[r].pc \in {"idle", "done"}
                                 /\ client[r].st \in {"gone", "ended"} /\ work[r] = "none"
           /\ shutdown
           /\ UNCHANGED vars

Next ==
    \/ \E r \in Requests : OwnerStep(r) \/ Interruption(r) \/ WorkerStep(r) \/ ClientStep(r)
    \/ \E m \in Models : Break(m)
    \/ Shutdown
    \/ AllOver

\* Tasks are scheduled, the worker acknowledges, timers fire.
TaskFairness == \A r \in Requests : /\ WF_vars(OwnerStep(r)) /\ WF_vars(Interruption(r))
                                    /\ WF_vars(WorkerStep(r))

\* The reader of a choice generation reads on (the stream owner of LlmStreams
\* does); that of a chat generation is under no obligation.
Fairness == TaskFairness /\ \A r \in Requests : WF_vars(kind[r] = "choice" /\ ClientRecv(r))
Spec == Init /\ [][Next]_vars /\ Fairness

\* No reader is under any obligation.
StalledSpec == Init /\ [][Next]_vars /\ TaskFairness

-----------------------------------------------------------------------------
(* Properties                                                              *)

TypeOK ==
    /\ kind \in [Requests -> Kinds] /\ model \in [Requests -> Models]
    /\ \A r \in Requests :
         /\ owner[r].err \in Errors \cup {"none"}
         /\ client[r].st \in {"idle", "waiting", "holding", "gone", "ended"}
         /\ Len(queue[r]) <= QueueCap
         /\ lease[r] \in 0..MaxLoads
         /\ outcome[r] \in Outcomes
    /\ unloading \subseteq Requests

\* Whatever the engine still does for a request, it does while the owner
\* holds the lease, the execution slot and, for inference, a share of the
\* epoch: no deadline, disconnect or shutdown frees capacity that is in use.
\* The choices whose acknowledgement was lost with a dropped commit are the
\* exception (README, Deviations).
WorkCovered == \A r \in Requests :
    work[r] \notin {"none", "reserved", "adrift"} =>
        /\ lease[r] # 0 /\ lease[r] = engine[model[r]].inst /\ slot[r]
        /\ epoch[r] \/ kind[r] = "count"

\* What runs in an engine is covered by a lease, a slot and an epoch that
\* somebody still holds (GenerationOwner, own_llm_choice_generation).
WorkOwned == TypeOK /\ WorkCovered

\* The reader is told the truth: one that did not cancel gets a terminal
\* exactly when a chat generation is recorded as a success and an error when
\* it is not; a choice generation recorded as a success has handed over its
\* final event; and no reader meets the end of an owner without a terminal.
EndTruthful == \A r \in Requests :
    client[r].st = "ended" /\ ~cancelled[r] =>
        /\ client[r].got # "ownerlost"
        /\ kind[r] = "chat" /\ outcome[r] # "none" => (client[r].got = "all" <=> outcome[r] = "Success")
        /\ kind[r] \in {"choice", "embed"} /\ outcome[r] = "Success" => client[r].got = "all"

\* An owner that found its engine broken does not report before that engine
\* has left memory, whichever load is resident by then: a client that retries
\* on the report never meets the broken one.
BrokenRetired == \A r \in Requests :
    owner[r].broken # 0 /\ ~At(r, "unload") => engine[model[r]].inst # owner[r].broken

\* Every owner reports and gives everything back, whatever breaks under it
\* and, but for a choice generation, with a reader that neither reads nor
\* leaves.
OwnersEnd == \A r \in Requests :
    owner[r].pc # "idle" ~> /\ At(r, "done") /\ lease[r] = 0 /\ outcome[r] # "active"

\* The deadline of a choice generation whose reader does not read releases
\* its inference capacity (the test
\* unread_aggregate_terminal_deadline_releases_inference_capacity).
DeadlineReleases == \A r \in Requests : epoch[r] ~> ~epoch[r]
=============================================================================
