--------------------------- MODULE LlamaScheduler ---------------------------
(***************************************************************************)
(* The llama.cpp engine of orchion-llama-cpp (scheduler.rs, slot.rs): one  *)
(* worker thread that serves a bounded command queue with a fixed number   *)
(* of slots, and the callers that reserve slots, commit or abort their     *)
(* reservations and read the generated events.                             *)
(*                                                                         *)
(* A call asks for ChoiceCount[c] completions of one prompt; request       *)
(* <<c, i>> is its i-th choice and takes one slot.  The two sides share    *)
(* only channels and a cancellation flag, so one step of the worker is one *)
(* phase of generation_tick and one step of a caller is what it does       *)
(* between two awaits.                                                     *)
(*                                                                         *)
(* Kept of the data: the output of a request is a sequence of numbered     *)
(* events (text pieces, tokens with log probabilities or semantic deltas,  *)
(* by Mode), a prompt is PromptChunks rounds of prefill, and what the      *)
(* sampler, the stop filter and the parser yield for a token is a choice   *)
(* of a number of events.  The prefix cache is visible only in that a      *)
(* restored sequence has KV state.  Reasoning control, embeddings and the  *)
(* merging of choice events are not part of this module.                   *)
(***************************************************************************)
EXTENDS Integers, Sequences, FiniteSets

CONSTANTS
    Calls,          \* callers of reserve_choices or reserve
    ChoiceCount,    \* how many choices a call asks for
    Direct,         \* the calls that use reserve, without group_admission
    Media,          \* the calls whose prompt has images
    MaxTokens,      \* options.max_tokens of a call
    Mode,           \* "content", "tokens" or "semantic" output of a call
    Counters,       \* callers of count_tokens
    NoOne,          \* nobody holds group_admission, no request in a slot
    NSlots,         \* parallel_sequences
    QueueCapacity,  \* request_queue_capacity
    EventCapacity,  \* event_queue_capacity
    PromptChunks,   \* bound: decode rounds that a prompt takes
    MaxBurst,       \* bound: semantic deltas of one token or one flush
    Events          \* the outside events of an instance, of AllEvents

AllEvents == {"timeout", "cancel", "shutdown", "prepare error",
              "prepare panic", "decode error", "sample error",
              "clear error"}

\* validate_config and validate_choice_count.
ASSUME ConfigAssumption ==
    /\ NSlots \in Nat \ {0}
    /\ QueueCapacity \in Nat \ {0} /\ EventCapacity \in Nat \ {0}
    /\ ChoiceCount \in [Calls -> 1..NSlots]

ASSUME CallAssumption ==
    /\ IsFiniteSet(Calls) /\ IsFiniteSet(Counters)
    /\ Direct \subseteq Calls /\ Media \subseteq Calls
    /\ \A c \in Direct \cup Media : ChoiceCount[c] = 1
    /\ MaxTokens \in [Calls -> Nat]
    /\ Mode \in [Calls -> {"content", "tokens", "semantic"}]
    /\ NoOne \notin Calls \cup Counters
    /\ PromptChunks \in Nat \ {0} /\ MaxBurst \in Nat
    /\ Events \subseteq AllEvents

Slots == 1..NSlots
RequestsOf(c) == {<<c, i>> : i \in 1..ChoiceCount[c]}
Requests == UNION {RequestsOf(c) : c \in Calls}

VARIABLES
    wpc,        \* the phase of the worker's tick
    turn,       \* the slot poll_generation_decisions is at
    work,       \* its ordinary_work
    slots,      \* the worker's slots
    kv,         \* slots whose native sequence has state
    pending,    \* pending_command, as a sequence of at most one command
    cursor,     \* prefill_cursor
    media_last, \* media_prefilled_last_tick
    health,     \* is_healthy
    queue,      \* the command channel
    req,        \* the channels and the flag of each request
    call,       \* where each caller is
    admission,  \* the holder of group_admission
    count,      \* the callers of count_tokens
    closing     \* where Engine::shutdown is

worker == <<wpc, turn, work, slots, kv, pending, cursor, media_last, health>>
vars == <<worker, queue, req, call, admission, count, closing>>

\* A one-shot channel: "lost" when its sender is dropped without a value,
\* "fatal" when it carries the error that ended the worker.
Reply == {"open", "ok", "err", "fatal", "lost"}
Command == [kind : {"generate"}, of : Requests]
           \cup [kind : {"count"}, of : Counters]
           \cup [kind : {"shutdown"}, of : {NoOne}]
Slot == [st : {"vacant", "reserved", "active", "draining"},
         of : Requests \cup {NoOne}, prefill : 0..PromptChunks,
         pend : Seq(Nat), outcome : {"none", "finished", "cancelled", "error"}]
Request == [cancelled : BOOLEAN, decision : {"open", "commit", "abort"},
            reserved : Reply, readiness : Reply, terminal : Reply,
            acknowledged : Reply,
            gone : SUBSET {"reserved", "readiness", "events"},
            events : Seq(Nat), sender : BOOLEAN,
            made : Nat, got : Nat, tokens : Nat]
Caller == [pc : {"idle", "lock", "send", "await", "rollback", "held",
                 "commit", "ready", "undo", "aborting", "stream", "done"},
           i : Slots, read : SUBSET Requests, wait : SUBSET Requests]
Counter == [pc : {"idle", "send", "await", "done"}, cancelled : BOOLEAN,
            result : Reply]

Vacant == [st |-> "vacant", of |-> NoOne, prefill |-> 0, pend |-> <<>>,
           outcome |-> "none"]

Init ==
    /\ wpc = "loop" /\ turn = 1 /\ work = FALSE
    /\ slots = [s \in Slots |-> Vacant] /\ kv = {}
    /\ pending = <<>> /\ cursor = 1 /\ media_last = FALSE /\ health = TRUE
    /\ queue = <<>>
    /\ req = [r \in Requests |->
                [cancelled |-> FALSE, decision |-> "open",
                 reserved |-> "open", readiness |-> "open",
                 terminal |-> "open", acknowledged |-> "open",
                 gone |-> {}, events |-> <<>>, sender |-> TRUE,
                 made |-> 0, got |-> 0, tokens |-> 0]]
    /\ call = [c \in Calls |-> [pc |-> "idle", i |-> 1, read |-> {}, wait |-> {}]]
    /\ admission = NoOne
    /\ count = [k \in Counters |->
                  [pc |-> "idle", cancelled |-> FALSE, result |-> "open"]]
    /\ closing = "open"

-----------------------------------------------------------------------------
(* Slots and replies                                                       *)

Occupied == {s \in Slots : slots[s].st # "vacant"}
In(s, st) == slots[s].st = st
Owner(s) == slots[s].of
SlotOf(r) == {s \in Slots : slots[s].of = r}

\* A sender is used at most once.
Send(reply, value) == IF reply = "open" THEN value ELSE reply

\* Every sender of request q is used or dropped.
Answer(q, value) ==
    [q EXCEPT !.reserved = Send(@, value), !.readiness = Send(@, value),
              !.terminal = Send(@, value), !.acknowledged = Send(@, value),
              !.sender = FALSE]

\* The slot's lifecycle with nothing left to flush.
Drained(sl, outcome) ==
    [sl EXCEPT !.st = "draining", !.pend = <<>>, !.outcome = outcome]

\* into_draining without flushing the stop filter.
IntoDraining(sl, outcome) ==
    [sl EXCEPT !.st = "draining", !.outcome = outcome]

\* observe_cancellations: the slots, given the requests' flags.
ObservedSlots(sl, q) ==
    [s \in Slots |->
       IF sl[s].st = "vacant" \/ ~q[sl[s].of].cancelled THEN sl[s]
       ELSE IF sl[s].st = "active" THEN IntoDraining(sl[s], "cancelled")
       ELSE Drained(sl[s], "cancelled")]

\* observe_cancellations: a reserved slot's caller learns at once.
ObservedRequests(sl, q) ==
    [r \in Requests |->
       IF q[r].cancelled /\ \E s \in Slots : sl[s].of = r /\ sl[s].st = "reserved"
       THEN [q[r] EXCEPT !.readiness = Send(@, "err")]
       ELSE q[r]]

Clients == UNCHANGED <<call, admission, closing>>
Goto(pc) == wpc' = pc

Observe ==
    /\ wpc = "observe"
    /\ slots' = ObservedSlots(slots, req)
    /\ req' = ObservedRequests(slots, req)
    /\ Goto("flush")
    /\ UNCHANGED <<turn, work, kv, pending, cursor, media_last, health, queue, count>>
    /\ Clients

\* One event moves from a slot to its channel.
Closed(r) == "events" \in req[r].gone
Full(r) == Len(req[r].events) >= EventCapacity
Moves(s) == slots[s].pend # <<>> /\ ~Closed(Owner(s)) /\ ~Full(Owner(s))
Pushed(q, sl) == [q EXCEPT !.events = Append(@, Head(sl.pend))]

\* flush_active_content, followed by the second observe_cancellations.
Flush ==
    /\ wpc = "flush"
    /\ LET sl == [s \in Slots |->
                    IF ~In(s, "active") \/ slots[s].pend = <<>> THEN slots[s]
                    ELSE IF Closed(Owner(s))
                         THEN IntoDraining([slots[s] EXCEPT !.pend = Tail(@)], "cancelled")
                         ELSE IF Moves(s) THEN [slots[s] EXCEPT !.pend = Tail(@)]
                         ELSE slots[s]]
           q == [r \in Requests |->
                   IF \E s \in SlotOf(r) : In(s, "active") /\ Moves(s)
                   THEN Pushed(req[r], slots[CHOOSE s \in SlotOf(r) : TRUE])
                   ELSE req[r]]
       IN /\ slots' = ObservedSlots(sl, q)
          /\ req' = ObservedRequests(sl, q)
    /\ Goto("finalize")
    /\ UNCHANGED <<turn, work, kv, pending, cursor, media_last, health, queue, count>>
    /\ Clients

-----------------------------------------------------------------------------
(* finalize_draining_slots                                                 *)

\* What a draining slot still has to flush: a cancelled one gives up its
\* tokens and its text, but not its semantic deltas.
Unflushed(s) ==
    IF req[Owner(s)].cancelled /\ Mode[Owner(s)[1]] # "semantic"
    THEN <<>> ELSE slots[s].pend

\* Faulty variant of FlushDone: done as soon as one event has moved.
FlushDoneEager(s) ==
    Unflushed(s) = <<>> \/ Closed(Owner(s)) \/ ~Full(Owner(s))

\* try_flush_draining: whether the slot is done after trying to move one event.
FlushDone(s) ==
    \/ Unflushed(s) = <<>>
    \/ Closed(Owner(s))
    \/ ~Full(Owner(s)) /\ (Mode[Owner(s)[1]] # "semantic" \/ Len(slots[s].pend) = 1)

\* The slot's own record after try_flush_draining.
Flushed(s) ==
    [slots[s] EXCEPT
       !.outcome = IF req[Owner(s)].cancelled THEN "cancelled" ELSE @,
       !.pend = IF Unflushed(s) # <<>> /\ ~Closed(Owner(s)) /\ ~Full(Owner(s))
                THEN Tail(@) ELSE Unflushed(s)]

\* The outcome as the one-shot channels carry it.
Verdict(outcome) == IF outcome = "finished" THEN "ok" ELSE "err"

\* The request of slot s after the slot was flushed, and closed when done.
FlushedRequest(s) ==
    IF Unflushed(s) # <<>> /\ ~Closed(Owner(s)) /\ ~Full(Owner(s))
    THEN Pushed(req[Owner(s)], slots[s]) ELSE req[Owner(s)]
Finalized(s) == Answer(FlushedRequest(s), Verdict(Flushed(s).outcome))

\* Faulty variant of FinalizeSlots: the sequences are not cleared.
FinalizeKept(D, C) ==
    /\ slots' = [s \in Slots |-> IF s \in C THEN Vacant
                                 ELSE IF s \in D THEN Flushed(s) ELSE slots[s]]
    /\ req' = [r \in Requests |->
                 IF SlotOf(r) \cap C # {} THEN Finalized(CHOOSE s \in SlotOf(r) : TRUE)
                 ELSE IF SlotOf(r) \cap D # {}
                      THEN FlushedRequest(CHOOSE s \in SlotOf(r) : TRUE)
                 ELSE req[r]]
    /\ kv' = kv

\* The slots of D have been treated, those of C among them cleared.
FinalizeSlots(D, C) ==
    /\ slots' = [s \in Slots |-> IF s \in C THEN Vacant
                                 ELSE IF s \in D THEN Flushed(s) ELSE slots[s]]
    /\ req' = [r \in Requests |->
                 IF SlotOf(r) \cap C # {} THEN Finalized(CHOOSE s \in SlotOf(r) : TRUE)
                 ELSE IF SlotOf(r) \cap D # {}
                      THEN FlushedRequest(CHOOSE s \in SlotOf(r) : TRUE)
                 ELSE req[r]]
    /\ kv' = kv \ C

Draining == {s \in Slots : In(s, "draining")}

Finalize ==
    /\ wpc = "finalize"
    /\ FinalizeSlots(Draining, {s \in Draining : FlushDone(s)})
    /\ turn' = 1
    /\ work' = (\E s \in Slots : slots'[s].st = "active" /\ slots'[s].pend = <<>>)
    /\ Goto("decide")
    /\ UNCHANGED <<pending, cursor, media_last, health, queue, count>>
    /\ Clients

\* kv_cache_seq_rm fails for one slot: the tick ends with the error.
ClearFails ==
    /\ "clear error" \in Events /\ wpc = "finalize"
    /\ \E s \in Draining :
         /\ FlushDone(s)
         /\ LET D == {d \in Draining : d <= s}
            IN FinalizeSlots(D, {d \in D \ {s} : FlushDone(d)})
    /\ Goto("fatal")
    /\ UNCHANGED <<turn, work, pending, cursor, media_last, health, queue, count>>
    /\ Clients

-----------------------------------------------------------------------------
(* poll_generation_decisions, one slot at a time                           *)

Set(s, sl) == slots' = [slots EXCEPT ![s] = sl]
SetReq(r, q) == req' = [req EXCEPT ![r] = q]
NextSlot == IF turn = NSlots THEN wpc' = "admit" /\ turn' = turn
            ELSE turn' = turn + 1 /\ wpc' = wpc

\* The reservation is given up: the caller is told and the slot drains.
GiveUp(s, outcome) ==
    /\ Set(s, Drained(slots[s], outcome))
    /\ SetReq(Owner(s), [req[Owner(s)] EXCEPT !.readiness = Send(@, "err")])

\* A slot with nothing to decide, or whose media prefill is put off.
Deferred(s) == Owner(s)[1] \in Media /\ media_last /\ work
DecideNothing ==
    /\ wpc = "decide"
    /\ In(turn, "reserved") =>
         \/ req[Owner(turn)].decision = "open"
         \/ req[Owner(turn)].decision = "commit" /\ Deferred(turn)
    /\ NextSlot
    /\ UNCHANGED <<work, slots, kv, pending, cursor, media_last, health,
                   queue, req, count>>
    /\ Clients

Decided(s) == In(s, "reserved") /\ req[Owner(s)].decision = "commit" /\ ~Deferred(s)

DecideAbort ==
    /\ wpc = "decide" /\ In(turn, "reserved")
    /\ \/ req[Owner(turn)].decision = "abort"
       \/ Decided(turn) /\ req[Owner(turn)].cancelled
    /\ GiveUp(turn, "cancelled") /\ NextSlot
    /\ UNCHANGED <<work, kv, pending, cursor, media_last, health, queue, count>>
    /\ Clients

\* prepare_generation or create_sampler refuses; a prefix may be restored.
DecideRefuse ==
    /\ "prepare error" \in Events /\ wpc = "decide"
    /\ Decided(turn) /\ ~req[Owner(turn)].cancelled
    /\ GiveUp(turn, "error") /\ NextSlot
    /\ kv' \in {kv, kv \cup {turn}}
    /\ UNCHANGED <<work, pending, cursor, media_last, health, queue, count>>
    /\ Clients

\* A panic, or a failed clean-up of a prefix that could not be restored:
\* the reservation has been taken out of its slot and is dropped with it.
DecidePanic ==
    /\ "prepare panic" \in Events /\ wpc = "decide"
    /\ Decided(turn) /\ ~req[Owner(turn)].cancelled
    /\ Set(turn, Vacant)
    /\ SetReq(Owner(turn), Answer(req[Owner(turn)], "lost"))
    /\ Goto("fatal")
    /\ UNCHANGED <<turn, work, kv, pending, cursor, media_last, health, queue, count>>
    /\ Clients

\* The slot becomes active; its caller is told, unless it has gone.
Activated(s) == [slots[s] EXCEPT !.st = "active", !.prefill = PromptChunks]
DecideActivate ==
    /\ wpc = "decide" /\ Decided(turn) /\ ~req[Owner(turn)].cancelled
    /\ Owner(turn)[1] \notin Media
    /\ IF "readiness" \in req[Owner(turn)].gone
       THEN /\ Set(turn, Drained(slots[turn], "cancelled"))
            /\ SetReq(Owner(turn), [req[Owner(turn)] EXCEPT !.readiness = "lost"])
       ELSE /\ Set(turn, Activated(turn))
            /\ SetReq(Owner(turn), [req[Owner(turn)] EXCEPT !.readiness = "ok"])
    /\ kv' \in {kv, kv \cup {turn}}
    /\ NextSlot
    /\ UNCHANGED <<work, pending, cursor, media_last, health, queue, count>>
    /\ Clients

\* n events appended to what the slot has to send.
Adds(sl, q, n) == [sl EXCEPT !.pend = @ \o [k \in 1..n |-> q.made + k]]
Produced(q, n) == [q EXCEPT !.made = @ + n]

\* How many events an accepted token may yield, given the request with that
\* token counted: text is one event, retained tokens come out together, and
\* the parser makes any number of deltas.
Yields(q, mode) ==
    CASE mode = "content" -> 0..1
      [] mode = "tokens" -> 0..(q.tokens - q.made)
      [] mode = "semantic" -> 0..MaxBurst

\* The flush of a finished slot that has just yielded n events; the rest of
\* a text joins the piece that waits.
FlushYields(q, mode, n) ==
    CASE mode = "content" -> IF n > 0 THEN {0} ELSE 0..1
      [] mode = "tokens" -> 0..(q.tokens - q.made - n)
      [] mode = "semantic" -> 0..MaxBurst
LastYields(q, mode) ==
    UNION {{n + f : f \in FlushYields(q, mode, n)} : n \in Yields(q, mode)}

\* Media prompts are prefilled in this phase and sample their first token;
\* the caller learns of it only if the slot goes on.
DecideMedia ==
    /\ wpc = "decide" /\ Decided(turn) /\ ~req[Owner(turn)].cancelled
    /\ Owner(turn)[1] \in Media
    /\ kv' = kv \cup {turn}
    /\ LET r == Owner(turn)
           a == [slots[turn] EXCEPT !.st = "active"]
           t == [req[r] EXCEPT !.tokens = @ + 1]
           goes == MaxTokens[r[1]] > 1
       IN \/ \E n \in IF MaxTokens[r[1]] = 0 THEN {0} ELSE LastYields(t, Mode[r[1]]) :
               /\ Set(turn, IntoDraining(Adds(a, req[r], n), "finished"))
               /\ SetReq(r, Produced(t, n))
               /\ media_last' = TRUE /\ Goto("loop") /\ UNCHANGED turn
          \/ /\ "sample error" \in Events /\ MaxTokens[r[1]] > 0
             /\ Set(turn, IntoDraining(a, "error")) /\ UNCHANGED req
             /\ media_last' = TRUE /\ Goto("loop") /\ UNCHANGED turn
          \/ \E n \in Yields(t, Mode[r[1]]) :
               /\ goes /\ "readiness" \notin req[r].gone
               /\ Set(turn, Adds(a, req[r], n))
               /\ SetReq(r, Produced([t EXCEPT !.readiness = "ok"], n))
               /\ media_last' = TRUE /\ Goto("loop") /\ UNCHANGED turn
          \/ /\ goes /\ "readiness" \in req[r].gone
             /\ Set(turn, IntoDraining(a, "cancelled"))
             /\ SetReq(r, [t EXCEPT !.readiness = "lost"])
             /\ NextSlot /\ UNCHANGED media_last
    /\ UNCHANGED <<work, pending, cursor, health, queue, count>>
    /\ Clients

-----------------------------------------------------------------------------
(* admit_generation_command                                                *)

\* The command at hand: the one that was put back, or the next of the queue.
HasCommand == pending # <<>> \/ queue # <<>>
NextCommand == IF pending # <<>> THEN pending[1] ELSE Head(queue)
TakeCommand == /\ pending' = <<>>
               /\ queue' = IF pending # <<>> THEN queue ELSE Tail(queue)
PutBack == /\ pending' = <<NextCommand>>
           /\ queue' = IF pending # <<>> THEN queue ELSE Tail(queue)

AdmitNothing ==
    /\ wpc = "admit" /\ ~HasCommand
    /\ Goto("decode")
    /\ UNCHANGED <<turn, work, slots, kv, pending, cursor, media_last, health,
                   queue, req, count>>
    /\ Clients

FirstVacant == CHOOSE s \in Slots \ Occupied : \A t \in Slots \ Occupied : s <= t

AdmitGenerate ==
    /\ wpc = "admit" /\ HasCommand /\ NextCommand.kind = "generate"
    /\ Occupied # Slots
    /\ TakeCommand
    /\ LET r == NextCommand.of
       IN IF req[r].cancelled \/ "reserved" \in req[r].gone
          THEN /\ SetReq(r, Answer([req[r] EXCEPT !.acknowledged = "err"], "lost"))
               /\ UNCHANGED slots
          ELSE /\ SetReq(r, [req[r] EXCEPT !.reserved = "ok"])
               /\ Set(FirstVacant, [Vacant EXCEPT !.st = "reserved", !.of = r])
    /\ Goto("decode")
    /\ UNCHANGED <<turn, work, kv, cursor, media_last, health, count>>
    /\ Clients

\* Tokens are counted only while every slot is vacant.
AdmitCount ==
    /\ wpc = "admit" /\ HasCommand /\ NextCommand.kind = "count"
    /\ Occupied = {}
    /\ TakeCommand
    /\ count' = [count EXCEPT ![NextCommand.of].result =
                   IF count[NextCommand.of].cancelled THEN "err" ELSE "ok"]
    /\ Goto("decode")
    /\ UNCHANGED <<turn, work, slots, kv, cursor, media_last, health, req>>
    /\ Clients

\* Admission::Blocked: the command waits, and the queue behind it.
AdmitBlocked ==
    /\ wpc = "admit" /\ HasCommand
    /\ \/ NextCommand.kind = "generate" /\ Occupied = Slots
       \/ NextCommand.kind = "count" /\ Occupied # {}
    /\ PutBack
    /\ Goto("decode")
    /\ UNCHANGED <<turn, work, slots, kv, cursor, media_last, health, req, count>>
    /\ Clients

AdmitShutdown ==
    /\ wpc = "admit" /\ HasCommand /\ NextCommand.kind = "shutdown"
    /\ TakeCommand
    /\ Goto("shutdown")
    /\ UNCHANGED <<turn, work, slots, kv, cursor, media_last, health, req, count>>
    /\ Clients

-----------------------------------------------------------------------------
(* plan_batch, decode and apply_decoded_batch                              *)

Decoding == {s \in Slots : In(s, "active") /\ slots[s].pend = <<>> /\ slots[s].prefill = 0}
Prefilling == {s \in Slots : In(s, "active") /\ slots[s].pend = <<>> /\ slots[s].prefill > 0}

\* The first prefilling slot from the cursor on always gets its share.
Distance(s) == (s - cursor + NSlots) % NSlots
FirstPrefill == CHOOSE s \in Prefilling : \A t \in Prefilling : Distance(s) <= Distance(t)
Batches == IF Prefilling = {} THEN {Decoding}
           ELSE {Decoding \cup P : P \in {Q \in SUBSET Prefilling : FirstPrefill \in Q}}

\* What may happen to slot s of the batch: it is cancelled, goes on with its
\* prompt, yields a token, finishes, or fails.  made, tokens and the slot.
Results(s) ==
    LET r == Owner(s)
        q == req[r]
        a == [slots[s] EXCEPT !.prefill = IF @ = 0 THEN 0 ELSE @ - 1]
        t == [q EXCEPT !.tokens = @ + 1]
    IN IF q.cancelled THEN {[sl |-> IntoDraining(a, "cancelled"), q |-> q]}
       ELSE IF slots[s].prefill > 1 THEN {[sl |-> a, q |-> q]}
       ELSE IF MaxTokens[r[1]] = 0
       THEN {[sl |-> IntoDraining(a, "finished"), q |-> q]}
       ELSE {[sl |-> Adds(a, q, n), q |-> Produced(t, n)] :
               n \in {y \in Yields(t, Mode[r[1]]) : t.tokens < MaxTokens[r[1]]}}
            \cup {[sl |-> IntoDraining(Adds(a, q, n), "finished"), q |-> Produced(t, n)] :
                    n \in LastYields(t, Mode[r[1]])}
            \cup IF "sample error" \in Events
                 THEN {[sl |-> IntoDraining(a, "error"), q |-> t]} ELSE {}

\* observe_cancellations also reaches the slots outside the batch.
Untouched(s) == [sl |-> ObservedSlots(slots, req)[s],
                 q |-> IF slots[s].st = "vacant" THEN <<>>
                       ELSE ObservedRequests(slots, req)[Owner(s)]]

Decode ==
    /\ wpc = "decode"
    /\ \E B \in Batches :
         /\ B # {}
         /\ \E f \in [B -> UNION {Results(s) : s \in B}] :
              /\ \A s \in B : f[s] \in Results(s)
              /\ LET g == [s \in Slots |-> IF s \in B THEN f[s] ELSE Untouched(s)]
                 IN /\ slots' = [s \in Slots |-> g[s].sl]
                    /\ req' = [r \in Requests |->
                                 IF SlotOf(r) = {} THEN req[r]
                                 ELSE g[CHOOSE s \in SlotOf(r) : TRUE].q]
         /\ kv' = kv \cup B
    /\ cursor' = IF Prefilling = {} THEN cursor ELSE (FirstPrefill % NSlots) + 1
    /\ media_last' = FALSE
    /\ Goto("loop")
    /\ UNCHANGED <<turn, work, pending, health, queue, count>>
    /\ Clients

DecodeNothing ==
    /\ wpc = "decode" /\ Decoding \cup Prefilling = {}
    /\ Goto("loop")
    /\ UNCHANGED <<turn, work, slots, kv, pending, cursor, media_last, health,
                   queue, req, count>>
    /\ Clients

\* The shared decode fails or the tick panics.
DecodeFails ==
    /\ "decode error" \in Events
    /\ \/ wpc = "decode" /\ Decoding \cup Prefilling # {}
       \/ /\ wpc = "decide" /\ Decided(turn) /\ ~req[Owner(turn)].cancelled
          /\ Owner(turn)[1] \in Media
    /\ Goto("fatal")
    /\ UNCHANGED <<turn, work, slots, kv, pending, cursor, media_last, health,
                   queue, req, count>>
    /\ Clients

-----------------------------------------------------------------------------
(* generation_worker_loop                                                  *)

\* An idle worker blocks on the queue.
Loop ==
    /\ wpc = "loop"
    /\ IF pending = <<>> /\ Occupied = {}
       THEN /\ queue # <<>>
            /\ pending' = <<Head(queue)>> /\ queue' = Tail(queue)
       ELSE UNCHANGED <<pending, queue>>
    /\ Goto("observe")
    /\ UNCHANGED <<turn, work, slots, kv, cursor, media_last, health, req, count>>
    /\ Clients

\* The worker thread ends: whatever it still owns is dropped, and so are the
\* commands in its channel.
Commands == {queue[k] : k \in 1..Len(queue)} \cup {pending[k] : k \in 1..Len(pending)}
Queued(r) == [kind |-> "generate", of |-> r] \in Commands

\* Faulty variant of Exit: the command channel outlives the worker.
ExitOpen(sl, q) ==
    /\ req' = [r \in Requests |->
                 IF \E s \in Slots : sl[s].of = r THEN Answer(q[r], "lost") ELSE q[r]]
    /\ slots' = [s \in Slots |-> Vacant]
    /\ Goto("dead")
    /\ UNCHANGED <<turn, work, kv, cursor, media_last, queue, pending, count>>
    /\ Clients

Exit(sl, q) ==
    /\ req' = [r \in Requests |->
                 IF Queued(r) \/ \E s \in Slots : sl[s].of = r
                 THEN Answer(q[r], "lost") ELSE q[r]]
    /\ count' = [k \in Counters |->
                   IF [kind |-> "count", of |-> k] \in Commands
                   THEN [count[k] EXCEPT !.result = "lost"] ELSE count[k]]
    /\ slots' = [s \in Slots |-> Vacant]
    /\ queue' = <<>> /\ pending' = <<>>
    /\ Goto("dead")
    /\ UNCHANGED <<turn, work, kv, cursor, media_last>>
    /\ Clients

\* cancel_all_slots raises the flags and observes them; then every slot is
\* finalized once.  A cancelled active slot still has its semantic deltas: if
\* they do not fit its channel the slot is not finalized, only dropped.
CancelledAll == [r \in Requests |-> IF SlotOf(r) = {} THEN req[r]
                                    ELSE [req[r] EXCEPT !.cancelled = TRUE]]
Deltas(s) == In(s, "active") /\ Mode[Owner(s)[1]] = "semantic"
             /\ ~Closed(Owner(s)) /\ slots[s].pend # <<>>
Stuck(s) == Deltas(s) /\ (Full(Owner(s)) \/ Len(slots[s].pend) > 1)
LastWord(s, q) == IF Deltas(s) /\ ~Full(Owner(s)) THEN Pushed(q, slots[s]) ELSE q
ShutDown(q, s) == IF Stuck(s) THEN LastWord(s, q) ELSE Answer(LastWord(s, q), "err")

WorkerShutdown ==
    /\ wpc = "shutdown"
    /\ LET q == ObservedRequests(slots, CancelledAll)
       IN Exit(slots, [r \in Requests |->
                         IF SlotOf(r) = {} THEN q[r]
                         ELSE ShutDown(q[r], CHOOSE s \in SlotOf(r) : TRUE)])
    /\ UNCHANGED health

\* The clean-up of a slot fails: the slots from it on are failed.
ShutdownFails ==
    /\ "clear error" \in Events /\ wpc = "shutdown"
    /\ \E s \in Occupied :
         LET q == ObservedRequests(slots, CancelledAll)
             done == {t \in Occupied : t < s /\ ~Stuck(t)}
         IN /\ req' = [r \in Requests |->
                         IF SlotOf(r) \cap done = {} THEN q[r]
                         ELSE ShutDown(q[r], CHOOSE t \in SlotOf(r) : TRUE)]
            /\ slots' = [t \in Slots |-> IF t \in done THEN Vacant
                                         ELSE ObservedSlots(slots, CancelledAll)[t]]
            /\ kv' = kv \ done
    /\ Goto("fatal")
    /\ UNCHANGED <<turn, work, pending, cursor, media_last, health, queue, count>>
    /\ Clients

\* fatal_generation_worker: first the health flag, then every slot.
Fatal ==
    /\ wpc = "fatal"
    /\ health' = FALSE
    /\ Goto("fail all")
    /\ UNCHANGED <<turn, work, slots, kv, pending, cursor, media_last, queue, req, count>>
    /\ Clients

FailAll ==
    /\ wpc = "fail all"
    /\ Exit(slots, [r \in Requests |-> IF SlotOf(r) = {} THEN req[r]
                                       ELSE Answer(req[r], "fatal")])
    /\ UNCHANGED health

Worker ==
    \/ Observe \/ Flush \/ Finalize \/ ClearFails
    \/ DecideNothing \/ DecideAbort \/ DecideRefuse \/ DecidePanic
    \/ DecideActivate \/ DecideMedia
    \/ AdmitNothing \/ AdmitGenerate \/ AdmitCount \/ AdmitBlocked \/ AdmitShutdown
    \/ Decode \/ DecodeNothing \/ DecodeFails
    \/ Loop \/ WorkerShutdown \/ ShutdownFails \/ Fatal \/ FailAll

-----------------------------------------------------------------------------
(* The callers                                                             *)

This(c) == <<c, call[c].i>>
Alive == wpc # "dead"
Move(c, pc) == call' = [call EXCEPT ![c].pc = pc]
Release(c) == admission' = IF admission = c THEN NoOne ELSE admission
Engine == UNCHANGED <<worker, count, closing>>
Reserving == {"send", "await"}

\* Faulty variant of Aborted: a committed request is left alone.
AbortedOpen(q) == IF q.decision # "open" THEN q
                  ELSE [q EXCEPT !.cancelled = TRUE, !.decision = "abort"]

\* Reservation::request_abort: the flag, and the decision if it is not sent.
Aborted(q) == [q EXCEPT !.cancelled = TRUE,
                        !.decision = IF @ = "open" THEN "abort" ELSE @]
AbortAll(R, q) == [r \in Requests |-> IF r \in R THEN Aborted(q[r]) ELSE q[r]]
Resolved(r) == req[r].acknowledged # "open"
Before(c) == {<<c, i>> : i \in 1..(call[c].i - 1)}

\* reserve_choices takes the group_admission mutex, reserve does not.
StartCall(c) ==
    /\ call[c].pc = "idle"
    /\ Move(c, IF c \in Direct THEN "send" ELSE "lock")
    /\ UNCHANGED <<queue, req, admission>> /\ Engine

\* Faulty variant of LockAdmission: groups reserve side by side.
LockShared(c) ==
    /\ call[c].pc = "lock"
    /\ admission' = c
    /\ Move(c, "send")
    /\ UNCHANGED <<queue, req>> /\ Engine

LockAdmission(c) ==
    /\ call[c].pc = "lock" /\ admission = NoOne
    /\ admission' = c
    /\ Move(c, "send")
    /\ UNCHANGED <<queue, req>> /\ Engine

SendCommand(c) ==
    /\ call[c].pc = "send" /\ Alive /\ Len(queue) < QueueCapacity
    /\ queue' = Append(queue, [kind |-> "generate", of |-> This(c)])
    /\ Move(c, "await")
    /\ UNCHANGED <<req, admission>> /\ Engine

Reserved(c) ==
    /\ call[c].pc = "await" /\ req[This(c)].reserved = "ok"
    /\ IF call[c].i = ChoiceCount[c]
       THEN /\ call' = [call EXCEPT ![c].pc = "held", ![c].i = 1]
            /\ Release(c)
       ELSE /\ call' = [call EXCEPT ![c].pc = "send", ![c].i = @ + 1]
            /\ UNCHANGED admission
    /\ UNCHANGED <<queue, req>> /\ Engine

\* The choice is refused or the worker has gone: the earlier ones are undone.
ReserveFails(c) ==
    /\ \/ call[c].pc = "send" /\ ~Alive
       \/ call[c].pc = "await" /\ req[This(c)].reserved \notin {"open", "ok"}
    /\ req' = [AbortAll(Before(c), req) EXCEPT ![This(c)].cancelled = TRUE]
    /\ call' = [call EXCEPT ![c].pc = "rollback", ![c].wait = Before(c)]
    /\ UNCHANGED <<queue, admission>> /\ Engine

\* Every acknowledgement waited for has come.
Settled(c) ==
    /\ call[c].pc \in {"rollback", "undo", "aborting"}
    /\ \A r \in call[c].wait : Resolved(r)
    /\ call' = [call EXCEPT ![c].pc = "done", ![c].wait = {}]
    /\ Release(c)
    /\ UNCHANGED <<queue, req>> /\ Engine

\* The choice's decision; it fails if the worker has given up the slot.
Commit(c) ==
    /\ call[c].pc \in {"held", "commit"}
    /\ IF \E s \in SlotOf(This(c)) : In(s, "reserved")
       THEN /\ req' = [req EXCEPT ![This(c)].decision = "commit"]
            /\ Move(c, "ready")
       ELSE /\ req' = AbortAll(RequestsOf(c), req)
            /\ call' = [call EXCEPT ![c].pc = "undo", ![c].wait = RequestsOf(c)]
    /\ UNCHANGED <<queue, admission>> /\ Engine

Ready(c) ==
    /\ call[c].pc = "ready" /\ req[This(c)].readiness = "ok"
    /\ call' = IF call[c].i = ChoiceCount[c] THEN [call EXCEPT ![c].pc = "stream"]
               ELSE [call EXCEPT ![c].pc = "commit", ![c].i = @ + 1]
    /\ UNCHANGED <<queue, req, admission>> /\ Engine

\* Preparation failed: its acknowledgement first, then the whole group's.
CommitFails(c) ==
    /\ call[c].pc = "ready" /\ req[This(c)].readiness \notin {"open", "ok"}
    /\ Resolved(This(c))
    /\ req' = AbortAll(RequestsOf(c), req)
    /\ call' = [call EXCEPT ![c].pc = "undo", ![c].wait = RequestsOf(c)]
    /\ UNCHANGED <<queue, admission>> /\ Engine

\* The caller's future is dropped while it reserves: PendingGeneration and
\* the reservations made so far raise their flags.
Unwatch(R, fields, q) == [r \in Requests |-> IF r \in R
                            THEN [q[r] EXCEPT !.gone = @ \cup fields] ELSE q[r]]
DropReserve(c) ==
    /\ "timeout" \in Events
    /\ call[c].pc \in Reserving \cup {"lock", "rollback"}
    /\ LET R == Before(c) \cup (IF call[c].pc = "lock" THEN {} ELSE {This(c)})
       IN req' = Unwatch(R, {"reserved", "readiness", "events"}, AbortAll(R, req))
    /\ call' = [call EXCEPT ![c].pc = "done", ![c].wait = {}]
    /\ Release(c)
    /\ UNCHANGED queue /\ Engine

\* The deadline passes before or during commit: a commit in progress is
\* dropped with the generations it had, then cancel_and_wait.
DropCommit(c) ==
    /\ "timeout" \in Events
    /\ call[c].pc \in {"held", "commit", "ready"}
    /\ LET had == IF call[c].pc = "held" THEN {} ELSE Before(c)
           readying == IF call[c].pc = "ready" THEN {This(c)} ELSE {}
       IN /\ req' = Unwatch(had, {"events"}, Unwatch(readying, {"readiness"},
                            AbortAll(RequestsOf(c), req)))
          /\ call' = [call EXCEPT ![c].pc = "aborting", ![c].wait = RequestsOf(c) \ had]
    /\ UNCHANGED <<queue, admission>> /\ Engine

-----------------------------------------------------------------------------
(* Reading a committed group, one forwarder task per choice                *)

Reading(r) == call[r[1]].pc = "stream" /\ r \notin call[r[1]].read

Receive(r) ==
    /\ Reading(r) /\ req[r].events # <<>>
    /\ req' = [req EXCEPT ![r].got = Head(req[r].events), ![r].events = Tail(@)]
    /\ UNCHANGED <<queue, call, admission>> /\ Engine

\* The channel is closed and read: the terminal, and a failed choice
\* cancels its group.
Terminal(r) ==
    /\ Reading(r) /\ r \notin call[r[1]].wait
    /\ req[r].events = <<>> /\ ~req[r].sender /\ req[r].terminal # "open"
    /\ req' = [q \in Requests |->
                 IF req[r].terminal # "ok" /\ q[1] = r[1]
                 THEN [req[q] EXCEPT !.cancelled = TRUE] ELSE req[q]]
    /\ call' = [call EXCEPT ![r[1]].wait = @ \cup {r}]
    /\ UNCHANGED <<queue, admission>> /\ Engine

Acknowledged(r) ==
    /\ Reading(r) /\ r \in call[r[1]].wait /\ Resolved(r)
    /\ LET read == call[r[1]].read \cup {r}
       IN call' = [call EXCEPT ![r[1]].read = read, ![r[1]].wait = @ \ {r},
                               ![r[1]].pc = IF read = RequestsOf(r[1]) THEN "done" ELSE @]
    /\ UNCHANGED <<queue, req, admission>> /\ Engine

\* ChoiceGeneration::cancel, or its drop.
CancelCall(c) ==
    /\ "cancel" \in Events
    /\ call[c].pc = "stream" /\ \E r \in RequestsOf(c) : ~req[r].cancelled
    /\ req' = [r \in Requests |-> IF r \in RequestsOf(c)
                                  THEN [req[r] EXCEPT !.cancelled = TRUE] ELSE req[r]]
    /\ UNCHANGED <<queue, call, admission>> /\ Engine

Caller1(c) ==
    \/ StartCall(c) \/ LockAdmission(c) \/ SendCommand(c) \/ Reserved(c)
    \/ ReserveFails(c) \/ Settled(c) \/ Commit(c) \/ Ready(c) \/ CommitFails(c)
    \/ DropReserve(c) \/ DropCommit(c) \/ CancelCall(c)
Forwarder(r) == Receive(r) \/ Terminal(r) \/ Acknowledged(r)

-----------------------------------------------------------------------------
(* count_tokens and Engine::shutdown                                       *)

StartCount(k) ==
    /\ count[k].pc = "idle"
    /\ count' = [count EXCEPT ![k].pc = "send"]
    /\ UNCHANGED <<worker, queue, req, call, admission, closing>>

SendCount(k) ==
    /\ count[k].pc = "send" /\ Alive /\ Len(queue) < QueueCapacity
    /\ queue' = Append(queue, [kind |-> "count", of |-> k])
    /\ count' = [count EXCEPT ![k].pc = "await"]
    /\ UNCHANGED <<worker, req, call, admission, closing>>

\* The result, an unavailable worker, or a deadline.
EndCount(k) ==
    /\ \/ count[k].pc = "send" /\ ~Alive
       \/ count[k].pc = "await" /\ count[k].result # "open"
       \/ "timeout" \in Events /\ count[k].pc \in Reserving
    /\ count' = [count EXCEPT ![k].pc = "done",
                              ![k].cancelled = count[k].result = "open"]
    /\ UNCHANGED <<worker, queue, req, call, admission, closing>>

\* cancel_active reaches the requests that are registered at that moment.
Registered == {r \in Requests : call[r[1]].pc \notin {"idle", "lock", "done"}
                                /\ (r \in Before(r[1]) \/ r = This(r[1])
                                    \/ call[r[1]].pc \notin Reserving)}
CancelActive ==
    /\ "shutdown" \in Events /\ closing = "open"
    /\ req' = [r \in Requests |-> IF r \in Registered
                                  THEN [req[r] EXCEPT !.cancelled = TRUE] ELSE req[r]]
    /\ closing' = "send"
    /\ UNCHANGED <<worker, queue, call, admission, count>>

\* Faulty variant of SendShutdown: gives up when the queue is full.
SendShutdownOnce ==
    /\ closing = "send"
    /\ queue' = IF Alive /\ Len(queue) < QueueCapacity
                THEN Append(queue, [kind |-> "shutdown", of |-> NoOne]) ELSE queue
    /\ closing' = "join"
    /\ UNCHANGED <<worker, req, call, admission, count>>

SendShutdown ==
    /\ closing = "send" /\ (Alive => Len(queue) < QueueCapacity)
    /\ queue' = IF Alive THEN Append(queue, [kind |-> "shutdown", of |-> NoOne]) ELSE queue
    /\ closing' = "join"
    /\ UNCHANGED <<worker, req, call, admission, count>>

JoinWorker ==
    /\ closing = "join" /\ ~Alive
    /\ closing' = "closed"
    /\ UNCHANGED <<worker, queue, req, call, admission, count>>

Next ==
    \/ Worker
    \/ \E c \in Calls : Caller1(c)
    \/ \E r \in Requests : Forwarder(r)
    \/ \E k \in Counters : StartCount(k) \/ SendCount(k) \/ EndCount(k)
    \/ CancelActive \/ SendShutdown \/ JoinWorker

Spec == Init /\ [][Next]_vars

\* Every task runs: the worker thread, the callers between two awaits (they
\* commit what they hold) and the forwarder tasks.
CallerStep(c) ==
    \/ LockAdmission(c) \/ SendCommand(c) \/ Reserved(c) \/ ReserveFails(c)
    \/ Settled(c) \/ Commit(c) \/ Ready(c) \/ CommitFails(c)

FairSpec ==
    /\ Spec
    /\ WF_vars(Worker)
    /\ \A c \in Calls : WF_vars(CallerStep(c))
    /\ \A c \in Calls, i \in Slots :
         WF_vars(<<c, i>> \in Requests /\ Forwarder(<<c, i>>))
    /\ \A k \in Counters : WF_vars(SendCount(k) \/ EndCount(k))
    /\ WF_vars(SendShutdown) /\ WF_vars(JoinWorker)

-----------------------------------------------------------------------------
(* Properties                                                              *)

\* Types of the worker, the channels and the callers.
TypeOK ==
    /\ wpc \in {"loop", "observe", "flush", "finalize", "decide", "admit",
                "decode", "shutdown", "fatal", "fail all", "dead"}
    /\ turn \in Slots /\ work \in BOOLEAN
    /\ slots \in [Slots -> Slot] /\ kv \subseteq Slots
    /\ pending \in Seq(Command) /\ Len(pending) <= 1
    /\ queue \in Seq(Command) /\ Len(queue) <= QueueCapacity
    /\ cursor \in Slots /\ media_last \in BOOLEAN /\ health \in BOOLEAN
    /\ req \in [Requests -> Request]
    /\ call \in [Calls -> Caller]
    /\ admission \in Calls \cup {NoOne}
    /\ count \in [Counters -> Counter]
    /\ closing \in {"open", "send", "join", "closed"}

\* finalize_draining_slots, admit_generation_command: a vacant slot has no KV
\* state for the next request to continue, whatever ended the last one (an
\* abort, a refused prompt after a restored prefix, a cancellation, an
\* error), and a request is acknowledged only once its slot is given back.
SlotHygiene ==
    /\ wpc \notin {"fatal", "fail all", "dead"} =>
         \A s \in kv : slots[s].st # "vacant"
    /\ \A s \in Occupied : ~Resolved(Owner(s))

\* PendingGeneration, Drop for Reservation and Generation, request_abort:
\* however a call ends, in the middle of a group too, what the worker still
\* has of it in a slot or in the queue is marked so that it will not run on.
NoOrphan ==
    \A r \in Requests : call[r[1]].pc = "done" =>
        /\ SlotOf(r) # {} => req[r].cancelled \/ req[r].decision = "abort"
        /\ Queued(r) => req[r].cancelled \/ "reserved" \in req[r].gone

\* flush_active_content, try_flush_draining: events reach the channel in the
\* order they were made, and a generation that reports success has put every
\* one of them there before its channel is closed.
OutputComplete ==
    \A r \in Requests :
        /\ req[r].events = [n \in 1..Len(req[r].events) |-> req[r].got + n]
        /\ req[r].terminal = "ok" /\ ~Closed(r) =>
             req[r].got + Len(req[r].events) = req[r].made

\* fatal_generation_worker: when commit fails because the worker is ending,
\* is_healthy already says so (the caller retires the engine on that answer).
HealthBeforeCommitError ==
    \A r \in Requests :
        /\ req[r].reserved = "ok" /\ "readiness" \notin req[r].gone
        /\ req[r].readiness \in {"lost", "fatal"}
        => ~health

\* finalize_draining_slots, fail_all_slots, cancel_all_slots: a request that
\* got a slot is told how it ended; its acknowledgement is never just
\* dropped, not even by a shutdown or a failing decode.  (Semantic output is
\* excepted: see Stuck.)
AckNeverLost ==
    \A r \in Requests :
        req[r].reserved = "ok" /\ Mode[r[1]] # "semantic" => req[r].acknowledged # "lost"

\* reserve_choices, group_admission: groups never wait for each other's slots:
\* when every slot is reserved and undecided, the call of one of them has been
\* answered about all its choices, and will decide.
NoMutualWait ==
    (\A s \in Slots : In(s, "reserved") /\ req[Owner(s)].decision = "open")
        => \E s \in Slots : \A r \in RequestsOf(Owner(s)[1]) : req[r].reserved # "open"

\* admit_generation_command, wait_for_ack, Exit: every call ends without a
\* timeout, whatever fails in the worker: nobody waits for a reply that does
\* not come.
CallsEnd == \A c \in Calls : call[c].pc # "idle" ~> call[c].pc = "done"

\* Engine::shutdown: the worker can be joined, whatever occupied its slots
\* and its queue.
ShutdownEnds == closing = "send" ~> closing = "closed"

=============================================================================
