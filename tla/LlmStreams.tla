----------------------------- MODULE LlmStreams -----------------------------
(***************************************************************************)
(* Resumable LLM streams of orchion-server (api/llm_streams.rs): the       *)
(* sessions of LlmStreams, the owner task run_owner that copies a          *)
(* generation into its session, the followers that replay it, deletion,    *)
(* retention limits, expiry and shutdown.                                  *)
(*                                                                         *)
(* Everything between lock() and the end of the guard's scope is one step; *)
(* where a function drops the guard and takes it again (append before      *)
(* fail, cancel_owner around fail, the shutdown test before start and      *)
(* attach) the program counter keeps the steps apart.                      *)
(*                                                                         *)
(* The data kept of a frame is its event id, its size and whether it is    *)
(* the error frame of fail.  A stream id is random and is used once.  A    *)
(* call made by another principal finds no session and changes nothing, so *)
(* only the calls of the stream's own principal are modelled.  The number  *)
(* of frames a generation yields is bounded by MaxFrames.                  *)
(***************************************************************************)
EXTENDS Integers, Sequences, FiniteSets, FiniteSetsExt, Functions

CONSTANTS
    Streams,       \* stream ids (and the generations they carry)
    Followers,     \* response bodies made by follower_body
    NoStream,      \* the stream of a body that is not attached
    Sizes,         \* sizes of the numbered data frames
    ErrorSize,     \* size of a stream_error_frame
    MaxActive,     \* StreamingPolicy::max_active
    MaxRetained,   \* StreamingPolicy::max_retained
    MaxEvents,     \* StreamingPolicy::max_events_per_session
    MaxBytes,      \* StreamingPolicy::max_bytes_per_session
    MaxTotal,      \* StreamingPolicy::max_total_bytes
    MaxFollowers,  \* StreamingPolicy::max_followers_per_session
    MaxFrames,     \* bound: frames of one generation
    Events         \* the outside events of an instance, of AllEvents

AllEvents == {"read", "delete", "attach", "leave", "expire", "shutdown",
              "complete", "producer error", "transport error"}

\* validate_streaming: every limit is positive and one error frame fits.
ASSUME PolicyAssumption ==
    /\ MaxActive \in Nat \ {0} /\ MaxRetained \in Nat \ {0}
    /\ MaxEvents \in Nat \ {0} /\ MaxFollowers \in Nat \ {0}
    /\ MaxBytes \in Nat /\ MaxTotal \in Nat
    /\ ErrorSize \in 1..MaxBytes /\ MaxBytes <= MaxTotal

ASSUME DomainAssumption ==
    /\ IsFiniteSet(Streams) /\ IsFiniteSet(Followers)
    /\ NoStream \notin Streams
    /\ Sizes \subseteq Nat \ {0}
    /\ MaxFrames \in Nat
    /\ Events \subseteq AllEvents

VARIABLES
    live,          \* keys of State::sessions
    sessions,      \* their Session values
    total_bytes,   \* State::total_bytes
    clock,         \* stamps given out: Instant::now() of a terminal status
    horizon,       \* stamps whose age has reached the ttl
    shutdown,      \* ServerShutdown::is_triggered
    owner,         \* where the owner task of a stream is
    cancelled,     \* run_owner's local of that name
    signal,        \* StreamTerminalSignal
    cause,         \* the first ChoiceCancellationCause given
    controls,      \* streams whose completion has a ChatControls entry
    activity,      \* the outcome recorded for the request
    sent,          \* frames the generation has yielded
    past,          \* history: what happened to the stream
    follower       \* the response bodies

store == <<live, sessions, total_bytes>>
time == <<clock, horizon>>
task == <<owner, cancelled, signal, cause, controls, activity, sent>>
vars == <<store, time, shutdown, task, past, follower>>

Status == {"active", "completed", "failed", "cancelled"}
Causes == {"none", "UserDeleted", "ServerShutdown", "ResourceExhausted",
           "StreamBufferExceeded"}
Frame == [id : Nat, size : Nat, error : BOOLEAN]
Session == [frames : Seq(Frame), bytes : Nat, next_id : Nat,
            followers : Nat, status : Status, owner_active : BOOLEAN,
            terminal_at : Nat, deleted : BOOLEAN]
Body == [pc : {"idle", "checked", "ready", "waiting", "ending", "closed"},
         stream : Streams \cup {NoStream}, after : Nat, cursor : Nat,
         follow : BOOLEAN, dirty : BOOLEAN, got : Seq(Frame),
         result : {"open", "eof", "lost", "left"}]

\* The value insert() stores for a new stream.
NewSession == [frames |-> <<>>, bytes |-> 0, next_id |-> 1, followers |-> 1,
               status |-> "active", owner_active |-> TRUE,
               terminal_at |-> 0, deleted |-> FALSE]
NoBody == [pc |-> "idle", stream |-> NoStream, after |-> 0, cursor |-> 0,
           follow |-> FALSE, dirty |-> FALSE, got |-> <<>>,
           result |-> "open"]

Init ==
    /\ live = {} /\ sessions = [s \in Streams |-> NewSession]
    /\ total_bytes = 0 /\ clock = 0 /\ horizon = 0 /\ shutdown = FALSE
    /\ owner = [s \in Streams |-> "new"]
    /\ cancelled = [s \in Streams |-> FALSE]
    /\ signal = [s \in Streams |-> "pending"]
    /\ cause = [s \in Streams |-> "none"]
    /\ controls = {}
    /\ activity = [s \in Streams |-> "open"]
    /\ sent = [s \in Streams |-> 0]
    /\ past = [s \in Streams |-> [error |-> 0, deleted |-> FALSE,
                                  stamp |-> 0, terminals |-> 0]]
    /\ follower = [f \in Followers |-> NoBody]

-----------------------------------------------------------------------------
(* What the locked sections are made of.                                   *)

SumSizes(fs) == SumFunction([i \in DOMAIN fs |-> fs[i].size])
SumBytes(ss, S) == SumFunction([s \in S |-> ss[s].bytes])
Drop(fs, k) == SubSeq(fs, k + 1, Len(fs))
Less(a, b) == IF a > b THEN a - b ELSE 0

\* Faulty variant of FirstId: truncation forgotten.
FirstIdEver(session) == 1

\* The id the oldest retained frame has, or the next frame will have.
FirstId(session) ==
    IF session.frames = <<>> THEN session.next_id ELSE session.frames[1].id

\* remove_session for each stream of gone.
Removed(ss, gone) == [s \in Streams |-> IF s \in gone THEN NewSession ELSE ss[s]]

\* revision.send_modify: every receiver of these streams has a change to see.
Notified(bodies, S) ==
    [f \in Followers |->
        IF bodies[f].stream \in S THEN [bodies[f] EXCEPT !.dirty = TRUE]
        ELSE bodies[f]]

\* Faulty variant of Wakes: the session ends without send_modify.
WakesNobody(s) == follower

\* The revision of one session changes.
Wakes(s) == Notified(follower, {s})

\* Faulty variant of TotalWithout: a removed session keeps its bytes counted.
TotalStill(total, ss, gone) == total

\* State::total_bytes after remove_session of each stream of gone.
TotalWithout(total, ss, gone) == Less(total, SumBytes(ss, gone))

Retained(ss, S) == {s \in S : ~ss[s].owner_active}

Expired(ss) ==
    {s \in live : \/ ss[s].deleted /\ ~ss[s].owner_active
                  \/ ss[s].terminal_at \in 1..horizon}
\* The oldest retained sessions beyond max_retained.
Surplus(ss, S) ==
    {s \in Retained(ss, S) :
        Cardinality({t \in Retained(ss, S) :
                        ss[t].terminal_at >= ss[s].terminal_at}) > MaxRetained}
\* The sessions purge_locked removes.
Purged(ss) == Expired(ss) \cup Surplus(ss, live \ Expired(ss))

\* purge_locked on the sessions ss, bodies already notified of other changes.
PurgeLocked(ss, bodies, more) ==
    LET gone == Purged(ss) IN
    /\ live' = (live \ gone) \cup more
    /\ sessions' = Removed(ss, gone)
    /\ total_bytes' = TotalWithout(total_bytes, ss, gone)
    /\ follower' = Notified(bodies, gone)

Active == {s \in live \ Purged(sessions) : sessions[s].owner_active}

\* Faulty variant of CancelWith: the generation is not told.
CancelNobody(s, why) == UNCHANGED cause

\* The first cancel_with decides the cause.
CancelWith(s, why) ==
    cause' = [cause EXCEPT ![s] = IF @ = "none" THEN why ELSE @]

\* The Registration is dropped, or its entry removed by completion id.
Unregister(s) == controls' = controls \ {s}

\* A session reaches its terminal status: terminal_at and the metric.
Stamp(s) ==
    /\ clock' = clock + 1
    /\ past' = [past EXCEPT ![s].stamp = clock + 1, ![s].terminals = @ + 1]

-----------------------------------------------------------------------------
(* Starting a stream.                                                      *)

\* create_chat_completion registers the reasoning control, then
\* start_with_completion finds that the server is not shutting down.
CheckStart(s) ==
    /\ owner[s] = "new" /\ ~shutdown
    /\ owner' = [owner EXCEPT ![s] = "checked"]
    /\ controls' = controls \cup {s}
    /\ UNCHANGED <<store, time, shutdown, cancelled, signal, cause, activity,
                   sent, past, follower>>

\* StartError::Capacity: the source is dropped, and its Registration with it.
Refuse(s) ==
    /\ owner[s] = "checked" /\ Cardinality(Active) >= MaxActive
    /\ PurgeLocked(sessions, follower, {})
    /\ owner' = [owner EXCEPT ![s] = "refused"]
    /\ Unregister(s)
    /\ UNCHANGED <<time, shutdown, cancelled, signal, cause, activity, sent,
                   past>>

Start(s, f) ==
    /\ owner[s] = "checked" /\ Cardinality(Active) < MaxActive
    /\ follower[f].pc = "idle"
    /\ PurgeLocked(sessions,
                   [follower EXCEPT ![f] = [NoBody EXCEPT
                        !.pc = "ready", !.stream = s, !.follow = TRUE]],
                   {s})
    /\ owner' = [owner EXCEPT ![s] = "run"]
    /\ UNCHANGED <<time, shutdown, cancelled, signal, cause, controls,
                   activity, sent, past>>

\* lookup, observation and ensure_start_capacity purge and then only read.
Observe ==
    /\ PurgeLocked(sessions, follower, {})
    /\ UNCHANGED <<time, shutdown, task, past>>

-----------------------------------------------------------------------------
(* The owner task, run_owner.                                              *)

\* The generation reports its outcome through the terminal signal.
Complete(s) ==
    /\ "complete" \in Events
    /\ owner[s] = "run" /\ signal[s] = "pending"
    /\ signal' = [signal EXCEPT ![s] = "completed"]
    /\ UNCHANGED <<store, time, shutdown, owner, cancelled, cause, controls,
                   activity, sent, past, follower>>

SignalFailure(s) ==
    /\ "producer error" \in Events
    /\ owner[s] = "run"
    /\ signal' = [signal EXCEPT ![s] = "failed"]
    /\ activity' = [activity EXCEPT ![s] = IF @ = "open" THEN "failed" ELSE @]
    /\ UNCHANGED <<store, time, shutdown, owner, cancelled, cause, controls,
                   sent, past, follower>>

Accepts(s) ==
    s \in live /\ ~sessions[s].deleted /\ sessions[s].status = "active"

\* append finds the session gone, deleted or terminal.
AppendDropped(s) ==
    /\ owner[s] = "run" /\ sent[s] < MaxFrames /\ ~Accepts(s)
    /\ sent' = [sent EXCEPT ![s] = @ + 1]
    /\ cancelled' = [cancelled EXCEPT ![s] = TRUE]
    /\ UNCHANGED <<store, time, shutdown, owner, signal, cause, controls,
                   activity, past, follower>>

\* append of a frame no session could retain: cancel, unlock, then fail.
AppendOversize(s, size) ==
    /\ owner[s] = "run" /\ sent[s] < MaxFrames /\ Accepts(s)
    /\ size > MaxBytes \/ size > MaxTotal
    /\ sent' = [sent EXCEPT ![s] = @ + 1]
    /\ CancelWith(s, "StreamBufferExceeded")
    /\ owner' = [owner EXCEPT ![s] = "failing"]
    /\ UNCHANGED <<store, time, shutdown, cancelled, signal, controls,
                   activity, past, follower>>

\* The retained frames exceed a limit of the session.
Over(frames) == Len(frames) > MaxEvents \/ SumSizes(frames) > MaxBytes

\* The session with the frame pushed and its front truncated to the limits.
Pushed(session, size) ==
    LET all == Append(session.frames, [id |-> session.next_id, size |-> size,
                                       error |-> FALSE])
        k == CHOOSE k \in 0..Len(all) :
                ~Over(Drop(all, k)) /\ \A j \in 0..(k - 1) : Over(Drop(all, j))
    IN  [session EXCEPT !.frames = Drop(all, k), !.next_id = @ + 1,
            !.bytes = @ + size - SumSizes(SubSeq(all, 1, k))]

\* The oldest retained sessions that go while the total is over its limit.
Evicted(total) ==
    {s \in Retained(sessions, live) :
        Less(total, SumBytes(sessions,
            {t \in Retained(sessions, live) :
                sessions[t].terminal_at < sessions[s].terminal_at})) > MaxTotal}

\* append: retain the frame, evicting retained sessions to make room; when
\* that is not enough, take the frame back, cancel, unlock, then fail.
AppendFrame(s, size) ==
    /\ owner[s] = "run" /\ sent[s] < MaxFrames /\ Accepts(s)
    /\ size <= MaxBytes /\ size <= MaxTotal
    /\ sent' = [sent EXCEPT ![s] = @ + 1]
    /\ LET new == Pushed(sessions[s], size)
           grown == total_bytes + new.bytes - sessions[s].bytes
           gone == Evicted(grown)
           total == TotalWithout(grown, sessions, gone)
           back == [new EXCEPT
                       !.frames = SubSeq(@, 1, Len(@) - 1),
                       !.bytes = Less(@, size), !.next_id = @ - 1]
       IN  /\ live' = live \ gone
           /\ \/ /\ total <= MaxTotal
                 /\ sessions' = Removed([sessions EXCEPT ![s] = new], gone)
                 /\ total_bytes' = total
                 /\ follower' = Notified(follower, gone \cup {s})
                 /\ UNCHANGED <<owner, cause>>
              \/ /\ total > MaxTotal
                 /\ sessions' = Removed([sessions EXCEPT ![s] = back], gone)
                 /\ total_bytes' = Less(total, size)
                 /\ follower' = Notified(follower, gone)
                 /\ CancelWith(s, "ResourceExhausted")
                 /\ owner' = [owner EXCEPT ![s] = "failing"]
    /\ UNCHANGED <<time, shutdown, cancelled, signal, controls, activity,
                   past>>

\* The source is exhausted: its generator drops the Registration.
SourceEnd(s) ==
    /\ owner[s] = "run"
    /\ owner' = [owner EXCEPT ![s] = "ended"]
    /\ Unregister(s)
    /\ UNCHANGED <<store, time, shutdown, cancelled, signal, cause, activity,
                   sent, past, follower>>

\* The source reports a transport error; fail, then leave the loop.
SourceError(s) ==
    /\ "transport error" \in Events
    /\ owner[s] = "run"
    /\ owner' = [owner EXCEPT ![s] = "transport"]
    /\ UNCHANGED <<store, time, shutdown, cancelled, signal, cause, controls,
                   activity, sent, past, follower>>

\* select! sees the shutdown: cancel_owner cancels the generation first.
SeeShutdown(s) ==
    /\ owner[s] = "run" /\ ~cancelled[s] /\ shutdown
    /\ IF s \in live THEN CancelWith(s, "ServerShutdown") ELSE UNCHANGED cause
    /\ owner' = [owner EXCEPT ![s] = "shutting"]
    /\ UNCHANGED <<store, time, shutdown, cancelled, signal, controls,
                   activity, sent, past, follower>>

\* fail's loop: pop[t] frames leave the front of each session t.  First its
\* own session s is cut until the error frame fits it; then, while the total
\* is over its limit, the session with the most bytes loses its oldest frame.
\* So the frames popped for the total are those that had the most bytes from
\* their own frame on, and one fewer would not have been enough.  (Sessions
\* that tie are popped in any order: max_by_key over a HashMap.)
MakesRoom(s, pop) ==
    LET frames(t) == sessions[t].frames
        bytes(t, k) == Less(sessions[t].bytes,
                            SumSizes(SubSeq(frames(t), 1, k)))
        fits(k) == /\ Len(frames(s)) - k < MaxEvents
                   /\ bytes(s, k) + ErrorSize <= MaxBytes
        total(p) == Less(total_bytes, SumFunction(
                        [t \in live |-> SumSizes(SubSeq(frames(t), 1, p[t]))]))
        own == CHOOSE k \in 0..Len(frames(s)) :
                    fits(k) /\ \A j \in 0..(k - 1) : ~fits(j)
        forced(t) == IF t = s THEN own ELSE 0
        extra == {t \in live : pop[t] > forced(t)}
    IN  /\ \A t \in live : pop[t] \in forced(t)..Len(frames(t))
        /\ total(pop) + ErrorSize <= MaxTotal
        /\ \A t \in extra, u \in live :
              pop[u] < Len(frames(u)) =>
                 bytes(t, pop[t] - 1) >= bytes(u, pop[u])
        /\ extra # {} => \E t \in extra :
              /\ \A u \in extra : bytes(u, pop[u] - 1) >= bytes(t, pop[t] - 1)
              /\ total([pop EXCEPT ![t] = @ - 1]) + ErrorSize > MaxTotal

\* Where the owner task continues after a call of fail.
AfterFail == [failing |-> "run", transport |-> "ended",
              missing |-> "failed", shutting |-> "override"]

Failable(s) == s \in live /\ sessions[s].status = "active"

\* The sessions without the frames the loop popped.
Shortened(pop) ==
    [t \in Streams |->
        IF t \notin live THEN sessions[t]
        ELSE [sessions[t] EXCEPT !.frames = Drop(@, pop[t]),
                !.bytes = Less(@, SumSizes(SubSeq(sessions[t].frames, 1, pop[t])))]]

\* The session behind its error frame, terminal.
WithError(session) ==
    [session EXCEPT
        !.frames = Append(@, [id |-> session.next_id, size |-> ErrorSize,
                              error |-> TRUE]),
        !.bytes = @ + ErrorSize, !.next_id = @ + 1,
        !.status = "failed", !.terminal_at = clock + 1]

\* fail: append the error frame and make an active session terminal.
Fail(s) ==
    /\ owner[s] \in DOMAIN AfterFail
    /\ owner' = [owner EXCEPT ![s] = AfterFail[@]]
    /\ cancelled' = [cancelled EXCEPT ![s] = @ \/ owner[s] = "failing"]
    /\ IF Failable(s)
       THEN \E pop \in [live -> 0..MaxEvents] :
              /\ MakesRoom(s, pop)
              /\ sessions' = [Shortened(pop) EXCEPT ![s] = WithError(@)]
              /\ total_bytes' = ErrorSize + Less(total_bytes,
                    SumBytes(sessions, live) - SumBytes(Shortened(pop), live))
              /\ clock' = clock + 1
              /\ past' = [past EXCEPT ![s].error = sessions[s].next_id,
                    ![s].stamp = clock + 1, ![s].terminals = @ + 1]
              /\ follower' = Wakes(s)
       ELSE UNCHANGED <<sessions, total_bytes, clock, past, follower>>
    /\ UNCHANGED <<live, horizon, shutdown, signal, cause, controls, activity,
                   sent>>

\* cancel_owner, after fail: the status of a shutdown is Cancelled.
Override(s) ==
    /\ owner[s] = "override"
    /\ sessions' = IF s \in live
                   THEN [sessions EXCEPT ![s].status = "cancelled"]
                   ELSE sessions
    /\ cancelled' = [cancelled EXCEPT ![s] = TRUE]
    /\ owner' = [owner EXCEPT ![s] = "run"]
    /\ UNCHANGED <<live, total_bytes, time, shutdown, signal, cause, controls,
                   activity, sent, past, follower>>

\* The source ended without a terminal event and nobody cancelled it.
Missing(s) ==
    /\ owner[s] = "ended" /\ signal[s] = "pending" /\ ~cancelled[s]
    /\ owner' = [owner EXCEPT ![s] = "missing"]
    /\ UNCHANGED <<store, time, shutdown, cancelled, signal, cause, controls,
                   activity, sent, past, follower>>

Outcome(s) ==
    IF owner[s] = "failed" THEN "failed"
    ELSE IF signal[s] # "pending" THEN signal[s]
    ELSE "cancelled"

\* Faulty variant of Reported: the outcome of the source, not of the session.
ReportedOutcome(s) == Outcome(s)

\* The status finish returns for a session that was terminal already.
Reported(s) == sessions[s].status

\* finish, and the activity recorded from what it returns.
Finish(s) ==
    /\ \/ owner[s] = "failed"
       \/ owner[s] = "ended" /\ (signal[s] # "pending" \/ cancelled[s])
    /\ owner' = [owner EXCEPT ![s] = "done"]
    /\ Unregister(s)
    /\ \/ /\ s \in live /\ sessions[s].status = "active"
          /\ PurgeLocked([sessions EXCEPT ![s] = [@ EXCEPT
                             !.owner_active = FALSE, !.status = Outcome(s),
                             !.terminal_at = clock + 1]],
                         Wakes(s), {})
          /\ Stamp(s)
          /\ activity' = [activity EXCEPT ![s] =
                             IF @ = "open" THEN Outcome(s) ELSE @]
       \/ /\ s \in live /\ sessions[s].status # "active"
          /\ PurgeLocked([sessions EXCEPT ![s].owner_active = FALSE],
                         Wakes(s), {})
          /\ activity' = [activity EXCEPT ![s] =
                             IF @ = "open" THEN Reported(s) ELSE @]
          /\ UNCHANGED <<clock, past>>
       \/ s \notin live /\ UNCHANGED <<store, follower, clock, past, activity>>
    /\ UNCHANGED <<horizon, shutdown, cancelled, signal, cause, sent>>

-----------------------------------------------------------------------------
(* Calls of clients, the passing of time and shutdown.                     *)

Delete(s) ==
    /\ "delete" \in Events
    /\ s \in live /\ ~sessions[s].deleted
    /\ Unregister(s)
    /\ follower' = Wakes(s)
    /\ \/ /\ sessions[s].status = "active"
          /\ sessions' = [sessions EXCEPT ![s] = [@ EXCEPT !.deleted = TRUE,
                             !.status = "cancelled", !.terminal_at = clock + 1]]
          /\ clock' = clock + 1
          /\ past' = [past EXCEPT ![s].deleted = TRUE,
                         ![s].stamp = clock + 1, ![s].terminals = @ + 1]
          /\ CancelWith(s, "UserDeleted")
       \/ /\ sessions[s].status # "active"
          /\ sessions' = [sessions EXCEPT ![s].deleted = TRUE]
          /\ past' = [past EXCEPT ![s].deleted = TRUE]
          /\ UNCHANGED <<clock, cause>>
    /\ UNCHANGED <<live, total_bytes, horizon, shutdown, owner, cancelled,
                   signal, activity, sent>>

\* ChatControls::reasoning_end clears the registry once shutdown is under way.
ClearControls ==
    /\ shutdown /\ controls' = {}
    /\ UNCHANGED <<store, time, shutdown, owner, cancelled, signal, cause,
                   activity, sent, past, follower>>

\* Time passes: the oldest terminal statuses reach the ttl.
Elapse ==
    /\ "expire" \in Events
    /\ horizon < clock
    /\ horizon' \in (horizon + 1)..clock
    /\ UNCHANGED <<store, clock, shutdown, task, past, follower>>

Trigger ==
    /\ "shutdown" \in Events
    /\ ~shutdown /\ shutdown' = TRUE
    /\ UNCHANGED <<store, time, task, past, follower>>

-----------------------------------------------------------------------------
(* Followers.                                                              *)

CheckAttach(f) ==
    /\ "attach" \in Events
    /\ follower[f].pc = "idle" /\ ~shutdown
    /\ follower' = [follower EXCEPT ![f].pc = "checked"]
    /\ UNCHANGED <<store, time, shutdown, task, past>>

Attachable(s, after) ==
    /\ s \in live \ Purged(sessions) /\ ~sessions[s].deleted
    /\ after + 1 >= FirstId(sessions[s])
    /\ after < sessions[s].next_id
    /\ sessions[s].followers < MaxFollowers

\* attach: purge, then join the session after the given event id or report
\* an AccessError.
Attach(f, s, after, follow) ==
    /\ follower[f].pc = "checked"
    /\ IF Attachable(s, after)
       THEN PurgeLocked([sessions EXCEPT ![s].followers = @ + 1],
                        [follower EXCEPT ![f] = [NoBody EXCEPT
                            !.pc = "ready", !.stream = s, !.after = after,
                            !.cursor = after, !.follow = follow]], {})
       ELSE PurgeLocked(sessions, [follower EXCEPT ![f].pc = "idle"], {})
    /\ UNCHANGED <<time, shutdown, task, past>>

\* Follower::next and what the body does with its answer.
Read(f) ==
    LET body == follower[f]
        s == body.stream
        unread == {i \in DOMAIN sessions[s].frames :
                      sessions[s].frames[i].id > body.cursor}
        frame == sessions[s].frames[Min(unread)]
    IN  IF s \notin live \/ sessions[s].deleted
        THEN [body EXCEPT !.pc = "ending", !.result = "eof"]
        ELSE IF body.cursor + 1 < FirstId(sessions[s])
        THEN [body EXCEPT !.pc = "ending", !.result = "lost"]
        ELSE IF unread # {}
        THEN [body EXCEPT !.cursor = frame.id, !.got = Append(@, frame)]
        ELSE IF ~body.follow \/ sessions[s].status # "active"
        THEN [body EXCEPT !.pc = "ending", !.result = "eof"]
        ELSE [body EXCEPT !.pc = "waiting"]

NextFrame(f) ==
    /\ "read" \in Events
    /\ follower[f].pc = "ready"
    /\ follower' = [follower EXCEPT ![f] = Read(f)]
    /\ UNCHANGED <<store, time, shutdown, task, past>>

\* revision.changed() returns and marks the change as seen.
Wake(f) ==
    /\ follower[f].pc = "waiting" /\ follower[f].dirty
    /\ follower' = [follower EXCEPT ![f].pc = "ready", ![f].dirty = FALSE]
    /\ UNCHANGED <<store, time, shutdown, task, past>>

\* The body is dropped, at its end or because the client went away.
DropBody(f) ==
    /\ \/ follower[f].pc = "ending"
       \/ "leave" \in Events /\ follower[f].pc \in {"ready", "waiting"}
    /\ follower' = [follower EXCEPT ![f].pc = "closed",
            ![f].result = IF @ = "open" THEN "left" ELSE @]
    /\ LET s == follower[f].stream IN
       sessions' = IF s \in live
                   THEN [sessions EXCEPT ![s].followers = Less(@, 1)]
                   ELSE sessions
    /\ UNCHANGED <<live, total_bytes, time, shutdown, task, past>>

-----------------------------------------------------------------------------
OwnerStep(s) ==
    Fail(s) \/ Override(s) \/ Missing(s) \/ Finish(s) \/ SeeShutdown(s)

SourceStep(s) ==
    \/ Complete(s) \/ SignalFailure(s) \/ AppendDropped(s)
    \/ SourceEnd(s) \/ SourceError(s)
    \/ \E size \in Sizes : AppendOversize(s, size) \/ AppendFrame(s, size)

ClientStep(s) ==
    \/ CheckStart(s) \/ Refuse(s) \/ Delete(s)
    \/ \E f \in Followers : Start(s, f)

FollowerStep(f) ==
    \/ CheckAttach(f) \/ NextFrame(f) \/ Wake(f) \/ DropBody(f)
    \/ \E s \in Streams, after \in 0..(MaxFrames + 2), follow \in BOOLEAN :
          Attach(f, s, after, follow)

Next ==
    \/ \E s \in Streams : OwnerStep(s) \/ SourceStep(s) \/ ClientStep(s)
    \/ \E f \in Followers : FollowerStep(f)
    \/ Observe \/ ClearControls \/ Elapse \/ Trigger

Spec == Init /\ [][Next]_vars


\* What the runtime schedules: a task that can run does; a generation whose
\* cancellation was requested stops (its worker observes the flag and drops
\* the sender of its events); a response body is polled until it ends.
Fairness ==
    /\ \A s \in Streams :
         /\ WF_vars(OwnerStep(s))
         /\ WF_vars(cause[s] # "none" /\ SourceEnd(s))
    /\ \A f \in Followers :
         /\ WF_vars(NextFrame(f))
         /\ WF_vars(Wake(f))
         /\ WF_vars(follower[f].pc = "ending" /\ DropBody(f))

FairSpec == Spec /\ Fairness

-----------------------------------------------------------------------------
(* Properties.                                                             *)

\* The types of the variables.
TypeOK ==
    /\ live \subseteq Streams
    /\ sessions \in [Streams -> Session]
    /\ total_bytes \in Nat /\ clock \in Nat /\ horizon \in 0..clock
    /\ shutdown \in BOOLEAN
    /\ owner \in [Streams -> {"new", "checked", "refused", "run", "ended",
                              "failed", "override", "done"}
                             \cup DOMAIN AfterFail]
    /\ cancelled \in [Streams -> BOOLEAN]
    /\ signal \in [Streams -> {"pending", "completed", "failed"}]
    /\ cause \in [Streams -> Causes]
    /\ controls \subseteq Streams
    /\ activity \in [Streams -> {"open"} \cup (Status \ {"active"})]
    /\ sent \in [Streams -> 0..MaxFrames]
    /\ past \in [Streams -> [error : Nat, deleted : BOOLEAN, stamp : Nat,
                             terminals : Nat]]
    /\ follower \in [Followers -> Body]

\* The byte counters that append, fail, purge_locked and remove_session keep
\* by (saturating) difference are the bytes really retained, so the limits
\* hold at every unlock: per session, over all sessions, and in the number of
\* owned, retained and followed sessions.
Accounting ==
    /\ \A s \in live : sessions[s].bytes = SumSizes(sessions[s].frames)
    /\ total_bytes = SumBytes(sessions, live)
    /\ total_bytes <= MaxTotal
    /\ \A s \in live : /\ sessions[s].bytes <= MaxBytes
                       /\ Len(sessions[s].frames) <= MaxEvents
                       /\ sessions[s].followers <= MaxFollowers
    /\ Cardinality({s \in live : sessions[s].owner_active}) <= MaxActive
    /\ Cardinality(Retained(sessions, live)) <= MaxRetained

\* A body delivers the events after its cursor one by one, without a gap or
\* a repetition, and no event it delivered is withdrawn: reconnecting with
\* the last id it saw is never an invalid cursor, although append takes back
\* a frame (and its id) that the total could not hold.  And an event id names
\* one frame: what two bodies of a stream both deliver is the same.
Replay ==
    \A f \in Followers :
        LET body == follower[f] IN
        /\ body.cursor = body.after + Len(body.got)
        /\ \A i \in DOMAIN body.got : body.got[i].id = body.after + i
        /\ body.stream \in live => body.cursor < sessions[body.stream].next_id
        /\ \A g \in Followers : follower[g].stream = body.stream =>
              \A i \in DOMAIN body.got, j \in DOMAIN follower[g].got :
                 body.got[i].id = follower[g].got[j].id =>
                    body.got[i] = follower[g].got[j]

\* A body that waits without a change to see has nothing to see: its session
\* is there, active, not deleted, and it has read every frame.  No wake-up is
\* lost between Follower::next and revision.changed().
NoLostWakeup ==
    \A f \in Followers :
        follower[f].pc = "waiting" /\ ~follower[f].dirty =>
            /\ Accepts(follower[f].stream)
            /\ follower[f].cursor + 1 = sessions[follower[f].stream].next_id

\* No generation runs on for a stream nobody can read: while the owner still
\* polls the source of a session that is gone or terminal, the generation
\* has been told to stop.
NoOrphanGeneration ==
    \A s \in Streams :
        owner[s] = "run" /\ ~Accepts(s) => cause[s] # "none"

\* A stream becomes terminal exactly once, whoever ends it: the metric counts
\* one terminal for each finished owner, and the session keeps that stamp.
TerminalOnce ==
    \A s \in Streams :
        /\ past[s].terminals <= 1
        /\ owner[s] = "done" => past[s].terminals = 1
        /\ s \in live => sessions[s].terminal_at = past[s].stamp
        /\ s \in live => (sessions[s].status = "active" <=> past[s].stamp = 0)

\* The request's record says "completed" only for a stream that delivered
\* what was generated: nobody cancelled it and it carries no error frame.
\* And when the owner is done the record is closed, unless the session was
\* terminal for a whole ttl before its source ended: then purge_locked
\* removed it under its owner and finish returned None.
ActivityTruthful ==
    \A s \in Streams :
        /\ activity[s] = "completed" => cause[s] = "none" /\ past[s].error = 0
        /\ owner[s] = "done" /\ activity[s] = "open" =>
              s \notin live /\ past[s].stamp \in 1..horizon

\* A reasoning control is registered only while its generation is read: it is
\* gone once the stream is deleted or its owner is done.
ControlScope ==
    \A s \in controls :
        /\ owner[s] \notin {"new", "refused", "done"}
        /\ ~past[s].deleted

\* A body that waits is woken by whatever it waits for (follower_body), and a
\* control handle lives as long as its generation (ChatControls).
FollowersServed == TypeOK /\ NoLostWakeup /\ ControlScope

\* A stream ends once, and its record says how (finish, fail, delete,
\* cancel_owner).
StreamEndsOnce == TypeOK /\ TerminalOnce /\ ActivityTruthful

\* After a shutdown every owner task ends.
ShutdownDrains ==
    \A s \in Streams :
        shutdown /\ owner[s] \notin {"new", "checked", "refused"} ~> owner[s] = "done"

\* A body ends once its stream is terminal, deleted or gone.
BodiesEnd ==
    \A f \in Followers :
        (/\ follower[f].pc \in {"ready", "waiting"}
         /\ ~Accepts(follower[f].stream)) ~> follower[f].pc = "closed"

=============================================================================
