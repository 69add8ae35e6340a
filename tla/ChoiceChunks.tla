---------------------------- MODULE ChoiceChunks ----------------------------
(***************************************************************************)
(* The text of several choices on its way to a reader of a chat or of a    *)
(* completion stream: the stop filter of every slot                        *)
(* (orchion-llama-cpp/src/slot.rs), the group of choices that ends         *)
(* together (scheduler.rs), the answer that a plain request collects and   *)
(* the chunks that a streaming request makes of the same events            *)
(* (api/http_llm.rs), and the SDK that reads the chunks, also after a lost *)
(* connection (orchion-client/src/llm.rs, sse.rs).                         *)
(*                                                                         *)
(* A token decodes to a piece, a sequence of letters; the model generates  *)
(* any.  Queues and connections keep the order of what passes them and     *)
(* nobody looks back, so events are taken when they are made and the       *)
(* reader reads a log that is complete: it may have lagged behind.         *)
(***************************************************************************)
EXTENDS Integers, Sequences, FiniteSets, SequencesExt

CONSTANTS
    ChunkChoices,   \* choices of the request, 0..n-1
    Pieces,         \* what a token decodes to
    Stops,          \* stop sequences of the request, not empty
    MaxPieces,      \* max_tokens of the request
    MaxLost         \* bound: connections that the reader loses

ASSUME ChunksAssumption == {MaxPieces, MaxLost} \subseteq Nat /\ <<>> \notin Stops

VARIABLES
    group,      \* how the request was made, and the slot of every choice
    collected,  \* what collect_choices has gathered
    chunks,     \* the log of chat_stream or completion_stream
    follower    \* ChatCompletionStream or CompletionStream of the SDK

chunkVars == <<group, collected, chunks, follower>>

NewChoice == [given |-> <<>>, pending |-> <<>>, tokens |-> <<>>, state |-> "active"]
NewGroup(kind, logprobs) ==
    [kind |-> kind, logprobs |-> logprobs, state |-> "running", slots |-> [c \in ChunkChoices |-> NewChoice]]
NewCollected == [text |-> [c \in ChunkChoices |-> <<>>], finish |-> [c \in ChunkChoices |-> "none"], state |-> "open"]
NewChunks == [log |-> <<>>, started |-> {}, offset |-> [c \in ChunkChoices |-> 0], state |-> "open"]
NewFollower ==
    [position |-> 0, state |-> "reading", lost |-> 0, text |-> [c \in ChunkChoices |-> <<>>],
     roles |-> [c \in ChunkChoices |-> 0], finish |-> [c \in ChunkChoices |-> <<>>], misplaced |-> {}]

-----------------------------------------------------------------------------
(* The stop filter.                                                        *)

\* Where a stop sequence begins in a text, counted from 0.
Occurrences(text) ==
    {i \in 0..Len(text) : \E stop \in Stops : i + Len(stop) <= Len(text) /\ SubSeq(text, i + 1, i + Len(stop)) = stop}

\* Faulty variant of LongestStopPrefixSuffix: only a whole stop is held back.
WholeStopSuffix(text) ==
    Max({0} \cup {n \in 1..Len(text) : SubSeq(text, Len(text) - n + 1, Len(text)) \in Stops})

\* What could still become a stop sequence is held back.
LongestStopPrefixSuffix(text) ==
    Max({0} \cup {n \in 1..Len(text) : \E stop \in Stops : IsPrefix(SubSeq(text, Len(text) - n + 1, Len(text)), stop)})

\* push_piece: what is shown, what stays pending, whether a stop was completed.
PushPiece(filter, piece) ==
    LET text == filter.pending \o piece
        stopped == Occurrences(text) # {}
        shown == IF stopped THEN Min(Occurrences(text)) ELSE Len(text) - LongestStopPrefixSuffix(text)
    IN [shown |-> IF shown = 0 THEN <<>> ELSE <<SubSeq(text, 1, shown)>>,
        pending |-> IF stopped THEN <<>> ELSE SubSeq(text, shown + 1, Len(text)),
        tokens |-> <<>>, stopped |-> stopped]

\* take_token_prefix: whole tokens up to the limit, and part of one more if
\* that is allowed.  Empty pieces vanish.
WholeTokens(tokens, limit) ==
    Max({0} \cup {k \in 1..Len(tokens) : Len(FlattenSeq(SubSeq(tokens, 1, k))) <= limit})
TakeTokenPrefix(tokens, limit, partial) ==
    LET whole == WholeTokens(tokens, limit)
        used == Len(FlattenSeq(SubSeq(tokens, 1, whole)))
        shown == SelectSeq(SubSeq(tokens, 1, whole), LAMBDA piece : piece # <<>>)
    IN [shown |-> IF partial /\ used < limit THEN Append(shown, SubSeq(tokens[whole + 1], 1, limit - used)) ELSE shown,
        rest |-> SubSeq(tokens, whole + 1, Len(tokens)), used |-> used]

PushToken(filter, piece) ==
    LET text == filter.pending \o piece
        tokens == Append(filter.tokens, piece)
        stopped == Occurrences(text) # {}
        limit == IF stopped THEN Min(Occurrences(text)) ELSE Len(text) - LongestStopPrefixSuffix(text)
        taken == TakeTokenPrefix(tokens, limit, stopped)
    IN [shown |-> taken.shown, stopped |-> stopped,
        pending |-> IF stopped THEN <<>> ELSE SubSeq(text, taken.used + 1, Len(text)),
        tokens |-> IF stopped THEN <<>> ELSE taken.rest]

Pushed(slot, piece) == IF group.logprobs THEN PushToken(slot, piece) ELSE PushPiece(slot, piece)

\* into_draining: what the filter still holds.  The last flush of a slot sends
\* all the text that is left, but one token only (try_flush_draining).
FlushedText(slot, shown) ==
    LET text == FlattenSeq(shown) \o slot.pending IN IF text = <<>> THEN <<>> ELSE <<text>>
FlushedTokens(slot, shown) ==
    LET left == shown \o SelectSeq(slot.tokens, LAMBDA piece : piece # <<>>)
    IN SubSeq(left, 1, Min({1, Len(left)}))
LastFlush(slot, shown) == IF group.logprobs THEN FlushedTokens(slot, shown) ELSE FlushedText(slot, shown)

-----------------------------------------------------------------------------
(* Events of the choices, as the handlers take them.                       *)

Delta(c, text) == [kind |-> "delta", choice |-> c, text |-> text, reason |-> "none"]
Finished(c, reason) == [kind |-> "finished", choice |-> c, text |-> <<>>, reason |-> reason]
FailedChoice(c) == [kind |-> "choice failed", choice |-> c, text |-> <<>>, reason |-> "none"]
GroupEvent(kind) == [kind |-> kind, choice |-> 0, text |-> <<>>, reason |-> "none"]

\* collect_choices: the first failure is the answer.
Collect(state, event) ==
    IF state.state # "open" THEN state
    ELSE CASE event.kind = "delta" -> [state EXCEPT !.text[event.choice] = @ \o event.text]
           [] event.kind = "finished" -> [state EXCEPT !.finish[event.choice] = event.reason]
           [] event.kind = "finished all" ->
                [state EXCEPT !.state = IF \E c \in ChunkChoices : state.finish[c] = "none" THEN "failed" ELSE "done"]
           [] OTHER -> [state EXCEPT !.state = "failed"]

Chunk(kind, c, text, offset, reason) == [kind |-> kind, choice |-> c, text |-> text, offset |-> offset, reason |-> reason]

\* The role of a choice comes with its first chunk.
RoleChunk(state, c) ==
    IF group.kind = "chat" /\ c \notin state.started
    THEN <<Chunk("role", c, <<>>, 0, "none")>> ELSE <<>>

ChatOrCompletionDelta(state, event) ==
    [state EXCEPT !.log = @ \o Append(RoleChunk(state, event.choice),
                                      Chunk("text", event.choice, event.text, state.offset[event.choice], "none")),
                  !.started = @ \cup {event.choice}, !.offset[event.choice] = @ + Len(event.text)]

FinishChunks(state, event) ==
    [state EXCEPT !.log = @ \o Append(RoleChunk(state, event.choice), Chunk("finish", event.choice, <<>>, 0, event.reason)),
                  !.started = @ \cup {event.choice}]

\* The usage, and [DONE].
DoneChunks(state) ==
    [state EXCEPT !.log = @ \o <<Chunk("usage", 0, <<>>, 0, "none"), Chunk("done", 0, <<>>, 0, "none")>>, !.state = "ended"]

\* chat_stream and completion_stream: a choice that failed is passed over, the
\* group's own failure follows.
StreamEvent(state, event) ==
    IF state.state # "open" THEN state
    ELSE CASE event.kind = "delta" -> ChatOrCompletionDelta(state, event)
           [] event.kind = "finished" -> FinishChunks(state, event)
           [] event.kind = "finished all" -> DoneChunks(state)
           [] event.kind = "choice failed" -> state
           [] OTHER -> [state EXCEPT !.log = Append(@, Chunk("error", 0, <<>>, 0, "none")), !.state = "ended"]

\* The owner of the generation keeps the failure of a single choice to itself.
Owned(events) == SelectSeq(events, LAMBDA event : event.kind # "choice failed")

Forward(events) ==
    /\ collected' = FoldLeft(Collect, collected, Owned(events))
    /\ chunks' = FoldLeft(StreamEvent, chunks, Owned(events))

Deltas(c, pieces) == [i \in 1..Len(pieces) |-> Delta(c, pieces[i])]

-----------------------------------------------------------------------------
(* A slot samples, ends or breaks.                                         *)

EndChoice(c, slot, shown, reason) ==
    /\ group' = [group EXCEPT !.slots[c] = [slot EXCEPT !.state = reason, !.pending = <<>>, !.tokens = <<>>]]
    /\ Forward(Append(Deltas(c, LastFlush(slot, shown)), Finished(c, reason)))

\* accept_sampled_token.
SampleToken(c) ==
    /\ group.state = "running" /\ group.slots[c].state = "active" /\ Len(group.slots[c].given) < MaxPieces
    /\ \E piece \in Pieces :
         LET push == Pushed(group.slots[c], piece)
             slot == [given |-> Append(group.slots[c].given, piece), pending |-> push.pending, tokens |-> push.tokens, state |-> "active"]
         IN IF push.stopped THEN EndChoice(c, slot, push.shown, "stop")
            ELSE IF Len(slot.given) >= MaxPieces THEN EndChoice(c, slot, push.shown, "length")
            ELSE /\ group' = [group EXCEPT !.slots[c] = slot]
                 /\ Forward(Deltas(c, push.shown))
    /\ UNCHANGED follower

EndOfGeneration(c) ==
    /\ group.state = "running" /\ group.slots[c].state = "active"
    /\ EndChoice(c, group.slots[c], <<>>, "stop")
    /\ UNCHANGED follower

\* A choice fails, or is cancelled because another one has failed.
BreakChoice(c) ==
    /\ group.state = "running" /\ group.slots[c].state = "active"
    /\ group' = [group EXCEPT !.slots[c].state = "failed"]
    /\ Forward(<<FailedChoice(c)>>)
    /\ UNCHANGED follower

\* The aggregate of the group, when the last choice has ended.
EndGroup ==
    /\ group.state = "running" /\ \A c \in ChunkChoices : group.slots[c].state # "active"
    /\ group' = [group EXCEPT !.state = "over"]
    /\ Forward(<<GroupEvent(IF \E c \in ChunkChoices : group.slots[c].state = "failed" THEN "failed" ELSE "finished all")>>)
    /\ UNCHANGED follower

\* A deadline or the shutdown: an error follows, or nothing if the queue was full.
InterruptGroup ==
    /\ group.state = "running"
    /\ group' = [group EXCEPT !.state = "over"]
    /\ \/ Forward(<<GroupEvent("error")>>)
       \/ /\ collected' = [collected EXCEPT !.state = "failed"]
          /\ chunks' = [chunks EXCEPT !.state = "ended"]
    /\ UNCHANGED follower

-----------------------------------------------------------------------------
(* The reader.                                                             *)

Reading == group.state = "over" /\ follower.state = "reading"

TakeChunk(state, chunk) ==
    LET c == chunk.choice
        next == [state EXCEPT !.position = @ + 1]
    IN CASE chunk.kind = "role" -> [next EXCEPT !.roles[c] = @ + 1]
         [] chunk.kind = "text" -> [next EXCEPT !.text[c] = @ \o chunk.text,
                                     !.misplaced = IF chunk.offset = Len(state.text[c]) THEN @ ELSE @ \cup {c}]
         [] chunk.kind = "finish" -> [next EXCEPT !.finish[c] = Append(@, chunk.reason)]
         [] chunk.kind = "usage" -> next
         [] chunk.kind = "done" -> [next EXCEPT !.state = "complete"]
         [] chunk.kind = "error" -> [next EXCEPT !.state = "failed"]

NextChunk ==
    /\ Reading /\ follower.position < Len(chunks.log)
    /\ follower' = TakeChunk(follower, chunks.log[follower.position + 1])
    /\ UNCHANGED <<group, collected, chunks>>

\* UnexpectedEof.
NextChunkEof ==
    /\ Reading /\ follower.position = Len(chunks.log)
    /\ follower' = [follower EXCEPT !.state = "failed"]
    /\ UNCHANGED <<group, collected, chunks>>

\* The connection is lost; a resumable stream goes on strictly after the last
\* event that was read.
LoseChunks ==
    /\ Reading /\ follower.lost < MaxLost
    /\ \/ follower' = [follower EXCEPT !.lost = @ + 1]
       \/ follower' = [follower EXCEPT !.state = "failed"]
    /\ UNCHANGED <<group, collected, chunks>>

ChunksInit ==
    /\ \E kind \in {"chat", "completion"}, logprobs \in BOOLEAN : group = NewGroup(kind, logprobs)
    /\ collected = NewCollected /\ chunks = NewChunks /\ follower = NewFollower

ChunksNext ==
    \/ \E c \in ChunkChoices : SampleToken(c) \/ EndOfGeneration(c) \/ BreakChoice(c)
    \/ EndGroup \/ InterruptGroup \/ NextChunk \/ NextChunkEof \/ LoseChunks

-----------------------------------------------------------------------------
\* The text before the first stop sequence, as the tokens complete one.
Unstopped(given) ==
    LET text(k) == FlattenSeq(SubSeq(given, 1, k))
        complete == {k \in 0..Len(given) : Occurrences(text(k)) # {}}
    IN IF complete = {} THEN text(Len(given)) ELSE SubSeq(text(Min(complete)), 1, Min(Occurrences(text(Min(complete)))))

(* However a stop sequence is spread over tokens, nothing of it is ever    *)
(* shown and nothing before it is lost: the visible text of a choice is    *)
(* always a prefix of the text before the first stop sequence that was     *)
(* completed, and all of it when the choice has ended, except for tokens   *)
(* with log probabilities that the last flush of a slot leaves behind.     *)
StopsUnseen ==
    collected.state = "open" =>
      \A c \in ChunkChoices :
        /\ IsPrefix(collected.text[c], Unstopped(group.slots[c].given))
        /\ ~group.logprobs /\ collected.finish[c] # "none" => collected.text[c] = Unstopped(group.slots[c].given)

(* A reader of the stream ends with what a plain request would have been   *)
(* given: with every choice complete, one role, one finish reason and      *)
(* offsets that count the text before each chunk, if the whole group was   *)
(* successful, and with an error otherwise.                                *)
ChunksAgree ==
    /\ follower.state = "complete" =>
         /\ collected.state = "done"
         /\ \A c \in ChunkChoices :
              /\ follower.text[c] = collected.text[c]
              /\ follower.finish[c] = <<collected.finish[c]>>
              /\ group.kind = "chat" => follower.roles[c] = 1
              /\ c \notin follower.misplaced
    /\ follower.state = "failed" /\ follower.lost = 0 /\ follower.position = Len(chunks.log) => collected.state # "done"
=============================================================================
