---------------------------- MODULE CaptionStream ----------------------------
(***************************************************************************)
(* From audio frames to captions: the streaming voice activity endpoint    *)
(* (orchion-audio-vad/src/streaming.rs) and the batch segmenter (lib.rs),  *)
(* the PCM buffer, the caption session and its text splitter               *)
(* (application/streaming_transcription.rs).                               *)
(*                                                                         *)
(* Audio is a run of numbered samples; a piece of it is the interval       *)
(* [from, to).  Whether a frame is speech, and what the engine has         *)
(* understood so far, are chosen by the environment; a transcript is a     *)
(* sequence of words "w", sentence ends "." (a run of closing marks        *)
(* included) and spaces "_".  The chunks one frame completes are answered  *)
(* with one transcript.                                                    *)
(***************************************************************************)
EXTENDS Integers, Sequences, FiniteSets, SequencesExt

CONSTANTS
    FrameMs,          \* StreamingVadConfig::frame_duration_ms
    FrameSamples,     \* samples of a frame
    MinSpeechMs, MinSilenceMs, MaxSegmentMs, PaddingMs, MergeGapMs,
    ChunkSamples,     \* samples of chunk_size_sec
    TargetSamples,    \* target_segment_millis
    MaxCandidateMs,   \* MAX_CANDIDATE_MS
    Tokens,           \* what a transcript is made of
    MaxFrames,        \* bound: frames of a stream
    MaxText           \* bound: length of the transcript

VARIABLES
    vad,       \* StreamingVadState
    speech,    \* history: the flags of the frames so far
    caption,   \* CaptionSession::current_segment and next_segment_id
    captions,  \* the events given to the client
    heard      \* history: the segments, with the samples the engine was fed
captionVars == <<vad, speech, caption, captions, heard>>

FramesForMs(ms) == IF ms = 0 \/ FrameMs = 0 THEN 0 ELSE (ms + FrameMs - 1) \div FrameMs
AtLeastOne(n) == IF n = 0 THEN 1 ELSE n
PaddingFrames == FramesForMs(PaddingMs)
MinSpeechFrames == AtLeastOne(FramesForMs(MinSpeechMs))
MinSilenceFrames == AtLeastOne(FramesForMs(MinSilenceMs))
MaxSegmentFrames == FramesForMs(MaxSegmentMs)
MaxCandidateSamples == ((PaddingMs + MinSpeechMs) * FrameSamples) \div FrameMs

\* validate_streaming_vad_config and validate_candidate_sample_budget.
ValidVadConfig ==
    /\ FrameMs > 0 /\ MinSpeechMs > 0 /\ MinSilenceMs > 0 /\ MaxSegmentMs >= MinSpeechMs
    /\ PaddingMs + MinSpeechMs <= MaxCandidateMs
    /\ MaxCandidateSamples >= FrameSamples
    /\ MaxCandidateSamples >= MinSpeechFrames * FrameSamples

ASSUME VadConfigAssumption == ValidVadConfig /\ ChunkSamples > 0

-----------------------------------------------------------------------------
(* The endpoint.                                                            *)

\* remember_pre_speech and trim_candidate: how much of the past is kept.
RememberPreSpeech(past, frame) ==
    LET all == Append(past, frame)
    IN IF Len(all) > PaddingFrames THEN SubSeq(all, Len(all) - PaddingFrames + 1, Len(all)) ELSE all
Samples(frames) == IF frames = <<>> THEN 0 ELSE Last(frames).to - Head(frames).from
TrimCandidate(frames) ==
    LET fits == {k \in 0..Len(frames) : Samples(SubSeq(frames, k + 1, Len(frames))) <= MaxCandidateSamples}
        dropped == CHOOSE k \in fits : \A j \in fits : k <= j
    IN SubSeq(frames, dropped + 1, Len(frames))

Idle == [phase |-> "idle", frames |-> 0, from |-> 0]
Started(from, to) == [kind |-> "started", from |-> from, to |-> to]
Audio(frame) == [kind |-> "audio", from |-> frame.from, to |-> frame.to]
Final(to) == [kind |-> "final", from |-> to, to |-> to]

\* push_idle, push_candidate and start_segment_if_ready on a speech frame.
PushSpeech(v, frame) ==
    LET count == IF v.state.phase = "idle" THEN 1 ELSE v.state.frames + 1
        candidate == TrimCandidate(Append(IF v.state.phase = "idle" THEN v.pre_speech ELSE v.candidate, frame))
        kept == IF v.state.phase = "idle" THEN <<>> ELSE v.pre_speech
    IN IF count < MinSpeechFrames
       THEN [vad |-> [v EXCEPT !.state = [phase |-> "candidate", frames |-> count, from |-> 0],
                               !.candidate = candidate, !.pre_speech = kept],
             events |-> <<>>]
       ELSE [vad |-> [v EXCEPT !.state = [phase |-> "segment", frames |-> 0, from |-> Head(candidate).from],
                               !.candidate = <<>>, !.pre_speech = kept],
             events |-> <<Started(Head(candidate).from, frame.to)>>]

\* push_idle and push_candidate on a silent frame.
PushSilence(v, frame) ==
    [vad |-> [v EXCEPT !.state = Idle, !.candidate = <<>>,
                       !.pre_speech = RememberPreSpeech(@, frame)],
     events |-> <<>>]

\* push_segment: silence or the length limit ends the segment.
PushSegment(v, is_speech, frame) ==
    LET silence == IF is_speech THEN 0 ELSE v.state.frames + 1
        length == (frame.to - v.state.from) \div FrameSamples
    IN IF silence >= MinSilenceFrames \/ (MaxSegmentFrames > 0 /\ length >= MaxSegmentFrames)
       THEN [vad |-> [v EXCEPT !.state = Idle, !.pre_speech = <<>>, !.candidate = <<>>],
             events |-> <<Audio(frame), Final(frame.to)>>]
       ELSE [vad |-> [v EXCEPT !.state.frames = silence, !.pre_speech = RememberPreSpeech(@, frame)],
             events |-> <<Audio(frame)>>]

\* StreamingVadState::push_flag
PushFlag(v, is_speech, size) ==
    LET frame == [from |-> v.next_sample, to |-> v.next_sample + size]
        moved == [v EXCEPT !.next_sample = @ + size]
    IN CASE v.state.phase = "segment" -> PushSegment(moved, is_speech, frame)
         [] v.state.phase # "segment" /\ is_speech -> PushSpeech(moved, frame)
         [] OTHER -> PushSilence(moved, frame)

\* StreamingVadState::finish
FinishVad(v) ==
    [vad |-> [v EXCEPT !.state = Idle, !.candidate = <<>>, !.pre_speech = <<>>],
     events |-> IF v.state.phase = "segment" THEN <<Final(v.next_sample)>> ELSE <<>>]

-----------------------------------------------------------------------------
(* The batch segmenter: segments_from_speech_flags over a whole recording.  *)

\* Runs of speech that are long enough, merged where the silence between is short.
SpeechRuns(flags) ==
    {run \in [start : 1..Len(flags), end : 1..Len(flags)] :
        /\ run.end - run.start + 1 >= MinSpeechFrames
        /\ \A i \in run.start..run.end : flags[i]
        /\ run.start > 1 => ~flags[run.start - 1]
        /\ run.end < Len(flags) => ~flags[run.end + 1]}
MergeCloseSegments(runs) ==
    LET close(a, b) ==
            /\ a.end < b.start /\ ~ \E c \in runs : a.end < c.start /\ c.start < b.start
            /\ \/ b.start - a.end - 1 < FramesForMs(MinSilenceMs)
               \/ b.start - a.end - 1 <= FramesForMs(MergeGapMs)
        first == {b \in runs : ~ \E a \in runs : close(a, b)}
        last == {a \in runs : ~ \E b \in runs : close(a, b)}
    IN {[start |-> f.start, end |-> (CHOOSE l \in last : l.start >= f.start /\
                                        ~ \E k \in last : k.start >= f.start /\ k.start < l.start).end] : f \in first}
Padded(segment, total) ==
    [from |-> (IF segment.start - 1 > PaddingFrames THEN segment.start - 1 - PaddingFrames ELSE 0) * FrameSamples,
     to |-> (IF segment.end + PaddingFrames < total THEN segment.end + PaddingFrames ELSE total) * FrameSamples]
SegmentsFromSpeechFlags(flags) ==
    {Padded(s, Len(flags)) : s \in MergeCloseSegments(SpeechRuns(flags))}

-----------------------------------------------------------------------------
(* CaptionTextSplitter.                                                     *)

Trim(text) ==
    LET words == {i \in DOMAIN text : text[i] # "_"}
    IN IF words = {} THEN <<>>
       ELSE SubSeq(text, CHOOSE i \in words : \A j \in words : i <= j,
                         CHOOSE i \in words : \A j \in words : i >= j)

NewSplitter == [prefix |-> <<>>, candidate |-> <<>>, stable |-> 0]

\* uncommitted_text
AfterPrefix(prefix, text) ==
    IF IsPrefix(prefix, text) THEN SubSeq(text, Len(prefix) + 1, Len(text)) ELSE text
UncommittedText(splitter, text) == AfterPrefix(splitter.prefix, Trim(text))

\* strong_punctuation_candidate_text: up to the first run of sentence ends, of a trimmed text.
Candidate(text) ==
    LET stops == {i \in DOMAIN text : text[i] = "." /\ (i = Len(text) \/ text[i + 1] # ".")}
    IN {[text |-> SubSeq(text, 1, i), following |-> i < Len(text)] :
            i \in {i \in stops : \A j \in stops : i <= j}}

\* The sentence is not there, was not seen often enough, or is committed.
NoSentence(splitter, uncommitted) ==
    [splitter |-> [splitter EXCEPT !.candidate = <<>>, !.stable = 0], final |-> <<>>, partial |-> uncommitted]
Waiting(splitter, uncommitted, sentence, stable) ==
    [splitter |-> [splitter EXCEPT !.candidate = <<sentence>>, !.stable = stable],
     final |-> <<>>, partial |-> uncommitted]
Committed(splitter, uncommitted, sentence) ==
    [splitter |-> [prefix |-> splitter.prefix \o sentence, candidate |-> <<>>, stable |-> 0],
     final |-> <<sentence>>, partial |-> SubSeq(uncommitted, Len(sentence) + 1, Len(uncommitted))]

\* observe_partial: a sentence seen twice is committed; the rest stays partial.
ObserveSentence(splitter, uncommitted, sentence, reached_target) ==
    LET stable == IF splitter.candidate = <<sentence.text>> THEN splitter.stable + 1 ELSE 1
    IN IF stable >= 2 /\ (sentence.following \/ reached_target)
       THEN Committed(splitter, uncommitted, sentence.text)
       ELSE Waiting(splitter, uncommitted, sentence.text, stable)
ObserveUncommitted(splitter, uncommitted, sentences, reached_target) ==
    IF sentences = {} THEN NoSentence(splitter, uncommitted)
    ELSE ObserveSentence(splitter, uncommitted, CHOOSE s \in sentences : TRUE, reached_target)
ObservePartial(splitter, text, reached_target) ==
    LET uncommitted == UncommittedText(splitter, text)
    IN ObserveUncommitted(splitter, uncommitted, Candidate(Trim(uncommitted)), reached_target)

\* flush: what the committed sentences left, if anything.
Flush(splitter, text) ==
    LET rest == Trim(UncommittedText(splitter, text)) IN IF rest = <<>> THEN <<>> ELSE <<rest>>

-----------------------------------------------------------------------------
(* CaptionSession.                                                          *)

Partial(id, text) == [type |-> "partial", id |-> id, text |-> text, from |-> 0, to |-> 0]
SegmentFinal(id, text, from, to) == [type |-> "final", id |-> id, text |-> text, from |-> from, to |-> to]

NewSegment(id, from) ==
    [id |-> id, start |-> from, subtitle |-> from, last |-> from, fed |-> from, splitter |-> NewSplitter]

\* What the session holds while it works off the events of one message.
Working(c, out, segments) == [caption |-> c, out |-> out, heard |-> segments]

\* The captions an update of the splitter yields: a final one starts the next caption.
CaptionUpdate(w, segment, update) ==
    LET next == w.caption.next_segment_id
        split == update.final # <<>>
        fed == [segment EXCEPT !.splitter = update.splitter, !.fed = @ + ChunkSamples]
        id == IF split THEN next ELSE segment.id
        finals == IF split THEN <<SegmentFinal(segment.id, update.final[1], segment.subtitle, segment.last)>> ELSE <<>>
        partials == IF Trim(update.partial) = <<>> THEN <<>> ELSE <<Partial(id, update.partial)>>
    IN Working([segment |-> <<IF split THEN [fed EXCEPT !.id = next, !.subtitle = segment.last] ELSE fed>>,
                next_segment_id |-> IF split THEN next + 1 ELSE next],
               w.out \o finals \o partials, w.heard)

\* One chunk of feed_current_segment: the engine's transcript becomes captions.
FeedChunk(w, text) ==
    LET segment == w.caption.segment[1]
    IN CaptionUpdate(w, segment,
                     ObservePartial(segment.splitter, text, segment.last - segment.start >= TargetSamples))

\* feed_current_segment with AsrPcmBuffer::push: whole chunks go to the engine.
FeedCurrentSegment(w, size, text) ==
    IF w.caption.segment = <<>> THEN w
    ELSE LET pushed == [w EXCEPT !.caption.segment[1].last = @ + size]
             fed == w.caption.segment[1].fed
             chunks == (w.caption.segment[1].last + size - fed) \div ChunkSamples
         IN FoldLeft(LAMBDA v, k : FeedChunk(v, text), pushed, [k \in 1..chunks |-> k])

\* Faulty variant of FinalizeSegment: the rest of the PCM buffer is not fed.
FinalizeWithoutRest(w, end, text) ==
    LET segment == w.caption.segment[1]
        rest == Flush(segment.splitter, text)
    IN Working([w.caption EXCEPT !.segment = <<>>],
               w.out \o (IF rest = <<>> THEN <<>> ELSE <<SegmentFinal(segment.id, rest[1], segment.subtitle, end)>>),
               Append(w.heard, [from |-> segment.start, to |-> end, fed |-> segment.fed]))

\* finalize_segment: the rest of the buffer, the last transcript, the last caption.
FinalizeSegment(w, end, text) ==
    LET segment == w.caption.segment[1]
        rest == Flush(segment.splitter, text)
    IN Working([w.caption EXCEPT !.segment = <<>>],
               w.out \o (IF rest = <<>> THEN <<>> ELSE <<SegmentFinal(segment.id, rest[1], segment.subtitle, end)>>),
               Append(w.heard, [from |-> segment.start, to |-> end, fed |-> segment.last]))

\* One event of apply_vad_events; a final has no audio and leaves no segment to feed.
ApplyVadEvent(w, event, text) ==
    LET closed == IF event.kind = "audio" \/ w.caption.segment = <<>> THEN w ELSE FinalizeSegment(w, event.from, text)
        id == w.caption.next_segment_id
        opened == IF event.kind = "started"
                  THEN [closed EXCEPT !.caption = [segment |-> <<NewSegment(id, event.from)>>, next_segment_id |-> id + 1]]
                  ELSE closed
    IN FeedCurrentSegment(opened, event.to - event.from, text)

\* apply_vad_events: the endpoint's events in their order.
Captioned(work) == caption' = work.caption /\ captions' = work.out /\ heard' = work.heard
Apply(step, text) ==
    /\ vad' = step.vad
    /\ Captioned(FoldLeft(LAMBDA w, e : ApplyVadEvent(w, e, text), Working(caption, captions, heard), step.events))

\* The engine keeps its transcript of a segment or adds a token; a sentence end follows a word.
Known == IF vad.state.phase = "segment" THEN vad.text ELSE <<>>
Transcripts ==
    {Known} \cup
    {Append(Known, token) : token \in
        {t \in Tokens : Len(Known) < MaxText /\ (t = "w" \/ (Known # <<>> /\ Last(Known) # "_"))}}

\* A frame of audio: endpoint, session and client in one pass of the stream loop.
PushFrame ==
    /\ ~vad.finished /\ Len(speech) < MaxFrames
    /\ \E is_speech \in BOOLEAN, text \in Transcripts :
          LET step == PushFlag([vad EXCEPT !.text = text], is_speech, FrameSamples)
          IN /\ vad.state.phase = "segment" \/ text = <<>>
             /\ Apply(step, text)
             /\ speech' = Append(speech, is_speech)

\* WebRtcStreamingVadEndpoint::finish, then CaptionSession::complete.
FinishStream ==
    /\ ~vad.finished
    /\ \E rest \in 0..(FrameSamples - 1), is_speech \in BOOLEAN, text \in Transcripts :
          LET begun == [vad EXCEPT !.finished = TRUE, !.text = text]
              taken == rest > 0 /\ vad.state.phase # "idle"
              pushed == IF taken THEN PushFlag(begun, is_speech, rest) ELSE [vad |-> begun, events |-> <<>>]
              step == FinishVad(pushed.vad)
          IN /\ taken \/ (rest = 0 /\ ~is_speech)
             /\ Apply([vad |-> step.vad, events |-> pushed.events \o step.events], text)
             /\ speech' = IF taken THEN Append(speech, is_speech) ELSE speech

CaptionInit ==
    /\ vad = [state |-> Idle, pre_speech |-> <<>>, candidate |-> <<>>, next_sample |-> 0,
              text |-> <<>>, finished |-> FALSE]
    /\ speech = <<>> /\ captions = <<>> /\ heard = <<>>
    /\ caption = [segment |-> <<>>, next_segment_id |-> 0]

CaptionNext == PushFrame \/ FinishStream

-----------------------------------------------------------------------------
(* The client can order and place what it gets: a caption is final once, its *)
(* id grows and is not heard of again, and the times of final captions       *)
(* follow each other without overlap, although one segment yields several    *)
(* captions and padding reaches back in time (feed_current_segment).         *)
CaptionsOrdered ==
    /\ \A i \in DOMAIN captions : captions[i].from <= captions[i].to
    /\ \A i \in DOMAIN captions : \A j \in 1..(i - 1) :
          captions[j].type = "final" =>
              /\ captions[i].id > captions[j].id
              /\ captions[i].type = "final" => captions[j].to <= captions[i].from

(* Every sample of a segment reaches the engine once before the segment is   *)
(* final, segments do not overlap, and no run of speech as long as           *)
(* min_speech is left out of all of them, neither by the streaming endpoint  *)
(* nor by the batch segmenter (push_segment, finalize_segment).              *)
SpeechHeard ==
    LET segments == {[from |-> heard[i].from, to |-> heard[i].to] : i \in DOMAIN heard}
        open == IF vad.state.phase = "segment" THEN {[from |-> vad.state.from, to |-> vad.next_sample]} ELSE {}
        covered(S, i) == \E s \in S : s.from < i * FrameSamples /\ (i - 1) * FrameSamples < s.to
        missed(S) == \E i \in 1..(Len(speech) - MinSpeechFrames + 1) :
                        \A j \in i..(i + MinSpeechFrames - 1) : speech[j] /\ ~covered(S, j)
    IN /\ \A i \in DOMAIN heard : heard[i].fed = heard[i].to
       /\ \A i \in 1..(Len(heard) - 1) : heard[i].to <= heard[i + 1].from
       /\ ~missed(segments \cup open)
       /\ ~missed(SegmentsFromSpeechFlags(speech))

(* What stays provisional beside a committed sentence is the text after it:  *)
(* caption_boundary_commits_stable_punctuation_and_keeps_suffix              *)
(* (CaptionTextSplitter::observe_partial).                                   *)
CommitKeepsSuffix ==
    \A i \in DOMAIN caption.segment :
        LET splitter == caption.segment[i].splitter
            update == ObservePartial(splitter, vad.text, TRUE)
        IN update.final # <<>> =>
              Trim(update.final[1] \o update.partial) = Trim(UncommittedText(splitter, vad.text))
=============================================================================
